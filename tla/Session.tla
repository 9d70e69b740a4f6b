------------------------------- MODULE Session -------------------------------
(***************************************************************************)
(* One supervised session of a run, and its resumptions: the controller's  *)
(* timed wait for an answer, the LLM workers, the start-rate limiter       *)
(* between them, the LLM command each call runs, and the scripts that end  *)
(* a session (bin/run_supervised.sh and bin/stop.sh).  The parts have      *)
(* modules of their own; this one composes them in time.                   *)
(*                                                                         *)
(* Time passes in whole units, much longer than the 0.2 s of a poll: what  *)
(* a process does without sleeping takes no time.  Instants are kept as    *)
(* the time left until them.  A job that no controller waits for any more  *)
(* but that is still in pending/ is counted in `backlog'; it is older than *)
(* the request of the present controller and is claimed first.             *)
(***************************************************************************)
EXTENDS Naturals

CONSTANTS Worker,       \* the LLM workers
          Timeout,      \* llm.timeout_sec
          Slack,        \* the 60 s that the controller waits longer
          Intervals,    \* the values of llm.min_call_interval_sec
          MaxFaults     \* bound: kills, signals, uses of stop.sh and hasty resumptions

ASSUME SessionAssumption ==
  /\ Worker # {} /\ "controller" \notin Worker
  /\ Timeout \in Nat \ {0} /\ Slack \in Nat
  /\ Intervals \subseteq Nat /\ MaxFaults \in Nat

VARIABLES
  pc,        \* where each process is
  left,      \* the time left of its sleep, of its call or of its wait
  job,       \* whose job a worker has: "none", "mine" or "stale"
  child,     \* the command a process started: does it end when TERMed?
  asked,     \* what became of the controller's request
  backlog,   \* pending jobs of controllers that are gone
  slot,      \* the time until next_allowed_at
  interval,  \* min_call_interval_sec (never changes)
  phase,     \* how far each script is
  unstarted, \* the processes the supervisor has not come to yet
  targets,   \* the processes a script is to signal, those that have ended left out
  listed,    \* the commands a script has listed and that still run
  pidFiles,  \* the processes that have a file logs/<name>.pid
  ghost,     \* the pid files that supervisors of earlier sessions have yet to remove
  faults,
  prompt,    \* history: nothing stood in the way of the request
  met        \* history: stop.sh has met a controller, and no session began since

calls == <<pc, left, job, child>>
spool == <<asked, backlog>>
limiter == <<slot, interval>>
signals == <<targets, listed>>
scripts == <<phase, unstarted, signals, pidFiles, ghost, met>>
vars == <<calls, spool, limiter, scripts, faults, prompt>>

C == "controller"
Proc == Worker \union {C}
Script == {"supervisor", "stop"}
Alive == {p \in Proc : pc[p] # "dead"}

State == {"idle", "asleep", "calling", "next", "ready", "waiting", "dead"}
Command == {"none", "meek", "stubborn"}

TypeOK ==
  /\ pc \in [Proc -> State] /\ left \in [Proc -> Nat]
  /\ job \in [Worker -> {"none", "mine", "stale"}]
  /\ child \in [Proc -> Command]
  /\ asked \in {"none", "pending", "taken", "answered"} /\ backlog \in Nat
  /\ slot \in Nat /\ interval \in Intervals
  /\ phase \in [Script -> {"off", "start", "watch", "begin", "listed", "parents", "kill"}]
  /\ unstarted \subseteq Proc
  /\ targets \in [Script -> SUBSET Proc] /\ listed \in [Script -> SUBSET Proc]
  /\ pidFiles \subseteq Proc /\ ghost \subseteq Proc
  /\ faults \in 0 .. MaxFaults /\ prompt \in BOOLEAN /\ met \in BOOLEAN

\* run_supervised.sh has found no process of the run, and has started none yet.
Init ==
  /\ pc = [p \in Proc |-> "dead"] /\ left = [p \in Proc |-> 0]
  /\ job = [w \in Worker |-> "none"] /\ child = [p \in Proc |-> "none"]
  /\ asked = "none" /\ backlog = 0
  /\ slot = 0 /\ interval \in Intervals
  /\ phase = [s \in Script |-> IF s = "stop" THEN "off" ELSE "start"]
  /\ unstarted = Proc
  /\ targets = [s \in Script |-> {}] /\ listed = [s \in Script |-> {}]
  /\ pidFiles = {} /\ ghost = {}
  /\ faults = 0 /\ prompt = FALSE /\ met = FALSE

-----------------------------------------------------------------------------
(* Calls: call_llm, in a worker or in the controller *)

\* Process p goes to state s, for n units of time if the state is timed.
Enter(p, s, n) ==
  /\ pc' = [pc EXCEPT ![p] = s]
  /\ left' = [left EXCEPT ![p] = n]

\* The caller reserves a slot and sleeps until it comes.
AwaitSlot(p) ==
  /\ Enter(p, "asleep", slot)
  /\ slot' = slot + interval
  /\ UNCHANGED interval

\* A worker claims the oldest pending job.
Claim(w) ==
  /\ pc[w] = "idle"
  /\ \/ /\ backlog > 0
        /\ backlog' = backlog - 1
        /\ job' = [job EXCEPT ![w] = "stale"]
        /\ UNCHANGED asked
     \/ /\ backlog = 0 /\ asked = "pending"
        /\ asked' = "taken"
        /\ job' = [job EXCEPT ![w] = "mine"]
        /\ UNCHANGED backlog
  /\ AwaitSlot(w)
  /\ UNCHANGED <<child, scripts, faults, prompt>>

\* The controller itself calls the LLM, to distill or to compare lessons.
DirectCall ==
  /\ pc[C] = "ready"
  /\ AwaitSlot(C)
  /\ UNCHANGED <<job, child, spool, scripts, faults, prompt>>

StartCall(p) ==
  /\ pc[p] = "asleep" /\ left[p] = 0
  /\ Enter(p, "calling", Timeout)
  /\ \E k \in {"meek", "stubborn"} : child' = [child EXCEPT ![p] = k]
  /\ UNCHANGED <<job, spool, limiter, scripts, faults, prompt>>

\* The command ends, or subprocess.run() kills it when its time is up; a worker
\* publishes the result, whatever it is.
Finish(p) ==
  /\ pc[p] = "calling"
  /\ Enter(p, IF p = C THEN "next" ELSE "idle", 0)
  /\ child' = [child EXCEPT ![p] = "none"]
  /\ listed' = [s \in Script |-> listed[s] \ {p}]
  /\ IF p = C THEN UNCHANGED <<job, asked>>
     ELSE /\ job' = [job EXCEPT ![p] = "none"]
          /\ asked' = IF job[p] = "mine" THEN "answered" ELSE asked
  /\ UNCHANGED <<backlog, limiter, phase, unstarted, targets, pidFiles, ghost, met, faults, prompt>>

-----------------------------------------------------------------------------
(* The controller's request *)

\* No job is in the way, a worker is free and its slot comes within the slack.
Unhindered ==
  /\ backlog = 0 /\ slot < Slack
  /\ \E w \in Worker : pc[w] = "idle"

\* Mutant: the controller waits for no longer than a call may take.
EnqueueNoSlack ==
  /\ pc[C] \in {"ready", "next"}
  /\ Enter(C, "waiting", Timeout)
  /\ asked' = "pending"
  /\ prompt' = Unhindered
  /\ UNCHANGED <<job, child, backlog, limiter, scripts, faults>>

Enqueue ==
  /\ pc[C] \in {"ready", "next"}
  /\ Enter(C, "waiting", Timeout + Slack)
  /\ asked' = "pending"
  /\ prompt' = Unhindered
  /\ UNCHANGED <<job, child, backlog, limiter, scripts, faults>>

\* The result is looked for only while there is time left.
ReadAnswer ==
  /\ pc[C] = "waiting" /\ left[C] > 0 /\ asked = "answered"
  /\ Enter(C, "ready", 0)
  /\ asked' = "none" /\ prompt' = FALSE
  /\ UNCHANGED <<job, child, backlog, limiter, scripts, faults>>

\* The processes in P end.  Their commands go on as orphans; the files of the
\* spool stay: a pending request is now a job nobody waits for, and a job that
\* was claimed stays in running/, where no worker looks.
Die(P) ==
  /\ pc' = [p \in Proc |-> IF p \in P THEN "dead" ELSE pc[p]]
  /\ left' = [p \in Proc |-> IF p \in P THEN 0 ELSE left[p]]
  /\ job' = [w \in Worker |-> IF w \in P THEN "none"
                              ELSE IF C \in P /\ job[w] = "mine" THEN "stale"
                              ELSE job[w]]
  /\ backlog' = IF C \in P /\ asked = "pending" THEN backlog + 1 ELSE backlog
  /\ asked' = IF C \in P THEN "none" ELSE asked
  /\ targets' = [s \in Script |-> targets[s] \ P]
  /\ prompt' = FALSE
  /\ UNCHANGED <<child, limiter, listed, pidFiles, ghost>>

\* Mutant: a wait that is over begins again.
GiveUpNever ==
  /\ pc[C] = "waiting" /\ left[C] = 0
  /\ Enter(C, "waiting", Timeout + Slack)
  /\ UNCHANGED <<job, child, spool, limiter, scripts, faults, prompt>>

\* TimeoutError, which nothing catches.
GiveUp ==
  /\ pc[C] = "waiting" /\ left[C] = 0
  /\ Die({C})
  /\ UNCHANGED <<phase, unstarted, met, faults>>

\* A worker is killed (kill -9, out of memory).
Kill(w) ==
  /\ faults < MaxFaults /\ w \in Alive
  /\ faults' = faults + 1
  /\ Die({w})
  /\ UNCHANGED <<phase, unstarted, met>>

-----------------------------------------------------------------------------
(* Starting: run_supervised.sh *)

At(s, from, to) == phase[s] = from /\ phase' = [phase EXCEPT ![s] = to]

\* Somebody steps in: with a signal, with stop.sh, or with a hasty resumption.
StepIn == faults < MaxFaults /\ faults' = faults + 1

\* Somebody starts or resumes the run, even while a stop.sh is still waiting, and no
\* process of the run is found.  A script that is still starting processes is not
\* joined by another.  One that is ending may be, in haste: it removes the pid files
\* it knows later.
Start ==
  /\ Alive = {}
  /\ unstarted' = Proc
  /\ met' = FALSE
  /\ phase' = [phase EXCEPT !["supervisor"] = "start"]
  /\ \/ phase["supervisor"] = "off" /\ UNCHANGED <<ghost, faults>>
     \/ /\ phase["supervisor"] \notin {"off", "start"}
        /\ ghost' = ghost \union (Proc \ unstarted)
        /\ StepIn
  /\ UNCHANGED <<calls, spool, limiter, signals, pidFiles, prompt>>

\* Process p runs, and the supervisor has noted its pid (of the instant between the
\* two nothing is said here).
Begin(p) ==
  /\ phase["supervisor"] = "start"
  /\ unstarted' = unstarted \ {p}
  /\ pc' = [pc EXCEPT ![p] = IF p = C THEN "next" ELSE "idle"]
  /\ targets' = [targets EXCEPT !["supervisor"] = @ \union {p}]
  /\ pidFiles' = pidFiles \union {p}
  /\ child' = [child EXCEPT ![p] = "none"]
  /\ listed' = [s \in Script |-> listed[s] \ {p}]
  /\ UNCHANGED <<left, job, spool, limiter, phase, ghost, met, faults, prompt>>

\* Mutant: the controller is not left to the end.
StartProcInAnyOrder(p) == p \in unstarted /\ Begin(p)

\* start_proc: the workers one after the other, then the controller.  What becomes
\* of the command that an earlier p has left is of no interest from here on.
StartProc(p) == p \in unstarted /\ (p = C => unstarted = {C}) /\ Begin(p)

\* The supervisor reads the pid of the controller and waits for it.  If another
\* script has removed the file, `set -e' ends this one.
Attach ==
  /\ unstarted = {}
  /\ At("supervisor", "start", IF C \in pidFiles THEN "watch" ELSE "begin")
  /\ UNCHANGED <<calls, spool, limiter, unstarted, signals, pidFiles, ghost, met, faults, prompt>>

-----------------------------------------------------------------------------
(* Stopping: on_exit of run_supervised.sh, and stop.sh *)

\* Mutant: the supervisor waits for every process it has started.
BeginExitLast ==
  /\ \/ At("supervisor", "watch", "begin") /\ Alive = {} /\ UNCHANGED faults
     \/ \E from \in {"start", "watch"} : At("supervisor", from, "begin") /\ StepIn
  /\ UNCHANGED <<calls, spool, limiter, unstarted, signals, pidFiles, ghost, met, prompt>>

\* The supervisor waits for the controller alone, or for Ctrl-C or a TERM, which may
\* also come while it starts processes.
BeginExit ==
  /\ \/ At("supervisor", "watch", "begin") /\ C \notin Alive /\ UNCHANGED faults
     \/ \E from \in {"start", "watch"} : At("supervisor", from, "begin") /\ StepIn
  /\ UNCHANGED <<calls, spool, limiter, unstarted, signals, pidFiles, ghost, met, prompt>>

\* A second signal finds the traps reset and ends the script where it is.
SecondSignal ==
  /\ \E from \in {"begin", "listed", "parents", "kill"} : At("supervisor", from, "off")
  /\ StepIn
  /\ targets' = [targets EXCEPT !["supervisor"] = {}]
  /\ UNCHANGED <<calls, spool, limiter, unstarted, listed, pidFiles, ghost, met, prompt>>

\* Mutant: stop.sh relies on the pid files.
FoundByFile == Alive \intersect pidFiles

\* The processes stop.sh finds, by their pid files or by their command lines (the run
\* directory is spelt as it was for run_supervised.sh).  The supervisor is not among
\* them.
Found == Alive \intersect (pidFiles \union Proc)

\* Somebody runs stop.sh: at any time, or because run_supervised.sh refuses to
\* start while processes of the run are there.
RunStop ==
  /\ At("stop", "off", "begin")
  /\ targets' = [targets EXCEPT !["stop"] = Found]
  /\ met' = (C \in Alive)
  /\ \/ phase["supervisor"] = "off" /\ Alive # {} /\ UNCHANGED faults
     \/ StepIn
  /\ UNCHANGED <<calls, spool, limiter, unstarted, listed, pidFiles, ghost, prompt>>

\* The commands of the live targets are listed before any signal is sent.  One that
\* is started after that is not signalled.
List(s) ==
  /\ At(s, "begin", "listed")
  /\ listed' = [listed EXCEPT ![s] = {p \in targets[s] : child[p] # "none"}]
  /\ UNCHANGED <<calls, spool, limiter, unstarted, targets, pidFiles, ghost, met, faults, prompt>>

\* The commands in P are gone.
End(P) ==
  /\ child' = [p \in Proc |-> IF p \in P THEN "none" ELSE child[p]]
  /\ listed' = [s \in Script |-> listed[s] \ P]

TermCommands(s) ==
  /\ At(s, "listed", "parents")
  /\ End({p \in listed[s] : child[p] = "meek"})
  /\ UNCHANGED <<pc, left, job, spool, limiter, unstarted, targets, pidFiles, ghost, met, faults, prompt>>

TermProcesses(s) ==
  /\ At(s, "parents", "kill")
  /\ Die(targets[s])
  /\ UNCHANGED <<unstarted, met, faults>>

\* stop.sh kills what is left of its list and removes every pid file.  The supervisor
\* lists again, and as the parents are dead by now it finds no command; it
\* removes the pid files of the processes that it has come to start.
KillPass(s) ==
  /\ At(s, "kill", "off")
  /\ End(IF s = "stop" THEN listed[s] ELSE {})
  /\ pidFiles' = IF s = "stop" THEN {} ELSE pidFiles \intersect unstarted
  /\ UNCHANGED <<pc, left, job, spool, limiter, unstarted, targets, ghost, met, faults, prompt>>

\* The supervisor of an earlier session comes to its end: its own processes are
\* dead, but the pid files are those of the new session.
GhostEnds ==
  /\ ghost # {} /\ ghost' = {}
  /\ pidFiles' = pidFiles \ ghost
  /\ UNCHANGED <<calls, spool, limiter, phase, unstarted, signals, met, faults, prompt>>

-----------------------------------------------------------------------------

\* Somebody has something to do that takes no time worth speaking of.
Urgent ==
  \/ \E p \in Proc : \/ pc[p] \in {"asleep", "calling"} /\ left[p] = 0
                     \/ pc[p] = "calling" /\ child[p] = "none"
  \/ \E w \in Worker : pc[w] = "idle" /\ (backlog > 0 \/ asked = "pending")
  \/ pc[C] = "waiting" /\ (left[C] = 0 \/ asked = "answered")
  \/ phase["supervisor"] = "start"
  \/ phase["supervisor"] = "watch" /\ C \notin Alive
  \/ \E s \in Script : phase[s] \in {"begin", "listed", "parents"}

\* Mutant: a slot that is past makes the wait for it negative.
LessUnclamped(n) == n - 1

\* One unit less.  Nothing is left of an instant that is past, as the limiter takes the
\* later one of now and next_allowed_at, and no negative wait.
Less(n) == IF n = 0 THEN 0 ELSE n - 1

Tick ==
  /\ ~Urgent
  /\ left' = [p \in Proc |-> Less(left[p])]
  /\ slot' = Less(slot)
  /\ UNCHANGED <<pc, job, child, spool, interval, scripts, faults, prompt>>

Step(s) == List(s) \/ TermCommands(s) \/ TermProcesses(s) \/ KillPass(s)

Next ==
  \/ \E w \in Worker : Claim(w) \/ Kill(w)
  \/ \E p \in Proc : StartProc(p) \/ StartCall(p) \/ Finish(p)
  \/ DirectCall \/ Enqueue \/ ReadAnswer \/ GiveUp
  \/ Start \/ Attach \/ BeginExit \/ SecondSignal \/ RunStop
  \/ \E s \in Script : Step(s)
  \/ GhostEnds \/ Tick

Spec == Init /\ [][Next]_vars

\* Processes that are alive go on, time passes, and whoever runs the program
\* resumes it.  Faults are never owed.
FairSpec ==
  /\ Spec
  /\ \A w \in Worker : WF_vars(Claim(w))
  /\ \A p \in Proc : WF_vars(StartCall(p)) /\ WF_vars(Finish(p))
  /\ WF_vars(Enqueue) /\ WF_vars(ReadAnswer) /\ WF_vars(GiveUp)
  /\ WF_vars(BeginExit /\ faults' = faults) /\ WF_vars(RunStop /\ faults' = faults)
  /\ \A s \in Script : WF_vars(Step(s))
  /\ WF_vars(Start /\ faults' = faults) /\ (\A p \in Proc : WF_vars(StartProc(p))) /\ WF_vars(Attach)
  /\ WF_vars(Tick)

-----------------------------------------------------------------------------
(* Properties *)

\* A request that nothing hinders (a free worker, no older job, a slot within
\* the slack, nobody killed) never reaches the deadline of wait_for_result(),
\* even if its call takes all of its timeout: the controller is told of the
\* timeout by the result, and changes the profile, and does not end with an
\* uncaught TimeoutError (controller.py:1054).
PromptInTime == prompt /\ pc[C] = "waiting" => left[C] > 0

\* A stop.sh that meets the controller ends the whole session: past its TERM signals
\* no process is left, whatever was started while it looked, and even if the pid
\* files were removed by the supervisor of a session before.  (Run in the middle
\* of a start it meets none, and what is started after it has looked goes on.)
StopEndsAll == phase["stop"] = "kill" /\ met => Alive = {}

\* With all LLM workers gone, be it that stop.sh has ended them in the middle of the
\* start, the session does not hang: the controller gives up and the supervisor,
\* which watches only the controller, ends.
SessionEnds == (\A w \in Worker : pc[w] = "dead") ~> Alive = {}

\* However sessions are broken off, the run gets on: of the requests of resumed
\* controllers, which have to wait for the jobs that earlier ones left behind,
\* some is always answered in time in the end, unless somebody keeps on stepping in.
RunGetsOn == []<>(pc[C] = "ready")

=============================================================================
