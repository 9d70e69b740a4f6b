----------------------------- MODULE SpoolQueue -----------------------------
(***************************************************************************)
(* The file-spool queue of src/src/mars/fsqueue.py, with the processes     *)
(* that use it: one controller that enqueues a job and polls for its       *)
(* result, and the worker loops of services/llm_worker_main.py and         *)
(* services/exec_worker_main.py, which have the same shape.                *)
(*                                                                         *)
(* A job is named by its place in the order of enqueueing, which is the    *)
(* order of the files' mtimes.  A file is a member of the set named after  *)
(* its directory.  Each file operation is an atomic step; a process may be *)
(* killed between any two of them, and an operation may fail.              *)
(***************************************************************************)
EXTENDS Integers

CONSTANTS Worker,        \* the worker ids of one queue
          MaxJobs,       \* bound: jobs ever enqueued
          MaxRestarts,   \* bound: resumptions of the run
          MaxFaults      \* bound: file operations that fail

ASSUME SpoolAssumption ==
  /\ Worker # {} /\ "none" \notin Worker
  /\ MaxJobs \in Nat /\ MaxRestarts \in Nat /\ MaxFaults \in Nat

VARIABLES
  pending,     \* jobs with a file <id>.json in pending/
  claims,      \* <<j, w>>: the file <j>.<w>.claim exists in pending/
  running,     \* jobs with a file in running/
  results,     \* <<j, d>>: <j>.result.json exists in directory d
  traces,      \* <<j, d>>: <j>.job.json exists in directory d
  wpc,         \* where each worker is in its loop
  batch,       \* the jobs left of the sorted list a claim() iterates over
  held,        \* the job a worker works on, 0 for none
  side,        \* the directory complete() was called for
  cpc,         \* where the controller is
  submitted,   \* the number of jobs enqueued so far
  answer,      \* the directory the controller read job j's result from
  restarts, faults,
  crossDevice, \* running/ is on another device than pending/ (never changes)
  executions,  \* history: how often a worker started on job j
  cleaned,     \* history: jobs whose running file stop.sh --clean deleted
  crashed,     \* history: a worker was killed since the last (re)start
  winner       \* history: the last worker to win a claim since the (re)start

files == <<pending, claims, running, results, traces>>
procs == <<wpc, batch, held, side>>
client == <<cpc, submitted, answer>>
bounds == <<restarts, faults, crossDevice>>
history == <<executions, cleaned, crashed, winner>>
vars == <<files, procs, client, bounds, history>>

Job == 1 .. MaxJobs
Dir == {"done", "failed"}
Alive(w) == wpc[w] # "dead"

\* The states in which a worker owns a job it has taken out of pending/.
Holding == {"move", "copied", "start", "work", "rescue", "clear", "rescued"}
Executing == {"work", "rescue", "clear", "rescued"}

WorkerState == {"scan", "stat", "take", "dead"} \union Holding
ControllerState == {"ready", "checkDone", "checkFailed", "down"}

FilesTyped ==
  /\ pending \subseteq Job
  /\ claims \subseteq Job \X Worker
  /\ running \subseteq Job
  /\ results \subseteq Job \X Dir
  /\ traces \subseteq Job \X Dir

ProcessesTyped ==
  /\ wpc \in [Worker -> WorkerState]
  /\ batch \in [Worker -> SUBSET Job]
  /\ held \in [Worker -> 0 .. MaxJobs]
  /\ side \in [Worker -> Dir]

ClientTyped ==
  /\ cpc \in ControllerState
  /\ submitted \in 0 .. MaxJobs
  /\ answer \in [Job -> Dir \union {"none"}]

HistoryTyped ==
  /\ restarts \in 0 .. MaxRestarts
  /\ faults \in 0 .. MaxFaults
  /\ crossDevice \in BOOLEAN
  /\ executions \in [Job -> Nat]
  /\ cleaned \subseteq Job
  /\ crashed \in BOOLEAN
  /\ winner \in Worker \union {"none"}

TypeOK == FilesTyped /\ ProcessesTyped /\ ClientTyped /\ HistoryTyped

Init ==
  /\ pending = {} /\ claims = {} /\ running = {} /\ results = {} /\ traces = {}
  /\ wpc = [w \in Worker |-> "scan"]
  /\ batch = [w \in Worker |-> {}]
  /\ held = [w \in Worker |-> 0]
  /\ side = [w \in Worker |-> "done"]
  /\ cpc = "ready" /\ submitted = 0 /\ answer = [j \in Job |-> "none"]
  /\ restarts = 0 /\ faults = 0 /\ crossDevice \in BOOLEAN
  /\ executions = [j \in Job |-> 0]
  /\ cleaned = {} /\ crashed = FALSE /\ winner = "none"

-----------------------------------------------------------------------------
(* The controller: enqueue, then wait_for_result.                          *)

\* A new job file appears whole: it is written aside and renamed.
Enqueue ==
  /\ cpc = "ready" /\ submitted < MaxJobs
  /\ submitted' = submitted + 1
  /\ pending' = pending \union {submitted'}
  /\ cpc' = "checkDone"
  /\ UNCHANGED <<claims, running, results, traces, procs, answer, bounds, history>>

\* One look at directory d while waiting for the last job enqueued.
Poll(d, here, next) ==
  /\ cpc = here
  /\ IF <<submitted, d>> \in results
       THEN answer' = [answer EXCEPT ![submitted] = d] /\ cpc' = "ready"
       ELSE cpc' = next /\ UNCHANGED answer
  /\ UNCHANGED <<files, procs, submitted, bounds, history>>

CheckDone == Poll("done", "checkDone", "checkFailed")
CheckFailed == Poll("failed", "checkFailed", "checkDone")

\* Mutant: the wait gives up with an answer of its own instead of raising.
WaitTimesOutReturns ==
  /\ cpc = "checkDone"
  /\ answer' = [answer EXCEPT ![submitted] = "timeout"] /\ cpc' = "ready"
  /\ UNCHANGED <<files, procs, submitted, bounds, history>>

\* The deadline is tested at the head of the loop; nothing catches TimeoutError.
WaitTimesOut ==
  /\ cpc = "checkDone"
  /\ cpc' = "down"
  /\ UNCHANGED <<files, procs, submitted, answer, bounds, history>>

\* The controller finishes its run or is killed.
ControllerExits ==
  /\ cpc # "down"
  /\ cpc' = "down"
  /\ UNCHANGED <<files, procs, submitted, answer, bounds, history>>

-----------------------------------------------------------------------------
(* claim(): list pending/, stat every file, rename the oldest that is left. *)

Goto(w, s) == wpc' = [wpc EXCEPT ![w] = s]

\* The glob of claim(); an empty list returns None and the worker sleeps.
Glob(w) ==
  /\ wpc[w] = "scan" /\ pending # {}
  /\ batch' = [batch EXCEPT ![w] = pending]
  /\ Goto(w, "stat")
  /\ UNCHANGED <<files, held, side, client, bounds, history>>

\* The sort key stats every listed file.  A file that another worker renamed
\* meanwhile raises FileNotFoundError, which neither claim() nor the worker's
\* loop catches: the process ends.
Stat(w) ==
  /\ wpc[w] = "stat"
  /\ IF batch[w] \subseteq pending
       THEN Goto(w, "take") /\ UNCHANGED batch
       ELSE Goto(w, "dead") /\ batch' = [batch EXCEPT ![w] = {}]
  /\ UNCHANGED <<files, held, side, client, bounds, history>>

IsOldest(j, S) == j \in S /\ \A i \in S : j <= i

\* claim() goes on to the next job of its list, or returns None.
TryNext(w, rest) ==
  /\ batch' = [batch EXCEPT ![w] = rest]
  /\ Goto(w, IF rest = {} THEN "scan" ELSE "take")

\* Mutant: the job file is copied, not renamed, to the claim file.
TakeByCopy(w) == \E j \in pending :
  /\ wpc[w] = "take" /\ IsOldest(j, batch[w])
  /\ claims' = claims \union {<<j, w>>}
  /\ held' = [held EXCEPT ![w] = j]
  /\ winner' = w
  /\ Goto(w, "move")
  /\ UNCHANGED <<pending, running, results, traces, batch, side, client, bounds,
                 executions, cleaned, crashed>>

\* Mutant: the list of pending jobs is not sorted.
TakeUnsorted(w) == \E j \in pending \intersect batch[w] :
  /\ wpc[w] = "take"
  /\ pending' = pending \ {j}
  /\ claims' = claims \union {<<j, w>>}
  /\ held' = [held EXCEPT ![w] = j]
  /\ winner' = w
  /\ Goto(w, "move")
  /\ UNCHANGED <<running, results, traces, batch, side, client, bounds,
                 executions, cleaned, crashed>>

\* The rename that wins the job.
Take(w) == \E j \in pending :
  /\ wpc[w] = "take" /\ IsOldest(j, batch[w])
  /\ pending' = pending \ {j}
  /\ claims' = claims \union {<<j, w>>}
  /\ held' = [held EXCEPT ![w] = j]
  /\ winner' = w
  /\ Goto(w, "move")
  /\ UNCHANGED <<running, results, traces, batch, side, client, bounds,
                 executions, cleaned, crashed>>

\* The file is gone: another worker took it after this one's stat.
LoseRace(w) == \E j \in batch[w] :
  /\ wpc[w] = "take" /\ IsOldest(j, batch[w]) /\ j \notin pending
  /\ TryNext(w, batch[w] \ {j})
  /\ UNCHANGED <<files, held, side, client, bounds, history>>

\* The rename is refused (PermissionError): claim() leaves the job where it is.
TakeDenied(w) == \E j \in batch[w] :
  /\ wpc[w] = "take" /\ IsOldest(j, batch[w]) /\ faults < MaxFaults
  /\ faults' = faults + 1
  /\ TryNext(w, batch[w] \ {j})
  /\ UNCHANGED <<files, held, side, client, restarts, crossDevice, history>>

\* The job is in running/ and the claim file gone: claim() returns it.
Own(w) ==
  /\ batch' = [batch EXCEPT ![w] = {}]
  /\ Goto(w, "start")

MoveToRunning(w) ==
  /\ wpc[w] = "move" /\ ~crossDevice
  /\ claims' = claims \ {<<held[w], w>>}
  /\ running' = running \union {held[w]}
  /\ Own(w)
  /\ UNCHANGED <<pending, results, traces, held, side, client, bounds, history>>

\* Mutant: an error of the rename back is not swallowed and ends the worker.
MoveFailsRaises(w) ==
  /\ wpc[w] = "move" /\ faults < MaxFaults
  /\ faults' = faults + 1
  /\ Goto(w, "dead")
  /\ batch' = [batch EXCEPT ![w] = {}] /\ held' = [held EXCEPT ![w] = 0]
  /\ UNCHANGED <<files, side, client, restarts, crossDevice, history>>

\* The rename into running/ fails; so may the rename back.
MoveFails(w) ==
  /\ wpc[w] = "move" /\ faults < MaxFaults
  /\ faults' = faults + 1
  /\ \/ /\ claims' = claims \ {<<held[w], w>>}
        /\ pending' = pending \union {held[w]}
     \/ UNCHANGED <<claims, pending>>
  /\ TryNext(w, batch[w] \ {held[w]})
  /\ held' = [held EXCEPT ![w] = 0]
  /\ UNCHANGED <<running, results, traces, side, client, restarts, crossDevice, history>>

\* Mutant: the fallback unlinks first and copies afterwards.
UnlinkBeforeCopy(w) ==
  /\ wpc[w] = "move" /\ crossDevice
  /\ claims' = claims \ {<<held[w], w>>}
  /\ Goto(w, "copied")
  /\ UNCHANGED <<pending, running, results, traces, batch, held, side, client,
                 bounds, history>>

\* The cross-device fallback: copy, then unlink.
CopyClaim(w) ==
  /\ wpc[w] = "move" /\ crossDevice
  /\ running' = running \union {held[w]}
  /\ Goto(w, "copied")
  /\ UNCHANGED <<pending, claims, results, traces, batch, held, side, client,
                 bounds, history>>

UnlinkClaim(w) ==
  /\ wpc[w] = "copied"
  /\ claims' = claims \ {<<held[w], w>>}
  /\ Own(w)
  /\ UNCHANGED <<pending, running, results, traces, held, side, client, bounds,
                 history>>

-----------------------------------------------------------------------------
(* The worker's loop around a job, and complete().                         *)

Start(w) ==
  /\ wpc[w] = "start"
  /\ executions' = [executions EXCEPT ![held[w]] = @ + 1]
  /\ Goto(w, "work")
  /\ UNCHANGED <<files, batch, held, side, client, bounds, cleaned, crashed, winner>>

\* complete() makes the result visible before it moves the job file away.
PublishTo(w, d, s) ==
  /\ results' = results \union {<<held[w], d>>}
  /\ side' = [side EXCEPT ![w] = d]
  /\ Goto(w, s)
  /\ UNCHANGED <<pending, claims, running, traces, batch, held, client, bounds,
                 history>>

Publish(w) == wpc[w] = "work" /\ \E d \in Dir : PublishTo(w, d, "clear")

\* Mutant: what follows complete() in the try block may raise too.
JobRaisesLate(w) ==
  /\ wpc[w] \in {"work", "clear"}
  /\ Goto(w, "rescue")
  /\ UNCHANGED <<files, batch, held, side, client, bounds, history>>

\* The job's own code raises: the handler calls complete(ok=False).
JobRaises(w) ==
  /\ wpc[w] = "work"
  /\ Goto(w, "rescue")
  /\ UNCHANGED <<files, batch, held, side, client, bounds, history>>

Rescue(w) == wpc[w] = "rescue" /\ PublishTo(w, "failed", "rescued")

Release(w, s) ==
  /\ held' = [held EXCEPT ![w] = 0]
  /\ batch' = [batch EXCEPT ![w] = {}]
  /\ Goto(w, s)

\* Mutant: the worker leaves its loop after one job.
ClearAndExit(w) ==
  /\ wpc[w] \in {"clear", "rescued"}
  /\ running' = running \ {held[w]}
  /\ traces' = traces \union {<<held[w], side[w]>>}
  /\ Release(w, "dead")
  /\ UNCHANGED <<pending, claims, results, side, client, bounds, history>>

\* The job file leaves running/; it is no error if it is not there.
Clear(w) ==
  /\ wpc[w] \in {"clear", "rescued"}
  /\ running' = running \ {held[w]}
  /\ traces' = IF held[w] \in running THEN traces \union {<<held[w], side[w]>>}
                                      ELSE traces
  /\ Release(w, "scan")
  /\ UNCHANGED <<pending, claims, results, side, client, bounds, history>>

\* Both the rename and its copy fallback fail, before or after the copy is
\* made.  The first time the handler completes the job again, as failed; an
\* error in the handler ends the process.
ClearFails(w) ==
  /\ wpc[w] \in {"clear", "rescued"} /\ faults < MaxFaults
  /\ held[w] \in running
  /\ faults' = faults + 1
  /\ \/ traces' = traces \union {<<held[w], side[w]>>}
     \/ UNCHANGED traces
  /\ IF wpc[w] = "clear"
       THEN Goto(w, "rescue") /\ UNCHANGED <<batch, held, crashed>>
       ELSE Release(w, "dead") /\ crashed' = TRUE
  /\ UNCHANGED <<pending, claims, running, results, side, client, restarts,
                 crossDevice, executions, cleaned, winner>>

-----------------------------------------------------------------------------
(* Process management: run_supervised.sh, stop.sh and resume_run.sh.       *)

\* A worker is killed, alone or by the script that ends the run, or ended by an
\* exception that nothing catches, such as that of a failing copy2 in claim().
Kill(w) ==
  /\ Alive(w)
  /\ Release(w, "dead")
  /\ crashed' = TRUE
  /\ UNCHANGED <<files, side, client, bounds, executions, cleaned, winner>>

AllDown == cpc = "down" /\ \A w \in Worker : ~Alive(w)

\* Mutant: the jobs found in running/ are queued again.
CleanRequeues ==
  /\ AllDown /\ running # {}
  /\ running' = {} /\ pending' = pending \union running
  /\ UNCHANGED <<claims, results, traces, procs, client, bounds, history>>

\* stop.sh --clean, after everything has been stopped.
Clean ==
  /\ AllDown /\ running # {}
  /\ running' = {}
  /\ cleaned' = cleaned \union running
  /\ UNCHANGED <<pending, claims, results, traces, procs, client, bounds,
                 executions, crashed, winner>>

\* run_supervised.sh refuses to start while a process of the run is alive.
Resume ==
  /\ AllDown /\ restarts < MaxRestarts
  /\ restarts' = restarts + 1
  /\ wpc' = [w \in Worker |-> "scan"]
  /\ cpc' = "ready"
  /\ crashed' = FALSE /\ winner' = "none"
  /\ UNCHANGED <<files, batch, held, side, submitted, answer, faults, crossDevice,
                 executions, cleaned>>

-----------------------------------------------------------------------------

Controller == Enqueue \/ CheckDone \/ CheckFailed \/ WaitTimesOut \/ ControllerExits

\* What a worker does of its own accord.
WorkerStep(w) ==
  \/ Glob(w) \/ Stat(w) \/ Take(w) \/ LoseRace(w)
  \/ MoveToRunning(w) \/ CopyClaim(w) \/ UnlinkClaim(w)
  \/ Start(w) \/ Publish(w) \/ JobRaises(w) \/ Rescue(w) \/ Clear(w)

Trouble(w) == TakeDenied(w) \/ MoveFails(w) \/ ClearFails(w) \/ Kill(w)

Next ==
  \/ Controller
  \/ \E w \in Worker : WorkerStep(w) \/ Trouble(w)
  \/ Clean
  \/ Resume

Spec == Init /\ [][Next]_vars

\* A worker process that is alive is scheduled, and a job it runs ends: the
\* LLM command line and the task's command run under a timeout.
FairSpec == Spec /\ \A w \in Worker : WF_vars(WorkerStep(w))

-----------------------------------------------------------------------------
(* Properties.                                                             *)

\* However workers race, die, roll a claim back or are restarted, the work of a
\* job is started at most once: the rename that claims it is the only way out
\* of pending/, and nothing a crash leaves behind is picked up again.
ExecutedAtMostOnce == \A j \in Job : executions[j] <= 1

\* A worker may die of losing a race (see Stat), yet the losers never take the
\* queue down with them: until a worker is killed, one is alive.
SomeWorkerSurvives == crashed \/ \E w \in Worker : Alive(w)

\* The payload of an enqueued job is on disk somewhere at every moment, between
\* any two file operations and after any crash, unless stop.sh --clean deleted it
\* from running/ ("Preserve claimed job payload for traceability").
PayloadKept ==
  \A j \in 1 .. submitted :
    \/ j \in pending \union running \union cleaned
    \/ \E w \in Worker : <<j, w>> \in claims
    \/ \E d \in Dir : <<j, d>> \in traces

\* As long as no file operation fails, a job that a worker started has one outcome:
\* done/ and failed/ never both hold its result, and what the controller read is
\* what stays on disk.
OutcomeUnique ==
  faults = 0 =>
    \A j \in Job : \A d \in Dir :
      <<j, d>> \in results =>
        /\ executions[j] > 0
        /\ \A e \in Dir : <<j, e>> \in results => e = d
        /\ answer[j] \in {"none", d}

\* "Claim the oldest pending job": the list is sorted once, before the races it
\* loses, and is stale by the time of the rename.  It still never lets a job
\* overtake an older one that is pending, unless a failed move put that one back.
ClaimsOldest ==
  [][faults = 0 => \A j \in pending \ pending' : IsOldest(j, pending)]_vars

HasResult(j) == \E d \in Dir : <<j, d>> \in results

\* How far job j has come, as a client of the queue sees it.
JobStatus(j) ==
  IF j > submitted THEN "new"
  ELSE IF <<j, "done">> \in results THEN "done"
  ELSE IF <<j, "failed">> \in results THEN "failed"
  ELSE IF \E w \in Worker : held[w] = j /\ wpc[w] \in Executing THEN "executing"
  ELSE IF j \in pending \/ \E w \in Worker : held[w] = j THEN "queued"
  ELSE "lost"

\* Every job that is queued or executed, one left in pending/ by an earlier
\* session included, gets a result unless a worker is killed or a file operation
\* fails, whatever becomes of the controller and of the workers that lose a race.
JobServed ==
  \A j \in Job :
    JobStatus(j) \in {"queued", "executing"} ~> (HasResult(j) \/ crashed \/ faults > 0)

Lifecycle == INSTANCE JobLifecycle WITH status <- [j \in Job |-> JobStatus(j)]

\* The queue implements the lifecycle: no crash, rollback or restart moves a job
\* backwards, gives an ended job a new life or revives a lost one.
ImplementsLifecycle == Lifecycle!Spec

\* claim() is written to tolerate a lost race: "except FileNotFoundError: continue".
\* A worker dies only when it is killed.
RaceIsHarmless == crashed \/ \A w \in Worker : Alive(w)

=============================================================================
