---------------------------- MODULE SessionProofs ----------------------------
(***************************************************************************)
(* Theorems about Session for any workers, any timeouts and any interval:  *)
(* an unhindered request is answered in time, and a session that is        *)
(* stopped, by its supervisor or by stop.sh, leaves no process.            *)
(***************************************************************************)
EXTENDS Session, TLAPS

\* On its way, an unhindered request has the slack left for the slot and the
\* timeout left for the call, each with time to spare.
OnItsWay ==
  prompt /\ pc[C] = "waiting" =>
    \/ /\ asked = "pending" /\ Unhindered
       /\ left[C] = Timeout + Slack
    \/ /\ asked = "taken"
       /\ \E w \in Worker :
            /\ job[w] = "mine"
            /\ \/ pc[w] = "asleep" /\ left[w] + Timeout < left[C]
               \/ pc[w] = "calling" /\ left[w] < left[C]
    \/ asked = "answered" /\ left[C] > 0

\* The controller is the last process of a session to be started, so that nothing
\* is left to start once stop.sh has met it; from then on stop.sh has every live
\* process among its targets.
StopKnowsAll ==
  /\ C \in Alive => unstarted = {}
  /\ met => unstarted = {}
  /\ phase["stop"] \in {"begin", "listed", "parents"} /\ met => Alive \subseteq targets["stop"]
  /\ StopEndsAll

\* The supervisor has every process of its session among its targets, and has ended
\* them when its TERM signals are out.
SupervisorEndsAll == phase["supervisor"] = "kill" => Alive = {}

SupervisorKnowsAll ==
  /\ phase["supervisor"] \in {"start", "watch", "begin", "listed", "parents"}
       => Alive \subseteq targets["supervisor"]
  /\ SupervisorEndsAll

IInv == TypeOK /\ OnItsWay /\ StopKnowsAll /\ SupervisorKnowsAll

\* The inductive invariant holds at first.
LEMMA InitIInv == Init => IInv
<1> SUFFICES ASSUME Init PROVE IInv
  OBVIOUS
<1> USE SessionAssumption DEF Init
<1>1. TypeOK
  <2>1. /\ pc \in [Proc -> State] /\ left \in [Proc -> Nat]
        /\ child \in [Proc -> Command] /\ pidFiles \subseteq Proc
    BY DEF State, Command
  <2>2. phase \in [Script -> {"off", "start", "watch", "begin", "listed", "parents", "kill"}]
    OBVIOUS
  <2>3. targets \in [Script -> SUBSET Proc] /\ listed \in [Script -> SUBSET Proc]
    OBVIOUS
  <2>4. /\ job \in [Worker -> {"none", "mine", "stale"}]
        /\ asked \in {"none", "pending", "taken", "answered"} /\ backlog \in Nat
        /\ slot \in Nat /\ interval \in Intervals
        /\ unstarted \subseteq Proc /\ ghost \subseteq Proc
        /\ prompt \in BOOLEAN /\ met \in BOOLEAN
    OBVIOUS
  <2>5. faults \in 0 .. MaxFaults
    OBVIOUS
  <2>6. QED
    BY ONLY <2>1, <2>2, <2>3, <2>4, <2>5 DEF TypeOK
<1>2. Alive = {}
  BY DEF Alive
<1>3. OnItsWay /\ StopKnowsAll /\ SupervisorKnowsAll
  BY <1>2 DEF OnItsWay, StopKnowsAll, StopEndsAll, SupervisorKnowsAll, SupervisorEndsAll
<1>4. QED
  BY <1>1, <1>3 DEF IInv

-----------------------------------------------------------------------------
(* Every variable keeps its type *)

\* Ends of processes keep the types of what they change.
LEMMA DieTypes ==
  ASSUME TypeOK, NEW P \in SUBSET Proc, Die(P)
  PROVE  /\ pc' \in [Proc -> State] /\ left' \in [Proc -> Nat]
         /\ job' \in [Worker -> {"none", "mine", "stale"}]
         /\ asked' \in {"none", "pending", "taken", "answered"} /\ backlog' \in Nat
         /\ targets' \in [Script -> SUBSET Proc] /\ prompt' \in BOOLEAN
         /\ UNCHANGED <<child, limiter, listed, pidFiles, ghost>>
<1>1. pc' \in [Proc -> State]
  BY DEF TypeOK, Die, State
<1>2. left' \in [Proc -> Nat]
  BY DEF TypeOK, Die
<1>3. job' \in [Worker -> {"none", "mine", "stale"}]
  BY DEF TypeOK, Die
<1>4. asked' \in {"none", "pending", "taken", "answered"} /\ backlog' \in Nat
  BY DEF TypeOK, Die
<1>5. targets' \in [Script -> SUBSET Proc]
  BY DEF TypeOK, Die
<1>6. QED
  BY <1>1, <1>2, <1>3, <1>4, <1>5 DEF Die

\* The steps of calls and requests.
LEMMA CallTypes ==
  ASSUME TypeOK,
         \/ \E w \in Worker : Claim(w) \/ Kill(w)
         \/ \E p \in Proc : StartCall(p) \/ Finish(p)
         \/ DirectCall \/ Enqueue \/ ReadAnswer \/ GiveUp
  PROVE  TypeOK'
<1> USE SessionAssumption
<1>1. C \in Proc /\ Worker \subseteq Proc
  BY DEF Proc
<1>2. CASE \E w \in Worker : Claim(w)
  BY <1>1, <1>2 DEF Claim, AwaitSlot, Enter, TypeOK, State, scripts, signals
<1>3. ASSUME NEW w \in Worker, Kill(w) PROVE TypeOK'
  BY <1>1, <1>3, DieTypes DEF Kill, TypeOK, limiter
<1>4. CASE \E p \in Proc : StartCall(p)
  BY <1>4 DEF StartCall, Enter, TypeOK, State, Command, spool, limiter, scripts, signals
<1>5. ASSUME NEW p \in Proc, Finish(p) PROVE TypeOK'
  <2>1. pc' \in [Proc -> State] /\ left' \in [Proc -> Nat] /\ child' \in [Proc -> Command]
    BY <1>5 DEF Finish, Enter, TypeOK, State, Command
  <2>2. listed' \in [Script -> SUBSET Proc]
    BY <1>5 DEF Finish, TypeOK
  <2>3. job' \in [Worker -> {"none", "mine", "stale"}]
    BY <1>5 DEF Finish, TypeOK
  <2>4. asked' \in {"none", "pending", "taken", "answered"}
    BY <1>5 DEF Finish, TypeOK
  <2>5. QED
    BY <1>5, <2>1, <2>2, <2>3, <2>4 DEF Finish, TypeOK, limiter
<1>6. CASE DirectCall
  BY <1>1, <1>6 DEF DirectCall, AwaitSlot, Enter, TypeOK, State, spool, scripts, signals
<1>7. CASE Enqueue
  BY <1>1, <1>7 DEF Enqueue, Unhindered, Enter, TypeOK, State, limiter, scripts, signals
<1>8. CASE ReadAnswer
  BY <1>1, <1>8 DEF ReadAnswer, Enter, TypeOK, State, limiter, scripts, signals
<1>9. CASE GiveUp
  BY <1>1, <1>9, DieTypes DEF GiveUp, TypeOK, limiter
<1>10. QED
  BY <1>2, <1>3, <1>4, <1>5, <1>6, <1>7, <1>8, <1>9

\* The steps of the scripts and of the clock.
LEMMA ScriptTypes ==
  ASSUME TypeOK,
         \/ Start \/ (\E p \in Proc : StartProc(p)) \/ Attach
         \/ BeginExit \/ SecondSignal \/ RunStop
         \/ \E s \in Script : Step(s)
         \/ GhostEnds \/ Tick
  PROVE  TypeOK'
<1> USE SessionAssumption DEF calls, spool, limiter, signals
<1>1. CASE Attach \/ BeginExit
  BY <1>1 DEF Attach, BeginExit, At, StepIn, TypeOK, Script
<1>2. CASE SecondSignal
  BY <1>2 DEF SecondSignal, At, StepIn, TypeOK, Script
<1>3. CASE RunStop
  BY <1>3 DEF RunStop, At, StepIn, Found, Alive, TypeOK, Script
<1>4. ASSUME NEW s \in Script, List(s) PROVE TypeOK'
  BY <1>4 DEF List, At, Alive, TypeOK
<1>5. ASSUME NEW s \in Script, TermCommands(s) PROVE TypeOK'
  BY <1>5 DEF TermCommands, At, End, Command, TypeOK
<1>6. ASSUME NEW s \in Script, TermProcesses(s) PROVE TypeOK'
  <2>1. targets[s] \in SUBSET Proc
    BY DEF TypeOK
  <2>2. QED
    BY <1>6, <2>1, DieTypes DEF TermProcesses, At, TypeOK
<1>7. ASSUME NEW s \in Script, KillPass(s) PROVE TypeOK'
  BY <1>7 DEF KillPass, At, End, Command, TypeOK
<1>8. CASE GhostEnds
  BY <1>8 DEF GhostEnds, TypeOK
<1>9. CASE Start
  <2>1. /\ phase' \in [Script -> {"off", "start", "watch", "begin", "listed", "parents", "kill"}]
        /\ unstarted' \subseteq Proc /\ met' \in BOOLEAN
    BY <1>9 DEF Start, TypeOK, Script
  <2>2. ghost' \subseteq Proc /\ faults' \in 0 .. MaxFaults
    BY <1>9 DEF Start, StepIn, TypeOK
  <2>3. QED
    BY <1>9, <2>1, <2>2 DEF Start, TypeOK
<1>10. ASSUME NEW p \in Proc, StartProc(p) PROVE TypeOK'
  <2>1. /\ pc' \in [Proc -> State] /\ child' \in [Proc -> Command]
        /\ targets' \in [Script -> SUBSET Proc] /\ listed' \in [Script -> SUBSET Proc]
        /\ unstarted' \subseteq Proc /\ pidFiles' \subseteq Proc
    BY <1>10 DEF StartProc, Begin, TypeOK, State, Command, Script
  <2>2. QED
    BY <1>10, <2>1 DEF StartProc, Begin, TypeOK
<1>11. CASE Tick
  <2>1. left' \in [Proc -> Nat] /\ slot' \in Nat
    BY <1>11 DEF Tick, Less, TypeOK
  <2>2. QED
    BY <1>11, <2>1 DEF Tick, TypeOK, scripts
<1>12. QED
  BY <1>1, <1>2, <1>3, <1>4, <1>5, <1>6, <1>7, <1>8, <1>9, <1>10, <1>11 DEF Step

-----------------------------------------------------------------------------
(* An unhindered request stays on its way *)

\* The steps of the workers and of the controller.
LEMMA CallsKeepOnItsWay ==
  ASSUME TypeOK, OnItsWay,
         \/ \E w \in Worker : Claim(w) \/ Kill(w)
         \/ \E p \in Proc : StartCall(p) \/ Finish(p)
         \/ DirectCall \/ Enqueue \/ ReadAnswer \/ GiveUp
  PROVE  OnItsWay'
<1> USE SessionAssumption DEF C
<1> SUFFICES ASSUME prompt', pc'[C] = "waiting"
             PROVE  \/ asked' = "pending" /\ Unhindered' /\ left'[C] = Timeout + Slack
                    \/ /\ asked' = "taken"
                       /\ \E w \in Worker :
                            /\ job'[w] = "mine"
                            /\ \/ pc'[w] = "asleep" /\ left'[w] + Timeout < left'[C]
                               \/ pc'[w] = "calling" /\ left'[w] < left'[C]
                    \/ asked' = "answered" /\ left'[C] > 0
  BY DEF OnItsWay
<1>1. C \in Proc /\ Worker \subseteq Proc /\ C \notin Worker
  BY DEF Proc
<1> DEFINE OnIts(w) == /\ job[w] = "mine"
                       /\ \/ pc[w] = "asleep" /\ left[w] + Timeout < left[C]
                          \/ pc[w] = "calling" /\ left[w] < left[C]
<1> DEFINE Goal == \/ asked' = "pending" /\ Unhindered' /\ left'[C] = Timeout + Slack
                   \/ asked' = "taken" /\ \E w \in Worker : OnIts(w)'
                   \/ asked' = "answered" /\ left'[C] > 0
<1>2. ASSUME NEW w \in Worker, Claim(w) PROVE Goal
  <2>1. prompt /\ pc[C] = "waiting" /\ left'[C] = left[C]
    BY <1>1, <1>2 DEF Claim, AwaitSlot, Enter, TypeOK
  <2>2. CASE asked = "pending"
    <3>1. Unhindered /\ left[C] = Timeout + Slack
      BY <2>1, <2>2 DEF OnItsWay
    <3>2. asked' = "taken" /\ job'[w] = "mine"
      BY <1>2, <2>2, <3>1 DEF Claim, Unhindered, TypeOK
    <3>3. pc'[w] = "asleep" /\ left'[w] = slot
      BY <1>1, <1>2 DEF Claim, AwaitSlot, Enter, TypeOK
    <3>4. OnIts(w)'
      BY <2>1, <3>1, <3>2, <3>3 DEF Unhindered, TypeOK
    <3>5. QED
      BY <3>2, <3>4
  <2>3. CASE asked = "taken"
    <3>1. PICK v \in Worker : OnIts(v)
      BY <2>1, <2>3 DEF OnItsWay
    <3>2. v # w /\ asked' = "taken"
      BY <1>2, <2>3, <3>1 DEF Claim
    <3>3. OnIts(v)'
      BY <1>1, <1>2, <2>1, <3>1, <3>2 DEF Claim, AwaitSlot, Enter, TypeOK
    <3>4. QED
      BY <3>2, <3>3
  <2>4. CASE asked = "answered"
    BY <1>2, <2>1, <2>4 DEF Claim, OnItsWay
  <2>5. QED
    BY <2>1, <2>2, <2>3, <2>4 DEF OnItsWay
<1>3. ASSUME NEW p \in Proc, StartCall(p) PROVE Goal
  <2>1. p # C /\ prompt /\ pc[C] = "waiting" /\ left'[C] = left[C]
    BY <1>1, <1>3 DEF StartCall, Enter, TypeOK
  <2>2. CASE asked = "pending"
    BY <1>1, <1>3, <2>1, <2>2
      DEF StartCall, Enter, Unhindered, OnItsWay, TypeOK, spool, limiter
  <2>3. CASE asked = "taken"
    <3>1. PICK v \in Worker : OnIts(v)
      BY <2>1, <2>3 DEF OnItsWay
    <3>2. CASE v = p
      <4>1. pc[p] = "asleep" /\ left[p] = 0 /\ pc'[p] = "calling" /\ left'[p] = Timeout
        BY <1>3 DEF StartCall, Enter, TypeOK
      <4>2. OnIts(v)'
        BY <1>3, <2>1, <3>1, <3>2, <4>1 DEF StartCall
      <4>3. QED
        BY <1>3, <2>3, <4>2 DEF StartCall, spool
    <3>3. CASE v # p
      <4>1. OnIts(v)'
        BY <1>1, <1>3, <2>1, <3>1, <3>3 DEF StartCall, Enter, TypeOK
      <4>2. QED
        BY <1>3, <2>3, <4>1 DEF StartCall, spool
    <3>4. QED
      BY <3>2, <3>3
  <2>4. CASE asked = "answered"
    BY <1>3, <2>1, <2>4 DEF StartCall, spool, OnItsWay
  <2>5. QED
    BY <2>1, <2>2, <2>3, <2>4 DEF OnItsWay
<1>4. ASSUME NEW p \in Proc, Finish(p) PROVE Goal
  <2>1. p # C /\ p \in Worker /\ prompt /\ pc[C] = "waiting" /\ left'[C] = left[C]
    BY <1>1, <1>4 DEF Finish, Enter, TypeOK, Proc
  <2>2. asked' = IF job[p] = "mine" THEN "answered" ELSE asked
    BY <1>4, <2>1 DEF Finish
  <2>3. left[C] \in Nat /\ \A w \in Worker : left[w] \in Nat
    BY <1>1 DEF TypeOK
  <2>4. CASE asked = "pending"
    <3>1. Unhindered' /\ left[C] = Timeout + Slack /\ left[C] > 0
      <4>1. Unhindered /\ left[C] = Timeout + Slack
        BY <2>1, <2>4 DEF OnItsWay
      <4>2. PICK v \in Worker : pc[v] = "idle"
        BY <4>1 DEF Unhindered
      <4>3. pc'[v] = "idle"
        BY <1>1, <1>4, <2>1, <4>2 DEF Finish, Enter, TypeOK
      <4>4. UNCHANGED <<backlog, slot>>
        BY <1>4 DEF Finish, limiter
      <4>5. QED
        BY <4>1, <4>3, <4>4 DEF Unhindered
    <3>2. QED
      BY <2>1, <2>2, <2>4, <3>1
  <2>5. CASE asked = "taken"
    <3>1. PICK v \in Worker : OnIts(v)
      BY <2>1, <2>5 DEF OnItsWay
    <3>2. left[C] > 0
      BY <2>3, <3>1
    <3>3. CASE job[p] = "mine"
      BY <2>1, <2>2, <3>2, <3>3
    <3>4. CASE job[p] # "mine"
      <4>1. OnIts(v)'
        BY <1>1, <1>4, <2>1, <3>1, <3>4 DEF Finish, Enter, TypeOK
      <4>2. QED
        BY <2>2, <2>5, <3>4, <4>1
    <3>5. QED
      BY <3>3, <3>4
  <2>6. CASE asked = "answered"
    BY <2>1, <2>2, <2>6 DEF OnItsWay
  <2>7. QED
    BY <2>1, <2>4, <2>5, <2>6 DEF OnItsWay
<1>5. CASE Enqueue
  <2>1. UNCHANGED <<backlog, slot>> /\ Unhindered
    BY <1>5 DEF Enqueue, limiter
  <2>2. PICK v \in Worker : pc[v] = "idle"
    BY <2>1 DEF Unhindered
  <2>3. pc'[v] = "idle" /\ left'[C] = Timeout + Slack /\ asked' = "pending"
    BY <1>1, <1>5, <2>2 DEF Enqueue, Enter, TypeOK
  <2>4. QED
    BY <2>1, <2>3 DEF Unhindered
<1>6. CASE DirectCall \/ ReadAnswer
  BY <1>1, <1>6 DEF DirectCall, AwaitSlot, ReadAnswer, Enter, TypeOK
<1>7. CASE GiveUp \/ \E w \in Worker : Kill(w)
  BY <1>7 DEF GiveUp, Kill, Die
<1>8. QED
  BY <1>2, <1>3, <1>4, <1>5, <1>6, <1>7

\* The steps of the scripts and of the clock: time passes only when nobody has
\* anything to do, so that neither a claim nor the start of a call is late.
LEMMA ScriptsKeepOnItsWay ==
  ASSUME TypeOK, OnItsWay, C \in Alive => unstarted = {},
         \/ Start \/ (\E p \in Proc : StartProc(p)) \/ Attach
         \/ BeginExit \/ SecondSignal \/ RunStop
         \/ \E s \in Script : Step(s)
         \/ GhostEnds \/ Tick \/ UNCHANGED vars
  PROVE  OnItsWay'
<1> USE SessionAssumption
<1>1. C \in Proc /\ Worker \subseteq Proc /\ C \notin Worker
  BY DEF Proc, C
<1>2. CASE \/ Start \/ Attach \/ BeginExit \/ SecondSignal \/ RunStop \/ GhostEnds
           \/ UNCHANGED vars
           \/ \E s \in Script : List(s) \/ TermCommands(s) \/ KillPass(s)
  <2>1. UNCHANGED <<pc, left, job, asked, backlog, slot, prompt>>
    BY <1>2 DEF Start, Attach, BeginExit, SecondSignal, RunStop, GhostEnds, vars, calls,
                spool, limiter, List, TermCommands, KillPass
  <2>2. QED
    BY <2>1 DEF OnItsWay, Unhindered
<1>3. CASE \E s \in Script : TermProcesses(s)
  BY <1>1, <1>3 DEF TermProcesses, Die, OnItsWay
<1>4. ASSUME NEW p \in Proc, StartProc(p) PROVE OnItsWay'
  <2>1. C \notin Alive /\ pc[C] = "dead"
    BY <1>1, <1>4 DEF StartProc, Alive
  <2>2. pc'[C] # "waiting"
    BY <1>1, <1>4, <2>1 DEF StartProc, Begin, TypeOK
  <2>3. QED
    BY <2>2 DEF OnItsWay
<1>5. CASE Tick
  <2>1. UNCHANGED <<pc, job, asked, backlog, prompt>>
    BY <1>5 DEF Tick, spool
  <2>2. \A p \in Proc : left'[p] = Less(left[p]) /\ left[p] \in Nat
    BY <1>5 DEF Tick, TypeOK
  <2>3. SUFFICES ASSUME prompt, pc[C] = "waiting" PROVE OnItsWay'
    BY <2>1 DEF OnItsWay
  <2>4. left[C] # 0 /\ asked # "answered"
    BY <1>5, <2>3 DEF Tick, Urgent
  <2>5. asked # "pending"
    BY <1>5, <2>3 DEF Tick, Urgent, OnItsWay, Unhindered
  <2>6. PICK v \in Worker : /\ job[v] = "mine"
                            /\ \/ pc[v] = "asleep" /\ left[v] + Timeout < left[C]
                               \/ pc[v] = "calling" /\ left[v] < left[C]
    BY <2>3, <2>4, <2>5 DEF OnItsWay
  <2>7. left[v] # 0
    BY <1>1, <1>5, <2>6 DEF Tick, Urgent
  <2>8. left'[v] = left[v] - 1 /\ left'[C] = left[C] - 1
    BY <1>1, <2>2, <2>4, <2>7 DEF Less
  <2>9. \/ pc[v] = "asleep" /\ left'[v] + Timeout < left'[C]
        \/ pc[v] = "calling" /\ left'[v] < left'[C]
    BY <1>1, <2>2, <2>6, <2>8
  <2>10. asked = "taken"
    BY <2>3, <2>4, <2>5 DEF OnItsWay
  <2>11. QED
    BY <2>1, <2>6, <2>9, <2>10 DEF OnItsWay
<1>6. QED
  BY <1>2, <1>3, <1>5, <1>4 DEF Step

-----------------------------------------------------------------------------
(* Stopping: the processes that the supervisor and stop.sh know *)

\* Steps that neither bring a process to life nor end one, and leave alone what the
\* scripts know.
LEMMA KnowledgeUntouched ==
  ASSUME TypeOK,
         \/ \E w \in Worker : Claim(w)
         \/ \E p \in Proc : StartCall(p) \/ Finish(p)
         \/ DirectCall \/ Enqueue \/ ReadAnswer \/ GhostEnds \/ Tick \/ UNCHANGED vars
  PROVE  Alive' \subseteq Alive /\ UNCHANGED <<phase, targets, unstarted, met>>
<1> USE DEF Alive, TypeOK
<1>1. CASE \E w \in Worker : Claim(w)
  BY <1>1 DEF Claim, AwaitSlot, Enter, scripts, signals
<1>2. ASSUME NEW p \in Proc, StartCall(p) \/ Finish(p)
      PROVE  Alive' \subseteq Alive /\ UNCHANGED <<phase, targets, unstarted, met>>
  BY <1>2 DEF StartCall, Finish, Enter, scripts, signals
<1>3. CASE DirectCall \/ Enqueue \/ ReadAnswer
  BY <1>3 DEF DirectCall, AwaitSlot, Enqueue, ReadAnswer, Enter, scripts, signals
<1>4. CASE GhostEnds \/ Tick \/ UNCHANGED vars
  BY <1>4 DEF GhostEnds, Tick, vars, calls, scripts, signals
<1>5. QED
  BY <1>1, <1>2, <1>3, <1>4

\* Whoever ends is no target any more, of either script.
LEMMA DeadNoTargets ==
  ASSUME TypeOK, NEW P \in SUBSET Proc, Die(P)
  PROVE  /\ Alive' = Alive \ P
         /\ \A s \in Script : targets'[s] = targets[s] \ P
BY DEF Die, Alive, TypeOK

\* What the supervisor knows stays complete.
LEMMA NextSupervisorKnowsAll ==
  ASSUME TypeOK, SupervisorKnowsAll, [Next]_vars
  PROVE  SupervisorKnowsAll'
<1> USE DEF SupervisorKnowsAll, SupervisorEndsAll
<1>1. ASSUME Alive' \subseteq Alive, UNCHANGED <<phase, targets>> PROVE SupervisorKnowsAll'
  BY <1>1
<1>2. CASE Start
  BY <1>2 DEF Start, Alive, calls, Script, TypeOK
<1>3. ASSUME NEW p \in Proc, StartProc(p) PROVE SupervisorKnowsAll'
  <2>1. phase'["supervisor"] = "start"
    BY <1>3 DEF StartProc, Begin
  <2>2. Alive' \subseteq Alive \union {p}
    BY <1>3 DEF StartProc, Begin, Alive, TypeOK
  <2>3. targets'["supervisor"] = targets["supervisor"] \union {p}
    BY <1>3 DEF StartProc, Begin, Script, TypeOK
  <2>4. QED
    BY <1>3, <2>1, <2>2, <2>3 DEF StartProc, Begin
<1>4. CASE GiveUp \/ \E w \in Worker : Kill(w)
  <2>1. PICK P \in SUBSET Proc : Die(P)
    BY <1>4 DEF GiveUp, Kill, Proc
  <2>2. UNCHANGED phase
    BY <1>4 DEF GiveUp, Kill
  <2>3. QED
    BY <2>1, <2>2, DeadNoTargets DEF Script
<1>5. CASE TermProcesses("supervisor")
  <2>1. targets["supervisor"] \in SUBSET Proc /\ Die(targets["supervisor"])
    BY <1>5 DEF TermProcesses, TypeOK, Script
  <2>2. phase["supervisor"] = "parents" /\ phase'["supervisor"] = "kill"
    BY <1>5 DEF TermProcesses, At, TypeOK, Script
  <2>3. QED
    BY <2>1, <2>2, DeadNoTargets
<1>6. CASE TermProcesses("stop")
  <2>1. targets["stop"] \in SUBSET Proc /\ Die(targets["stop"])
    BY <1>6 DEF TermProcesses, TypeOK, Script
  <2>2. phase'["supervisor"] = phase["supervisor"]
    BY <1>6 DEF TermProcesses, At, TypeOK, Script
  <2>3. QED
    BY <2>1, <2>2, DeadNoTargets DEF Script
<1>7. CASE SecondSignal
  BY <1>7 DEF SecondSignal, At, TypeOK, Script
<1>8. CASE RunStop
  <2>1. /\ phase'["supervisor"] = phase["supervisor"]
        /\ targets'["supervisor"] = targets["supervisor"]
    BY <1>8 DEF RunStop, At, TypeOK, Script
  <2>2. QED
    BY <1>8, <2>1 DEF RunStop, calls, Alive
<1>9. CASE Attach \/ BeginExit \/ \E s \in Script : List(s) \/ TermCommands(s) \/ KillPass(s)
  <2>1. UNCHANGED targets /\ Alive' = Alive
    BY <1>9 DEF Attach, BeginExit, List, TermCommands, KillPass, Alive, calls, signals
  <2>2. \/ phase'["supervisor"] = phase["supervisor"]
        \/ /\ phase["supervisor"] \in {"start", "watch", "begin", "listed"}
           /\ phase'["supervisor"] # "kill"
        \/ phase'["supervisor"] = "off"
    BY <1>9 DEF Attach, BeginExit, List, TermCommands, KillPass, At, TypeOK, Script
  <2>3. QED
    BY <2>1, <2>2
<1>10. QED
  BY <1>1, <1>2, <1>3, <1>4, <1>5, <1>6, <1>7, <1>8, <1>9, KnowledgeUntouched
    DEF Next, Step, Script

\* What a stop.sh that has met the controller knows stays complete.
LEMMA NextStopKnowsAll ==
  ASSUME TypeOK, StopKnowsAll, [Next]_vars
  PROVE  StopKnowsAll'
<1> USE DEF StopKnowsAll, StopEndsAll
<1>1. ASSUME Alive' \subseteq Alive, UNCHANGED <<phase, targets, unstarted, met>>
      PROVE  StopKnowsAll'
  BY <1>1
<1>2. CASE Start
  BY <1>2 DEF Start, Alive, calls
<1>3. ASSUME NEW p \in Proc, StartProc(p) PROVE StopKnowsAll'
  <2>1. ~met' /\ C \notin Alive
    BY <1>3 DEF StartProc, Begin
  <2>2. C \in Alive' => p = C
    BY <1>3, <2>1 DEF StartProc, Begin, Alive, TypeOK
  <2>3. p = C => unstarted' = {}
    BY <1>3 DEF StartProc, Begin
  <2>4. QED
    BY <2>1, <2>2, <2>3
<1>4. CASE GiveUp \/ \E w \in Worker : Kill(w)
  <2>1. PICK P \in SUBSET Proc : Die(P)
    BY <1>4 DEF GiveUp, Kill, Proc
  <2>2. UNCHANGED <<phase, unstarted, met>>
    BY <1>4 DEF GiveUp, Kill
  <2>3. QED
    BY <2>1, <2>2, DeadNoTargets DEF Script
<1>5. CASE TermProcesses("stop")
  <2>1. targets["stop"] \in SUBSET Proc /\ Die(targets["stop"])
    BY <1>5 DEF TermProcesses, TypeOK, Script
  <2>2. phase["stop"] = "parents" /\ phase'["stop"] = "kill"
    BY <1>5 DEF TermProcesses, At, TypeOK, Script
  <2>3. UNCHANGED <<unstarted, met>>
    BY <1>5 DEF TermProcesses
  <2>4. QED
    BY <2>1, <2>2, <2>3, DeadNoTargets
<1>6. CASE TermProcesses("supervisor")
  <2>1. targets["supervisor"] \in SUBSET Proc /\ Die(targets["supervisor"])
    BY <1>6 DEF TermProcesses, TypeOK, Script
  <2>2. phase'["stop"] = phase["stop"]
    BY <1>6 DEF TermProcesses, At, TypeOK, Script
  <2>3. UNCHANGED <<unstarted, met>>
    BY <1>6 DEF TermProcesses
  <2>4. QED
    BY <2>1, <2>2, <2>3, DeadNoTargets DEF Script
<1>7. CASE SecondSignal
  <2>1. phase'["stop"] = phase["stop"] /\ targets'["stop"] = targets["stop"]
    BY <1>7 DEF SecondSignal, At, TypeOK, Script
  <2>2. Alive' = Alive /\ UNCHANGED <<unstarted, met>>
    BY <1>7 DEF SecondSignal, calls, Alive
  <2>3. QED
    BY <2>1, <2>2
<1>8. CASE RunStop
  <2>1. phase'["stop"] = "begin" /\ targets'["stop"] = Found
    BY <1>8 DEF RunStop, At, TypeOK, Script
  <2>2. Alive' = Alive /\ UNCHANGED unstarted /\ met' = (C \in Alive)
    BY <1>8 DEF RunStop, calls, Alive
  <2>3. Alive \subseteq Found
    BY DEF Found, Alive
  <2>4. QED
    BY <2>1, <2>2, <2>3
<1>9. CASE Attach \/ BeginExit \/ \E s \in Script : List(s) \/ TermCommands(s) \/ KillPass(s)
  <2>1. UNCHANGED <<targets, unstarted, met>> /\ Alive' = Alive
    BY <1>9 DEF Attach, BeginExit, List, TermCommands, KillPass, Alive, calls, signals
  <2>2. \/ phase'["stop"] = phase["stop"]
        \/ phase["stop"] \in {"begin", "listed"} /\ phase'["stop"] # "kill"
        \/ phase'["stop"] = "off"
    BY <1>9 DEF Attach, BeginExit, List, TermCommands, KillPass, At, TypeOK, Script
  <2>3. QED
    BY <2>1, <2>2
<1>10. QED
  BY <1>1, <1>2, <1>3, <1>4, <1>5, <1>6, <1>7, <1>8, <1>9, KnowledgeUntouched
    DEF Next, Step, Script

-----------------------------------------------------------------------------

\* The inductive invariant holds throughout.
THEOREM SessionInvariance == Spec => []IInv
<1>1. IInv /\ [Next]_vars => IInv'
  <2> SUFFICES ASSUME IInv, [Next]_vars PROVE IInv'
    OBVIOUS
  <2>1. TypeOK'
    <3>1. CASE UNCHANGED vars
      BY <3>1 DEF IInv, TypeOK, vars, calls, spool, limiter, scripts, signals
    <3>2. QED
      BY <3>1, CallTypes, ScriptTypes DEF IInv, Next
  <2>2. OnItsWay'
    BY CallsKeepOnItsWay, ScriptsKeepOnItsWay DEF IInv, StopKnowsAll, Next
  <2>3. QED
    BY <2>1, <2>2, NextStopKnowsAll, NextSupervisorKnowsAll DEF IInv
<1>2. QED
  BY <1>1, InitIInv, PTL DEF Spec

\* Processes, waits, requests and scripts stay in their types, for any number of workers
\* and any intervals: no wait becomes negative, no job is taken out of an empty pending/.
THEOREM SessionTyping == Spec => []TypeOK
<1>1. IInv => TypeOK
  BY DEF IInv
<1>2. QED
  BY <1>1, SessionInvariance, PTL

\* For every timeout, slack and interval and any number of workers: a request
\* that nothing hinders is never at its deadline while the controller waits, so
\* that an LLM call that times out is a failed result and never a TimeoutError.
THEOREM AnsweredInTime == Spec => []PromptInTime
<1>1. IInv => PromptInTime
  <2> SUFFICES ASSUME IInv, prompt, pc[C] = "waiting" PROVE left[C] > 0
    BY DEF PromptInTime
  <2>1. C \in Proc /\ Worker \subseteq Proc
    BY DEF Proc
  <2>2. left[C] \in Nat /\ \A w \in Worker : left[w] \in Nat
    BY <2>1 DEF IInv, TypeOK
  <2>3. Unhindered => Slack > 0
    BY SessionAssumption DEF IInv, TypeOK, Unhindered
  <2>4. QED
    BY <2>2, <2>3, SessionAssumption DEF IInv, OnItsWay
<1>2. QED
  BY <1>1, SessionInvariance, PTL

\* A stop.sh that meets the controller leaves no process of its session behind,
\* whatever became of the pid files and of the supervisor: the controller is the last
\* process that is started, and nothing that stop.sh signals brings another to life.
THEOREM NothingLeft == Spec => []StopEndsAll
<1>1. IInv => StopEndsAll
  BY DEF IInv, StopKnowsAll
<1>2. QED
  BY <1>1, SessionInvariance, PTL

\* When the TERM signals of a supervisor are out, no process is left of those whose pids
\* it has noted, be it that it was stopped in the middle of the start, that stop.sh ran
\* beside it, or that its pid files are gone: it goes by its own list.
THEOREM SupervisorLeavesNothing == Spec => []SupervisorEndsAll
<1>1. IInv => SupervisorEndsAll
  BY DEF IInv, SupervisorKnowsAll
<1>2. QED
  BY <1>1, SessionInvariance, PTL

=============================================================================
