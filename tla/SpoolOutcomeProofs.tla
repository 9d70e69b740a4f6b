------------------------- MODULE SpoolOutcomeProofs -------------------------
(***************************************************************************)
(* Theorems about SpoolQueue, for any set of workers and any bounds: what  *)
(* becomes of a job's payload and of its result.  They rest on IInv, the   *)
(* inductive invariant of SpoolQueueProofs.                                *)
(***************************************************************************)
EXTENDS SpoolQueueProofs

-----------------------------------------------------------------------------
(* The payload.                                                            *)

\* The cross-device fallback unlinks a claim file only after the copy is made.
Copied == \A w \in Worker : wpc[w] = "copied" => held[w] \in running

\* Job j's payload is in some file, or stop.sh --clean deleted it.
Somewhere(j) ==
  \/ j \in pending \union running \union cleaned
  \/ \E w \in Worker : <<j, w>> \in claims
  \/ \E d \in Dir : <<j, d>> \in traces

\* A job's file leaves a directory only for another one.
LEMMA WorkerKeepsPayload ==
  ASSUME IInv, PayloadKept, Copied, NEW w \in Worker, WorkerStep(w) \/ Trouble(w)
  PROVE  PayloadKept' /\ Copied'
<1> USE DEF files, procs, client, bounds, history, Goto
<1>1. \A v \in Worker : held[v] # 0 /\ held[v] = held[w] => v = w
  BY DEF IInv, Ownership, Exclusive
<1>2. wpc \in [Worker -> WorkerState] /\ side \in [Worker -> Dir]
  BY DEF IInv, TypeOK, ProcessesTyped
<1>3. \A v \in Worker : wpc[v] \in Holding => held[v] # 0
  BY DEF IInv, Ownership, Owned
<1>4. submitted' = submitted
  BY DEF WorkerStep, Trouble, Glob, Stat, Take, LoseRace, MoveToRunning, CopyClaim,
     UnlinkClaim, Start, Publish, PublishTo, JobRaises, Rescue, Clear, TakeDenied,
     MoveFails, ClearFails, Kill
<1>5. SUFFICES (\A j \in 1 .. submitted : Somewhere(j) => Somewhere(j)') /\ Copied'
  BY <1>4 DEF PayloadKept, Somewhere
<1>6. CASE Glob(w) \/ Stat(w) \/ LoseRace(w) \/ Start(w) \/ JobRaises(w) \/ Publish(w)
           \/ Rescue(w) \/ TakeDenied(w) \/ Kill(w)
  <2>1. /\ UNCHANGED <<pending, running, claims, traces, cleaned>>
        /\ \A v \in Worker : wpc'[v] = "copied" => wpc[v] = "copied" /\ held'[v] = held[v]
    <3>1. CASE Glob(w) \/ Stat(w) \/ LoseRace(w) \/ TakeDenied(w)
      BY <1>2, <3>1 DEF Glob, Stat, LoseRace, TakeDenied, TryNext
    <3>2. CASE Start(w) \/ JobRaises(w) \/ Publish(w) \/ Rescue(w)
      BY <1>2, <3>2 DEF Start, JobRaises, Publish, Rescue, PublishTo
    <3>3. CASE Kill(w)
      BY <1>2, <3>3 DEF Kill, Release
    <3>4. QED
      BY <1>6, <3>1, <3>2, <3>3
  <2>2. QED
    BY <2>1 DEF Somewhere, Copied
<1>7. CASE Take(w)
  <2>1. \A v \in Worker : wpc'[v] = "copied" => wpc[v] = "copied" /\ held'[v] = held[v]
    BY <1>2, <1>7 DEF Take, IInv, TypeOK, ProcessesTyped
  <2>2. QED
    BY <1>7, <2>1 DEF Take, Somewhere, Copied
<1>8. CASE MoveToRunning(w)
  BY <1>2, <1>8 DEF MoveToRunning, Own, Somewhere, Copied
<1>9. CASE CopyClaim(w)
  BY <1>2, <1>9 DEF CopyClaim, Somewhere, Copied
<1>10. CASE UnlinkClaim(w)
  BY <1>2, <1>10 DEF UnlinkClaim, Own, Somewhere, Copied
<1>11. CASE Clear(w)
  <2>1. wpc[w] \in Holding /\ \A v \in Worker : wpc[v] = "copied" => wpc[v] \in Holding
    BY <1>11 DEF Clear, Holding
  <2>2. Copied'
    BY <1>1, <1>2, <1>3, <1>11, <2>1 DEF Clear, Release, Copied
  <2>3. QED
    BY <1>2, <1>11, <2>2 DEF Clear, Somewhere
<1>12. CASE MoveFails(w)
  <2>1. \A v \in Worker : wpc'[v] = "copied" => wpc[v] = "copied" /\ held'[v] = held[v]
    BY <1>2, <1>12 DEF MoveFails, TryNext, IInv, TypeOK, ProcessesTyped
  <2>2. Copied'
    BY <1>12, <2>1 DEF MoveFails, Copied
  <2>3. UNCHANGED <<running, traces, cleaned>>
    BY <1>12 DEF MoveFails
  <2>4. \/ UNCHANGED <<claims, pending>>
        \/ claims' = claims \ {<<held[w], w>>} /\ pending' = pending \union {held[w]}
    BY <1>12 DEF MoveFails
  <2>5. QED
    BY <2>2, <2>3, <2>4 DEF Somewhere
<1>13. CASE ClearFails(w)
  <2>1. \A v \in Worker : wpc'[v] = "copied" => wpc[v] = "copied" /\ held'[v] = held[v]
    <3>1. CASE wpc[w] = "clear"
      BY <1>2, <1>13, <3>1 DEF ClearFails
    <3>2. CASE wpc[w] # "clear"
      BY <1>2, <1>13, <3>2 DEF ClearFails, Release, IInv, TypeOK, ProcessesTyped
    <3>3. QED
      BY <3>1, <3>2
  <2>2. UNCHANGED <<pending, claims, running, cleaned>> /\ traces \subseteq traces'
    BY <1>13 DEF ClearFails
  <2>3. QED
    BY <2>1, <2>2 DEF Somewhere, Copied
<1>14. QED
  BY <1>6, <1>7, <1>8, <1>9, <1>10, <1>11, <1>12, <1>13 DEF WorkerStep, Trouble

\* So does every other step; only the deletion of stop.sh --clean is recorded.
LEMMA NextPayload == IInv /\ PayloadKept /\ Copied /\ [Next]_vars => PayloadKept' /\ Copied'
<1> SUFFICES ASSUME IInv, PayloadKept, Copied, [Next]_vars
             PROVE  PayloadKept' /\ Copied'
  OBVIOUS
<1> USE DEF files, procs, client, bounds, history
<1>1. CASE \E w \in Worker : WorkerStep(w) \/ Trouble(w)
  BY <1>1, WorkerKeepsPayload
<1>2. CASE Enqueue
  BY <1>2 DEF Enqueue, IInv, TypeOK, ClientTyped, PayloadKept, Copied
<1>3. CASE CheckDone \/ CheckFailed \/ WaitTimesOut \/ ControllerExits \/ UNCHANGED vars
  <2>1. UNCHANGED <<files, procs, submitted, cleaned>>
    BY <1>3 DEF CheckDone, CheckFailed, Poll, WaitTimesOut, ControllerExits, vars
  <2>2. QED
    BY <2>1 DEF PayloadKept, Copied
<1>4. CASE Clean
  <2>1. Copied'
    BY <1>4 DEF Clean, AllDown, Alive, Copied
  <2>2. QED
    BY <1>4, <2>1 DEF Clean, PayloadKept
<1>5. CASE Resume
  BY <1>5 DEF Resume, PayloadKept, Copied
<1>6. QED
  BY <1>1, <1>2, <1>3, <1>4, <1>5 DEF Next, Controller

\* "Preserve claimed job payload for traceability": whatever step fails or is the
\* last before a crash, the payload of every enqueued job stays on disk.
THEOREM PayloadNeverLost == Spec => []PayloadKept
<1>1. Init => PayloadKept /\ Copied
  BY SpoolAssumption DEF Init, PayloadKept, Copied
<1>2. QED
  BY <1>1, NextPayload, Invariance, PTL DEF Spec

-----------------------------------------------------------------------------
(* The result.                                                             *)

\* A job that a worker handles beyond Start, or that has a result, was started.
Worked ==
  /\ \A w \in Worker : wpc[w] \in Executing => executions[held[w]] > 0
  /\ \A j \in Job : HasResult(j) => executions[j] > 0

\* What the controller read is on disk.
Read == \A j \in Job : answer[j] # "none" => <<j, answer[j]>> \in results

\* Without a failed file operation the handler of the loop runs only for a job
\* without a result, and so there is one result.
Single ==
  faults = 0 =>
    /\ \A w \in Worker : wpc[w] = "rescue" => ~HasResult(held[w])
    /\ \A j \in Job : \A d, e \in Dir : <<j, d>> \in results /\ <<j, e>> \in results => d = e

Outcome == Worked /\ Read /\ Single

\* A step that publishes nothing and starts nothing.
LEMMA QuietKeepsOutcome ==
  ASSUME Outcome, IInv, UNCHANGED <<results, answer, executions>>,
         faults' \in Nat, faults' = 0 => faults = 0,
         \A v \in Worker : wpc'[v] \in Executing =>
           wpc[v] \in Executing /\ held'[v] = held[v],
         faults' = 0 => \A v \in Worker : wpc'[v] = "rescue" => ~HasResult(held'[v])
  PROVE  Outcome'
<1>1. Worked' /\ Read'
  BY DEF Outcome, Worked, Read, HasResult
<1>2. Single'
  BY DEF Outcome, Single, HasResult
<1>3. QED
  BY <1>1, <1>2 DEF Outcome

\* complete() adds a result for the job that the worker holds.
LEMMA PublishKeepsOutcome ==
  ASSUME Outcome, IInv, NEW w \in Worker, NEW d \in Dir, NEW s,
         s \in {"clear", "rescued"},
         \/ wpc[w] = "work"
         \/ wpc[w] = "rescue",
         PublishTo(w, d, s)
  PROVE  Outcome'
<1> USE DEF PublishTo, history, bounds, client, Goto
<1>1. held[w] \in Job /\ \A v \in Worker : held[v] = held[w] => v = w
  BY HeldIsJob DEF IInv, Ownership, Exclusive, Owned, Holding, Job
<1>2. executions[held[w]] > 0
  BY DEF Outcome, Worked, Executing
<1>3. \A v \in Worker : /\ v # w => wpc'[v] = wpc[v]
                        /\ wpc'[v] \in Executing => wpc[v] \in Executing
                        /\ held'[v] = held[v]
  BY DEF IInv, TypeOK, ProcessesTyped, Executing
<1>4. faults = 0 => ~HasResult(held[w])
  BY DEF Outcome, Single, IInv, Ownership, Reported
<1>5. Worked'
  BY <1>2, <1>3 DEF Outcome, Worked, HasResult
<1>6. Read'
  BY DEF Outcome, Read
<1>7. Single'
  <2>1. \A v \in Worker : wpc'[v] = "rescue" => v # w /\ wpc[v] = "rescue" /\ held'[v] # held[w]
    BY <1>1, <1>3 DEF IInv, TypeOK, ProcessesTyped
  <2>2. faults = 0 => \A v \in Worker : wpc'[v] = "rescue" => ~HasResult(held[v])'
    BY <2>1 DEF Outcome, Single, HasResult
  <2>3. faults = 0 => \A j \in Job : \A c, e \in Dir :
          <<j, c>> \in results' /\ <<j, e>> \in results' => c = e
    BY <1>4 DEF Outcome, Single, HasResult
  <2>4. QED
    BY <2>2, <2>3 DEF Single
<1>8. QED
  BY <1>5, <1>6, <1>7 DEF Outcome

\* Every step of the queue keeps a job to one outcome.
LEMMA NextOutcome == IInv /\ Outcome /\ [Next]_vars => Outcome'
<1> SUFFICES ASSUME IInv, Outcome, [Next]_vars PROVE Outcome'
  OBVIOUS
<1> USE DEF files, procs, client, bounds, history, Goto
<1>1. /\ wpc \in [Worker -> WorkerState] /\ held \in [Worker -> 0 .. MaxJobs]
      /\ faults \in Nat /\ restarts \in Nat
  BY SpoolAssumption DEF IInv, TypeOK, ProcessesTyped, HistoryTyped
<1>2. ASSUME NEW w \in Worker, Glob(w) \/ Stat(w) \/ Take(w) \/ LoseRace(w)
             \/ MoveToRunning(w) \/ CopyClaim(w) \/ UnlinkClaim(w)
      PROVE  Outcome'
  <2>1. /\ UNCHANGED <<results, answer, executions, faults>>
        /\ wpc'[w] \notin Executing
        /\ \A v \in Worker : v # w => wpc'[v] = wpc[v] /\ held'[v] = held[v]
    <3>1. CASE Glob(w) \/ Stat(w) \/ LoseRace(w)
      BY <1>1, <3>1 DEF Glob, Stat, LoseRace, TryNext, Executing
    <3>2. CASE Take(w)
      BY <1>1, <3>2 DEF Take, Executing
    <3>3. CASE MoveToRunning(w) \/ CopyClaim(w) \/ UnlinkClaim(w)
      BY <1>1, <3>3 DEF MoveToRunning, CopyClaim, UnlinkClaim, Own, Executing
    <3>4. QED
      BY <1>2, <3>1, <3>2, <3>3
  <2>2. QED
    BY <1>1, <2>1, QuietKeepsOutcome DEF Executing, Outcome, Single
<1>3. ASSUME NEW w \in Worker, Start(w) PROVE Outcome'
  <2>1. held[w] \in Job /\ executions \in [Job -> Nat]
    BY <1>3, HeldIsJob DEF IInv, TypeOK, HistoryTyped, Ownership, Start, Holding
  <2>2. \A j \in Job : executions'[j] > 0 <=> executions[j] > 0 \/ j = held[w]
    BY <1>3, <2>1 DEF Start
  <2>3. \A v \in Worker : v # w => wpc'[v] = wpc[v]
    BY <1>1, <1>3 DEF Start
  <2>4. \A v \in Worker : wpc[v] \in Executing => held[v] \in Job
    BY HeldIsJob DEF IInv, Ownership, Executing, Holding
  <2>5. Worked'
    <3>1. \A v \in Worker : wpc'[v] \in Executing => executions'[held[v]] > 0
      BY <1>3, <2>1, <2>2, <2>3, <2>4 DEF Outcome, Worked
    <3>2. \A j \in Job : HasResult(j) => executions'[j] > 0
      BY <2>1, <2>2 DEF Outcome, Worked
    <3>3. QED
      BY <1>3, <3>1, <3>2 DEF Start, Worked, HasResult
  <2>6. Read' /\ Single'
    BY <1>1, <1>3, <2>3 DEF Start, Outcome, Read, Single, HasResult
  <2>7. QED
    BY <2>5, <2>6 DEF Outcome
<1>4. ASSUME NEW w \in Worker, Publish(w) \/ Rescue(w) PROVE Outcome'
  BY <1>4, PublishKeepsOutcome DEF Publish, Rescue, Dir
<1>5. ASSUME NEW w \in Worker, JobRaises(w) PROVE Outcome'
  <2>1. /\ UNCHANGED <<results, answer, executions, faults, held>>
        /\ wpc[w] = "work" /\ ~HasResult(held[w])
        /\ \A v \in Worker : v # w => wpc'[v] = wpc[v]
    BY <1>1, <1>5 DEF JobRaises, IInv, Ownership, Reported
  <2>2. QED
    BY <1>1, <2>1, QuietKeepsOutcome DEF Executing, Outcome, Single
<1>6. ASSUME NEW w \in Worker, Clear(w) \/ Kill(w) PROVE Outcome'
  <2>1. /\ UNCHANGED <<results, answer, executions, faults>>
        /\ wpc'[w] \notin Executing
        /\ \A v \in Worker : v # w => wpc'[v] = wpc[v] /\ held'[v] = held[v]
    BY <1>1, <1>6 DEF Clear, Kill, Release, Executing
  <2>2. QED
    BY <1>1, <2>1, QuietKeepsOutcome DEF Executing, Outcome, Single
<1>7. ASSUME NEW w \in Worker, TakeDenied(w) \/ MoveFails(w) \/ ClearFails(w)
      PROVE  Outcome'
  <2>1. UNCHANGED <<results, answer, executions>> /\ faults' = faults + 1
    BY <1>7 DEF TakeDenied, MoveFails, ClearFails
  <2>2. \A v \in Worker : wpc'[v] \in Executing => wpc[v] \in Executing /\ held'[v] = held[v]
    <3>1. CASE TakeDenied(w)
      BY <1>1, <3>1 DEF TakeDenied, TryNext, Executing
    <3>2. CASE MoveFails(w)
      BY <1>1, <3>2 DEF MoveFails, TryNext, Executing
    <3>3. CASE ClearFails(w) /\ wpc[w] = "clear"
      BY <1>1, <3>3 DEF ClearFails, Executing
    <3>4. CASE ClearFails(w) /\ wpc[w] # "clear"
      BY <1>1, <3>4 DEF ClearFails, Release, Executing
    <3>5. QED
      BY <1>7, <3>1, <3>2, <3>3, <3>4
  <2>3. QED
    BY <1>1, <2>1, <2>2, QuietKeepsOutcome
<1>8. CASE CheckDone \/ CheckFailed
  <2>1. PICK d \in Dir : /\ UNCHANGED <<results, executions, faults, wpc, held>>
                         /\ \/ UNCHANGED answer
                            \/ /\ answer' = [answer EXCEPT ![submitted] = d]
                               /\ <<submitted, d>> \in results
    BY <1>8 DEF CheckDone, CheckFailed, Poll, Dir
  <2>2. Read'
    BY <2>1 DEF Outcome, Read, IInv, TypeOK, ClientTyped
  <2>3. Worked' /\ Single'
    BY <2>1 DEF Outcome, Worked, Single, HasResult
  <2>4. QED
    BY <2>2, <2>3 DEF Outcome
<1>9. CASE Enqueue \/ WaitTimesOut \/ ControllerExits \/ Clean \/ UNCHANGED vars
  <2>1. UNCHANGED <<results, executions, faults, wpc, held, answer>>
    BY <1>9 DEF Enqueue, WaitTimesOut, ControllerExits, Clean, vars
  <2>2. QED
    BY <2>1 DEF Outcome, Worked, Read, Single, HasResult
<1>10. CASE Resume
  BY <1>10 DEF Resume, Outcome, Worked, Read, Single, HasResult, Executing
<1>11. QED
  BY <1>2, <1>3, <1>4, <1>5, <1>6, <1>7, <1>8, <1>9, <1>10
     DEF Next, Controller, WorkerStep, Trouble

\* As long as no file operation fails, done/ and failed/ never both hold a result of
\* one job, whatever worker dies where, and the answer read is the one on disk.
THEOREM OneOutcome == Spec => []OutcomeUnique
<1>1. Init => Outcome
  BY SpoolAssumption DEF Init, Outcome, Worked, Read, Single, HasResult, Executing
<1>2. IInv /\ Outcome => OutcomeUnique
  BY DEF Outcome, Worked, Read, Single, OutcomeUnique, HasResult, IInv, TypeOK, ClientTyped
<1>3. QED
  BY <1>1, <1>2, NextOutcome, Invariance, PTL DEF Spec
=============================================================================
