-------------------------- MODULE SpoolQueueProofs --------------------------
(***************************************************************************)
(* Theorems about SpoolQueue, for any set of workers and any bounds: jobs  *)
(* are executed at most once, the race inside claim() never kills the last *)
(* worker, and the queue implements the life cycle of a job.               *)
(***************************************************************************)
EXTENDS SpoolQueue, TLAPS

-----------------------------------------------------------------------------
(* The inductive invariant.  TypeOK alone is not inductive: a worker that   *)
(* handles a job must be known to hold one.                                *)

\* A worker holds a job exactly while it is between the claim and the release.
Owned == \A w \in Worker : held[w] # 0 <=> wpc[w] \in Holding

\* No two workers hold the same job, and a held job is not pending.
Exclusive ==
  /\ \A v, w \in Worker : held[v] # 0 /\ held[v] = held[w] => v = w
  /\ \A w \in Worker : held[w] \notin pending

\* Only jobs that have been enqueued are anywhere.
Known ==
  /\ \A j \in pending : j <= submitted
  /\ \A w \in Worker : held[w] <= submitted

Fresh(j) == executions[j] = 0 /\ ~HasResult(j)

\* Work on a job does not begin before its claim is complete.
Unstarted ==
  /\ \A j \in Job : j \in pending \/ j > submitted => Fresh(j)
  /\ \A w \in Worker : wpc[w] \in {"move", "copied", "start"} => Fresh(held[w])

\* A result appears exactly when complete() publishes it.
Reported ==
  \A w \in Worker :
    /\ wpc[w] = "work" => ~HasResult(held[w])
    /\ wpc[w] \in {"clear", "rescued"} => HasResult(held[w])

Ownership == Owned /\ Exclusive /\ Known /\ Unstarted /\ Reported

IInv == TypeOK /\ Ownership /\ ExecutedAtMostOnce

\* Until a worker is killed: before the first claim no file has left pending/, so
\* every list is up to date; afterwards the last worker to win a claim lists what
\* nobody has taken from since.
UpToDate(w) == Alive(w) /\ (wpc[w] = "stat" => batch[w] \subseteq pending)

Survival ==
  \/ crashed
  \/ IF winner = "none" THEN \A w \in Worker : UpToDate(w) ELSE UpToDate(winner)

-----------------------------------------------------------------------------
(* Each action preserves the inductive invariant.                          *)

\* What a worker holds is a job.
LEMMA HeldIsJob ==
  ASSUME TypeOK, Owned, NEW w \in Worker, wpc[w] \in Holding
  PROVE  held[w] \in Job
  BY SpoolAssumption DEF TypeOK, ProcessesTyped, Owned, Job

\* An empty spool satisfies the inductive invariant.
LEMMA InitIInv == Init => IInv
<1> SUFFICES ASSUME Init PROVE IInv
  OBVIOUS
<1> USE SpoolAssumption DEF Init
<1>1. FilesTyped
  BY DEF FilesTyped
<1>2. ProcessesTyped
  BY DEF ProcessesTyped, WorkerState, Dir
<1>3. ClientTyped
  BY DEF ClientTyped, ControllerState
<1>4. HistoryTyped
  <2>1. crashed \in BOOLEAN
    OBVIOUS
  <2>2. executions \in [Job -> Nat]
    OBVIOUS
  <2>3. QED
    BY <2>1, <2>2 DEF HistoryTyped
<1>5. Ownership
  BY DEF Ownership, Owned, Exclusive, Known, Unstarted, Reported, Fresh, HasResult,
         Holding
<1>6. ExecutedAtMostOnce
  BY DEF ExecutedAtMostOnce
<1>7. QED
  BY <1>1, <1>2, <1>3, <1>4, <1>5, <1>6 DEF IInv, TypeOK

\* The controller's steps: only Enqueue touches a file.
LEMMA ControllerKeepsIInv ==
  ASSUME IInv, Controller
  PROVE  IInv'
<1> USE SpoolAssumption DEF IInv, TypeOK, FilesTyped, ProcessesTyped, ClientTyped,
        HistoryTyped, Job, Dir, WorkerState, ControllerState, Holding, files, procs,
        client, bounds, history, Goto
<1>1. CASE Enqueue
  <2> USE <1>1 DEF Enqueue
  <2>1. FilesTyped'
    OBVIOUS
  <2>2. ProcessesTyped'
    OBVIOUS
  <2>3. ClientTyped'
    OBVIOUS
  <2>4. HistoryTyped'
    OBVIOUS
  <2>5. Ownership'
    BY DEF Ownership, Owned, Exclusive, Known, Unstarted, Reported, Fresh, HasResult
  <2>6. ExecutedAtMostOnce'
    BY DEF ExecutedAtMostOnce
  <2>7. QED
    BY ONLY <2>1, <2>2, <2>3, <2>4, <2>5, <2>6 DEF IInv, TypeOK
<1>2. CASE CheckDone
  <2> USE <1>2 DEF CheckDone, Poll
  <2>1. FilesTyped'
    OBVIOUS
  <2>2. ProcessesTyped'
    OBVIOUS
  <2>3. ClientTyped'
    OBVIOUS
  <2>4. HistoryTyped'
    OBVIOUS
  <2>5. Ownership'
    BY DEF Ownership, Owned, Exclusive, Known, Unstarted, Reported, Fresh, HasResult
  <2>6. ExecutedAtMostOnce'
    BY DEF ExecutedAtMostOnce
  <2>7. QED
    BY ONLY <2>1, <2>2, <2>3, <2>4, <2>5, <2>6 DEF IInv, TypeOK
<1>3. CASE CheckFailed
  <2> USE <1>3 DEF CheckFailed, Poll
  <2>1. FilesTyped'
    OBVIOUS
  <2>2. ProcessesTyped'
    OBVIOUS
  <2>3. ClientTyped'
    OBVIOUS
  <2>4. HistoryTyped'
    OBVIOUS
  <2>5. Ownership'
    BY DEF Ownership, Owned, Exclusive, Known, Unstarted, Reported, Fresh, HasResult
  <2>6. ExecutedAtMostOnce'
    BY DEF ExecutedAtMostOnce
  <2>7. QED
    BY ONLY <2>1, <2>2, <2>3, <2>4, <2>5, <2>6 DEF IInv, TypeOK
<1>4. CASE WaitTimesOut
  <2> USE <1>4 DEF WaitTimesOut
  <2>1. FilesTyped'
    OBVIOUS
  <2>2. ProcessesTyped'
    OBVIOUS
  <2>3. ClientTyped'
    OBVIOUS
  <2>4. HistoryTyped'
    OBVIOUS
  <2>5. Ownership'
    BY DEF Ownership, Owned, Exclusive, Known, Unstarted, Reported, Fresh, HasResult
  <2>6. ExecutedAtMostOnce'
    BY DEF ExecutedAtMostOnce
  <2>7. QED
    BY ONLY <2>1, <2>2, <2>3, <2>4, <2>5, <2>6 DEF IInv, TypeOK
<1>5. CASE ControllerExits
  <2> USE <1>5 DEF ControllerExits
  <2>1. FilesTyped'
    OBVIOUS
  <2>2. ProcessesTyped'
    OBVIOUS
  <2>3. ClientTyped'
    OBVIOUS
  <2>4. HistoryTyped'
    OBVIOUS
  <2>5. Ownership'
    BY DEF Ownership, Owned, Exclusive, Known, Unstarted, Reported, Fresh, HasResult
  <2>6. ExecutedAtMostOnce'
    BY DEF ExecutedAtMostOnce
  <2>7. QED
    BY ONLY <2>1, <2>2, <2>3, <2>4, <2>5, <2>6 DEF IInv, TypeOK
<1>6. QED
  BY <1>1, <1>2, <1>3, <1>4, <1>5 DEF Controller

\* A worker's own steps, from claim() to complete().
LEMMA WorkerKeepsIInv ==
  ASSUME IInv, NEW w \in Worker, WorkerStep(w)
  PROVE  IInv'
<1> USE SpoolAssumption DEF IInv, TypeOK, FilesTyped, ProcessesTyped, ClientTyped,
        HistoryTyped, Job, Dir, WorkerState, ControllerState, Holding, files, procs,
        client, bounds, history, Goto
<1>1. CASE Glob(w)
  <2> USE <1>1 DEF Glob
  <2>1. FilesTyped'
    OBVIOUS
  <2>2. ProcessesTyped'
    OBVIOUS
  <2>3. ClientTyped'
    OBVIOUS
  <2>4. HistoryTyped'
    OBVIOUS
  <2>5. Ownership'
    BY DEF Ownership, Owned, Exclusive, Known, Unstarted, Reported, Fresh, HasResult
  <2>6. ExecutedAtMostOnce'
    BY DEF ExecutedAtMostOnce
  <2>7. QED
    BY ONLY <2>1, <2>2, <2>3, <2>4, <2>5, <2>6 DEF IInv, TypeOK
<1>2. CASE Stat(w)
  <2> USE <1>2 DEF Stat
  <2>1. FilesTyped'
    OBVIOUS
  <2>2. ProcessesTyped'
    OBVIOUS
  <2>3. ClientTyped'
    OBVIOUS
  <2>4. HistoryTyped'
    OBVIOUS
  <2>5. Ownership'
    <3>1. Owned'
      <4>1. wpc[w] \notin Holding /\ wpc'[w] \notin Holding
        OBVIOUS
      <4>2. \A v \in Worker : v # w => wpc'[v] = wpc[v]
        OBVIOUS
      <4>3. QED
        BY <4>1, <4>2 DEF Ownership, Owned
    <3>2. Exclusive'
      BY DEF Ownership, Owned, Exclusive, Known, Unstarted, Reported, Fresh, HasResult
    <3>3. Known'
      BY DEF Ownership, Owned, Exclusive, Known, Unstarted, Reported, Fresh, HasResult
    <3>4. Unstarted'
      BY DEF Ownership, Owned, Exclusive, Known, Unstarted, Reported, Fresh, HasResult
    <3>5. Reported'
      BY DEF Ownership, Owned, Exclusive, Known, Unstarted, Reported, Fresh, HasResult
    <3>6. QED
      BY <3>1, <3>2, <3>3, <3>4, <3>5 DEF Ownership
  <2>6. ExecutedAtMostOnce'
    BY DEF ExecutedAtMostOnce
  <2>7. QED
    BY ONLY <2>1, <2>2, <2>3, <2>4, <2>5, <2>6 DEF IInv, TypeOK
<1>3. CASE Take(w)
  <2> USE <1>3 DEF Take
  <2>1. FilesTyped'
    BY SMTT(60)
  <2>2. ProcessesTyped'
    OBVIOUS
  <2>3. ClientTyped'
    OBVIOUS
  <2>4. HistoryTyped'
    OBVIOUS
  <2>5. Ownership'
    BY SMTT(60) DEF Ownership, Owned, Exclusive, Known, Unstarted, Reported, Fresh, HasResult
  <2>6. ExecutedAtMostOnce'
    BY DEF ExecutedAtMostOnce
  <2>7. QED
    BY ONLY <2>1, <2>2, <2>3, <2>4, <2>5, <2>6 DEF IInv, TypeOK
<1>4. CASE LoseRace(w)
  <2> USE <1>4 DEF LoseRace, TryNext
  <2>1. FilesTyped'
    OBVIOUS
  <2>2. ProcessesTyped'
    OBVIOUS
  <2>3. ClientTyped'
    OBVIOUS
  <2>4. HistoryTyped'
    OBVIOUS
  <2>5. Ownership'
    BY SMTT(60) DEF Ownership, Owned, Exclusive, Known, Unstarted, Reported, Fresh, HasResult
  <2>6. ExecutedAtMostOnce'
    BY DEF ExecutedAtMostOnce
  <2>7. QED
    BY ONLY <2>1, <2>2, <2>3, <2>4, <2>5, <2>6 DEF IInv, TypeOK
<1>5. CASE MoveToRunning(w)
  <2> USE <1>5 DEF MoveToRunning, Own
  <2>1. FilesTyped'
    <3>1. held[w] \in Job
      BY HeldIsJob DEF Ownership
    <3>2. (claims \subseteq Job \X Worker)'
      BY <3>1
    <3>3. (running \subseteq Job)'
      BY <3>1
    <3>4. (pending \subseteq Job /\ results \subseteq Job \X Dir /\ traces \subseteq Job \X Dir)'
      OBVIOUS
    <3>5. QED
      BY <3>2, <3>3, <3>4
  <2>2. ProcessesTyped'
    OBVIOUS
  <2>3. ClientTyped'
    OBVIOUS
  <2>4. HistoryTyped'
    OBVIOUS
  <2>5. Ownership'
    BY DEF Ownership, Owned, Exclusive, Known, Unstarted, Reported, Fresh, HasResult
  <2>6. ExecutedAtMostOnce'
    BY DEF ExecutedAtMostOnce
  <2>7. QED
    BY ONLY <2>1, <2>2, <2>3, <2>4, <2>5, <2>6 DEF IInv, TypeOK
<1>6. CASE CopyClaim(w)
  <2> USE <1>6 DEF CopyClaim
  <2>1. FilesTyped'
    <3>1. held[w] \in Job
      BY HeldIsJob DEF Ownership
    <3>2. (running \subseteq Job)'
      BY <3>1
    <3>3. (pending \subseteq Job /\ claims \subseteq Job \X Worker /\ results \subseteq Job \X Dir /\ traces \subseteq Job \X Dir)'
      OBVIOUS
    <3>4. QED
      BY <3>2, <3>3
  <2>2. ProcessesTyped'
    OBVIOUS
  <2>3. ClientTyped'
    OBVIOUS
  <2>4. HistoryTyped'
    OBVIOUS
  <2>5. Ownership'
    BY DEF Ownership, Owned, Exclusive, Known, Unstarted, Reported, Fresh, HasResult
  <2>6. ExecutedAtMostOnce'
    BY DEF ExecutedAtMostOnce
  <2>7. QED
    BY ONLY <2>1, <2>2, <2>3, <2>4, <2>5, <2>6 DEF IInv, TypeOK
<1>7. CASE UnlinkClaim(w)
  <2> USE <1>7 DEF UnlinkClaim, Own
  <2>1. FilesTyped'
    OBVIOUS
  <2>2. ProcessesTyped'
    OBVIOUS
  <2>3. ClientTyped'
    OBVIOUS
  <2>4. HistoryTyped'
    OBVIOUS
  <2>5. Ownership'
    BY DEF Ownership, Owned, Exclusive, Known, Unstarted, Reported, Fresh, HasResult
  <2>6. ExecutedAtMostOnce'
    BY DEF ExecutedAtMostOnce
  <2>7. QED
    BY ONLY <2>1, <2>2, <2>3, <2>4, <2>5, <2>6 DEF IInv, TypeOK
<1>8. CASE Start(w)
  <2> USE <1>8 DEF Start
  <2>1. FilesTyped'
    OBVIOUS
  <2>2. ProcessesTyped'
    OBVIOUS
  <2>3. ClientTyped'
    OBVIOUS
  <2>4. HistoryTyped'
    <3>1. (crashed \in BOOLEAN)'
      OBVIOUS
    <3>2. (restarts \in 0 .. MaxRestarts /\ faults \in 0 .. MaxFaults)'
      OBVIOUS
    <3>3. (executions \in [Job -> Nat])'
      <4>1. held[w] \in Job /\ executions[held[w]] + 1 \in Nat
        BY HeldIsJob, SMTT(60) DEF Ownership
      <4>2. QED
        BY <4>1
    <3>4. (cleaned \subseteq Job /\ winner \in Worker \union {"none"})'
      OBVIOUS
    <3>5. QED
      BY <3>1, <3>2, <3>3, <3>4
  <2>5. Ownership'
    BY DEF Ownership, Owned, Exclusive, Known, Unstarted, Reported, Fresh, HasResult
  <2>6. ExecutedAtMostOnce'
    <3>1. executions[held[w]] = 0
      BY DEF Ownership, Unstarted, Fresh
    <3>2. QED
      BY <3>1 DEF ExecutedAtMostOnce
  <2>7. QED
    BY ONLY <2>1, <2>2, <2>3, <2>4, <2>5, <2>6 DEF IInv, TypeOK
<1>9. CASE Publish(w)
  <2> USE <1>9 DEF Publish, PublishTo
  <2>1. FilesTyped'
    <3>1. held[w] \in Job
      BY HeldIsJob DEF Ownership
    <3>2. (results \subseteq Job \X Dir)'
      BY <3>1
    <3>3. (pending \subseteq Job /\ claims \subseteq Job \X Worker /\ running \subseteq Job /\ traces \subseteq Job \X Dir)'
      OBVIOUS
    <3>4. QED
      BY <3>2, <3>3
  <2>2. ProcessesTyped'
    OBVIOUS
  <2>3. ClientTyped'
    OBVIOUS
  <2>4. HistoryTyped'
    OBVIOUS
  <2>5. Ownership'
    BY DEF Ownership, Owned, Exclusive, Known, Unstarted, Reported, Fresh, HasResult
  <2>6. ExecutedAtMostOnce'
    BY DEF ExecutedAtMostOnce
  <2>7. QED
    BY ONLY <2>1, <2>2, <2>3, <2>4, <2>5, <2>6 DEF IInv, TypeOK
<1>10. CASE JobRaises(w)
  <2> USE <1>10 DEF JobRaises
  <2>1. FilesTyped'
    OBVIOUS
  <2>2. ProcessesTyped'
    OBVIOUS
  <2>3. ClientTyped'
    OBVIOUS
  <2>4. HistoryTyped'
    OBVIOUS
  <2>5. Ownership'
    BY DEF Ownership, Owned, Exclusive, Known, Unstarted, Reported, Fresh, HasResult
  <2>6. ExecutedAtMostOnce'
    BY DEF ExecutedAtMostOnce
  <2>7. QED
    BY ONLY <2>1, <2>2, <2>3, <2>4, <2>5, <2>6 DEF IInv, TypeOK
<1>11. CASE Rescue(w)
  <2> USE <1>11 DEF Rescue, PublishTo
  <2>1. FilesTyped'
    <3>1. held[w] \in Job
      BY HeldIsJob DEF Ownership
    <3>2. (results \subseteq Job \X Dir)'
      BY <3>1
    <3>3. (pending \subseteq Job /\ claims \subseteq Job \X Worker /\ running \subseteq Job /\ traces \subseteq Job \X Dir)'
      OBVIOUS
    <3>4. QED
      BY <3>2, <3>3
  <2>2. ProcessesTyped'
    OBVIOUS
  <2>3. ClientTyped'
    OBVIOUS
  <2>4. HistoryTyped'
    OBVIOUS
  <2>5. Ownership'
    BY DEF Ownership, Owned, Exclusive, Known, Unstarted, Reported, Fresh, HasResult
  <2>6. ExecutedAtMostOnce'
    BY DEF ExecutedAtMostOnce
  <2>7. QED
    BY ONLY <2>1, <2>2, <2>3, <2>4, <2>5, <2>6 DEF IInv, TypeOK
<1>12. CASE Clear(w)
  <2> USE <1>12 DEF Clear, Release
  <2>1. FilesTyped'
    <3>1. held[w] \in Job
      BY HeldIsJob DEF Ownership
    <3>2. (running \subseteq Job)'
      BY <3>1
    <3>3. (traces \subseteq Job \X Dir)'
      BY <3>1
    <3>4. (pending \subseteq Job /\ claims \subseteq Job \X Worker /\ results \subseteq Job \X Dir)'
      OBVIOUS
    <3>5. QED
      BY <3>2, <3>3, <3>4
  <2>2. ProcessesTyped'
    OBVIOUS
  <2>3. ClientTyped'
    OBVIOUS
  <2>4. HistoryTyped'
    OBVIOUS
  <2>5. Ownership'
    BY DEF Ownership, Owned, Exclusive, Known, Unstarted, Reported, Fresh, HasResult
  <2>6. ExecutedAtMostOnce'
    BY DEF ExecutedAtMostOnce
  <2>7. QED
    BY ONLY <2>1, <2>2, <2>3, <2>4, <2>5, <2>6 DEF IInv, TypeOK
<1>13. QED
  BY <1>1, <1>2, <1>3, <1>4, <1>5, <1>6, <1>7, <1>8, <1>9, <1>10, <1>11, <1>12 DEF WorkerStep

\* Failing file operations and kills.
LEMMA TroubleKeepsIInv ==
  ASSUME IInv, NEW w \in Worker, Trouble(w)
  PROVE  IInv'
<1> USE SpoolAssumption DEF IInv, TypeOK, FilesTyped, ProcessesTyped, ClientTyped,
        HistoryTyped, Job, Dir, WorkerState, ControllerState, Holding, files, procs,
        client, bounds, history, Goto
<1>1. CASE MoveFails(w)
  <2> USE <1>1 DEF MoveFails, TryNext
  <2>1. FilesTyped'
    <3>1. held[w] \in Job
      BY HeldIsJob DEF Ownership
    <3>2. (pending \subseteq Job)'
      BY <3>1
    <3>3. (claims \subseteq Job \X Worker)'
      BY <3>1
    <3>4. (running \subseteq Job /\ results \subseteq Job \X Dir /\ traces \subseteq Job \X Dir)'
      OBVIOUS
    <3>5. QED
      BY <3>2, <3>3, <3>4
  <2>2. ProcessesTyped'
    OBVIOUS
  <2>3. ClientTyped'
    OBVIOUS
  <2>4. HistoryTyped'
    OBVIOUS
  <2>5. Ownership'
    <3>1. Owned'
      BY DEF Ownership, Owned, Exclusive, Known, Unstarted, Reported, Fresh, HasResult
    <3>2. Exclusive'
      BY DEF Ownership, Owned, Exclusive, Known, Unstarted, Reported, Fresh, HasResult
    <3>3. Known'
      <4>1. \A j \in pending' : j \in pending \/ j = held[w]
        OBVIOUS
      <4>2. \A v \in Worker : held'[v] = held[v] \/ held'[v] = 0
        OBVIOUS
      <4>3. submitted' = submitted /\ 0 <= submitted
        OBVIOUS
      <4>4. Known
        BY DEF Ownership
      <4>5. QED
        BY ONLY <4>1, <4>2, <4>3, <4>4 DEF Known
    <3>4. Unstarted'
      BY SMTT(60) DEF Ownership, Owned, Exclusive, Known, Unstarted, Reported, Fresh, HasResult
    <3>5. Reported'
      BY DEF Ownership, Owned, Exclusive, Known, Unstarted, Reported, Fresh, HasResult
    <3>6. QED
      BY <3>1, <3>2, <3>3, <3>4, <3>5 DEF Ownership
  <2>6. ExecutedAtMostOnce'
    BY DEF ExecutedAtMostOnce
  <2>7. QED
    BY ONLY <2>1, <2>2, <2>3, <2>4, <2>5, <2>6 DEF IInv, TypeOK
<1>2. CASE ClearFails(w)
  <2> USE <1>2 DEF ClearFails, Release
  <2>1. FilesTyped'
    OBVIOUS
  <2>2. ProcessesTyped'
    <3>1. CASE wpc[w] = "clear"
      BY <3>1
    <3>2. CASE wpc[w] = "rescued"
      <4>1. /\ wpc' = [wpc EXCEPT ![w] = "dead"]
            /\ held' = [held EXCEPT ![w] = 0]
            /\ batch' = [batch EXCEPT ![w] = {}]
            /\ side' = side
        BY <3>2
      <4>2. QED
        BY <4>1
    <3>3. QED
      BY <3>1, <3>2
  <2>3. ClientTyped'
    OBVIOUS
  <2>4. HistoryTyped'
    <3>1. (crashed \in BOOLEAN)'
      OBVIOUS
    <3>2. (restarts \in 0 .. MaxRestarts /\ faults \in 0 .. MaxFaults)'
      OBVIOUS
    <3>3. (executions \in [Job -> Nat])'
      OBVIOUS
    <3>4. (cleaned \subseteq Job /\ winner \in Worker \union {"none"})'
      OBVIOUS
    <3>5. QED
      BY <3>1, <3>2, <3>3, <3>4
  <2>5. Ownership'
    <3>1. Owned'
      BY SMTT(60) DEF Ownership, Owned, Exclusive, Known, Unstarted, Reported, Fresh, HasResult
    <3>2. Exclusive'
      <4>1. \A v \in Worker : held'[v] = held[v] \/ held'[v] = 0
        OBVIOUS
      <4>2. Exclusive /\ pending' = pending /\ 0 \notin pending
        BY DEF Ownership
      <4>3. QED
        BY ONLY <4>1, <4>2 DEF Exclusive
    <3>3. Known'
      <4>1. \A v \in Worker : held'[v] = held[v] \/ held'[v] = 0
        OBVIOUS
      <4>2. Known /\ pending' = pending /\ submitted' = submitted /\ submitted \in Nat
        BY DEF Ownership
      <4>3. QED
        BY ONLY <4>1, <4>2 DEF Known
    <3>4. Unstarted'
      BY DEF Ownership, Owned, Exclusive, Known, Unstarted, Reported, Fresh, HasResult
    <3>5. Reported'
      BY DEF Ownership, Owned, Exclusive, Known, Unstarted, Reported, Fresh, HasResult
    <3>6. QED
      BY <3>1, <3>2, <3>3, <3>4, <3>5 DEF Ownership
  <2>6. ExecutedAtMostOnce'
    BY DEF ExecutedAtMostOnce
  <2>7. QED
    BY ONLY <2>1, <2>2, <2>3, <2>4, <2>5, <2>6 DEF IInv, TypeOK
<1>3. CASE Kill(w)
  <2> USE <1>3 DEF Kill, Release, Alive
  <2>1. FilesTyped'
    OBVIOUS
  <2>2. ProcessesTyped'
    OBVIOUS
  <2>3. ClientTyped'
    OBVIOUS
  <2>4. HistoryTyped'
    OBVIOUS
  <2>5. Ownership'
    BY DEF Ownership, Owned, Exclusive, Known, Unstarted, Reported, Fresh, HasResult
  <2>6. ExecutedAtMostOnce'
    BY DEF ExecutedAtMostOnce
  <2>7. QED
    BY ONLY <2>1, <2>2, <2>3, <2>4, <2>5, <2>6 DEF IInv, TypeOK
<1>4. CASE TakeDenied(w)
  <2> USE <1>4 DEF TakeDenied, TryNext
  <2>1. FilesTyped'
    OBVIOUS
  <2>2. ProcessesTyped'
    OBVIOUS
  <2>3. ClientTyped'
    OBVIOUS
  <2>4. HistoryTyped'
    OBVIOUS
  <2>5. Ownership'
    BY DEF Ownership, Owned, Exclusive, Known, Unstarted, Reported, Fresh, HasResult
  <2>6. ExecutedAtMostOnce'
    BY DEF ExecutedAtMostOnce
  <2>7. QED
    BY ONLY <2>1, <2>2, <2>3, <2>4, <2>5, <2>6 DEF IInv, TypeOK
<1>5. QED
  BY <1>1, <1>2, <1>3, <1>4 DEF Trouble

\* The scripts that clean up and resume a run, with every process down.
LEMMA ManagementKeepsIInv ==
  ASSUME IInv, Clean \/ Resume
  PROVE  IInv'
<1> USE SpoolAssumption DEF IInv, TypeOK, FilesTyped, ProcessesTyped, ClientTyped,
        HistoryTyped, Job, Dir, WorkerState, ControllerState, Holding, files, procs,
        client, bounds, history, Goto
<1>1. CASE Clean
  <2> USE <1>1 DEF Clean, AllDown, Alive
  <2>1. FilesTyped'
    OBVIOUS
  <2>2. ProcessesTyped'
    OBVIOUS
  <2>3. ClientTyped'
    OBVIOUS
  <2>4. HistoryTyped'
    OBVIOUS
  <2>5. Ownership'
    BY DEF Ownership, Owned, Exclusive, Known, Unstarted, Reported, Fresh, HasResult
  <2>6. ExecutedAtMostOnce'
    BY DEF ExecutedAtMostOnce
  <2>7. QED
    BY ONLY <2>1, <2>2, <2>3, <2>4, <2>5, <2>6 DEF IInv, TypeOK
<1>2. CASE Resume
  <2> USE <1>2 DEF Resume, AllDown, Alive
  <2>1. FilesTyped'
    OBVIOUS
  <2>2. ProcessesTyped'
    OBVIOUS
  <2>3. ClientTyped'
    OBVIOUS
  <2>4. HistoryTyped'
    <3>1. (crashed \in BOOLEAN)'
      OBVIOUS
    <3>2. (restarts \in 0 .. MaxRestarts /\ faults \in 0 .. MaxFaults)'
      OBVIOUS
    <3>3. (executions \in [Job -> Nat])'
      OBVIOUS
    <3>4. (cleaned \subseteq Job /\ winner \in Worker \union {"none"})'
      OBVIOUS
    <3>5. QED
      BY <3>1, <3>2, <3>3, <3>4
  <2>5. Ownership'
    BY DEF Ownership, Owned, Exclusive, Known, Unstarted, Reported, Fresh, HasResult
  <2>6. ExecutedAtMostOnce'
    BY DEF ExecutedAtMostOnce
  <2>7. QED
    BY ONLY <2>1, <2>2, <2>3, <2>4, <2>5, <2>6 DEF IInv, TypeOK
<1>3. QED
  BY <1>1, <1>2

-----------------------------------------------------------------------------
(* The safety theorems.                                                    *)

\* Every step keeps the inductive invariant.
LEMMA NextIInv == IInv /\ [Next]_vars => IInv'
<1> SUFFICES ASSUME IInv, [Next]_vars PROVE IInv'
  OBVIOUS
<1>1. CASE Controller
  BY <1>1, ControllerKeepsIInv
<1>2. CASE \E w \in Worker : WorkerStep(w) \/ Trouble(w)
  BY <1>2, WorkerKeepsIInv, TroubleKeepsIInv
<1>3. CASE Clean \/ Resume
  BY <1>3, ManagementKeepsIInv
<1>4. CASE UNCHANGED vars
  BY <1>4 DEF vars, files, procs, client, bounds, history, IInv, TypeOK, FilesTyped,
     ProcessesTyped, ClientTyped, HistoryTyped, Ownership, Owned, Exclusive, Known,
     Unstarted, Reported, Fresh, HasResult, ExecutedAtMostOnce
<1>5. QED
  BY <1>1, <1>2, <1>3, <1>4 DEF Next

\* The inductive invariant holds throughout every run of the queue.
THEOREM Invariance == Spec => []IInv
  BY InitIInv, NextIInv, PTL DEF Spec

\* Every variable of the queue keeps its type.
THEOREM Typing == Spec => []TypeOK
<1>1. IInv => TypeOK
  BY DEF IInv
<1>2. QED
  BY <1>1, Invariance, PTL

\* The work of a job is started at most once, with any number of workers, crashes,
\* rollbacks and restarts.
THEOREM AtMostOnce == Spec => []ExecutedAtMostOnce
<1>1. IInv => ExecutedAtMostOnce
  BY DEF IInv
<1>2. QED
  BY <1>1, Invariance, PTL

\* Every step keeps a worker alive while one has not been killed.
LEMMA NextSurvival ==
  ASSUME TypeOK, Survival, [Next]_vars
  PROVE  Survival'
<1> USE SpoolAssumption DEF TypeOK, FilesTyped, ProcessesTyped, HistoryTyped, Job, WorkerState, Holding, files, procs,
        client, bounds, history, Goto, Survival, UpToDate, Alive
<1>1. CASE Controller
  BY <1>1 DEF Controller, Enqueue, CheckDone, CheckFailed, Poll, WaitTimesOut,
          ControllerExits
<1>2. ASSUME NEW w \in Worker, Glob(w) PROVE Survival'
  BY <1>2 DEF Glob
<1>3. ASSUME NEW w \in Worker, Stat(w) PROVE Survival'
  BY <1>3 DEF Stat
<1>4. ASSUME NEW w \in Worker, Take(w) PROVE Survival'
  BY <1>4 DEF Take
<1>5. ASSUME NEW w \in Worker, LoseRace(w) PROVE Survival'
  BY <1>5 DEF LoseRace, TryNext
<1>6. ASSUME NEW w \in Worker, MoveToRunning(w) PROVE Survival'
  BY <1>6 DEF MoveToRunning, Own
<1>7. ASSUME NEW w \in Worker, CopyClaim(w) PROVE Survival'
  BY <1>7 DEF CopyClaim
<1>8. ASSUME NEW w \in Worker, UnlinkClaim(w) PROVE Survival'
  BY <1>8 DEF UnlinkClaim, Own
<1>9. ASSUME NEW w \in Worker, Start(w) PROVE Survival'
  BY <1>9 DEF Start
<1>10. ASSUME NEW w \in Worker, Publish(w) PROVE Survival'
  BY <1>10 DEF Publish, PublishTo
<1>11. ASSUME NEW w \in Worker, JobRaises(w) PROVE Survival'
  BY <1>11 DEF JobRaises
<1>12. ASSUME NEW w \in Worker, Rescue(w) PROVE Survival'
  BY <1>12 DEF Rescue, PublishTo
<1>13. ASSUME NEW w \in Worker, Clear(w) PROVE Survival'
  BY <1>13 DEF Clear, Release
<1>14. ASSUME NEW w \in Worker, MoveFails(w) PROVE Survival'
  BY <1>14 DEF MoveFails, TryNext
<1>15. ASSUME NEW w \in Worker, ClearFails(w) PROVE Survival'
  BY <1>15 DEF ClearFails, Release
<1>16. ASSUME NEW w \in Worker, Kill(w) PROVE Survival'
  BY <1>16 DEF Kill, Release
<1>17. CASE Clean
  BY <1>17 DEF Clean
<1>18. CASE Resume
  BY <1>18 DEF Resume, AllDown
<1>19. CASE UNCHANGED vars
  BY <1>19 DEF vars
<1>20. ASSUME NEW w \in Worker, TakeDenied(w) PROVE Survival'
  BY <1>20 DEF TakeDenied, TryNext
<1>21. QED
  BY ONLY [Next]_vars, <1>20, <1>1, <1>2, <1>3, <1>4, <1>5, <1>6, <1>7, <1>8, <1>9, <1>10, <1>11, <1>12, <1>13, <1>14, <1>15, <1>16, <1>17, <1>18, <1>19
     DEF Next, WorkerStep, Trouble

\* Losing the race between glob and stat kills a worker, but never the last one.
THEOREM LastWorkerSurvives == Spec => []SomeWorkerSurvives
<1>1. Init => Survival
  BY DEF Init, Survival, UpToDate, Alive
<1>2. TypeOK /\ Survival /\ [Next]_vars => Survival'
  BY NextSurvival
<1>3. TypeOK /\ Survival => SomeWorkerSurvives
  BY SpoolAssumption DEF TypeOK, HistoryTyped, Survival, UpToDate, SomeWorkerSurvives
<1>4. QED
  BY <1>1, <1>2, <1>3, Typing, PTL DEF Spec

\* With a single worker, as run_supervised.sh starts one unless it is told otherwise,
\* what RaceIsHarmless says is true: no worker dies unless it is killed.
THEOREM LoneWorkerSurvives ==
  ASSUME \A v, w \in Worker : v = w
  PROVE  Spec => []RaceIsHarmless
<1>1. SomeWorkerSurvives => RaceIsHarmless
  BY DEF SomeWorkerSurvives, RaceIsHarmless
<1>2. QED
  BY <1>1, LastWorkerSurvives, PTL

-----------------------------------------------------------------------------
(* The oldest job first.                                                   *)

Listing(w) == wpc[w] \in {"stat", "take"}

\* As long as no file operation has failed, a job that is pending is in the list of a
\* worker or was enqueued after each job of that list.
Later(w) == \A j \in pending : j \in batch[w] \/ \A i \in batch[w] : i < j

Sorted == faults = 0 => \A w \in Worker : Listing(w) => Later(w)

\* A list holds jobs that have been enqueued.
Listed == \A w \in Worker : \A i \in batch[w] : i <= submitted

\* Lists are taken from what is pending.
LEMMA NextListed ==
  ASSUME IInv, Listed, [Next]_vars
  PROVE  Listed'
<1>1. /\ batch \in [Worker -> SUBSET Job] /\ submitted \in Nat /\ held \in [Worker -> Nat]
      /\ \A j \in pending : j <= submitted
  BY SpoolAssumption DEF IInv, TypeOK, ProcessesTyped, ClientTyped, Ownership, Known
<1>2. submitted' = submitted \/ submitted' = submitted + 1
  <2>1. CASE Enqueue
    BY <2>1 DEF Enqueue
  <2>2. CASE CheckDone \/ CheckFailed \/ WaitTimesOut \/ ControllerExits
    BY <2>2 DEF CheckDone, CheckFailed, Poll, WaitTimesOut, ControllerExits
  <2>3. CASE Clean \/ Resume \/ UNCHANGED vars
    BY <2>3 DEF Clean, Resume, vars, client
  <2>4. ASSUME NEW w \in Worker, WorkerStep(w) \/ Trouble(w) PROVE submitted' = submitted
    BY <2>4 DEF WorkerStep, Glob, Stat, Take, LoseRace, MoveToRunning, CopyClaim, UnlinkClaim,
       Start, Publish, PublishTo, JobRaises, Rescue, Clear, Trouble, TakeDenied, MoveFails,
       ClearFails, Kill, client
  <2>5. QED
    BY <2>1, <2>2, <2>3, <2>4 DEF Next, Controller
<1>3. \A w \in Worker : batch'[w] \subseteq batch[w] \/ batch'[w] = pending
  <2>1. CASE Controller \/ Clean \/ Resume \/ UNCHANGED vars
    BY <2>1 DEF Controller, Enqueue, CheckDone, CheckFailed, Poll, WaitTimesOut,
       ControllerExits, Clean, Resume, vars, procs
  <2>2. ASSUME NEW w \in Worker, WorkerStep(w) \/ Trouble(w)
        PROVE  \A v \in Worker : batch'[v] \subseteq batch[v] \/ batch'[v] = pending
    <3>1. CASE Glob(w) \/ Stat(w)
      BY <1>1, <3>1 DEF Glob, Stat
    <3>2. CASE LoseRace(w) \/ TakeDenied(w) \/ MoveFails(w)
      BY <1>1, <3>2 DEF LoseRace, TakeDenied, MoveFails, TryNext
    <3>3. CASE MoveToRunning(w) \/ UnlinkClaim(w)
      BY <1>1, <3>3 DEF MoveToRunning, UnlinkClaim, Own
    <3>4. CASE Clear(w) \/ Kill(w)
      BY <1>1, <3>4 DEF Clear, Kill, Release
    <3>5. CASE ClearFails(w)
      BY <1>1, <3>5 DEF ClearFails, Release
    <3>6. CASE Take(w) \/ CopyClaim(w) \/ Start(w) \/ Publish(w) \/ JobRaises(w) \/ Rescue(w)
      BY <3>6 DEF Take, CopyClaim, Start, Publish, PublishTo, JobRaises, Rescue
    <3>7. QED
      BY <2>2, <3>1, <3>2, <3>3, <3>4, <3>5, <3>6 DEF WorkerStep, Trouble
  <2>3. QED
    BY <2>1, <2>2 DEF Next
<1>4. SUFFICES ASSUME NEW w \in Worker, NEW i \in batch'[w] PROVE i <= submitted'
  BY DEF Listed
<1>5. i <= submitted /\ i \in Nat
  <2>1. i \in batch[w] \/ i \in pending
    BY <1>3
  <2>2. pending \subseteq Nat /\ batch[w] \subseteq Nat
    BY SpoolAssumption DEF IInv, TypeOK, FilesTyped, ProcessesTyped, Job
  <2>3. QED
    BY <1>1, <2>1, <2>2 DEF Listed
<1>6. QED
  BY <1>1, <1>2, <1>5

\* A list loses only jobs that are not pending, pending/ gains only newer ones, but for
\* those that a failed operation puts back or passes over.
LEMMA NextSorted ==
  ASSUME IInv, Listed, Sorted, [Next]_vars
  PROVE  Sorted'
<1>1. /\ batch \in [Worker -> SUBSET Job] /\ wpc \in [Worker -> WorkerState]
      /\ submitted \in Nat /\ faults \in Nat /\ pending \subseteq Nat
      /\ \A w \in Worker : batch[w] \subseteq Nat
  BY SpoolAssumption DEF IInv, TypeOK, FilesTyped, ProcessesTyped, ClientTyped, HistoryTyped,
     Job
<1>2. CASE Enqueue
  <2>1. ASSUME faults' = 0, NEW w \in Worker, Listing(w)', NEW j \in pending', j \notin batch'[w],
               NEW i \in batch'[w]
        PROVE  i < j
    <3>1. faults = 0 /\ Listing(w) /\ batch' = batch /\ pending' = pending \cup {submitted + 1}
      BY <1>2, <2>1 DEF Enqueue, bounds, procs, Listing
    <3>2. CASE j \in pending
      BY <2>1, <3>1, <3>2 DEF Sorted, Later
    <3>3. CASE j = submitted + 1
      <4>1. i <= submitted /\ i \in Nat
        BY <1>1, <2>1, <3>1 DEF Listed
      <4>2. QED
        BY <1>1, <3>3, <4>1
    <3>4. QED
      BY <2>1, <3>1, <3>2, <3>3
  <2>2. QED
    BY <2>1 DEF Sorted, Later
<1>3. CASE CheckDone \/ CheckFailed \/ WaitTimesOut \/ ControllerExits \/ Clean \/ UNCHANGED vars
  BY <1>3 DEF CheckDone, CheckFailed, Poll, WaitTimesOut, ControllerExits, Clean, vars, files,
     procs, bounds, Sorted, Listing, Later
<1>4. CASE Resume
  BY <1>4 DEF Resume, Sorted, Listing
<1>5. ASSUME NEW w \in Worker, Glob(w) PROVE Sorted'
  BY <1>1, <1>5 DEF Glob, Goto, files, bounds, Sorted, Listing, Later
<1>6. ASSUME NEW w \in Worker, Stat(w) PROVE Sorted'
  BY <1>1, <1>6 DEF Stat, Goto, files, bounds, Sorted, Listing, Later
<1>7. ASSUME NEW w \in Worker, Take(w) PROVE Sorted'
  BY <1>1, <1>7 DEF Take, Goto, bounds, Sorted, Listing, Later
<1>8. ASSUME NEW w \in Worker, LoseRace(w) PROVE Sorted'
  <2>1. PICK k \in batch[w] : /\ wpc[w] = "take" /\ k \notin pending
                             /\ TryNext(w, batch[w] \ {k})
                             /\ pending' = pending /\ faults' = faults
    BY <1>8 DEF LoseRace, files, bounds
  <2>2. batch' = [batch EXCEPT ![w] = batch[w] \ {k}] /\ \A v \in Worker : v # w => wpc'[v] = wpc[v]
    BY <1>1, <2>1 DEF TryNext, Goto
  <2>3. SUFFICES ASSUME faults = 0, NEW v \in Worker, Listing(v)', NEW j \in pending,
                        j \notin batch'[v], NEW i \in batch'[v]
                 PROVE  i < j
    BY <2>1 DEF Sorted, Later
  <2>4. Listing(v) /\ j \notin batch[v] /\ i \in batch[v]
    BY <1>1, <2>1, <2>2, <2>3 DEF Listing
  <2>5. QED
    BY <2>3, <2>4 DEF Sorted, Later
<1>9. ASSUME NEW w \in Worker,
             MoveToRunning(w) \/ CopyClaim(w) \/ UnlinkClaim(w) \/ Start(w) \/ Publish(w)
             \/ JobRaises(w) \/ Rescue(w) \/ Clear(w) \/ Kill(w)
      PROVE  Sorted'
  <2>1. UNCHANGED <<pending, faults>> /\ \A v \in Worker : Listing(v)' => Listing(v) /\ batch'[v] = batch[v]
    BY <1>1, <1>9 DEF MoveToRunning, Own, CopyClaim, UnlinkClaim, Start, Publish, PublishTo,
       JobRaises, Rescue, Clear, Kill, Release, Goto, files, bounds, Listing
  <2>2. QED
    BY <2>1 DEF Sorted, Later
<1>10. ASSUME NEW w \in Worker, TakeDenied(w) \/ MoveFails(w) \/ ClearFails(w) PROVE Sorted'
  <2>1. faults' = faults + 1
    BY <1>10 DEF TakeDenied, MoveFails, ClearFails
  <2>2. faults' # 0
    BY <1>1, <2>1
  <2>3. QED
    BY <2>2 DEF Sorted
<1>11. QED
  BY <1>2, <1>3, <1>4, <1>5, <1>6, <1>7, <1>8, <1>9, <1>10
     DEF Next, Controller, WorkerStep, Trouble

\* "Claim the oldest pending job": with any number of workers, stale lists, crashes and
\* restarts, no job overtakes an older one that is pending, until an operation fails.
THEOREM OldestFirst == Spec => ClaimsOldest
<1>1. Init => Listed /\ Sorted
  BY DEF Init, Listed, Sorted, Listing
<1>2. IInv /\ Listed /\ Sorted /\ [Next]_vars => Listed' /\ Sorted'
  BY NextListed, NextSorted
<1>3. IInv /\ Sorted /\ [Next]_vars
        => [faults = 0 => \A j \in pending \ pending' : IsOldest(j, pending)]_vars
  <2> SUFFICES ASSUME IInv, Sorted, Next, faults = 0, NEW j \in pending, j \notin pending'
               PROVE  IsOldest(j, pending)
    BY DEF vars, files
  <2>1. PICK w \in Worker : Take(w)
    BY DEF Next, Controller, Enqueue, CheckDone, CheckFailed, Poll, WaitTimesOut,
       ControllerExits, WorkerStep, Glob, Stat, LoseRace, MoveToRunning, CopyClaim,
       UnlinkClaim, Start, Publish, PublishTo, JobRaises, Rescue, Clear, Trouble, TakeDenied,
       MoveFails, ClearFails, Kill, Clean, Resume, files
  <2>2. wpc[w] = "take" /\ IsOldest(j, batch[w])
    BY <2>1 DEF Take
  <2>3. \A i \in pending : i \in batch[w] \/ j < i
    BY <2>2 DEF Sorted, Listing, Later, IsOldest
  <2>4. \A i \in pending : j <= i
    BY <2>2, <2>3, SpoolAssumption DEF IsOldest, IInv, TypeOK, FilesTyped, Job
  <2>5. QED
    BY <2>4 DEF IsOldest
<1>4. QED
  BY <1>1, <1>2, <1>3, Invariance, PTL DEF Spec, ClaimsOldest

-----------------------------------------------------------------------------
(* The queue implements the life cycle of a job.                           *)

Mapped == [j \in Job |-> JobStatus(j)]

\* A step that concerns one worker and the job k at most leaves the others alone.
LEMMA OnlyOneJob ==
  ASSUME NEW k, NEW w \in Worker,
         held[w] \in {0, k}, held'[w] \in {0, k},
         \A v \in Worker : v # w =>
            held'[v] = held[v] /\ (wpc'[v] \in Executing <=> wpc[v] \in Executing),
         submitted' = submitted,
         \A j \in Job : j # k =>
            /\ j \in pending' <=> j \in pending
            /\ \A d \in Dir : <<j, d>> \in results' <=> <<j, d>> \in results
  PROVE  \A j \in Job : j # k => JobStatus(j)' = JobStatus(j)
<1> SUFFICES ASSUME NEW j \in Job, j # k PROVE JobStatus(j)' = JobStatus(j)
  OBVIOUS
<1>1. /\ j > submitted' <=> j > submitted
      /\ <<j, "done">> \in results' <=> <<j, "done">> \in results
      /\ <<j, "failed">> \in results' <=> <<j, "failed">> \in results
      /\ j \in pending' <=> j \in pending
  BY DEF Dir
<1>2. \A v \in Worker : held'[v] = j <=> held[v] = j
  BY DEF Job
<1>3. (\E v \in Worker : held'[v] = j /\ wpc'[v] \in Executing)
        <=> \E v \in Worker : held[v] = j /\ wpc[v] \in Executing
  BY <1>2, j # 0 DEF Job
<1>4. QED
  BY <1>1, <1>2, <1>3 DEF JobStatus

\* What the mapping says of a job nobody holds and of one that a worker holds.
LEMMA StatusOfIdle ==
  ASSUME IInv, NEW j \in pending
  PROVE  JobStatus(j) = "queued"
<1>1. j \in Job /\ ~(j > submitted)
  BY DEF IInv, TypeOK, FilesTyped, ClientTyped, Ownership, Known, Job
<1>2. <<j, "done">> \notin results /\ <<j, "failed">> \notin results
  BY <1>1 DEF IInv, Ownership, Unstarted, Fresh, HasResult, Dir
<1>3. \A w \in Worker : held[w] # j
  BY DEF IInv, Ownership, Exclusive
<1>4. QED
  BY <1>1, <1>2, <1>3 DEF JobStatus

\* The status of a job that a worker holds.
LEMMA StatusOfHeld ==
  ASSUME IInv, NEW w \in Worker, wpc[w] \in Holding
  PROVE  /\ held[w] \in Job
         /\ wpc[w] \in {"move", "copied", "start"} => JobStatus(held[w]) = "queued"
         /\ wpc[w] = "work" => JobStatus(held[w]) = "executing"
         /\ wpc[w] = "rescue" => JobStatus(held[w]) \in {"executing", "done", "failed"}
         /\ wpc[w] \in {"clear", "rescued"} => JobStatus(held[w]) \in {"done", "failed"}
<1>1. held[w] \in Job /\ held[w] <= submitted /\ ~(held[w] > submitted)
  BY HeldIsJob DEF IInv, Ownership, Known, TypeOK, ClientTyped, Job
<1>2. \A v \in Worker : held[v] = held[w] => v = w
  BY <1>1 DEF IInv, Ownership, Exclusive, Job
<1>3. CASE wpc[w] \in {"move", "copied", "start"}
  BY <1>1, <1>2, <1>3
     DEF JobStatus, IInv, Ownership, Unstarted, Fresh, HasResult, Dir, Executing
<1>4. CASE wpc[w] = "work"
  BY <1>1, <1>2, <1>4 DEF JobStatus, IInv, Ownership, Reported, HasResult, Dir, Executing
<1>5. CASE wpc[w] = "rescue"
  BY <1>1, <1>2, <1>5 DEF JobStatus, Executing
<1>6. CASE wpc[w] \in {"clear", "rescued"}
  BY <1>1, <1>2, <1>6 DEF JobStatus, IInv, Ownership, Reported, HasResult, Dir
<1>7. QED
  BY <1>1, <1>3, <1>4, <1>5, <1>6 DEF Holding

\* How a step moves the mapped job k, in terms of the life cycle.
Moves(k, s) == /\ k \in Job
               /\ JobStatus(k)' = s
               /\ \A j \in Job : j # k => JobStatus(j)' = JobStatus(j)

\* A job that moves from one status to another, for all jobs at once.
LEMMA MovesMapped ==
  ASSUME NEW k, NEW s, Moves(k, s)
  PROVE  Mapped' = [Mapped EXCEPT ![k] = s]
  BY DEF Moves, Mapped

\* A step that changes no status maps to a stutter.
LEMMA KeepsMapped ==
  ASSUME \A j \in Job : JobStatus(j)' = JobStatus(j)
  PROVE  Mapped' = Mapped
  BY DEF Mapped

\* Enqueue implements Submit.
LEMMA EnqueueSubmits ==
  ASSUME IInv, Enqueue, NEW k, k = submitted'
  PROVE  Lifecycle!Submit(k)
<1> USE DEF Enqueue, procs
<1>1. k \in Job /\ k = submitted + 1 /\ submitted \in Nat
  BY SpoolAssumption DEF IInv, TypeOK, ClientTyped, Job
<1>2. JobStatus(k) = "new"
  BY <1>1 DEF JobStatus
<1>3. JobStatus(k)' = "queued"
  <2>1. <<k, "done">> \notin results /\ <<k, "failed">> \notin results
    BY <1>1 DEF IInv, Ownership, Unstarted, Fresh, HasResult, Dir
  <2>2. \A w \in Worker : held[w] # k
    BY <1>1 DEF IInv, Ownership, Known, TypeOK, ProcessesTyped
  <2>3. results' = results /\ held' = held /\ k \in pending' /\ ~(k > submitted')
    BY <1>1
  <2>4. QED
    BY <2>1, <2>2, <2>3 DEF JobStatus
<1>4. ASSUME NEW j \in Job, j # k PROVE JobStatus(j)' = JobStatus(j)
  BY <1>1, <1>4 DEF JobStatus, Job
<1>5. Mapped' = [Mapped EXCEPT ![k] = "queued"]
  BY <1>1, <1>3, <1>4, MovesMapped DEF Moves
<1>6. QED
  BY <1>1, <1>2, <1>5 DEF Lifecycle!Submit, Lifecycle!Move, Mapped

\* Reading a job implements Start.
LEMMA StartStarts ==
  ASSUME IInv, NEW w \in Worker, Start(w)
  PROVE  Lifecycle!Start(held[w])
<1> DEFINE k == held[w]
<1> USE DEF Start, files, client, Goto
<1>1. wpc[w] = "start" /\ wpc'[w] = "work" /\ held' = held
  BY DEF IInv, TypeOK, ProcessesTyped
<1>2. k \in Job /\ JobStatus(k) = "queued"
  BY <1>1, StatusOfHeld DEF Holding
<1>3. ASSUME NEW j \in Job, j = k PROVE JobStatus(j)' = "executing"
  <2>1. ~(j > submitted) /\ <<j, "done">> \notin results /\ <<j, "failed">> \notin results
    BY <1>1, <1>3 DEF IInv, Ownership, Known, Unstarted, Fresh, HasResult, Dir, TypeOK,
       ClientTyped, Job
  <2>2. QED
    BY <1>1, <1>3, <2>1 DEF JobStatus, Executing
<1>4. \A j \in Job : j # k => JobStatus(j)' = JobStatus(j)
  <2>1. \A v \in Worker : v # w => wpc'[v] = wpc[v]
    BY DEF IInv, TypeOK, ProcessesTyped
  <2>2. QED
    BY <1>1, <2>1, OnlyOneJob
<1>5. Mapped' = [Mapped EXCEPT ![k] = "executing"]
  BY <1>2, <1>3, <1>4 DEF Mapped
<1>6. QED
  BY <1>2, <1>5 DEF Lifecycle!Start, Lifecycle!Move, Mapped

\* Publishing a result implements Finish.
LEMMA PublishFinishes ==
  ASSUME IInv, NEW w \in Worker, Publish(w)
  PROVE  Lifecycle!Finish(held[w])
<1> DEFINE k == held[w]
<1> USE DEF Publish, PublishTo, client, Goto
<1>1. PICK d \in Dir : results' = results \union {<<k, d>>}
  OBVIOUS
<1>2. wpc[w] = "work" /\ wpc'[w] = "clear" /\ held' = held /\ submitted' = submitted
  BY DEF IInv, TypeOK, ProcessesTyped
<1>3. k \in Job /\ JobStatus(k) = "executing"
  BY <1>2, StatusOfHeld DEF Holding
<1>4. JobStatus(k)' = d
  <2>1. ~(k > submitted) /\ <<k, "done">> \notin results /\ <<k, "failed">> \notin results
    BY <1>2, <1>3 DEF IInv, Ownership, Known, Reported, HasResult, Dir, TypeOK,
       ClientTyped, Job
  <2>2. QED
    BY <1>1, <1>2, <2>1 DEF JobStatus, Dir
<1>5. \A j \in Job : j # k => JobStatus(j)' = JobStatus(j)
  <2>1. \A v \in Worker : v # w => wpc'[v] = wpc[v]
    BY DEF IInv, TypeOK, ProcessesTyped
  <2>2. QED
    BY <1>1, <1>2, <2>1, OnlyOneJob
<1>6. Mapped' = [Mapped EXCEPT ![k] = d]
  BY <1>3, <1>4, <1>5 DEF Mapped
<1>7. QED
  BY <1>3, <1>6 DEF Lifecycle!Finish, Lifecycle!Move, Mapped, Dir

\* The rescue of a job whose processing raised implements Finish.
LEMMA RescueFinishes ==
  ASSUME IInv, NEW w \in Worker, Rescue(w)
  PROVE  Lifecycle!Finish(held[w]) \/ Mapped' = Mapped
<1> DEFINE k == held[w]
<1> USE DEF Rescue, PublishTo, client, Goto
<1>1. /\ wpc[w] = "rescue" /\ wpc'[w] = "rescued" /\ held' = held
      /\ results' = results \union {<<k, "failed">>} /\ submitted' = submitted
  BY DEF IInv, TypeOK, ProcessesTyped
<1>2. k \in Job /\ JobStatus(k) \in {"executing", "done", "failed"}
  BY <1>1, StatusOfHeld DEF Holding
<1>3. JobStatus(k)' = IF JobStatus(k) = "executing" THEN "failed" ELSE JobStatus(k)
  BY <1>1, <1>2 DEF JobStatus
<1>4. \A j \in Job : j # k => JobStatus(j)' = JobStatus(j)
  <2>1. \A v \in Worker : v # w => wpc'[v] = wpc[v]
    BY DEF IInv, TypeOK, ProcessesTyped
  <2>2. QED
    BY <1>1, <2>1, OnlyOneJob
<1>5. CASE JobStatus(k) = "executing"
  <2>1. Mapped' = [Mapped EXCEPT ![k] = "failed"]
    BY <1>2, <1>3, <1>4, <1>5 DEF Mapped
  <2>2. QED
    BY <1>2, <1>5, <2>1 DEF Lifecycle!Finish, Lifecycle!Move, Mapped
<1>6. CASE JobStatus(k) # "executing"
  BY <1>3, <1>4, <1>6 DEF Mapped
<1>7. QED
  BY <1>5, <1>6

\* Whatever ends a worker's grip on its job without a result loses the job,
\* unless it is pending again.
LEMMA DropLoses ==
  ASSUME IInv, NEW w \in Worker, wpc[w] \in Holding, NEW k, k = held[w], held'[w] = 0,
         results' = results, submitted' = submitted,
         pending' = pending \/ pending' = pending \union {k},
         \A v \in Worker : v # w => held'[v] = held[v] /\ wpc'[v] = wpc[v],
         k \in pending' => JobStatus(k) = "queued"
  PROVE  Lifecycle!Lose(k) \/ Mapped' = Mapped
<1>1. k \in Job /\ JobStatus(k) \in {"queued", "executing", "done", "failed"}
  BY StatusOfHeld DEF Holding
<1>2. \A v \in Worker : held'[v] # k
  BY <1>1 DEF IInv, Ownership, Exclusive, Job
<1>3. \A j \in Job : j # k => JobStatus(j)' = JobStatus(j)
  BY OnlyOneJob
<1>4. CASE JobStatus(k) \in {"done", "failed"} \/ k \in pending'
  <2>1. JobStatus(k)' = JobStatus(k)
    BY <1>1, <1>2, <1>4 DEF JobStatus
  <2>2. QED
    BY <1>3, <2>1 DEF Mapped
<1>5. CASE JobStatus(k) \in {"queued", "executing"} /\ k \notin pending'
  <2>1. JobStatus(k)' = "lost"
    BY <1>1, <1>2, <1>5 DEF JobStatus
  <2>2. Mapped' = [Mapped EXCEPT ![k] = "lost"]
    BY <1>1, <1>3, <2>1 DEF Mapped
  <2>3. QED
    BY <1>1, <1>5, <2>2 DEF Lifecycle!Lose, Lifecycle!Move, Mapped
<1>6. QED
  BY <1>1, <1>4, <1>5

\* Claiming a job is invisible to the life of the job.
LEMMA TakeIsInvisible ==
  ASSUME IInv, NEW w \in Worker, Take(w)
  PROVE  Mapped' = Mapped
<1> USE DEF Take, client, Goto
<1>1. PICK k \in pending : /\ pending' = pending \ {k} /\ held' = [held EXCEPT ![w] = k]
                          /\ wpc[w] = "take" /\ wpc' = [wpc EXCEPT ![w] = "move"]
                          /\ results' = results /\ submitted' = submitted
  OBVIOUS
<1>2. JobStatus(k) = "queued"
  BY StatusOfIdle
<1>3. k \in Job /\ held[w] = 0 /\ held'[w] = k /\ wpc'[w] = "move"
  BY <1>1 DEF IInv, TypeOK, FilesTyped, ProcessesTyped, Ownership, Owned, Holding
<1>4. \A v \in Worker : v # w => held'[v] = held[v] /\ wpc'[v] = wpc[v]
  BY <1>1 DEF IInv, TypeOK, ProcessesTyped
<1>5. JobStatus(k)' = "queued"
  <2>1. \A v \in Worker : held'[v] = k => v = w
    BY <1>4 DEF IInv, Ownership, Exclusive
  <2>2. /\ ~(k > submitted) /\ <<k, "done">> \notin results
        /\ <<k, "failed">> \notin results
    BY <1>3 DEF IInv, TypeOK, ClientTyped, Ownership, Known, Unstarted, Fresh, HasResult,
       Job, Dir
  <2>3. QED
    BY <1>1, <1>3, <2>1, <2>2 DEF JobStatus, Executing
<1>6. \A j \in Job : j # k => JobStatus(j)' = JobStatus(j)
  BY <1>1, <1>3, <1>4, OnlyOneJob
<1>7. QED
  BY <1>2, <1>5, <1>6 DEF Mapped

\* Steps that leave the client's files, the ownership of jobs and the set of
\* workers at work on one as they are.
LEMMA SameStatus ==
  ASSUME UNCHANGED <<submitted, results, pending, held>>,
         \A v \in Worker : held[v] # 0 =>
            (wpc'[v] \in Executing <=> wpc[v] \in Executing)
  PROVE  Mapped' = Mapped
<1>1. ASSUME NEW j \in Job PROVE JobStatus(j)' = JobStatus(j)
  <2>1. (\E v \in Worker : held'[v] = j /\ wpc'[v] \in Executing)
          <=> \E v \in Worker : held[v] = j /\ wpc[v] \in Executing
    BY j # 0 DEF Job
  <2>2. QED
    BY <2>1 DEF JobStatus
<1>2. QED
  BY <1>1 DEF Mapped

\* Every step of a worker implements a step of the life of a job, or none.
LEMMA WorkerImplements ==
  ASSUME IInv, NEW w \in Worker, WorkerStep(w)
  PROVE  [Lifecycle!Next]_Mapped
<1> USE DEF IInv, TypeOK, ProcessesTyped, files, procs, client, Goto
<1>1. CASE Glob(w) \/ Stat(w) \/ LoseRace(w)
  <2>1. /\ UNCHANGED <<submitted, results, pending, held>>
        /\ \A v \in Worker : v # w => wpc'[v] = wpc[v]
    BY <1>1 DEF Glob, Stat, LoseRace, TryNext
  <2>2. wpc[w] \in {"scan", "stat", "take"}
    BY <1>1 DEF Glob, Stat, LoseRace
  <2>3. held[w] = 0
    BY <2>2 DEF Ownership, Owned, Holding
  <2>4. Mapped' = Mapped
    BY <2>1, <2>3, SameStatus
  <2>5. QED
    BY <2>4
<1>2. CASE Take(w)
  BY <1>2, TakeIsInvisible
<1>3. CASE MoveToRunning(w) \/ CopyClaim(w) \/ UnlinkClaim(w) \/ JobRaises(w)
  <2>1. /\ UNCHANGED <<submitted, results, pending, held>>
        /\ \A v \in Worker : v # w => wpc'[v] = wpc[v]
    BY <1>3 DEF MoveToRunning, CopyClaim, UnlinkClaim, JobRaises, Own
  <2>2. wpc'[w] \in Executing <=> wpc[w] \in Executing
    BY <1>3 DEF MoveToRunning, CopyClaim, UnlinkClaim, JobRaises, Own, Executing
  <2>3. Mapped' = Mapped
    BY <2>1, <2>2, SameStatus
  <2>4. QED
    BY <2>3
<1>4. CASE Start(w)
  <2>1. held[w] \in Job
    BY <1>4, StatusOfHeld DEF Start, Holding
  <2>2. QED
    BY <1>4, <2>1, StartStarts DEF Lifecycle!Next
<1>5. CASE Publish(w)
  <2>1. held[w] \in Job
    BY <1>5, StatusOfHeld DEF Publish, Holding
  <2>2. QED
    BY <1>5, <2>1, PublishFinishes DEF Lifecycle!Next
<1>6. CASE Rescue(w)
  <2>1. held[w] \in Job
    BY <1>6, StatusOfHeld DEF Rescue, Holding
  <2>2. QED
    BY <1>6, <2>1, RescueFinishes DEF Lifecycle!Next
<1>7. CASE Clear(w)
  <2>1. wpc[w] \in Holding /\ held'[w] = 0 /\ UNCHANGED <<pending, results, submitted>>
    BY <1>7 DEF Clear, Release, Holding
  <2>2. \A v \in Worker : v # w => held'[v] = held[v] /\ wpc'[v] = wpc[v]
    BY <1>7 DEF Clear, Release
  <2>3. held[w] \in Job /\ held[w] \notin pending'
    BY <2>1, StatusOfHeld DEF Ownership, Exclusive
  <2>4. Lifecycle!Lose(held[w]) \/ Mapped' = Mapped
    BY <2>1, <2>2, <2>3, DropLoses
  <2>5. QED
    BY <2>3, <2>4 DEF Lifecycle!Next
<1>8. QED
  BY <1>1, <1>2, <1>3, <1>4, <1>5, <1>6, <1>7 DEF WorkerStep

\* Failing file operations and kills only lose jobs.
LEMMA TroubleImplements ==
  ASSUME IInv, NEW w \in Worker, Trouble(w)
  PROVE  [Lifecycle!Next]_Mapped
<1> USE DEF IInv, TypeOK, ProcessesTyped, files, procs, client, Goto
<1>1. CASE MoveFails(w)
  <2>1. /\ wpc[w] = "move" /\ held'[w] = 0 /\ UNCHANGED <<results, submitted>>
        /\ pending' = pending \/ pending' = pending \union {held[w]}
    BY <1>1 DEF MoveFails
  <2>2. \A v \in Worker : v # w => held'[v] = held[v] /\ wpc'[v] = wpc[v]
    BY <1>1 DEF MoveFails, TryNext
  <2>3. held[w] \in Job /\ JobStatus(held[w]) = "queued"
    BY <2>1, StatusOfHeld DEF Holding
  <2>4. Lifecycle!Lose(held[w]) \/ Mapped' = Mapped
    BY <2>1, <2>2, <2>3, DropLoses DEF Holding
  <2>5. QED
    BY <2>3, <2>4 DEF Lifecycle!Next
<1>2. CASE ClearFails(w) /\ wpc[w] = "clear"
  <2>1. /\ UNCHANGED <<submitted, results, pending, held>>
        /\ \A v \in Worker : v # w => wpc'[v] = wpc[v]
        /\ wpc'[w] = "rescue"
    BY <1>2 DEF ClearFails
  <2>2. Mapped' = Mapped
    BY <1>2, <2>1, SameStatus DEF Executing
  <2>3. QED
    BY <2>2
<1>3. CASE /\ Kill(w) \/ (ClearFails(w) /\ wpc[w] = "rescued")
           /\ wpc[w] \in Holding
  <2>1. held'[w] = 0 /\ UNCHANGED <<pending, results, submitted>>
    BY <1>3 DEF Kill, ClearFails, Release
  <2>2. \A v \in Worker : v # w => held'[v] = held[v] /\ wpc'[v] = wpc[v]
    BY <1>3 DEF Kill, ClearFails, Release
  <2>3. held[w] \in Job /\ held[w] \notin pending'
    BY <1>3, <2>1, StatusOfHeld DEF Ownership, Exclusive
  <2>4. Lifecycle!Lose(held[w]) \/ Mapped' = Mapped
    BY <1>3, <2>1, <2>2, <2>3, DropLoses
  <2>5. QED
    BY <2>3, <2>4 DEF Lifecycle!Next
<1>4. CASE Kill(w) /\ wpc[w] \notin Holding
  <2>1. held[w] = 0
    BY <1>4 DEF Ownership, Owned
  <2>2. /\ UNCHANGED <<submitted, results, pending, held>>
        /\ \A v \in Worker : v # w => wpc'[v] = wpc[v]
    BY <1>4, <2>1 DEF Kill, Release
  <2>3. Mapped' = Mapped
    BY <2>1, <2>2, SameStatus
  <2>4. QED
    BY <2>3
<1>5. ClearFails(w) => wpc[w] = "clear" \/ (wpc[w] = "rescued" /\ wpc[w] \in Holding)
  BY DEF ClearFails, Holding
<1>6. CASE TakeDenied(w)
  <2>1. /\ UNCHANGED <<submitted, results, pending, held>> /\ wpc[w] = "take"
        /\ \A v \in Worker : v # w => wpc'[v] = wpc[v]
    BY <1>6 DEF TakeDenied, TryNext
  <2>2. held[w] = 0
    BY <2>1 DEF Ownership, Owned, Holding
  <2>3. Mapped' = Mapped
    BY <2>1, <2>2, SameStatus
  <2>4. QED
    BY <2>3
<1>7. TakeDenied(w) \/ MoveFails(w) \/ ClearFails(w) \/ Kill(w)
  BY DEF Trouble
<1>8. QED
  BY ONLY <1>1, <1>2, <1>3, <1>4, <1>5, <1>6, <1>7

\* Every step of the queue maps to a step of the life of a job or to a stutter.
LEMMA NextImplements ==
  ASSUME IInv, [Next]_vars
  PROVE  [Lifecycle!Next]_Mapped
<1>1. CASE Enqueue
  <2>1. submitted' \in Job
    BY <1>1, SpoolAssumption DEF Enqueue, IInv, TypeOK, ClientTyped, Job
  <2>2. PICK k \in Job : k = submitted'
    BY <2>1
  <2>3. QED
    BY <1>1, <2>2, EnqueueSubmits DEF Lifecycle!Next
<1>2. CASE CheckDone \/ CheckFailed \/ WaitTimesOut \/ ControllerExits
  <2>1. UNCHANGED <<submitted, results, pending, held, wpc>>
    BY <1>2 DEF CheckDone, CheckFailed, Poll, WaitTimesOut, ControllerExits, files, procs
  <2>2. Mapped' = Mapped
    BY <2>1, SameStatus
  <2>3. QED
    BY <2>2
<1>3. CASE \E w \in Worker : WorkerStep(w) \/ Trouble(w)
  BY <1>3, WorkerImplements, TroubleImplements
<1>4. CASE Clean \/ Resume
  <2>1. UNCHANGED <<submitted, results, pending, held>>
    BY <1>4 DEF Clean, Resume, files, procs, client
  <2>2. \A v \in Worker : held[v] = 0
    BY <1>4 DEF Clean, Resume, AllDown, Alive, IInv, TypeOK, ProcessesTyped, Ownership,
       Owned, Holding
  <2>3. Mapped' = Mapped
    BY <2>1, <2>2, SameStatus
  <2>4. QED
    BY <2>3
<1>5. CASE UNCHANGED vars
  <2>1. UNCHANGED <<submitted, results, pending, held, wpc>>
    BY <1>5 DEF vars, files, procs, client
  <2>2. Mapped' = Mapped
    BY <2>1, SameStatus
  <2>3. QED
    BY <2>2
<1>6. QED
  BY <1>1, <1>2, <1>3, <1>4, <1>5 DEF Next, Controller

\* Seen through JobStatus, every behaviour of the queue is one of JobLifecycle: a job
\* starts at most once, ends at most once and is never revived.
THEOREM Refinement == Spec => ImplementsLifecycle
<1>1. Init => Lifecycle!Init
  BY SpoolAssumption DEF Init, Lifecycle!Init, JobStatus, Job
<1>2. IInv /\ [Next]_vars => [Lifecycle!Next]_Mapped
  BY NextImplements
<1>3. QED
  BY <1>1, <1>2, Invariance, PTL DEF Spec, ImplementsLifecycle, Lifecycle!Spec, Mapped
=============================================================================
