---------------------------- MODULE JobLifecycle ----------------------------
(***************************************************************************)
(* What the file-spool queue promises about one job, whatever processes    *)
(* race, crash or restart: it is picked up at most once, it ends at most   *)
(* once, and a job that a crash drops is never resurrected.  SpoolQueue    *)
(* implements this specification.                                          *)
(***************************************************************************)

CONSTANT Job            \* the job ids that may ever be enqueued

VARIABLE status         \* status[j]: how far job j has come

Status == {"new", "queued", "executing", "done", "failed", "lost"}

TypeOK == status \in [Job -> Status]

Init == status = [j \in Job |-> "new"]

Move(j, from, to) == status[j] \in from /\ status' = [status EXCEPT ![j] = to]

Submit(j) == Move(j, {"new"}, "queued")

Start(j) == Move(j, {"queued"}, "executing")

Finish(j) == \/ Move(j, {"executing"}, "done")
             \/ Move(j, {"executing"}, "failed")

Lose(j) == Move(j, {"queued", "executing"}, "lost")

Next == \E j \in Job : Submit(j) \/ Start(j) \/ Finish(j) \/ Lose(j)

Spec == Init /\ [][Next]_status

=============================================================================
