------------------------------ MODULE Iteration ------------------------------
(***************************************************************************)
(* One iteration of run_controller in src/src/mars/controller.py, from the *)
(* chosen action to the metric, or its absence, that is scored: the idea   *)
(* and the module plan of a draft, the patches, the run, the debug loop    *)
(* and the review.  Module SearchTree has what comes before and after.     *)
(*                                                                         *)
(* The code under test is known by its version, the number of patches      *)
(* applied to it.  Requests to the LLM always come back with a text, since *)
(* failed ones are repeated for ever (module LLMFailover), and take any    *)
(* time.  Time passes in units of the budget.                              *)
(***************************************************************************)
EXTENDS Integers

CONSTANTS Metric,      \* what a run may report
          MaxModules,  \* bound: modules in a plan
          MaxDebug,    \* mcts.max_debug_attempts
          PerRun,      \* task.per_run_timeout_sec
          Budget       \* what is left of task.wallclock_sec at the beginning

ASSUME IterationAssumption ==
  /\ Metric \subseteq Nat \ {0}
  /\ {MaxModules, MaxDebug} \subseteq Nat
  /\ {PerRun, Budget} \subseteq Nat \ {0}

None == 0

VARIABLES
  pc,         \* where the iteration is
  action,     \* what it does with the node selected
  status,     \* the status of its node
  todo,       \* patches still to be requested before the run
  version,    \* patches applied to the node's repository
  applied,    \* patch_applied
  failed,     \* patch_apply_error is set
  result,     \* exec_res
  attempts,   \* debug_idx
  remaining,  \* remaining_for_exec or remaining_for_debug
  timeout,    \* time left of the run
  exhausted,  \* budget_exhausted_during_iter
  budget,     \* what is left of the wallclock budget
  measured    \* history: the version that the last run ran

patching == <<status, todo, version, applied, failed>>
vars == <<pc, action, patching, result, attempts, remaining, timeout, exhausted, budget,
          measured>>

PC == {"idea", "plan", "create", "patch", "check", "exec", "debug", "fix", "review", "end"}

TypeOK ==
  /\ pc \in PC /\ action \in {"draft", "improve", "debug"}
  /\ status \in {"none", "pending", "codegen_done", "patched"}
  /\ todo \in 0 .. MaxModules + 1
  /\ version \in 0 .. MaxModules + 1 + MaxDebug
  /\ applied \in BOOLEAN /\ failed \in BOOLEAN /\ exhausted \in BOOLEAN
  /\ result \in [exit : {-1, 0, 1}, metric : Metric \cup {None}]
  /\ attempts \in 0 .. MaxDebug
  /\ {remaining, budget} \subseteq 0 .. Budget /\ timeout \in 0 .. PerRun
  /\ measured \in 0 .. version

NoResult == [exit |-> -1, metric |-> None]

Init ==
  /\ action \in {"draft", "improve", "debug"}
  /\ pc = IF action = "draft" THEN "idea" ELSE "create"
  /\ status = "none" /\ todo = 1 /\ version = 0
  /\ applied = FALSE /\ failed = FALSE
  /\ result = NoResult /\ attempts = 0
  /\ remaining = 0 /\ timeout = 0 /\ exhausted = FALSE
  /\ budget = Budget
  /\ measured = 0

-----------------------------------------------------------------------------
(* Planning and patching.                                                  *)

\* A draft without an idea goes on like an improvement.
Idea ==
  /\ pc = "idea"
  /\ pc' \in {"plan", "create"}
  /\ UNCHANGED <<action, patching, result, attempts, remaining, timeout, exhausted, budget,
                 measured>>

\* A plan of k modules takes k patches and one that puts them together; a plan of
\* none, or none at all, takes a single patch.
Plan(k) ==
  /\ pc = "plan"
  /\ todo' = k + 1
  /\ pc' = "create"
  /\ UNCHANGED <<action, status, version, applied, failed, result, attempts, remaining,
                 timeout, exhausted, budget, measured>>

CreateNode ==
  /\ pc = "create"
  /\ status' = "pending"
  /\ pc' = "patch"
  /\ UNCHANGED <<action, todo, version, applied, failed, result, attempts, remaining, timeout,
                 exhausted, budget, measured>>

\* _attempt_apply_patch: the answer has no diff, one that applies, or one that is
\* rejected as a whole; a rejected one ends the patching.
Patch(outcome) ==
  /\ pc = "patch"
  /\ status' = IF outcome = "applied" THEN "patched" ELSE "codegen_done"
  /\ version' = IF outcome = "applied" THEN version + 1 ELSE version
  /\ applied' = (applied \/ outcome = "applied")
  /\ failed' = (outcome = "rejected")
  /\ todo' = IF outcome = "rejected" THEN 0 ELSE todo - 1
  /\ pc' = IF todo' = 0 THEN "check" ELSE "patch"
  /\ UNCHANGED <<action, result, attempts, remaining, timeout, exhausted, budget, measured>>

-----------------------------------------------------------------------------
(* Running and debugging.                                                  *)

Lesser(a, b) == IF a <= b THEN a ELSE b

\* _run_exec_once of version v, with the time left as the caller has read it.
Run(v, left) ==
  /\ timeout' = Lesser(PerRun, left)
  /\ measured' = v
  /\ pc' = "exec"

\* A rejected patch, or none, means no run; so does an exhausted budget.
Check ==
  /\ pc = "check"
  /\ \/ /\ failed \/ ~applied
        /\ result' = NoResult
        /\ pc' = "debug"
        /\ UNCHANGED <<remaining, timeout, exhausted, measured>>
     \/ /\ ~failed /\ applied
        /\ remaining' = budget
        /\ \/ /\ budget = 0
              /\ exhausted' = TRUE
              /\ result' = NoResult
              /\ pc' = "debug"
              /\ UNCHANGED <<timeout, measured>>
           \/ /\ budget > 0
              /\ Run(version, budget)
              /\ UNCHANGED <<result, exhausted>>
  /\ UNCHANGED <<action, patching, attempts, budget>>

\* The run ends, with or without a metric; or its time is over, or the worker raised.
RunEnds(r) ==
  /\ pc = "exec"
  /\ r.exit = -1 => r.metric = None
  /\ result' = r
  /\ timeout' = 0
  /\ pc' = "debug"
  /\ UNCHANGED <<action, patching, attempts, remaining, exhausted, budget, measured>>

Succeeded == result.exit = 0 /\ result.metric # None

\* Mutant: one attempt too many.
DebugOneMore ==
  /\ pc = "debug"
  /\ \/ /\ exhausted \/ Succeeded \/ attempts > MaxDebug
        /\ pc' = "review"
        /\ UNCHANGED <<attempts, remaining, exhausted>>
     \/ /\ ~exhausted /\ ~Succeeded /\ attempts <= MaxDebug
        /\ attempts' = attempts + 1
        /\ remaining' = budget
        /\ exhausted' = (budget = 0)
        /\ pc' = IF budget = 0 THEN "review" ELSE "fix"
  /\ UNCHANGED <<action, patching, result, timeout, budget, measured>>

\* One turn of the debug loop, up to its request for a patch.
Debug ==
  /\ pc = "debug"
  /\ \/ /\ exhausted \/ Succeeded \/ attempts = MaxDebug
        /\ pc' = "review"
        /\ UNCHANGED <<attempts, remaining, exhausted>>
     \/ /\ ~exhausted /\ ~Succeeded /\ attempts < MaxDebug
        /\ attempts' = attempts + 1
        /\ remaining' = budget
        /\ exhausted' = (budget = 0)
        /\ pc' = IF budget = 0 THEN "review" ELSE "fix"
  /\ UNCHANGED <<action, patching, result, timeout, budget, measured>>

\* An answer without a diff gives up.
FixMissing ==
  /\ pc = "fix"
  /\ pc' = "review"
  /\ UNCHANGED <<action, patching, result, attempts, remaining, timeout, exhausted, budget,
                 measured>>

\* Mutant: a rejected fix is not counted as an attempt.
FixRejectedUncounted ==
  /\ pc = "fix"
  /\ result' = NoResult
  /\ attempts' = attempts - 1
  /\ pc' = "debug"
  /\ UNCHANGED <<action, patching, remaining, timeout, exhausted, budget, measured>>

\* Mutant: after a rejected fix the code is run all the same.
FixRejectedRuns ==
  /\ pc = "fix"
  /\ Run(version, remaining)
  /\ UNCHANGED <<action, patching, result, attempts, remaining, exhausted, budget>>

\* A rejected fix replaces the result of the last run by a failure.
FixRejected ==
  /\ pc = "fix"
  /\ result' = NoResult
  /\ pc' = "debug"
  /\ UNCHANGED <<action, patching, attempts, remaining, timeout, exhausted, budget, measured>>

\* Mutant: the last attempt's fix is applied but not run.
FixUnrun ==
  /\ pc = "fix"
  /\ version' = version + 1 /\ applied' = TRUE
  /\ IF attempts < MaxDebug
       THEN Run(version + 1, remaining)
       ELSE pc' = "review" /\ UNCHANGED <<timeout, measured>>
  /\ UNCHANGED <<action, status, todo, failed, result, attempts, remaining, exhausted, budget>>

\* A fix is run, for as long as the time left before it was asked for allows.
Fix ==
  /\ pc = "fix"
  /\ version' = version + 1 /\ applied' = TRUE
  /\ Run(version + 1, remaining)
  /\ UNCHANGED <<action, status, todo, failed, result, attempts, remaining, exhausted, budget>>

\* The reviewer calls the metric invalid, supplies one that the run did not report,
\* or leaves the result alone.
Review(m) ==
  /\ pc = "review"
  /\ m \in {None, result.metric} \/ result.metric = None
  /\ result' = [result EXCEPT !.metric = m]
  /\ pc' = "end"
  /\ UNCHANGED <<action, patching, attempts, remaining, timeout, exhausted, budget, measured>>

-----------------------------------------------------------------------------

Less(n) == IF n = 0 THEN 0 ELSE n - 1

\* Time passes; a run that has used up its own is killed first.
Tick ==
  /\ budget > 0 /\ pc # "end"
  /\ pc = "exec" => timeout > 0
  /\ budget' = budget - 1
  /\ timeout' = Less(timeout)
  /\ UNCHANGED <<pc, action, patching, result, attempts, remaining, exhausted, measured>>

Work ==
  \/ Idea \/ \E k \in 0 .. MaxModules : Plan(k)
  \/ CreateNode \/ \E o \in {"missing", "applied", "rejected"} : Patch(o)
  \/ Check \/ \E r \in [exit : {-1, 0, 1}, metric : Metric \cup {None}] : RunEnds(r)
  \/ Debug \/ FixMissing \/ FixRejected \/ Fix
  \/ \E m \in Metric \cup {None} : Review(m)

Next == Work \/ Tick

Spec == Init /\ [][Next]_vars

\* Requests are answered and runs end.
FairSpec == Spec /\ WF_vars(Work)

-----------------------------------------------------------------------------
(* Properties.                                                             *)

\* A metric that a run reported, and that is going to be scored, was measured on the
\* code as the node leaves it, however often it was patched and run.
MetricMatchesCode ==
  pc = "review" /\ result.metric # None => measured = version /\ version > 0

\* "Skip execution of unchanged repository": code is run only if it has been patched
\* since it was last run, and since its node was created.
RunsOnlyNewCode == [][pc # "exec" /\ pc' = "exec" => measured' > measured]_vars

\* "Constrains per-run execution timeout by remaining budget": a run is never given
\* more time than the budget has left when it is started.
RunFitsBudget == [][pc # "exec" /\ pc' = "exec" => timeout' <= budget]_vars

\* Every iteration ends, whatever the patches and runs come to and even if its budget
\* is never exhausted.
IterationEnds == <>(pc = "end")

=============================================================================
