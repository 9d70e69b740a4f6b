----------------------------- MODULE SearchTree -----------------------------
(***************************************************************************)
(* The search: the main loop of run_controller in                          *)
(* src/src/mars/controller.py, the selection of the node to expand, the    *)
(* scoring of its child, and what the SQLite tables and the files under    *)
(* tree/ and repos/ hold when the controller dies and is resumed.          *)
(*                                                                         *)
(* Every write to the database is a transaction of its own and a step of   *)
(* its own.  The work of an iteration between the creation of its node and *)
(* the review is one step here, which ends in a metric or in none; module  *)
(* Iteration has its steps.                                                *)
(*                                                                         *)
(* UCT scores are floats.  What matters here is that an unvisited child    *)
(* scores infinity and that the first of several wins; among visited       *)
(* children any may have the best score.  Rewards feed nothing but these   *)
(* scores and are left out, except that the range they are normalised with *)
(* must cover the metrics.                                                 *)
(***************************************************************************)
EXTENDS Integers, Sequences, FiniteSets, FiniteSetsExt

CONSTANTS Metric,          \* the metrics a run may report
          HigherIsBetter,  \* task.higher_is_better
          MaxDrafts,       \* mcts.max_root_drafts
          Reactivate,      \* mcts.root_reactivate_after_valid_no_improve
          MaxImprove,      \* mcts.max_improve_children
          Threshold,       \* mcts.identical_metric_streak_to_force_debug
          MaxIters,        \* max_iters of the command line
          NaN,             \* float("nan"), which a metric regex or a reviewer may let through
          Budget,          \* bound: units of task.wallclock_sec
          MaxCrashes       \* bound: ends of a controller

ASSUME SearchAssumption ==
  /\ Metric \subseteq Nat \ {0}
  /\ HigherIsBetter \in BOOLEAN
  /\ {MaxDrafts, Reactivate, MaxImprove, Threshold} \subseteq Nat \ {0}
  /\ {MaxIters, Budget, MaxCrashes} \subseteq Nat
  /\ NaN \notin Int

None == 0   \* no node, no metric

\* What an iteration may have measured.  SQLite stores NaN as NULL in a column, and the
\* key-value table keeps it as "nan".
Measured == Metric \cup {NaN}

\* a < b between floats: false when either is not a number.
Below(a, b) == NaN \notin {a, b} /\ a < b

VARIABLES
  pc,         \* where the controller is
  nodes,      \* the table of nodes, in the order of their ids
  kv,         \* the table best_state
  records,    \* tree/iter_<i>.json: the child it names, or None
  repos,      \* the directories under repos/, as <<iteration, suffix>>
  mem,        \* the variables of run_controller
  budget,     \* what is left of the wallclock budget
  crashes,    \* bound: ends of a controller so far
  owed        \* history: the guard has asked for a DEBUG that has not begun

disk == <<nodes, kv, records, repos>>
vars == <<pc, disk, mem, budget, crashes, owed>>

Node == 1 .. Len(nodes)
Status == {"pending", "codegen_done", "patched", "done", "buggy"}
Action == {"draft", "improve", "debug"}
PC == {"down", "create_root", "set_root", "set_best", "load", "iterate", "descend", "decide",
       "clear_flag", "create", "work", "last_metric", "streak", "flag", "low", "high",
       "result", "reset_streak", "backup", "best", "since", "record", "finish", "done"}
MaxNodes == 1 + MaxIters + MaxCrashes
Value == {-m : m \in Metric} \cup Measured \cup {None}

TypeOK ==
  /\ pc \in PC
  /\ nodes \in Seq([parent : 0 .. MaxNodes, action : Action, status : Status,
                    metric : Metric \cup {None}, visits : Nat,
                    repo : (0 .. MaxIters) \X Nat])
  /\ \A n \in Node : nodes[n].parent \in 0 .. n - 1
  /\ kv \in [root : 0 .. Len(nodes), best : 0 .. Len(nodes), low : Value, high : Value,
             since : Nat, force : BOOLEAN, last : Measured \cup {None}, streak : Nat]
  /\ records \in [1 .. MaxIters -> 0 .. Len(nodes)]
  /\ repos \subseteq (0 .. MaxIters) \X Nat
  /\ mem \in [root : 0 .. Len(nodes), best : 0 .. Len(nodes), low : Value, high : Value,
              since : Nat, force : BOOLEAN, it : 0 .. MaxIters + 1, path : Seq(Node),
              action : Action, child : 0 .. Len(nodes), metric : Measured \cup {None},
              backed : Nat]
  /\ budget \in 0 .. Budget /\ crashes \in 0 .. MaxCrashes + 1 /\ owed \in BOOLEAN

NoMem == [root |-> None, best |-> None, low |-> None, high |-> None, since |-> 0,
          force |-> FALSE, it |-> 0, path |-> <<>>, action |-> "draft", child |-> None,
          metric |-> None, backed |-> 0]

Init ==
  /\ pc = "down"
  /\ nodes = <<>>
  /\ kv = [root |-> None, best |-> None, low |-> None, high |-> None, since |-> 0,
           force |-> FALSE, last |-> None, streak |-> 0]
  /\ records = [i \in 1 .. MaxIters |-> None]
  /\ repos = {}
  /\ mem = NoMem
  /\ budget = Budget /\ crashes = 0 /\ owed = FALSE

-----------------------------------------------------------------------------
(* Coming up: init_run and the first part of run_controller.               *)

\* Mutant: the directory of the iteration is used again.
SnapshotReused(i) == <<i, 0>>

\* materialize_repo: a directory of the iteration's number that does not exist yet.
Snapshot(i) == <<i, Min({s \in 0 .. MaxNodes : <<i, s>> \notin repos})>>

NewNode(parent, action, status, repo) ==
  [parent |-> parent, action |-> action, status |-> status, metric |-> None, visits |-> 0,
   repo |-> repo]

Boot ==
  /\ pc = "down" /\ crashes <= MaxCrashes
  /\ pc' = IF kv.root = None THEN "create_root" ELSE "load"
  /\ UNCHANGED <<disk, mem, budget, crashes, owed>>

CreateRoot ==
  /\ pc = "create_root"
  /\ repos' = repos \cup {Snapshot(0)}
  /\ nodes' = Append(nodes, NewNode(None, "draft", "done", Snapshot(0)))
  /\ pc' = "set_root"
  /\ UNCHANGED <<kv, records, mem, budget, crashes, owed>>

\* root_node_id, then best_node_id; the keys written after them have the values that
\* a missing key stands for.
SetRoot ==
  /\ pc = "set_root"
  /\ kv' = [kv EXCEPT !.root = Len(nodes)]
  /\ pc' = "set_best"
  /\ UNCHANGED <<nodes, records, repos, mem, budget, crashes, owed>>

SetFirstBest ==
  /\ pc = "set_best"
  /\ kv' = [kv EXCEPT !.best = kv.root]
  /\ pc' = "load"
  /\ UNCHANGED <<nodes, records, repos, mem, budget, crashes, owed>>

LastRecord == Max({0} \cup {i \in 1 .. MaxIters : records[i] # None})

\* Mutant: the flag of the guard is not read back.
LoadForgetsFlag ==
  /\ pc = "load"
  /\ mem' = [NoMem EXCEPT !.root = kv.root,
                          !.best = IF kv.best = None THEN kv.root ELSE kv.best,
                          !.low = kv.low, !.high = kv.high,
                          !.since = kv.since,
                          !.it = LastRecord + 1]
  /\ pc' = IF LastRecord + 1 > MaxIters THEN "done" ELSE "iterate"
  /\ UNCHANGED <<disk, budget, crashes, owed>>

\* Mutant: the last recorded iteration is done again.
LoadRepeats ==
  /\ pc = "load"
  /\ mem' = [NoMem EXCEPT !.root = kv.root,
                          !.best = IF kv.best = None THEN kv.root ELSE kv.best,
                          !.low = kv.low, !.high = kv.high,
                          !.since = kv.since, !.force = kv.force,
                          !.it = Max({1, LastRecord})]
  /\ pc' = "iterate"
  /\ UNCHANGED <<disk, budget, crashes, owed>>

\* Mutant: the best node so far is not read back.
LoadForgetsBest ==
  /\ pc = "load"
  /\ mem' = [NoMem EXCEPT !.root = kv.root, !.best = kv.root,
                          !.low = kv.low, !.high = kv.high,
                          !.since = kv.since, !.force = kv.force,
                          !.it = LastRecord + 1]
  /\ pc' = IF LastRecord + 1 > MaxIters THEN "done" ELSE "iterate"
  /\ UNCHANGED <<disk, budget, crashes, owed>>

\* What an earlier controller left: the iteration after the last one recorded.
Load ==
  /\ pc = "load"
  /\ mem' = [NoMem EXCEPT !.root = kv.root,
                          !.best = IF kv.best = None THEN kv.root ELSE kv.best,
                          !.low = kv.low, !.high = kv.high,
                          !.since = kv.since, !.force = kv.force,
                          !.it = LastRecord + 1]
  /\ pc' = IF LastRecord + 1 > MaxIters THEN "done" ELSE "iterate"
  /\ UNCHANGED <<disk, budget, crashes, owed>>

-----------------------------------------------------------------------------
(* Selection.                                                              *)

\* Mutant: one iteration too many.
IterateTooFar ==
  /\ pc = "iterate"
  /\ IF mem.it > MaxIters + 1 \/ budget = 0
       THEN pc' = "finish" /\ UNCHANGED mem
       ELSE pc' = "descend" /\ mem' = [mem EXCEPT !.path = <<mem.root>>]
  /\ UNCHANGED <<disk, budget, crashes, owed>>

\* The wallclock budget is looked at before each iteration.
Iterate ==
  /\ pc = "iterate"
  /\ IF mem.it > MaxIters \/ budget = 0
       THEN pc' = "finish" /\ UNCHANGED mem
       ELSE pc' = "descend" /\ mem' = [mem EXCEPT !.path = <<mem.root>>]
  /\ UNCHANGED <<disk, budget, crashes, owed>>

Children(n) == {c \in Node : nodes[c].parent = n}

\* Mutant: a buggy node may be improved like another.
ExpandedIfFull(n) ==
  IF n = mem.root
    THEN Cardinality(Children(n)) >= MaxDrafts /\ mem.since < Reactivate
    ELSE Cardinality(Children(n)) >= MaxImprove

\* _is_fully_expanded
FullyExpanded(n) ==
  IF n = mem.root
    THEN Cardinality(Children(n)) >= MaxDrafts /\ mem.since < Reactivate
    ELSE nodes[n].status = "buggy" \/ Cardinality(Children(n)) >= MaxImprove

\* The children that may have the highest score.
Preferred(n) ==
  LET unvisited == {c \in Children(n) : nodes[c].visits = 0} IN
    IF unvisited # {} THEN {Min(unvisited)} ELSE Children(n)

\* Mutant: a leaf that may not be expanded sends the search back to its beginning.
DescendRestarts ==
  /\ pc = "descend"
  /\ LET n == mem.path[Len(mem.path)] IN
       \/ /\ ~FullyExpanded(n)
          /\ pc' = "decide" /\ UNCHANGED mem
       \/ /\ FullyExpanded(n) /\ Children(n) = {}
          /\ mem' = [mem EXCEPT !.path = <<mem.root>>]
          /\ UNCHANGED pc
       \/ /\ FullyExpanded(n)
          /\ \E c \in Preferred(n) : mem' = [mem EXCEPT !.path = Append(@, c)]
          /\ UNCHANGED pc
  /\ UNCHANGED <<disk, budget, crashes, owed>>

\* One round of the loop in _select_parent_for_expansion.
Descend ==
  /\ pc = "descend"
  /\ LET n == mem.path[Len(mem.path)] IN
       \/ /\ ~FullyExpanded(n)
          /\ pc' = "decide" /\ UNCHANGED mem
       \/ /\ FullyExpanded(n) /\ Children(n) = {}
          /\ mem' = [mem EXCEPT !.path = <<mem.root>>]
          /\ pc' = "decide"
       \/ /\ FullyExpanded(n)
          /\ \E c \in Preferred(n) : mem' = [mem EXCEPT !.path = Append(@, c)]
          /\ UNCHANGED pc
  /\ UNCHANGED <<disk, budget, crashes, owed>>

Parent == mem.path[Len(mem.path)]

DecideAction(n) ==
  IF n = mem.root THEN "draft" ELSE IF nodes[n].status = "buggy" THEN "debug" ELSE "improve"

\* The guard's request overrides the choice and is taken back before the work begins.
Decide ==
  /\ pc = "decide"
  /\ IF mem.force
       THEN /\ mem' = [mem EXCEPT !.action = "debug", !.force = FALSE]
            /\ owed' = FALSE
            /\ pc' = "clear_flag"
       ELSE /\ mem' = [mem EXCEPT !.action = DecideAction(Parent)]
            /\ UNCHANGED owed
            /\ pc' = "create"
  /\ UNCHANGED <<disk, budget, crashes>>

ClearFlag ==
  /\ pc = "clear_flag"
  /\ kv' = [kv EXCEPT !.force = FALSE]
  /\ pc' = "create"
  /\ UNCHANGED <<nodes, records, repos, mem, budget, crashes, owed>>

-----------------------------------------------------------------------------
(* The iteration's node.                                                   *)

CreateChild ==
  /\ pc = "create"
  /\ repos' = repos \cup {Snapshot(mem.it)}
  /\ nodes' = Append(nodes, NewNode(Parent, mem.action, "pending", Snapshot(mem.it)))
  /\ mem' = [mem EXCEPT !.child = Len(nodes) + 1]
  /\ pc' = "work"
  /\ UNCHANGED <<kv, records, budget, crashes, owed>>

\* A patch has been generated, and maybe applied; a draft takes several.
Patch(s) ==
  /\ pc = "work" /\ nodes[mem.child].status # s
  /\ nodes' = [nodes EXCEPT ![mem.child].status = s]
  /\ UNCHANGED <<pc, kv, records, repos, mem, budget, crashes, owed>>

\* The review is over: the iteration has a metric, or none.
Outcome(m) ==
  /\ pc = "work"
  /\ mem' = [mem EXCEPT !.metric = m]
  /\ pc' = IF m = None THEN "reset_streak" ELSE "last_metric"
  /\ UNCHANGED <<disk, budget, crashes, owed>>

-----------------------------------------------------------------------------
(* Scoring.                                                                *)

\* _update_identical_metric_guard writes the metric, the streak and, at the
\* threshold, the flag.
SaveLastMetric ==
  /\ pc = "last_metric"
  /\ kv' = [kv EXCEPT !.last = mem.metric]
  /\ mem' = [mem EXCEPT !.backed = IF mem.metric # NaN /\ kv.last = mem.metric THEN kv.streak + 1 ELSE 1]
  /\ pc' = "streak"
  /\ UNCHANGED <<nodes, records, repos, budget, crashes, owed>>

\* mem.backed holds the new streak until it is written.
SaveStreak ==
  /\ pc = "streak"
  /\ kv' = [kv EXCEPT !.streak = mem.backed]
  /\ mem' = [mem EXCEPT !.backed = 0]
  /\ pc' = IF mem.backed < Threshold THEN "low" ELSE "flag"
  /\ UNCHANGED <<nodes, records, repos, budget, crashes, owed>>

SaveFlag ==
  /\ pc = "flag"
  /\ kv' = [kv EXCEPT !.force = TRUE]
  /\ mem' = [mem EXCEPT !.force = TRUE]
  /\ owed' = TRUE
  /\ pc' = "low"
  /\ UNCHANGED <<nodes, records, repos, budget, crashes>>

Objective(m) == IF HigherIsBetter \/ m = NaN THEN m ELSE -m

\* Mutant: the low end is made persistent at the end of the run only.
SaveLowUnsaved ==
  /\ pc = "low"
  /\ LET v == Objective(mem.metric) IN
       mem' = [mem EXCEPT !.low = IF @ = None \/ Below(v, @) THEN v ELSE @,
                          !.high = IF @ = None \/ Below(@, v) THEN v ELSE @]
  /\ pc' = "high"
  /\ UNCHANGED <<disk, budget, crashes, owed>>

\* Mutant: an end of the range moves unless the metric is known to be inside.
SaveLowUnlessInside ==
  /\ pc = "low"
  /\ LET v == Objective(mem.metric) IN
       mem' = [mem EXCEPT !.low = IF @ = None \/ ~(Below(@, v) \/ v = @) THEN v ELSE @,
                          !.high = IF @ = None \/ ~(Below(v, @) \/ v = @) THEN v ELSE @]
  /\ kv' = [kv EXCEPT !.low = mem'.low]
  /\ pc' = "high"
  /\ UNCHANGED <<nodes, records, repos, budget, crashes, owed>>

\* MetricHistory.update, and its two ends made persistent one after the other.
SaveLow ==
  /\ pc = "low"
  /\ LET v == Objective(mem.metric) IN
       mem' = [mem EXCEPT !.low = IF @ = None \/ Below(v, @) THEN v ELSE @,
                          !.high = IF @ = None \/ Below(@, v) THEN v ELSE @]
  /\ kv' = [kv EXCEPT !.low = mem'.low]
  /\ pc' = "high"
  /\ UNCHANGED <<nodes, records, repos, budget, crashes, owed>>

SaveHigh ==
  /\ pc = "high"
  /\ kv' = [kv EXCEPT !.high = mem.high]
  /\ pc' = "result"
  /\ UNCHANGED <<nodes, records, repos, mem, budget, crashes, owed>>

\* Mutant: a failed iteration does not interrupt the streak.
ResetStreakNot ==
  /\ pc = "reset_streak"
  /\ pc' = "result"
  /\ UNCHANGED <<disk, mem, budget, crashes, owed>>

\* A failed iteration.
ResetStreak ==
  /\ pc = "reset_streak"
  /\ kv' = [kv EXCEPT !.streak = 0]
  /\ pc' = "result"
  /\ UNCHANGED <<nodes, records, repos, mem, budget, crashes, owed>>

\* update_node_result
SaveResult ==
  /\ pc = "result"
  /\ nodes' = [nodes EXCEPT ![mem.child].metric = IF mem.metric = NaN THEN None ELSE mem.metric,
                            ![mem.child].status = IF mem.metric = None THEN "buggy" ELSE "done"]
  /\ pc' = "backup"
  /\ UNCHANGED <<kv, records, repos, mem, budget, crashes, owed>>

\* Mutant: the visits are counted from the child up.
BackupUpwards == [k \in 1 .. Len(mem.path) + 1 |-> Append(mem.path, mem.child)[Len(mem.path) + 2 - k]]

\* selection_path + [child_id]
BackupPath == Append(mem.path, mem.child)

\* normalize() returns NaN if an end of the range is NaN, or if the metric is NaN and
\* the range has two ends.
RewardIsNaN ==
  /\ mem.metric # None
  /\ NaN \in {mem.low, mem.high} \/ (mem.metric = NaN /\ mem.low # mem.high)

\* A reward that is not a number violates NOT NULL: IntegrityError ends the controller.
BackupFails ==
  /\ pc = "backup" /\ RewardIsNaN
  /\ crashes' = crashes + 1
  /\ mem' = NoMem
  /\ pc' = "down"
  /\ UNCHANGED <<disk, budget, owed>>

\* _backup_path counts the visit of one node after the other, from the root down.
Backup ==
  /\ pc = "backup" /\ ~RewardIsNaN
  /\ LET k == mem.backed + 1 IN
       /\ nodes' = [nodes EXCEPT ![BackupPath[k]].visits = @ + 1]
       /\ mem' = [mem EXCEPT !.backed = IF k = Len(BackupPath) THEN 0 ELSE k]
       /\ pc' = IF k < Len(BackupPath) THEN "backup"
                ELSE IF mem.metric = None THEN "since" ELSE "best"
  /\ UNCHANGED <<kv, records, repos, budget, crashes, owed>>

\* _is_improved
Improves(new, old) ==
  old = None \/ IF HigherIsBetter THEN Below(old, new) ELSE Below(new, old)

\* The lesson has been distilled; now the best node.
SaveBest ==
  /\ pc = "best"
  /\ IF Improves(mem.metric, nodes[mem.best].metric)
       THEN /\ mem' = [mem EXCEPT !.best = mem.child, !.since = 0]
            /\ kv' = [kv EXCEPT !.best = mem.child]
       ELSE /\ mem' = [mem EXCEPT !.since = @ + 1]
            /\ UNCHANGED kv
  /\ pc' = "since"
  /\ UNCHANGED <<nodes, records, repos, budget, crashes, owed>>

SaveSince ==
  /\ pc = "since"
  /\ kv' = [kv EXCEPT !.since = mem.since]
  /\ pc' = "record"
  /\ UNCHANGED <<nodes, records, repos, mem, budget, crashes, owed>>

WriteRecord ==
  /\ pc = "record"
  /\ records' = [records EXCEPT ![mem.it] = mem.child]
  /\ mem' = [mem EXCEPT !.it = @ + 1, !.path = <<>>, !.child = None, !.metric = None]
  /\ pc' = "iterate"
  /\ UNCHANGED <<nodes, kv, repos, budget, crashes, owed>>

Finish ==
  /\ pc = "finish"
  /\ kv' = [kv EXCEPT !.best = mem.best]
  /\ pc' = "done"
  /\ UNCHANGED <<nodes, records, repos, mem, budget, crashes, owed>>

-----------------------------------------------------------------------------
(* The surroundings.                                                       *)

\* The controller is killed, or an exception ends it: a TimeoutError of
\* wait_for_result, a full disk, a locked database.
Crash ==
  /\ pc \notin {"down", "done"} /\ crashes < MaxCrashes
  /\ crashes' = crashes + 1
  /\ mem' = NoMem
  /\ pc' = "down"
  /\ UNCHANGED <<disk, budget, owed>>

\* run_started_at is persistent, so that the budget also runs while nothing does.
Spend ==
  /\ budget > 0
  /\ budget' = budget - 1
  /\ UNCHANGED <<pc, disk, mem, crashes, owed>>

Resume == Boot \/ CreateRoot \/ SetRoot \/ SetFirstBest \/ Load
Selection == Iterate \/ Descend \/ Decide \/ ClearFlag \/ CreateChild
Work ==
  \/ \E s \in {"codegen_done", "patched"} : Patch(s)
  \/ \E m \in Measured \cup {None} : Outcome(m)
Scoring ==
  \/ SaveLastMetric \/ SaveStreak \/ SaveFlag \/ SaveLow \/ SaveHigh \/ ResetStreak
  \/ SaveResult \/ Backup \/ BackupFails \/ SaveBest \/ SaveSince \/ WriteRecord \/ Finish

Next == Resume \/ Selection \/ Work \/ Scoring \/ Crash \/ Spend

Spec == Init /\ [][Next]_vars

\* A controller that is up goes on; its requests are answered.
FairSpec ==
  /\ Spec
  /\ WF_vars(Resume /\ pc # "down") /\ WF_vars(Selection) /\ WF_vars(Scoring)
  /\ WF_vars(\E m \in Measured \cup {None} : Outcome(m))

-----------------------------------------------------------------------------
(* Properties.                                                             *)

\* A node has been visited at least as often as its children together, at every
\* instant and after every crash: UCT divides by the one and takes the logarithm of
\* the other.
VisitsFlow ==
  \A n \in Node : nodes[n].visits >= MapThenSumSet(LAMBDA c : nodes[c].visits, Children(n))

\* The persistent range, if it is one, covers the metric of every node that is done,
\* so that no resumed controller normalises a metric out of [0, 1].
RangeCovers ==
  NaN \notin {kv.low, kv.high} => \A n \in Node : nodes[n].status = "done" /\ nodes[n].metric # None =>
    kv.low <= Objective(nodes[n].metric) /\ Objective(nodes[n].metric) <= kv.high

\* A metric that is not a number never displaces an end of the range: what it costs
\* is an iteration, not the rewards of the rest of the run.  (An end that is not set
\* yet does take it, and the run never gets a reward again.)
NaNDisplacesNothing ==
  [][\A e \in {"low", "high"} : kv[e] \notin {None, NaN} => kv'[e] # NaN]_vars

\* No recorded iteration found a better node than the best node on disk, whatever
\* crashes came after it.
BestCoversRecords ==
  \A i \in DOMAIN records : records[i] # None =>
    LET m == nodes[records[i]].metric IN
      m # None => /\ kv.best # None
                  /\ nodes[kv.best].metric # None
                  /\ ~Improves(m, nodes[kv.best].metric)

\* "Buggy nodes are always fully expanded": none has a child, although the status of
\* a node may change between the selections it takes part in.
BuggyNeverExpanded ==
  \A n \in Node : nodes[n].parent # None => nodes[nodes[n].parent].status # "buggy"

\* When the guard has asked for a DEBUG, the next iteration that begins is one, also
\* when another controller begins it.
ForcedDebugNext ==
  [][pc = "decide" /\ pc' \in {"clear_flag", "create"} /\ owed => mem'.action = "debug"]_vars

\* The guard asks for a DEBUG only after as many identical metrics in a row as its
\* threshold says, in a run that never crashed.
FlagMeansRepeated ==
  pc = "flag" /\ crashes = 0 =>
    /\ mem.it >= Threshold
    /\ \A i \in mem.it - Threshold + 1 .. mem.it - 1 : nodes[records[i]].metric = mem.metric

\* "Avoid reusing the same writable snapshot path": no two nodes have one directory,
\* though a resumed run repeats the numbers of iterations it did not finish.
SnapshotsUnshared ==
  \A m, n \in Node : nodes[m].repo = nodes[n].repo => m = n

\* A resumed run never writes over the record of an iteration.
RecordsKept ==
  [][\A i \in DOMAIN records : records[i] # None => records'[i] = records[i]]_vars

\* "Improve (valid nodes)": a node that is improved has a result.
OnlyValidImproved ==
  [][pc = "decide" /\ pc' = "create" /\ mem'.action = "improve"
       => nodes[Parent].status = "done"]_vars

\* A run whose controller does not die ends, even when no node of the tree may be
\* expanded.
SearchEnds == pc = "iterate" ~> pc \in {"done", "down"}

=============================================================================
