-------------------------- MODULE SearchTreeProofs --------------------------
(***************************************************************************)
(* Theorems about SearchTree, for any metrics, limits, number of           *)
(* iterations and crashes.                                                 *)
(***************************************************************************)
EXTENDS SearchTree, FiniteSetTheorems, WellFoundedInduction, TLAPS

-----------------------------------------------------------------------------
(* The operators on numbers.                                               *)

\* A set of numbers that is not empty has a smallest member.
LEMMA Smallest ==
  ASSUME NEW S \in SUBSET Nat, S # {}
  PROVE  Min(S) \in S /\ \A x \in S : Min(S) <= x
<1>1. PICK x \in S : \A y \in S : ~(<<y, x>> \in OpToRel(<, Nat))
  BY NatLessThanWellFounded, WFMin
<1>2. ASSUME NEW y \in S PROVE ~(y < x)
  <2>1. <<y, x>> \in Nat \X Nat /\ <<y, x>>[1] = y /\ <<y, x>>[2] = x
    OBVIOUS
  <2>2. y < x => <<y, x>> \in OpToRel(<, Nat)
    BY <2>1 DEF OpToRel
  <2>3. QED
    BY <1>1, <2>2
<1>3. \A y \in S : x <= y
  BY <1>2
<1>4. QED
  BY <1>3 DEF Min

\* The limits of the command line and of the configuration are numbers.
LEMMA Bounds ==
  /\ MaxIters \in Nat /\ MaxCrashes \in Nat /\ Budget \in Nat /\ Threshold \in Nat
  /\ MaxNodes \in Nat /\ MaxNodes = 1 + MaxIters + MaxCrashes
<1>1. MaxIters \in Nat /\ MaxCrashes \in Nat /\ Budget \in Nat /\ Threshold \in Nat
  BY SearchAssumption
<1>2. QED
  BY <1>1 DEF MaxNodes

\* The greatest number of an iteration that r records, or 0.
LastOf(r) == Max({0} \cup {i \in 1 .. MaxIters : r[i] # None})

\* It is the number of a record, or 0, and no record comes after it.
LEMMA LastOfIs ==
  ASSUME NEW r
  PROVE  /\ LastOf(r) \in 0 .. MaxIters
         /\ LastOf(r) # 0 => r[LastOf(r)] # None
         /\ \A i \in 1 .. MaxIters : r[i] # None => i <= LastOf(r)
<1> DEFINE S == {0} \cup {i \in 1 .. MaxIters : r[i] # None}
           T == {MaxIters - i : i \in S}
<1>1. T \in SUBSET Nat /\ MaxIters - 0 \in T
  BY Bounds
<1>2. Min(T) \in T /\ \A y \in T : Min(T) <= y
  BY <1>1, Smallest
<1>3. PICK x \in S : Min(T) = MaxIters - x
  BY <1>2
<1>4. \A y \in S : MaxIters - x <= MaxIters - y
  BY <1>2, <1>3
<1>5. \A y \in S : x >= y
  BY <1>4, Bounds
<1>6. Max(S) \in S /\ \A y \in S : Max(S) >= y
  BY <1>5 DEF Max
<1>7. LastOf(r) = Max(S)
  BY DEF LastOf
<1>8. QED
  BY <1>6, <1>7, Bounds

\* What run_controller resumes from: no iteration after it is recorded.
LEMMA LastRecordIs ==
  /\ LastRecord = LastOf(records) /\ LastRecord \in 0 .. MaxIters
  /\ \A i \in 1 .. MaxIters : records[i] # None => i <= LastRecord
<1>1. LastRecord = LastOf(records)
  BY DEF LastRecord, LastOf
<1>2. QED
  BY <1>1, LastOfIs

\* A record after the last one is the last one.
LEMMA RecordIsLast ==
  ASSUME NEW r, NEW q, NEW k \in 1 .. MaxIters, k > LastOf(r), q[k] # None,
         \A i \in 1 .. MaxIters \ {k} : q[i] = r[i]
  PROVE  LastOf(q) = k
<1>1. \A i \in 1 .. MaxIters : q[i] # None => i <= k
  <2> TAKE i \in 1 .. MaxIters
  <2>1. CASE i = k
    BY <2>1
  <2>2. CASE i # k
    <3>1. q[i] # None => i <= LastOf(r)
      BY <2>2, LastOfIs
    <3>2. QED
      BY <3>1, LastOfIs, Bounds
  <2>3. QED
    BY <2>1, <2>2
<1>2. LastOf(q) \in 0 .. MaxIters /\ k <= LastOf(q) /\ (LastOf(q) # 0 => q[LastOf(q)] # None)
  BY LastOfIs
<1>3. QED
  BY <1>1, <1>2, Bounds

\* materialize_repo finds a directory that does not exist yet.
LEMMA SnapshotIsNew ==
  ASSUME IsFiniteSet(repos), Cardinality(repos) <= MaxNodes, MaxNodes \in Nat, NEW i \in Nat
  PROVE  /\ Snapshot(i) \in {i} \X (0 .. MaxNodes)
         /\ Snapshot(i) \notin repos
<1> DEFINE S == {s \in 0 .. MaxNodes : <<i, s>> \notin repos}
<1>1. S # {}
  <2> SUFFICES ASSUME S = {} PROVE FALSE
    OBVIOUS
  <2> DEFINE f == [s \in 0 .. MaxNodes |-> <<i, s>>]
  <2>1. f \in Injection(0 .. MaxNodes, repos)
    <3>1. f \in [0 .. MaxNodes -> repos]
      OBVIOUS
    <3>2. \A a, b \in 0 .. MaxNodes : f[a] = f[b] => a = b
      OBVIOUS
    <3>3. QED
      BY <3>1, <3>2 DEF Injection, IsInjective
  <2>2. Cardinality(0 .. MaxNodes) <= Cardinality(repos)
    <3> HIDE DEF f
    <3>1. QED
      BY <2>1, FS_Injection
  <2>3. Cardinality(0 .. MaxNodes) = MaxNodes + 1
    BY FS_Interval
  <2>4. Cardinality(repos) \in Nat
    BY FS_CardinalityType
  <2>5. QED
    BY <2>2, <2>3, <2>4
<1>2. S \in SUBSET Nat
  OBVIOUS
<1>3. Min(S) \in S
  <2> HIDE DEF S
  <2>1. QED
    BY <1>1, <1>2, Smallest
<1>4. QED
  BY <1>3 DEF Snapshot

-----------------------------------------------------------------------------
(* The inductive invariant.                                                *)

\* The controller has loaded its state; has an iteration in hand; has created its
\* node; has not written the node's result yet; has written it.
Unscored == {"work", "last_metric", "streak", "flag", "low", "high", "reset_streak", "result"}
Scored == {"backup", "best", "since", "record"}
Created == Unscored \cup Scored
Begun == {"descend", "decide", "clear_flag", "create"} \cup Created
Up == {"iterate", "finish", "done"} \cup Begun

\* The root is done, has no metric and is known by the time it is needed.
Rooted ==
  /\ pc \in {"create_root", "set_root"} => kv.root = None
  /\ pc \in {"set_best", "load"} \cup Up => kv.root # None
  /\ pc = "set_root" =>
       Len(nodes) > 0 /\ nodes[Len(nodes)].status = "done" /\ nodes[Len(nodes)].metric = None
  /\ kv.root # None => nodes[kv.root].status = "done" /\ nodes[kv.root].metric = None
  /\ pc \in Up => mem.root = kv.root

\* The node of the root, and the one in hand, as Numbered counts them.
Rooting(root, p) == IF root # None \/ p = "set_root" THEN 1 ELSE 0
Creating(p) == IF p \in Created THEN 1 ELSE 0

\* The iteration in hand follows the last one recorded; each node beyond the root is
\* in hand, is of a recorded iteration, or is what a crash left.
Numbered ==
  /\ pc # "down" => crashes <= MaxCrashes
  /\ pc \in Up => mem.it = LastOf(records) + 1
  /\ pc \in Begun => mem.it <= MaxIters
  /\ Len(nodes) <= LastOf(records) + crashes + Rooting(kv.root, pc) + Creating(pc)

\* The node in hand is the newest, is nobody's parent and in no record yet; the node
\* it is to be put under may be expanded.
Chosen ==
  /\ pc \in Begun => mem.path # <<>>
  /\ pc \in {"decide", "clear_flag", "create"} => nodes[Parent].status # "buggy"
  /\ BuggyNeverExpanded
  /\ pc \in Created =>
       /\ mem.child = Len(nodes) /\ mem.child # kv.root
       /\ \A i \in DOMAIN records : records[i] # mem.child
  /\ pc \in Unscored => nodes[mem.child].metric = None
  /\ pc \in Scored =>
       nodes[mem.child].metric = IF mem.metric = NaN THEN None ELSE mem.metric
  /\ pc \in {"last_metric", "streak", "flag", "low", "high", "best"} => mem.metric # None
  /\ pc = "reset_streak" => mem.metric = None
  /\ pc \in Up \ {"streak", "backup"} => mem.backed = 0
  /\ pc = "backup" => mem.backed <= Len(mem.path)

\* Each node has a directory, and each directory a node.
Housed ==
  /\ IsFiniteSet(repos) /\ Cardinality(repos) = Len(nodes)
  /\ \A n \in Node : nodes[n].repo \in repos
  /\ SnapshotsUnshared

\* The range from low to high, if it is one, holds the value v.
Holds(low, high, v) ==
  /\ low # None /\ high # None
  /\ NaN \notin {low, high} => low <= v /\ v <= high

\* The range in memory is the one on disk, but for the end that is being written, and
\* both hold every metric of a node.
Ranged ==
  /\ pc \in Up => mem.low = kv.low
  /\ pc \in Up \ {"high"} => mem.high = kv.high
  /\ pc = "high" =>
       /\ kv.high # None /\ (mem.high = NaN \/ kv.high = NaN) => mem.high = kv.high
       /\ mem.metric # NaN => Holds(mem.low, mem.high, Objective(mem.metric))
       /\ \A n \in Node : nodes[n].metric # None =>
            Holds(mem.low, mem.high, Objective(nodes[n].metric))
  /\ pc = "result" /\ mem.metric \notin {None, NaN} =>
       Holds(kv.low, kv.high, Objective(mem.metric))
  /\ \A n \in Node : nodes[n].metric # None =>
       Holds(kv.low, kv.high, Objective(nodes[n].metric))

\* The node b is as good as the metric m.
AsGood(b, m) ==
  b # None /\ nodes[b].metric # None /\ ~Improves(m, nodes[b].metric)

\* Nothing is recorded before the root is known.  The best node in memory is the one on
\* disk, or the root as long as there is none; it is as good as any node of a recorded
\* iteration, and as the node in hand once this has been compared.
Best ==
  /\ kv.root = None \/ pc = "set_best" => \A i \in DOMAIN records : records[i] = None
  /\ BestCoversRecords
  /\ pc \in Up => mem.best = IF kv.best = None THEN kv.root ELSE kv.best
  /\ pc \in Created \ {"since", "record"} => kv.best # mem.child
  /\ pc \in {"since", "record"} /\ nodes[mem.child].metric # None =>
       AsGood(kv.best, nodes[mem.child].metric)

IInv == TypeOK /\ Rooted /\ Numbered /\ Chosen /\ Housed /\ Ranged /\ Best

-----------------------------------------------------------------------------
(* Types.                                                                  *)

NodeRec == [parent : 0 .. MaxNodes, action : Action, status : Status,
            metric : Metric \cup {None}, visits : Nat, repo : (0 .. MaxIters) \X Nat]

\* The parts of TypeOK.
NodesTyped ==
  /\ nodes \in Seq(NodeRec)
  /\ \A n \in Node : nodes[n].parent \in 0 .. n - 1
KvTyped ==
  kv \in [root : 0 .. Len(nodes), best : 0 .. Len(nodes), low : Value, high : Value,
          since : Nat, force : BOOLEAN, last : Measured \cup {None}, streak : Nat]
MemType ==
  [root : 0 .. Len(nodes), best : 0 .. Len(nodes), low : Value, high : Value, since : Nat,
   force : BOOLEAN, it : 0 .. MaxIters + 1, path : Seq(Node), action : Action,
   child : 0 .. Len(nodes), metric : Measured \cup {None}, backed : Nat]
MemTyped == mem \in MemType
RestTyped ==
  /\ pc \in PC
  /\ records \in [1 .. MaxIters -> 0 .. Len(nodes)]
  /\ repos \subseteq (0 .. MaxIters) \X Nat
  /\ budget \in 0 .. Budget /\ crashes \in 0 .. MaxCrashes + 1 /\ owed \in BOOLEAN

\* TypeOK is what is said of the nodes, of the key-value table, of the memory and of the
\* rest.
LEMMA TypeParts == TypeOK <=> NodesTyped /\ KvTyped /\ MemTyped /\ RestTyped
BY DEF TypeOK, NodesTyped, KvTyped, MemTyped, MemType, RestTyped, NodeRec

\* NoMem is of the type of mem.
LEMMA NoMemTyped ==
  ASSUME NodesTyped
  PROVE  NoMem \in MemType
<1>1. Len(nodes) \in Nat
  BY DEF NodesTyped
<1>2. QED
  BY SearchAssumption DEF NoMem, None, Value, Action, MemType

\* A table with one node more.
LEMMA NewNodeTyped ==
  ASSUME NodesTyped, NEW r \in NodeRec, r.parent \in 0 .. Len(nodes), nodes' = Append(nodes, r)
  PROVE  /\ NodesTyped' /\ Len(nodes') = Len(nodes) + 1
         /\ nodes'[Len(nodes')] = r /\ \A n \in Node : nodes'[n] = nodes[n]
<1>1. nodes \in Seq(NodeRec) /\ Len(nodes) \in Nat
  BY DEF NodesTyped
<1>2. Len(nodes') = Len(nodes) + 1 /\ nodes' \in Seq(NodeRec)
  BY <1>1
<1>3. nodes'[Len(nodes')] = r /\ \A n \in 1 .. Len(nodes) : nodes'[n] = nodes[n]
  BY <1>1
<1>4. \A n \in 1 .. Len(nodes') : nodes'[n].parent \in 0 .. n - 1
  <2> TAKE n \in 1 .. Len(nodes')
  <2>1. n = Len(nodes') \/ n \in 1 .. Len(nodes)
    BY <1>1, <1>2
  <2>2. QED
    BY <1>1, <1>2, <1>3, <2>1 DEF NodesTyped, Node
<1>5. QED
  BY <1>2, <1>3, <1>4 DEF NodesTyped, Node

\* The node selected is a node.
LEMMA ParentIsNode ==
  ASSUME MemTyped, NodesTyped, Chosen, pc \in Begun
  PROVE  Parent \in Node
<1>1. mem.path \in Seq(Node) /\ mem.path # <<>>
  BY DEF MemTyped, MemType, Chosen
<1>2. QED
  BY <1>1 DEF Parent

\* There are fewer nodes than the model counts up to when one is created.
LEMMA RootIsHoused ==
  ASSUME IInv, CreateRoot
  PROVE  Snapshot(0) \in {0} \X (0 .. MaxNodes) /\ Snapshot(0) \notin repos
<1>1. Len(nodes) \in Nat /\ crashes \in Nat /\ LastRecord \in 0 .. MaxIters
  BY LastRecordIs, Bounds DEF IInv, TypeOK
<1>2. pc = "create_root" /\ kv.root = None /\ pc \notin Created
  BY DEF IInv, CreateRoot, Rooted, Created, Unscored, Scored
<1>3. Len(nodes) <= LastRecord + crashes /\ crashes <= MaxCrashes
  <2>1. Rooting(kv.root, pc) = 0
    BY <1>2 DEF Rooting
  <2>2. Creating(pc) = 0 /\ pc # "down"
    BY <1>2 DEF Creating
  <2>3. Len(nodes) <= LastRecord + crashes + 0 + 0
    BY <2>1, <2>2, LastRecordIs DEF IInv, Numbered
  <2>4. crashes <= MaxCrashes
    BY <2>2 DEF IInv, Numbered
  <2>5. QED
    BY <1>1, <2>3, <2>4
<1>4. Len(nodes) <= MaxNodes
  BY <1>1, <1>3, Bounds
<1>5. QED
  BY <1>4, SnapshotIsNew, Bounds DEF IInv, Housed

\* The snapshot of the child is a new directory too: a resumed run has begun fewer
\* iterations than there are numbers to try.
LEMMA ChildIsHoused ==
  ASSUME IInv, CreateChild
  PROVE  /\ Snapshot(mem.it) \in {mem.it} \X (0 .. MaxNodes) /\ Snapshot(mem.it) \notin repos
         /\ mem.it \in 0 .. MaxIters /\ Len(nodes) < MaxNodes
<1>1. Len(nodes) \in Nat /\ crashes \in Nat /\ LastRecord \in 0 .. MaxIters
  BY LastRecordIs, Bounds DEF IInv, TypeOK
<1>2. pc = "create" /\ kv.root # None /\ pc \notin Created /\ pc \in Begun /\ pc \in Up
  BY DEF IInv, CreateChild, Rooted, Begun, Up, Created, Unscored, Scored
<1>3. mem.it = LastRecord + 1 /\ mem.it <= MaxIters /\ crashes <= MaxCrashes
  BY <1>2, LastRecordIs DEF IInv, Numbered
<1>4. Len(nodes) <= LastRecord + crashes + 1
  <2>1. Rooting(kv.root, pc) = 1 /\ Creating(pc) = 0
    BY <1>2 DEF Rooting, Creating
  <2>2. Len(nodes) <= LastRecord + crashes + 1 + 0
    BY <2>1, LastRecordIs DEF IInv, Numbered
  <2>3. QED
    BY <1>1, <2>2
<1>5. Len(nodes) < MaxNodes /\ mem.it \in 0 .. MaxIters
  BY <1>1, <1>3, <1>4, Bounds
<1>6. IsFiniteSet(repos) /\ Cardinality(repos) <= MaxNodes /\ mem.it \in Nat
  BY <1>1, <1>5, Bounds DEF IInv, Housed
<1>7. QED
  BY <1>5, <1>6, SnapshotIsNew, Bounds

\* The node in hand is a node.
LEMMA ChildIsNode ==
  ASSUME IInv, pc \in Created
  PROVE  mem.child \in Node /\ mem.child = Len(nodes)
<1>1. kv.root # None /\ kv.root \in 0 .. Len(nodes) /\ Len(nodes) \in Nat
  <2>1. pc \in Up
    BY DEF Up, Begun
  <2>2. kv.root # None
    BY <2>1 DEF IInv, Rooted
  <2>3. KvTyped /\ NodesTyped
    BY TypeParts DEF IInv
  <2>4. QED
    BY <2>2, <2>3 DEF KvTyped, NodesTyped
<1>2. mem.child = Len(nodes)
  BY DEF IInv, Chosen
<1>3. QED
  BY <1>1, <1>2 DEF None, Node

\* A table with one row changed.
LEMMA RowTyped ==
  ASSUME NodesTyped, NEW c \in Node, NEW r \in NodeRec, r.parent = nodes[c].parent,
         nodes' = [nodes EXCEPT ![c] = r]
  PROVE  /\ NodesTyped' /\ Len(nodes') = Len(nodes) /\ nodes'[c] = r
         /\ \A n \in Node : n # c => nodes'[n] = nodes[n]
<1>1. nodes' \in Seq(NodeRec) /\ Len(nodes') = Len(nodes)
  BY DEF NodesTyped, Node
<1>2. nodes'[c] = r /\ \A n \in Node : n # c => nodes'[n] = nodes[n]
  BY DEF NodesTyped, Node
<1>3. \A n \in Node : nodes'[n].parent \in 0 .. n - 1
  BY <1>2 DEF NodesTyped
<1>4. QED
  BY <1>1, <1>2, <1>3 DEF NodesTyped, Node

\* The row that each action changes.
LEMMA PatchRow ==
  ASSUME IInv, NEW s \in {"codegen_done", "patched"}, Patch(s)
  PROVE  LET r == [nodes[mem.child] EXCEPT !.status = s]
         IN  r \in NodeRec /\ nodes' = [nodes EXCEPT ![mem.child] = r]
<1>1. mem.child \in Node
  BY ChildIsNode DEF Patch, Created, Unscored
<1>2. nodes[mem.child] \in NodeRec
  BY <1>1, TypeParts DEF IInv, NodesTyped, Node
<1>3. QED
  BY <1>2 DEF Patch, NodeRec, Status

\* The row that update_node_result writes is one of the table's type.
LEMMA ResultRow ==
  ASSUME IInv, SaveResult
  PROVE  LET r == [nodes[mem.child] EXCEPT
                     !.metric = IF mem.metric = NaN THEN None ELSE mem.metric,
                     !.status = IF mem.metric = None THEN "buggy" ELSE "done"]
         IN  r \in NodeRec /\ nodes' = [nodes EXCEPT ![mem.child] = r]
<1>1. mem.child \in Node
  BY ChildIsNode DEF SaveResult, Created, Unscored
<1>2. nodes[mem.child] \in NodeRec /\ nodes \in Seq(NodeRec)
  BY <1>1, TypeParts DEF IInv, NodesTyped, Node
<1>3. mem.metric \in Measured \cup {None}
  BY TypeParts DEF IInv, MemTyped, MemType
<1>4. QED
  BY <1>1, <1>2, <1>3 DEF SaveResult, NodeRec, Status, Measured, Node

\* _backup_path counts the visit of a node of the path or of the node in hand.
LEMMA BackupRow ==
  ASSUME IInv, Backup
  PROVE  LET c == BackupPath[mem.backed + 1]
             r == [nodes[c] EXCEPT !.visits = @ + 1]
         IN  c \in Node /\ r \in NodeRec /\ nodes' = [nodes EXCEPT ![c] = r]
<1> DEFINE c == BackupPath[mem.backed + 1]
<1>1. mem.child \in Node /\ mem.path \in Seq(Node) /\ mem.backed \in Nat
  BY ChildIsNode, TypeParts DEF Backup, Created, Scored, IInv, MemTyped, MemType
<1>2. mem.backed <= Len(mem.path)
  BY DEF Backup, IInv, Chosen
<1>3. BackupPath \in Seq(Node) /\ mem.backed + 1 \in 1 .. Len(BackupPath)
  BY <1>1, <1>2 DEF BackupPath
<1>4. c \in Node
  BY <1>3
<1>5. nodes[c] \in NodeRec
  BY <1>4, TypeParts DEF IInv, NodesTyped, Node
<1>6. nodes' = [nodes EXCEPT ![c].visits = @ + 1]
  BY DEF Backup
<1>7. QED
  <2> HIDE DEF c
  <2>1. [nodes[c] EXCEPT !.visits = @ + 1] \in NodeRec
    BY <1>5 DEF NodeRec
  <2>2. QED
    BY <1>4, <1>6, <2>1 DEF c

\* The steps that write the table of nodes or a directory.
LEMMA NodeWriters ==
  ASSUME Next
  PROVE  \/ UNCHANGED <<nodes, repos>> \/ CreateRoot \/ CreateChild \/ SaveResult \/ Backup
         \/ \E s \in {"codegen_done", "patched"} : Patch(s)
BY DEF Next, Resume, Selection, Work, Scoring, Boot, SetRoot, SetFirstBest, Load, Iterate,
       Descend, Decide, ClearFlag, Outcome, SaveLastMetric, SaveStreak, SaveFlag, SaveLow,
       SaveHigh, ResetStreak, BackupFails, SaveBest, SaveSince, WriteRecord, Finish,
       Crash, Spend, disk

\* No step makes the table of nodes anything else, or shorter.
LEMMA NodesStayTyped ==
  ASSUME IInv, Next
  PROVE  NodesTyped' /\ Len(nodes') \in Nat /\ Len(nodes) \in Nat /\ Len(nodes') >= Len(nodes)
<1>0. NodesTyped /\ KvTyped /\ MemTyped /\ RestTyped
  BY TypeParts DEF IInv
<1>1. CASE CreateRoot
  <2> DEFINE r == NewNode(None, "draft", "done", Snapshot(0))
  <2>1. nodes' = Append(nodes, r)
    BY <1>1 DEF CreateRoot
  <2>2. Snapshot(0) \in (0 .. MaxIters) \X Nat
    BY <1>1, RootIsHoused, Bounds
  <2>3. r \in NodeRec /\ r.parent \in 0 .. Len(nodes)
    BY <2>2, SearchAssumption DEF NewNode, NodeRec, Action, Status, None, MaxNodes
  <2>4. QED
    BY <1>0, <2>1, <2>3, NewNodeTyped
<1>2. CASE CreateChild
  <2> DEFINE r == NewNode(Parent, mem.action, "pending", Snapshot(mem.it))
  <2>1. nodes' = Append(nodes, r)
    BY <1>2 DEF CreateChild
  <2>2. Snapshot(mem.it) \in (0 .. MaxIters) \X Nat /\ Len(nodes) <= MaxNodes
    BY <1>2, ChildIsHoused, Bounds DEF NodesTyped
  <2>3. Parent \in Node
    BY <1>0, <1>2, ParentIsNode DEF CreateChild, Begun, IInv
  <2>4. r \in NodeRec /\ r.parent \in 0 .. Len(nodes)
    <3>1. Parent \in 0 .. MaxNodes /\ Parent \in 0 .. Len(nodes) /\ mem.action \in Action
      BY <1>0, <2>2, <2>3, Bounds, SMTT(60) DEF MemTyped, MemType, NodesTyped, Node
    <3>2. QED
      BY <2>2, <3>1 DEF NewNode, NodeRec, Status, None
  <2>5. QED
    BY <1>0, <2>1, <2>4, NewNodeTyped
<1>3. ASSUME NEW s \in {"codegen_done", "patched"}, Patch(s)
      PROVE  NodesTyped' /\ Len(nodes') = Len(nodes)
  <2>1. mem.child \in Node
    BY <1>3, ChildIsNode DEF Patch, Created, Unscored
  <2>2. QED
    <3> DEFINE r == [nodes[mem.child] EXCEPT !.status = s]
    <3>1. r \in NodeRec /\ nodes' = [nodes EXCEPT ![mem.child] = r]
      BY <1>3, PatchRow
    <3>2. r.parent = nodes[mem.child].parent
      BY <1>0, <2>1 DEF NodesTyped, NodeRec, Node
    <3>3. QED
      <4> HIDE DEF r
      <4>1. QED
        BY <1>0, <2>1, <3>1, <3>2, RowTyped
<1>4. CASE SaveResult
  <2>1. mem.child \in Node
    BY <1>4, ChildIsNode DEF SaveResult, Created, Unscored
  <2>2. NodesTyped' /\ Len(nodes') = Len(nodes)
    <3> DEFINE r == [nodes[mem.child] EXCEPT
                       !.metric = IF mem.metric = NaN THEN None ELSE mem.metric,
                       !.status = IF mem.metric = None THEN "buggy" ELSE "done"]
    <3>1. r \in NodeRec /\ nodes' = [nodes EXCEPT ![mem.child] = r]
      BY <1>4, ResultRow
    <3>2. r.parent = nodes[mem.child].parent
      BY <1>0, <2>1 DEF NodesTyped, NodeRec, Node
    <3>3. QED
      <4> HIDE DEF r
      <4>1. QED
        BY <1>0, <2>1, <3>1, <3>2, RowTyped
  <2>3. QED
    BY <1>0, <2>2 DEF NodesTyped
<1>5. CASE Backup
  <2>1. NodesTyped' /\ Len(nodes') = Len(nodes)
    <3> DEFINE c == BackupPath[mem.backed + 1]
               r == [nodes[c] EXCEPT !.visits = @ + 1]
    <3>1. c \in Node /\ r \in NodeRec /\ nodes' = [nodes EXCEPT ![c] = r]
      BY <1>5, BackupRow
    <3>2. r.parent = nodes[c].parent
      BY <1>0, <3>1 DEF NodesTyped, NodeRec, Node
    <3>3. QED
      <4> HIDE DEF c, r
      <4>1. QED
        BY <1>0, <3>1, <3>2, RowTyped
  <2>2. QED
    BY <1>0, <2>1 DEF NodesTyped
<1>6. CASE UNCHANGED nodes
  BY <1>0, <1>6 DEF NodesTyped, Node
<1>7. QED
  BY <1>1, <1>2, <1>3, <1>4, <1>5, <1>6, NodeWriters

\* The objective of a metric is what an end of the range may be.
LEMMA ObjectiveIsValue ==
  ASSUME NEW m \in Measured PROVE Objective(m) \in Value
<1>1. CASE m = NaN
  BY <1>1 DEF Objective, Value, Measured
<1>2. CASE m \in Metric
  BY <1>2 DEF Objective, Value, Measured
<1>3. QED
  BY <1>1, <1>2 DEF Measured

\* No step writes a value of another type to the key-value table.
LEMMA KvStaysTyped ==
  ASSUME IInv, Next, Len(nodes') \in Nat, Len(nodes) \in Nat, Len(nodes') >= Len(nodes)
  PROVE  KvTyped'
<1>0. KvTyped /\ MemTyped
  BY TypeParts DEF IInv
<1> USE DEF KvTyped, MemTyped, MemType
<1>1. CASE SetRoot
  <2>1. Len(nodes) \in 0 .. Len(nodes')
    OBVIOUS
  <2>2. kv' = [kv EXCEPT !.root = Len(nodes)] /\ nodes' = nodes
    BY <1>1 DEF SetRoot
  <2>3. QED
    BY <1>0, <2>1, <2>2
<1>2. CASE SetFirstBest
  BY <1>0, <1>2 DEF SetFirstBest
<1>3. CASE ClearFlag
  BY <1>0, <1>3 DEF ClearFlag
<1>4. CASE SaveLastMetric \/ SaveStreak \/ SaveFlag \/ ResetStreak
  <2>1. CASE SaveLastMetric
    BY <1>0, <2>1 DEF SaveLastMetric
  <2>2. CASE SaveStreak
    BY <1>0, <2>2 DEF SaveStreak
  <2>3. CASE SaveFlag
    BY <1>0, <2>3 DEF SaveFlag
  <2>4. CASE ResetStreak
    BY <1>0, <2>4 DEF ResetStreak
  <2>5. QED
    BY <1>4, <2>1, <2>2, <2>3, <2>4
<1>5. CASE SaveLow
  <2>1. /\ kv' = [kv EXCEPT !.low = mem'.low] /\ nodes' = nodes
        /\ mem'.low \in {Objective(mem.metric), mem.low}
    BY <1>0, <1>5 DEF SaveLow
  <2>2. mem.metric \in Measured
    BY <1>0, <1>5 DEF SaveLow, IInv, Chosen
  <2>3. mem'.low \in Value
    BY <1>0, <2>1, <2>2, ObjectiveIsValue
  <2>4. QED
    BY <1>0, <2>1, <2>3
<1>6. CASE SaveHigh
  BY <1>0, <1>6 DEF SaveHigh
<1>7. CASE SaveBest
  BY <1>0, <1>7 DEF SaveBest
<1>8. CASE SaveSince \/ Finish
  BY <1>0, <1>8 DEF SaveSince, Finish
<1>9. CASE UNCHANGED kv
  BY <1>0, <1>9
<1>10. UNCHANGED kv \/ SetRoot \/ SetFirstBest \/ ClearFlag \/ SaveLastMetric \/ SaveStreak
       \/ SaveFlag \/ ResetStreak \/ SaveLow \/ SaveHigh \/ SaveBest \/ SaveSince \/ Finish
  BY DEF Next, Resume, Selection, Work, Scoring, Boot, CreateRoot, Load, Iterate, Descend,
         Decide, CreateChild, Patch, Outcome, SaveResult, Backup, BackupFails, WriteRecord,
         Crash, Spend, disk
<1>11. QED
  BY <1>1, <1>2, <1>3, <1>4, <1>5, <1>6, <1>7, <1>8, <1>9, <1>10

\* The root of a tree in use is a node.
LEMMA RootIsNode ==
  ASSUME IInv, pc \in Up
  PROVE  mem.root = kv.root /\ kv.root \in Node /\ mem.root \in Node
<1>1. kv.root # None /\ mem.root = kv.root
  BY DEF IInv, Rooted
<1>2. kv.root \in 0 .. Len(nodes) /\ Len(nodes) \in Nat
  BY TypeParts DEF IInv, KvTyped, NodesTyped
<1>3. QED
  BY <1>1, <1>2 DEF Node, None

\* No step gives a variable of run_controller a value of another type.
LEMMA MemStaysTyped ==
  ASSUME IInv, Next, NodesTyped', Len(nodes') \in Nat, Len(nodes) \in Nat,
         Len(nodes') >= Len(nodes)
  PROVE  MemTyped'
<1>0. KvTyped /\ MemTyped /\ NodesTyped
  BY TypeParts DEF IInv
<1>nodes. Node \subseteq Node' /\ Seq(Node) \subseteq Seq(Node')
  BY DEF Node
<1>ids. 0 .. Len(nodes) \subseteq 0 .. Len(nodes')
  OBVIOUS
<1>mem. MemType \subseteq MemType'
  BY <1>nodes, <1>ids DEF MemType
<1> USE DEF MemTyped
<1>1. ASSUME Load PROVE mem' \in MemType
  <2>1. LastRecord + 1 \in 0 .. MaxIters + 1
    BY LastRecordIs, Bounds
  <2>2. QED
    BY <1>0, <1>1, <2>1, NoMemTyped DEF Load, KvTyped, MemType
<1>2. ASSUME Iterate PROVE mem' \in MemType
  <2>1. pc \in Up
    BY <1>2 DEF Iterate, Up
  <2>2. mem.root \in Node
    BY <2>1, RootIsNode
  <2>3. <<mem.root>> \in Seq(Node)
    BY <2>2
  <2>4. QED
    BY <1>0, <1>2, <2>3 DEF Iterate, MemType
<1>3. ASSUME Descend PROVE mem' \in MemType
  <2>1. pc \in Up
    BY <1>3 DEF Descend, Up, Begun
  <2>2. mem.root \in Node
    BY <2>1, RootIsNode
  <2>3. <<mem.root>> \in Seq(Node)
    BY <2>2
  <2>4. \A n, c : c \in Preferred(n) => c \in Node
    <3> TAKE n, c
    <3> HAVE c \in Preferred(n)
    <3>1. Children(n) \subseteq Node
      BY DEF Children
    <3>2. CASE {d \in Children(n) : nodes[d].visits = 0} = {}
      BY <3>1, <3>2 DEF Preferred
    <3>3. CASE {d \in Children(n) : nodes[d].visits = 0} # {}
      <4> DEFINE U == {d \in Children(n) : nodes[d].visits = 0}
      <4>1. U \in SUBSET Node /\ U \in SUBSET Nat /\ U # {}
        BY <3>1, <3>3 DEF Node
      <4>2. Min(U) \in U
        <5> HIDE DEF U
        <5>1. QED
          BY <4>1, Smallest
      <4>3. QED
        BY <3>1, <3>3, <4>1, <4>2 DEF Preferred
    <3>4. QED
      BY <3>2, <3>3
  <2>5. \A c \in Node : Append(mem.path, c) \in Seq(Node)
    BY <1>0 DEF MemType
  <2>6. QED
    BY <1>0, <1>3, <2>3, <2>4, <2>5, ZenonT(60) DEF Descend, MemType
<1>4. ASSUME Decide PROVE mem' \in MemType
  <2>1. DecideAction(Parent) \in Action /\ "debug" \in Action
    BY DEF DecideAction, Action
  <2>2. CASE mem.force
    BY <1>0, <1>4, <2>1, <2>2 DEF Decide, MemType
  <2>3. CASE ~mem.force
    BY <1>0, <1>4, <2>1, <2>3 DEF Decide, MemType
  <2>4. QED
    BY <2>2, <2>3
<1>5. CASE CreateChild
  <2>1. mem' = [mem EXCEPT !.child = Len(nodes) + 1] /\ Len(nodes') = Len(nodes) + 1
    BY <1>0, <1>5 DEF CreateChild, NodesTyped
  <2>2. Len(nodes) + 1 \in 0 .. Len(nodes')
    BY <2>1
  <2>3. QED
    BY <1>0, <1>nodes, <1>ids, <2>1, <2>2 DEF MemType
<1>6. ASSUME NEW m \in Measured \cup {None}, Outcome(m) PROVE mem' \in MemType
  BY <1>0, <1>6 DEF Outcome, MemType
<1>7. ASSUME SaveLastMetric \/ SaveStreak \/ SaveFlag PROVE mem' \in MemType
  <2>1. CASE SaveLastMetric
    <3> DEFINE v == IF mem.metric # NaN /\ kv.last = mem.metric THEN kv.streak + 1 ELSE 1
    <3>1. kv.streak \in Nat
      BY <1>0 DEF KvTyped
    <3>2. v \in Nat
      BY <3>1
    <3>3. v \in Nat /\ mem' = [mem EXCEPT !.backed = v]
      BY <3>2, <2>1 DEF SaveLastMetric
    <3>4. QED
      <4> HIDE DEF v
      <4>1. QED
        BY <1>0, <3>3 DEF MemType
  <2>2. CASE SaveStreak
    BY <1>0, <2>2 DEF SaveStreak, MemType
  <2>3. CASE SaveFlag
    BY <1>0, <2>3 DEF SaveFlag, MemType
  <2>4. QED
    BY <1>7, <2>1, <2>2, <2>3
<1>8. ASSUME SaveLow PROVE mem' \in MemType
  <2>1. mem.metric \in Measured
    BY <1>0, <1>8 DEF SaveLow, IInv, Chosen, MemType
  <2>2. Objective(mem.metric) \in Value
    BY <2>1, ObjectiveIsValue
  <2>3. QED
    BY <1>0, <1>8, <2>2 DEF SaveLow, MemType
<1>9. ASSUME Backup PROVE mem' \in MemType
  <2> DEFINE v == IF mem.backed + 1 = Len(BackupPath) THEN 0 ELSE mem.backed + 1
  <2>1. mem.backed \in Nat
    BY <1>0 DEF MemType
  <2>2. v \in Nat /\ mem' = [mem EXCEPT !.backed = v]
    BY <1>9, <2>1 DEF Backup
  <2>3. QED
    <3> HIDE DEF v
    <3>1. QED
      BY <1>0, <2>2 DEF MemType
<1>10. ASSUME SaveBest PROVE mem' \in MemType
  <2>1. mem.child \in 0 .. Len(nodes) /\ mem.since + 1 \in Nat
    BY <1>0 DEF MemType
  <2>2. CASE Improves(mem.metric, nodes[mem.best].metric)
    <3>1. mem' = [mem EXCEPT !.best = mem.child, !.since = 0]
      BY <1>10, <2>2 DEF SaveBest
    <3>2. QED
      BY <1>0, <2>1, <3>1 DEF MemType
  <2>3. CASE ~Improves(mem.metric, nodes[mem.best].metric)
    BY <1>0, <1>10, <2>1, <2>3 DEF SaveBest, MemType
  <2>4. QED
    BY <2>2, <2>3
<1>11. ASSUME WriteRecord PROVE mem' \in MemType
  <2>1. mem.it \in Nat /\ mem.it <= MaxIters
    BY <1>0, <1>11 DEF WriteRecord, IInv, Numbered, Begun, Created, Scored, MemType
  <2>2. mem.it + 1 \in 0 .. MaxIters + 1
    BY <2>1, Bounds
  <2>3. <<>> \in Seq(Node)
    OBVIOUS
  <2>4. QED
    <3>1. mem' = [mem EXCEPT !.it = @ + 1, !.path = <<>>, !.child = 0, !.metric = 0]
      BY <1>11 DEF WriteRecord, None
    <3>2. 0 \in 0 .. Len(nodes) /\ 0 \in Measured \cup {None}
      BY DEF None
    <3>3. QED
      BY <1>0, <2>2, <2>3, <3>1, <3>2 DEF MemType
<1>12. ASSUME BackupFails \/ Crash PROVE mem' \in MemType
  BY <1>0, <1>12, NoMemTyped DEF BackupFails, Crash
<1>13. ASSUME UNCHANGED mem PROVE mem' \in MemType
  BY <1>0, <1>13
<1>14. \/ UNCHANGED mem \/ Load \/ Iterate \/ Descend \/ Decide \/ CreateChild
       \/ \E m \in Measured \cup {None} : Outcome(m)
       \/ SaveLastMetric \/ SaveStreak \/ SaveFlag \/ SaveLow \/ Backup \/ SaveBest
       \/ WriteRecord \/ BackupFails \/ Crash
  BY DEF Next, Resume, Selection, Work, Scoring, Boot, CreateRoot, SetRoot, SetFirstBest,
         ClearFlag, Patch, SaveHigh, ResetStreak, SaveResult, SaveSince, Finish, Spend, disk
<1>15. QED
  BY <1>1, <1>2, <1>3, <1>4, <1>5, <1>6, <1>7, <1>8, <1>9, <1>10, <1>11, <1>12, <1>13,
     <1>14, <1>mem

\* Nor any other variable.
LEMMA RestStaysTyped ==
  ASSUME IInv, Next, Len(nodes') \in Nat, Len(nodes) \in Nat, Len(nodes') >= Len(nodes)
  PROVE  RestTyped'
<1>0. MemTyped /\ RestTyped
  BY TypeParts DEF IInv
<1>1. records' \in [1 .. MaxIters -> 0 .. Len(nodes')]
  <2>1. CASE WriteRecord
    BY <1>0, <2>1 DEF WriteRecord, RestTyped, MemTyped, MemType
  <2>2. CASE UNCHANGED records
    BY <1>0, <2>2 DEF RestTyped
  <2>3. WriteRecord \/ UNCHANGED records
    BY DEF Next, Resume, Selection, Work, Scoring, Boot, CreateRoot, SetRoot, SetFirstBest,
           Load, Iterate, Descend, Decide, ClearFlag, CreateChild, Patch, Outcome,
           SaveLastMetric, SaveStreak, SaveFlag, SaveLow, SaveHigh, ResetStreak, SaveResult,
           Backup, BackupFails, SaveBest, SaveSince, Finish, Crash, Spend, disk
  <2>4. QED
    BY <2>1, <2>2, <2>3
<1>2. repos' \subseteq (0 .. MaxIters) \X Nat
  <2>1. CASE CreateRoot
    <3>1. Snapshot(0) \in (0 .. MaxIters) \X Nat
      BY <2>1, RootIsHoused, Bounds
    <3>2. QED
      BY <1>0, <2>1, <3>1 DEF CreateRoot, RestTyped
  <2>2. CASE CreateChild
    <3>1. Snapshot(mem.it) \in (0 .. MaxIters) \X Nat
      BY <2>2, ChildIsHoused, Bounds
    <3>2. QED
      BY <1>0, <2>2, <3>1 DEF CreateChild, RestTyped
  <2>3. CASE UNCHANGED repos
    BY <1>0, <2>3 DEF RestTyped
  <2>4. CreateRoot \/ CreateChild \/ UNCHANGED repos
    BY DEF Next, Resume, Selection, Work, Scoring, Boot, SetRoot, SetFirstBest,
           Load, Iterate, Descend, Decide, ClearFlag, Patch, Outcome,
           SaveLastMetric, SaveStreak, SaveFlag, SaveLow, SaveHigh, ResetStreak, SaveResult,
           Backup, BackupFails, SaveBest, SaveSince, WriteRecord, Finish, Crash, Spend, disk
  <2>5. QED
    BY <2>1, <2>2, <2>3, <2>4
<1>3. crashes' \in 0 .. MaxCrashes + 1
  <2>1. CASE Crash \/ BackupFails
    <3>1. pc # "down" /\ crashes' = crashes + 1
      BY <2>1 DEF Crash, BackupFails
    <3>2. crashes <= MaxCrashes
      BY <3>1 DEF IInv, Numbered
    <3>3. QED
      BY <1>0, <3>1, <3>2, Bounds DEF RestTyped
  <2>2. (Crash \/ BackupFails) \/ UNCHANGED crashes
    BY DEF Next, Resume, Selection, Work, Scoring, Boot, CreateRoot, SetRoot, SetFirstBest,
           Load, Iterate, Descend, Decide, ClearFlag, CreateChild, Patch, Outcome,
           SaveLastMetric, SaveStreak, SaveFlag, SaveLow, SaveHigh, ResetStreak, SaveResult,
           Backup, SaveBest, SaveSince, WriteRecord, Finish, Spend, disk
  <2>3. QED
    BY <1>0, <2>1, <2>2 DEF RestTyped
<1>4. budget' \in 0 .. Budget /\ owed' \in BOOLEAN
  <2>1. CASE Spend
    BY <1>0, <2>1, Bounds DEF Spend, RestTyped
  <2>2. CASE Decide \/ SaveFlag
    BY <1>0, <2>2 DEF Decide, SaveFlag, RestTyped
  <2>3. Spend \/ (Decide \/ SaveFlag) \/ UNCHANGED <<budget, owed>>
    BY DEF Next, Resume, Selection, Work, Scoring, Boot, CreateRoot, SetRoot, SetFirstBest,
           Load, Iterate, Descend, ClearFlag, CreateChild, Patch, Outcome,
           SaveLastMetric, SaveStreak, SaveLow, SaveHigh, ResetStreak, SaveResult,
           Backup, BackupFails, SaveBest, SaveSince, WriteRecord, Finish, Crash
  <2>4. QED
    BY <1>0, <2>1, <2>2, <2>3 DEF RestTyped
<1>5. pc' \in PC
  BY <1>0 DEF RestTyped, PC, Next, Resume, Selection, Work, Scoring, Boot, CreateRoot,
     SetRoot, SetFirstBest, Load, Iterate, Descend, Decide, ClearFlag, CreateChild, Patch,
     Outcome, SaveLastMetric, SaveStreak, SaveFlag, SaveLow, SaveHigh, ResetStreak,
     SaveResult, Backup, BackupFails, SaveBest, SaveSince, WriteRecord, Finish, Crash, Spend
<1>6. QED
  BY <1>1, <1>2, <1>3, <1>4, <1>5 DEF RestTyped

\* Every step keeps the types.
LEMMA StepTyped == ASSUME IInv, Next PROVE TypeOK'
<1>1. NodesTyped' /\ Len(nodes') \in Nat /\ Len(nodes) \in Nat /\ Len(nodes') >= Len(nodes)
  BY NodesStayTyped
<1>2. KvTyped' /\ MemTyped' /\ RestTyped'
  BY <1>1, KvStaysTyped, MemStaysTyped, RestStaysTyped
<1>3. QED
  BY <1>1, <1>2 DEF TypeOK, NodesTyped, KvTyped, MemTyped, MemType, RestTyped, NodeRec

-----------------------------------------------------------------------------
(* The parts of the invariant.                                             *)

\* What the two ways to create a node do to the table of nodes and to repos/.
LEMMA Creation ==
  ASSUME IInv, CreateRoot \/ CreateChild
  PROVE  LET r == nodes'[Len(nodes')]
         IN  /\ Len(nodes) \in Nat /\ Len(nodes') = Len(nodes) + 1
             /\ \A n \in Node : nodes'[n] = nodes[n]
             /\ repos' = repos \cup {r.repo} /\ r.repo \notin repos
             /\ r.metric = None
             /\ CreateRoot => r.parent = None /\ r.status = "done"
             /\ CreateChild => r.parent = Parent /\ r.status = "pending"
<1>0. NodesTyped /\ nodes \in Seq(NodeRec) /\ Len(nodes) \in Nat
  BY TypeParts DEF IInv, NodesTyped
<1>1. CASE CreateRoot
  <2> DEFINE r == NewNode(None, "draft", "done", Snapshot(0))
  <2>1. nodes' = Append(nodes, r) /\ repos' = repos \cup {Snapshot(0)}
    BY <1>1 DEF CreateRoot
  <2>2. /\ Len(nodes') = Len(nodes) + 1 /\ nodes'[Len(nodes')] = r
        /\ \A n \in Node : nodes'[n] = nodes[n]
    BY <1>0, <2>1 DEF Node
  <2>3. r.repo = Snapshot(0) /\ r.metric = None /\ r.parent = None /\ r.status = "done"
    BY DEF NewNode
  <2>4. Snapshot(0) \notin repos /\ ~CreateChild
    BY <1>1, RootIsHoused DEF CreateRoot, CreateChild
  <2>5. QED
    BY <1>0, <2>1, <2>2, <2>3, <2>4
<1>2. CASE CreateChild
  <2> DEFINE r == NewNode(Parent, mem.action, "pending", Snapshot(mem.it))
  <2>1. nodes' = Append(nodes, r) /\ repos' = repos \cup {Snapshot(mem.it)}
    BY <1>2 DEF CreateChild
  <2>2. /\ Len(nodes') = Len(nodes) + 1 /\ nodes'[Len(nodes')] = r
        /\ \A n \in Node : nodes'[n] = nodes[n]
    BY <1>0, <2>1 DEF Node
  <2>3. r.repo = Snapshot(mem.it) /\ r.metric = None /\ r.parent = Parent /\ r.status = "pending"
    BY DEF NewNode
  <2>4. Snapshot(mem.it) \notin repos /\ ~CreateRoot
    BY <1>2, ChildIsHoused DEF CreateRoot, CreateChild
  <2>5. QED
    BY <1>0, <2>1, <2>2, <2>3, <2>4
<1>3. QED
  BY <1>1, <1>2

\* What the other writers of the table do: one row, of which parent and repo stay.
LEMMA Update ==
  ASSUME IInv, SaveResult \/ Backup \/ \E s \in {"codegen_done", "patched"} : Patch(s)
  PROVE  /\ Len(nodes') = Len(nodes) /\ Len(nodes) \in Nat /\ repos' = repos
         /\ \A n \in Node : nodes'[n].parent = nodes[n].parent /\ nodes'[n].repo = nodes[n].repo
         /\ Backup => \A n \in Node : nodes'[n].status = nodes[n].status
                                      /\ nodes'[n].metric = nodes[n].metric
         /\ ~Backup => \A n \in Node \ {mem.child} : nodes'[n] = nodes[n]
         /\ ~Backup /\ ~SaveResult => nodes'[mem.child].metric = nodes[mem.child].metric
                                      /\ nodes'[mem.child].status # "buggy"
         /\ SaveResult => nodes'[mem.child].metric = IF mem.metric = NaN THEN None ELSE mem.metric
<1>0. NodesTyped /\ nodes \in Seq(NodeRec) /\ Len(nodes) \in Nat
      /\ \A n \in Node : nodes[n] \in NodeRec
  BY TypeParts DEF IInv, NodesTyped, Node
<1>1. CASE Backup
  <2> DEFINE c == BackupPath[mem.backed + 1]
             r == [nodes[c] EXCEPT !.visits = @ + 1]
  <2>1. c \in Node /\ nodes' = [nodes EXCEPT ![c] = r] /\ repos' = repos
    BY <1>1, BackupRow DEF Backup
  <2>2. /\ r.parent = nodes[c].parent /\ r.repo = nodes[c].repo
        /\ r.status = nodes[c].status /\ r.metric = nodes[c].metric
    BY <1>0, <2>1 DEF NodeRec
  <2>3. Len(nodes') = Len(nodes) /\ nodes'[c] = r /\ \A n \in Node \ {c} : nodes'[n] = nodes[n]
    <3> HIDE DEF c, r
    <3>1. QED
      BY <1>0, <2>1 DEF Node
  <2>4. ~SaveResult
    BY <1>1 DEF Backup, SaveResult
  <2>5. QED
    <3> HIDE DEF c, r
    <3>1. QED
      BY <1>0, <1>1, <2>1, <2>2, <2>3, <2>4
<1>2. CASE SaveResult
  <2> DEFINE c == mem.child
             r == [nodes[c] EXCEPT !.metric = IF mem.metric = NaN THEN None ELSE mem.metric,
                                   !.status = IF mem.metric = None THEN "buggy" ELSE "done"]
  <2>1. c \in Node /\ nodes' = [nodes EXCEPT ![c] = r] /\ repos' = repos
    BY <1>2, ResultRow, ChildIsNode DEF SaveResult, Created, Unscored
  <2>2. /\ r.parent = nodes[c].parent /\ r.repo = nodes[c].repo
        /\ r.metric = IF mem.metric = NaN THEN None ELSE mem.metric
    BY <1>0, <2>1 DEF NodeRec
  <2>3. Len(nodes') = Len(nodes) /\ nodes'[c] = r /\ \A n \in Node \ {c} : nodes'[n] = nodes[n]
    <3> HIDE DEF c, r
    <3>1. QED
      BY <1>0, <2>1 DEF Node
  <2>4. ~Backup
    BY <1>2 DEF Backup, SaveResult
  <2>5. QED
    <3> HIDE DEF r
    <3>1. QED
      BY <1>0, <1>2, <2>1, <2>2, <2>3, <2>4
<1>3. ASSUME NEW s \in {"codegen_done", "patched"}, Patch(s)
      PROVE  /\ Len(nodes') = Len(nodes) /\ repos' = repos /\ ~Backup /\ ~SaveResult
             /\ \A n \in Node : nodes'[n].parent = nodes[n].parent
                                /\ nodes'[n].repo = nodes[n].repo
             /\ \A n \in Node \ {mem.child} : nodes'[n] = nodes[n]
             /\ nodes'[mem.child].metric = nodes[mem.child].metric
             /\ nodes'[mem.child].status # "buggy"
  <2> DEFINE c == mem.child
             r == [nodes[c] EXCEPT !.status = s]
  <2>1. c \in Node /\ nodes' = [nodes EXCEPT ![c] = r] /\ repos' = repos
    BY <1>3, PatchRow, ChildIsNode DEF Patch, Created, Unscored
  <2>2. /\ r.parent = nodes[c].parent /\ r.repo = nodes[c].repo
        /\ r.metric = nodes[c].metric /\ r.status # "buggy"
    BY <1>0, <2>1 DEF NodeRec
  <2>3. Len(nodes') = Len(nodes) /\ nodes'[c] = r /\ \A n \in Node \ {c} : nodes'[n] = nodes[n]
    <3> HIDE DEF c, r
    <3>1. QED
      BY <1>0, <2>1 DEF Node
  <2>4. ~Backup /\ ~SaveResult
    BY <1>3 DEF Backup, SaveResult, Patch
  <2>5. QED
    <3> HIDE DEF r
    <3>1. QED
      BY <1>0, <2>1, <2>2, <2>3, <2>4
<1>4. QED
  BY <1>0, <1>1, <1>2, <1>3

\* A node and its directory are created together, and neither is taken away.
LEMMA StepHoused == ASSUME IInv, Next PROVE Housed'
<1>0. /\ IsFiniteSet(repos) /\ Cardinality(repos) = Len(nodes)
      /\ \A n \in Node : nodes[n].repo \in repos
      /\ \A m, n \in Node : nodes[m].repo = nodes[n].repo => m = n
  BY DEF IInv, Housed, SnapshotsUnshared
<1>1. CASE CreateRoot \/ CreateChild
  <2> DEFINE d == nodes'[Len(nodes')].repo
  <2>1. /\ Len(nodes) \in Nat /\ Len(nodes') = Len(nodes) + 1
        /\ \A n \in Node : nodes'[n] = nodes[n]
        /\ repos' = repos \cup {d} /\ d \notin repos
    BY <1>1, Creation
  <2>2. IsFiniteSet(repos') /\ Cardinality(repos') = Len(nodes')
    <3> HIDE DEF d
    <3>1. QED
      BY <1>0, <2>1, FS_AddElement
  <2>3. \A n \in Node' : n \in Node \/ n = Len(nodes')
    BY <2>1 DEF Node
  <2>4. \A n \in Node' : nodes'[n].repo \in repos'
    BY <1>0, <2>1, <2>3
  <2>5. \A m, n \in Node' : nodes'[m].repo = nodes'[n].repo => m = n
    BY <1>0, <2>1, <2>3
  <2>6. QED
    BY <2>2, <2>4, <2>5 DEF Housed, SnapshotsUnshared
<1>2. CASE SaveResult \/ Backup \/ \E s \in {"codegen_done", "patched"} : Patch(s)
  <2>1. Len(nodes') = Len(nodes) /\ repos' = repos /\ Node' = Node
        /\ \A n \in Node : nodes'[n].repo = nodes[n].repo
    BY <1>2, Update DEF Node
  <2>2. QED
    BY <1>0, <2>1 DEF Housed, SnapshotsUnshared
<1>3. CASE UNCHANGED <<nodes, repos>>
  BY <1>0, <1>3 DEF Housed, SnapshotsUnshared, Node
<1>4. QED
  BY <1>1, <1>2, <1>3, NodeWriters

\* The steps that neither begin nor end a controller, a tree, a node or a record.
Plain ==
  \/ SetFirstBest \/ Load \/ Iterate \/ Descend \/ Decide \/ ClearFlag \/ Work
  \/ SaveLastMetric \/ SaveStreak \/ SaveFlag \/ SaveLow \/ SaveHigh \/ ResetStreak
  \/ SaveResult \/ Backup \/ SaveBest \/ SaveSince \/ Finish \/ Spend

\* What they all leave alone.
LEMMA PlainSteps ==
  ASSUME IInv, Plain
  PROVE  /\ Len(nodes') = Len(nodes) /\ kv'.root = kv.root
         /\ UNCHANGED <<records, crashes>>
         /\ pc' \in Created <=> pc \in Created
         /\ pc' = "set_root" <=> pc = "set_root"
         /\ pc' # "create_root" \/ pc = "create_root"
         /\ pc' # "down" \/ pc = "down"
<1>1. Len(nodes') = Len(nodes)
  <2>1. CASE Work
    BY <2>1, Update DEF Work, Outcome, disk
  <2>2. CASE SaveResult \/ Backup
    BY <2>2, Update
  <2>3. QED
    BY <2>1, <2>2 DEF Plain, SetFirstBest, Load, Iterate, Descend, Decide, ClearFlag,
       SaveLastMetric, SaveStreak, SaveFlag, SaveLow, SaveHigh, ResetStreak, SaveBest,
       SaveSince, Finish, Spend, disk
<1>2. kv'.root = kv.root
  <2>1. KvTyped
    BY TypeParts DEF IInv
  <2>2. QED
    BY <2>1 DEF KvTyped, Plain, SetFirstBest, Load, Iterate, Descend, Decide, ClearFlag, Work,
       Patch, Outcome, SaveLastMetric, SaveStreak, SaveFlag, SaveLow, SaveHigh, ResetStreak,
       SaveResult, Backup, SaveBest, SaveSince, Finish, Spend, disk
<1>3. UNCHANGED <<records, crashes>>
  BY DEF Plain, SetFirstBest, Load, Iterate, Descend, Decide, ClearFlag, Work,
     Patch, Outcome, SaveLastMetric, SaveStreak, SaveFlag, SaveLow, SaveHigh, ResetStreak,
     SaveResult, Backup, SaveBest, SaveSince, Finish, Spend, disk
<1>4. /\ pc' \in Created <=> pc \in Created
      /\ pc' = "set_root" <=> pc = "set_root"
      /\ pc' # "create_root" \/ pc = "create_root"
      /\ pc' # "down" \/ pc = "down"
  BY DEF Created, Unscored, Scored, Plain, SetFirstBest, Load, Iterate, Descend, Decide,
     ClearFlag, Work, Patch, Outcome, SaveLastMetric, SaveStreak, SaveFlag, SaveLow, SaveHigh,
     ResetStreak, SaveResult, Backup, SaveBest, SaveSince, Finish, Spend
<1>5. QED
  BY <1>1, <1>2, <1>3, <1>4

\* Every step is one of these or begins or ends something.
LEMMA StepKinds ==
  ASSUME Next
  PROVE  \/ Plain \/ Boot \/ CreateRoot \/ SetRoot \/ CreateChild \/ WriteRecord
         \/ Crash \/ BackupFails
BY DEF Next, Plain, Resume, Selection, Scoring

\* An iteration begins one node and ends in a record or with the controller, so that the
\* nodes are counted by the records and the crashes.
LEMMA StepNumbered == ASSUME IInv, Next PROVE Numbered'
<1>0. /\ Len(nodes) \in Nat /\ crashes \in Nat /\ LastOf(records) \in Nat
      /\ KvTyped /\ MemTyped /\ RestTyped
  BY TypeParts, LastRecordIs, Bounds DEF IInv, NodesTyped, RestTyped
<1>1. /\ pc # "down" => crashes <= MaxCrashes
      /\ pc \in Up => mem.it = LastOf(records) + 1
      /\ pc \in Begun => mem.it <= MaxIters
      /\ Len(nodes) <= LastOf(records) + crashes + Rooting(kv.root, pc) + Creating(pc)
  BY DEF IInv, Numbered
<1>2. SUFFICES /\ pc' # "down" => crashes' <= MaxCrashes
               /\ pc' \in Up => mem'.it = LastOf(records') + 1
               /\ pc' \in Begun => mem'.it <= MaxIters
               /\ Len(nodes')
                  <= LastOf(records') + crashes' + Rooting(kv'.root, pc') + Creating(pc')
  BY DEF Numbered
<1>3. CASE Plain
  <2>1. /\ Len(nodes') = Len(nodes) /\ kv'.root = kv.root
        /\ UNCHANGED <<records, crashes>>
        /\ pc' \in Created <=> pc \in Created
        /\ pc' = "set_root" <=> pc = "set_root"
        /\ pc' # "down" \/ pc = "down"
    BY <1>3, PlainSteps
  <2>2. /\ Rooting(kv'.root, pc') = Rooting(kv.root, pc) /\ Creating(pc') = Creating(pc)
        /\ LastOf(records') = LastOf(records)
    BY <2>1 DEF Rooting, Creating
  <2>3. pc' # "down" => crashes' <= MaxCrashes
    BY <1>1, <1>3, <2>1 DEF Plain, SetFirstBest, Load, Iterate, Descend, Decide, ClearFlag,
       Work, Patch, Outcome, SaveLastMetric, SaveStreak, SaveFlag, SaveLow, SaveHigh,
       ResetStreak, SaveResult, Backup, SaveBest, SaveSince, Finish, Spend
  <2>4. /\ pc' \in Up => mem'.it = LastOf(records) + 1
        /\ pc' \in Begun => mem'.it <= MaxIters
    <3>1. CASE Load
      <4>1. mem'.it = LastOf(records) + 1 /\ pc' \notin Begun
        BY <3>1, LastRecordIs DEF Load, NoMem, Begun, Created, Unscored, Scored
      <4>2. QED
        BY <4>1
    <3>2. CASE Iterate
      <4>1. pc \in Up /\ mem.it \in Int /\ MaxIters \in Int
        BY <1>0, <3>2, Bounds DEF Iterate, Up, MemTyped, MemType
      <4>2. mem'.it = mem.it
        BY <1>0, <3>2 DEF Iterate, MemTyped, MemType
      <4>3. pc' \in {"finish", "descend"} /\ (pc' = "descend" => ~(mem.it > MaxIters))
        BY <3>2 DEF Iterate
      <4>4. pc' \in Begun => pc' = "descend"
        BY <4>3 DEF Begun, Created, Unscored, Scored
      <4>5. QED
        BY <1>1, <4>1, <4>2, <4>3, <4>4
    <3>3. CASE SetFirstBest
      BY <3>3 DEF SetFirstBest, Up, Begun, Created, Unscored, Scored
    <3>4. CASE Plain /\ ~Load /\ ~Iterate /\ ~SetFirstBest
      <4>1. mem'.it = mem.it
        BY <1>0, <3>4 DEF MemTyped, MemType, Plain, Descend, Decide, ClearFlag, Work, Patch,
           Outcome, SaveLastMetric, SaveStreak, SaveFlag, SaveLow, SaveHigh, ResetStreak,
           SaveResult, Backup, SaveBest, SaveSince, Finish, Spend, disk
      <4>2. (pc' \in Up => pc \in Up) /\ (pc' \in Begun => pc \in Begun)
        BY <3>4 DEF Up, Begun, Created, Unscored, Scored, Plain, Descend, Decide, ClearFlag,
           Work, Patch, Outcome, SaveLastMetric, SaveStreak, SaveFlag, SaveLow, SaveHigh,
           ResetStreak, SaveResult, Backup, SaveBest, SaveSince, Finish, Spend
      <4>3. QED
        BY <1>1, <4>1, <4>2
    <3>5. QED
      BY <1>3, <3>1, <3>2, <3>3, <3>4
  <2>5. QED
    BY <1>1, <2>1, <2>2, <2>3, <2>4
<1>4. CASE Boot
  <2>1. UNCHANGED <<nodes, kv, records, crashes>> /\ crashes <= MaxCrashes /\ pc = "down"
        /\ pc' \in {"create_root", "load"}
    BY <1>4 DEF Boot, disk
  <2>2. /\ Rooting(kv'.root, pc') = Rooting(kv.root, pc) /\ Creating(pc') = Creating(pc)
        /\ LastOf(records') = LastOf(records)
    BY <2>1 DEF Rooting, Creating, Created, Unscored, Scored
  <2>3. pc' \notin Up /\ pc' \notin Begun
    BY <2>1 DEF Up, Begun, Created, Unscored, Scored
  <2>4. QED
    BY <1>1, <2>1, <2>2, <2>3
<1>5. CASE CreateRoot
  <2>1. /\ UNCHANGED <<kv, records, crashes>> /\ pc = "create_root" /\ pc' = "set_root"
        /\ Len(nodes') = Len(nodes) + 1 /\ kv.root = None
    BY <1>5, Creation DEF CreateRoot, IInv, Rooted
  <2>2. /\ Rooting(kv.root, pc) = 0 /\ Rooting(kv'.root, pc') = 1
        /\ Creating(pc) = 0 /\ Creating(pc') = 0
        /\ LastOf(records') = LastOf(records)
    BY <2>1 DEF Rooting, Creating, Created, Unscored, Scored
  <2>3. pc' \notin Up /\ pc' \notin Begun
    BY <2>1 DEF Up, Begun, Created, Unscored, Scored
  <2>4. crashes' <= MaxCrashes
    BY <1>1, <2>1
  <2>5. Len(nodes') <= LastOf(records') + crashes' + Rooting(kv'.root, pc') + Creating(pc')
    BY <1>0, <1>1, <2>1, <2>2
  <2>6. QED
    BY <2>3, <2>4, <2>5
<1>6. CASE SetRoot
  <2>1. /\ UNCHANGED <<nodes, records, crashes>> /\ pc = "set_root" /\ pc' = "set_best"
        /\ kv'.root = Len(nodes) /\ Len(nodes) > 0
    BY <1>0, <1>6 DEF SetRoot, KvTyped, IInv, Rooted
  <2>2. Rooting(kv.root, pc) = 1 /\ Rooting(kv'.root, pc') = 1
    <3>1. kv'.root # None
      BY <1>0, <2>1 DEF None
    <3>2. QED
      BY <2>1, <3>1 DEF Rooting
  <2>3. Creating(pc) = 0 /\ Creating(pc') = 0 /\ LastOf(records') = LastOf(records)
    BY <2>1 DEF Creating, Created, Unscored, Scored
  <2>4. pc' \notin Up /\ pc' \notin Begun
    BY <2>1 DEF Up, Begun, Created, Unscored, Scored
  <2>5. crashes' <= MaxCrashes
    BY <1>1, <2>1
  <2>6. Len(nodes') <= LastOf(records') + crashes' + Rooting(kv'.root, pc') + Creating(pc')
    BY <1>0, <1>1, <2>1, <2>2, <2>3
  <2>7. QED
    BY <2>4, <2>5, <2>6
<1>7. CASE CreateChild
  <2>1. /\ UNCHANGED <<kv, records, crashes>> /\ pc = "create" /\ pc' = "work"
        /\ Len(nodes') = Len(nodes) + 1
    BY <1>7, Creation DEF CreateChild
  <2>2. /\ Rooting(kv'.root, pc') = Rooting(kv.root, pc) /\ Creating(pc) = 0
        /\ Creating(pc') = 1 /\ LastOf(records') = LastOf(records)
    BY <2>1 DEF Rooting, Creating, Created, Unscored, Scored
  <2>3. pc \in Up /\ pc \in Begun /\ mem'.it = mem.it /\ Rooting(kv.root, pc) \in Nat
    BY <1>0, <1>7, <2>1 DEF Up, Begun, CreateChild, MemTyped, MemType, Rooting
  <2>4. QED
    BY <1>0, <1>1, <2>1, <2>2, <2>3
<1>8. CASE WriteRecord
  <2>1. /\ UNCHANGED <<nodes, kv, crashes>> /\ pc = "record" /\ pc' = "iterate"
        /\ mem'.it = mem.it + 1 /\ records' = [records EXCEPT ![mem.it] = mem.child]
        /\ pc \in Created /\ pc \in Up /\ pc \in Begun
    BY <1>0, <1>8 DEF WriteRecord, MemTyped, MemType, Up, Begun, Created, Scored
  <2>2. mem.it = LastOf(records) + 1 /\ mem.it \in 1 .. MaxIters
    BY <1>0, <1>1, <2>1, Bounds DEF MemTyped, MemType
  <2>3. mem.child # None
    BY <2>1, ChildIsNode DEF Node, None
  <2>4. records'[mem.it] # None /\ \A i \in 1 .. MaxIters \ {mem.it} : records'[i] = records[i]
    BY <1>0, <2>1, <2>2, <2>3 DEF RestTyped
  <2>5. LastOf(records') = mem.it
    <3>1. mem.it > LastOf(records)
      BY <1>0, <2>2, LastRecordIs
    <3>2. LastOf(records') = mem.it
      BY <2>2, <2>4, <3>1, RecordIsLast
    <3>3. QED
      BY <3>2 DEF LastRecord, LastOf
  <2>6. /\ Rooting(kv'.root, pc') = Rooting(kv.root, pc) /\ Creating(pc) = 1
        /\ Creating(pc') = 0 /\ Rooting(kv.root, pc) \in Nat
    BY <2>1 DEF Rooting, Creating, Created, Unscored, Scored
  <2>7. pc' \notin Begun
    BY <2>1 DEF Begun, Created, Unscored, Scored
  <2>8. QED
    BY <1>0, <1>1, <2>1, <2>2, <2>5, <2>6, <2>7
<1>9. CASE Crash \/ BackupFails
  <2>1. /\ UNCHANGED <<nodes, kv, records>> /\ crashes' = crashes + 1 /\ pc' = "down"
        /\ pc # "down"
    BY <1>9 DEF Crash, BackupFails, disk
  <2>2. LastOf(records') = LastOf(records) /\ Creating(pc') = 0
    BY <2>1 DEF Creating, Created, Unscored, Scored
  <2>3. /\ Rooting(kv.root, pc) \in Nat /\ Creating(pc) \in Nat /\ Rooting(kv'.root, pc') \in Nat
        /\ Rooting(kv.root, pc) <= 1 /\ Creating(pc) <= 1
    BY DEF Rooting, Creating
  <2>4. pc # "set_root" => Rooting(kv'.root, pc') = Rooting(kv.root, pc)
    BY <2>1 DEF Rooting
  <2>5. pc = "set_root" => Creating(pc) = 0
    BY DEF Creating, Created, Unscored, Scored
  <2>6. Rooting(kv.root, pc) + Creating(pc) <= Rooting(kv'.root, pc') + 1
    BY <2>3, <2>4, <2>5
  <2>7. pc' \notin Up /\ pc' \notin Begun
    BY <2>1 DEF Up, Begun, Created, Unscored, Scored
  <2>8. Len(nodes') <= LastOf(records') + crashes' + Rooting(kv'.root, pc') + Creating(pc')
    BY <1>0, <1>1, <2>1, <2>2, <2>3, <2>6
  <2>9. QED
    BY <2>1, <2>7, <2>8
<1>10. QED
  BY <1>3, <1>4, <1>5, <1>6, <1>7, <1>8, <1>9, StepKinds

\* No step takes a node out of the table or moves it under another; only the node in hand
\* changes its status or its metric, and the metric only when its result is written.
LEMMA RowsKept ==
  ASSUME IInv, Next
  PROVE  /\ Node \subseteq Node'
         /\ \A n \in Node : nodes'[n].parent = nodes[n].parent
         /\ \A n \in Node : n # mem.child \/ pc \notin Created =>
              nodes'[n].status = nodes[n].status /\ nodes'[n].metric = nodes[n].metric
         /\ ~SaveResult => \A n \in Node : nodes'[n].metric = nodes[n].metric
<1>1. CASE CreateRoot \/ CreateChild
  <2>1. /\ Len(nodes) \in Nat /\ Len(nodes') = Len(nodes) + 1
        /\ \A n \in Node : nodes'[n] = nodes[n]
    BY <1>1, Creation
  <2>2. QED
    BY <2>1 DEF Node
<1>2. CASE SaveResult \/ Backup \/ \E s \in {"codegen_done", "patched"} : Patch(s)
  <2>1. /\ Len(nodes') = Len(nodes)
        /\ \A n \in Node : nodes'[n].parent = nodes[n].parent
        /\ Backup => \A n \in Node : nodes'[n].status = nodes[n].status
                                     /\ nodes'[n].metric = nodes[n].metric
        /\ ~Backup => \A n \in Node \ {mem.child} : nodes'[n] = nodes[n]
        /\ ~Backup /\ ~SaveResult => nodes'[mem.child].metric = nodes[mem.child].metric
    BY <1>2, Update
  <2>2. pc \in Created
    BY <1>2 DEF SaveResult, Backup, Patch, Created, Unscored, Scored
  <2>3. Node' = Node
    BY <2>1 DEF Node
  <2>4. QED
    BY <2>1, <2>2, <2>3
<1>3. CASE UNCHANGED nodes
  BY <1>3 DEF Node
<1>4. QED
  BY <1>1, <1>2, <1>3, NodeWriters

\* The root is known from the step that records it on, and no step touches its row.
LEMMA StepRooted == ASSUME IInv, Next PROVE Rooted'
<1>0. Rooted /\ KvTyped /\ MemTyped /\ Len(nodes) \in Nat
  BY TypeParts DEF IInv, NodesTyped
<1>1. ASSUME kv.root # None
      PROVE  nodes'[kv.root].status = "done" /\ nodes'[kv.root].metric = None
  <2>1. kv.root \in Node
    BY <1>0, <1>1 DEF KvTyped, Node, None
  <2>2. kv.root # mem.child \/ pc \notin Created
    BY DEF IInv, Chosen
  <2>3. QED
    BY <1>0, <1>1, <2>1, <2>2, RowsKept DEF Rooted
<1>2. CASE Plain
  <2>1. /\ kv'.root = kv.root
        /\ pc' = "set_root" <=> pc = "set_root"
        /\ pc' # "create_root" \/ pc = "create_root"
    BY <1>2, PlainSteps
  <2>2. pc' \in {"set_best", "load"} \cup Up => pc \in {"set_best", "load"} \cup Up
    BY <1>2 DEF Up, Begun, Created, Unscored, Scored, Plain, SetFirstBest, Load, Iterate,
       Descend, Decide, ClearFlag, Work, Patch, Outcome, SaveLastMetric, SaveStreak, SaveFlag,
       SaveLow, SaveHigh, ResetStreak, SaveResult, Backup, SaveBest, SaveSince, Finish, Spend
  <2>3. pc' = "set_root" => UNCHANGED nodes
    BY <1>2 DEF Plain, SetFirstBest, Load, Iterate,
       Descend, Decide, ClearFlag, Work, Patch, Outcome, SaveLastMetric, SaveStreak, SaveFlag,
       SaveLow, SaveHigh, ResetStreak, SaveResult, Backup, SaveBest, SaveSince, Finish, Spend,
       disk
  <2>4. pc' \in Up => mem'.root = kv.root
    <3>1. CASE Load
      BY <3>1 DEF Load, NoMem
    <3>2. CASE SetFirstBest
      BY <3>2 DEF SetFirstBest, Up, Begun, Created, Unscored, Scored
    <3>3. CASE Plain /\ ~Load /\ ~SetFirstBest
      <4>1. mem'.root = mem.root
        BY <1>0, <3>3 DEF MemTyped, MemType, Plain, Iterate, Descend, Decide, ClearFlag, Work,
           Patch, Outcome, SaveLastMetric, SaveStreak, SaveFlag, SaveLow, SaveHigh,
           ResetStreak, SaveResult, Backup, SaveBest, SaveSince, Finish, Spend, disk
      <4>2. pc' \in Up => pc \in Up
        BY <3>3 DEF Up, Begun, Created, Unscored, Scored, Plain, Iterate, Descend, Decide,
           ClearFlag, Work, Patch, Outcome, SaveLastMetric, SaveStreak, SaveFlag, SaveLow,
           SaveHigh, ResetStreak, SaveResult, Backup, SaveBest, SaveSince, Finish, Spend
      <4>3. QED
        BY <1>0, <4>1, <4>2 DEF Rooted
    <3>4. QED
      BY <1>2, <3>1, <3>2, <3>3
  <2>5. QED
    BY <1>0, <1>1, <2>1, <2>2, <2>3, <2>4 DEF Rooted
<1>3. CASE Boot
  <2>1. UNCHANGED <<nodes, kv>> /\ pc' = IF kv.root = None THEN "create_root" ELSE "load"
    BY <1>3 DEF Boot, disk
  <2>2. pc' \notin Up
    BY <2>1 DEF Up, Begun, Created, Unscored, Scored
  <2>3. QED
    BY <1>0, <1>1, <2>1, <2>2 DEF Rooted
<1>4. CASE CreateRoot
  <2>1. UNCHANGED kv /\ pc = "create_root" /\ pc' = "set_root" /\ Len(nodes') = Len(nodes) + 1
        /\ nodes'[Len(nodes')].status = "done" /\ nodes'[Len(nodes')].metric = None
    BY <1>4, Creation DEF CreateRoot
  <2>2. pc' \notin Up /\ kv.root = None
    BY <1>0, <2>1 DEF Up, Begun, Created, Unscored, Scored, Rooted
  <2>3. Len(nodes') > 0
    BY <1>0, <2>1
  <2>4. QED
    BY <2>1, <2>2, <2>3 DEF Rooted
<1>5. CASE SetRoot
  <2>1. UNCHANGED nodes /\ pc = "set_root" /\ pc' = "set_best" /\ kv'.root = Len(nodes)
    BY <1>0, <1>5 DEF SetRoot, KvTyped
  <2>2. pc' \notin Up /\ Len(nodes) > 0
        /\ nodes[Len(nodes)].status = "done" /\ nodes[Len(nodes)].metric = None
    BY <1>0, <2>1 DEF Up, Begun, Created, Unscored, Scored, Rooted
  <2>3. kv'.root # None
    BY <1>0, <2>1, <2>2 DEF None
  <2>4. QED
    BY <2>1, <2>2, <2>3 DEF Rooted
<1>6. CASE CreateChild \/ WriteRecord
  <2>1. UNCHANGED kv /\ pc \in Up /\ pc' \in Up /\ mem'.root = mem.root
        /\ pc' \notin {"create_root", "set_root"}
    BY <1>0, <1>6 DEF CreateChild, WriteRecord, MemTyped, MemType, Up, Begun, Created, Unscored,
       Scored
  <2>2. QED
    BY <1>0, <1>1, <2>1 DEF Rooted
<1>7. CASE Crash \/ BackupFails
  <2>1. UNCHANGED kv /\ pc' = "down" /\ pc' \notin Up
    BY <1>7 DEF Crash, BackupFails, disk, Up, Begun, Created, Unscored, Scored
  <2>2. QED
    BY <1>1, <2>1 DEF Rooted
<1>8. QED
  BY <1>2, <1>3, <1>4, <1>5, <1>6, <1>7, StepKinds

\* A node put under the selected one is put under no buggy node, and a node that becomes
\* buggy is the newest, which has no child yet.
LEMMA StaysUnexpanded == ASSUME IInv, Next PROVE BuggyNeverExpanded'
<1>0. /\ NodesTyped /\ MemTyped /\ Chosen /\ BuggyNeverExpanded
      /\ Len(nodes) \in Nat /\ \A n \in Node : nodes[n].parent \in 0 .. n - 1
  BY TypeParts DEF IInv, NodesTyped, Chosen
<1>1. ASSUME NEW n \in Node, nodes[n].parent # None
      PROVE  nodes'[nodes'[n].parent].status # "buggy"
  <2>1. nodes[n].parent \in Node /\ nodes[n].parent # Len(nodes)
    BY <1>0, <1>1 DEF Node, None
  <2>2. nodes[n].parent # mem.child \/ pc \notin Created
    BY <1>0, <2>1 DEF Chosen
  <2>3. nodes[nodes[n].parent].status # "buggy"
    BY <1>0, <1>1 DEF BuggyNeverExpanded
  <2>4. QED
    BY <2>1, <2>2, <2>3, RowsKept
<1>2. CASE CreateRoot \/ CreateChild
  <2>1. /\ Len(nodes') = Len(nodes) + 1
        /\ \A n \in Node : nodes'[n] = nodes[n]
        /\ CreateRoot => nodes'[Len(nodes')].parent = None
        /\ CreateChild => nodes'[Len(nodes')].parent = Parent
    BY <1>2, Creation
  <2>2. \A n \in Node' : n \in Node \/ n = Len(nodes')
    BY <1>0, <2>1 DEF Node
  <2>3. CreateChild => Parent \in Node /\ nodes[Parent].status # "buggy"
    BY <1>0, ParentIsNode DEF CreateChild, Chosen, Begun
  <2>4. CreateChild => nodes'[Parent].status # "buggy"
    BY <2>1, <2>3
  <2>5. QED
    BY <1>1, <1>2, <2>1, <2>2, <2>4 DEF BuggyNeverExpanded
<1>3. CASE ~CreateRoot /\ ~CreateChild
  <2>1. Len(nodes') = Len(nodes)
    BY <1>3, NodeWriters, Update
  <2>2. Node' = Node
    BY <2>1 DEF Node
  <2>3. \A n \in Node : nodes'[n].parent = nodes[n].parent
    BY RowsKept
  <2>4. QED
    BY <1>1, <2>2, <2>3 DEF BuggyNeverExpanded
<1>4. QED
  BY <1>2, <1>3

\* The path begins with the root when an iteration does; the descent leaves it at a node
\* that is not fully expanded, or at the root, which is never buggy.
LEMMA PathLeadsOn ==
  ASSUME IInv, Next
  PROVE  /\ pc' \in Begun => mem'.path # <<>>
         /\ pc' \in {"decide", "clear_flag", "create"} => nodes'[Parent'].status # "buggy"
<1>0. /\ MemTyped /\ mem.path \in Seq(Node)
      /\ pc \in Begun => mem.path # <<>>
      /\ pc \in {"decide", "clear_flag", "create"} => nodes[Parent].status # "buggy"
  BY TypeParts DEF IInv, Chosen, MemTyped, MemType
<1>1. CASE Iterate
  <2>1. pc' \in {"finish", "descend"} /\ (pc' = "descend" => mem'.path = <<mem.root>>)
    BY <1>0, <1>1 DEF Iterate, MemTyped, MemType
  <2>2. "finish" \notin Begun
    BY DEF Begun, Created, Unscored, Scored
  <2>3. QED
    BY <2>1, <2>2
<1>2. CASE Descend
  <2>1. pc = "descend" /\ pc \in Up /\ pc \in Begun /\ UNCHANGED nodes
    BY <1>2 DEF Descend, Up, Begun, disk
  <2>2. mem.root = kv.root /\ nodes[mem.root].status = "done"
    BY <2>1 DEF IInv, Rooted
  <2>3. CASE ~FullyExpanded(Parent) /\ pc' = "decide" /\ UNCHANGED mem
    <3>1. nodes[Parent].status # "buggy"
      BY <2>2, <2>3 DEF FullyExpanded
    <3>2. Parent' = Parent
      BY <2>3 DEF Parent
    <3>3. QED
      BY <1>0, <2>1, <2>3, <3>1, <3>2
  <2>4. CASE mem' = [mem EXCEPT !.path = <<mem.root>>] /\ pc' = "decide"
    <3>1. mem'.path = <<mem.root>>
      BY <1>0, <2>4 DEF MemTyped, MemType
    <3>2. Parent' = mem.root
      BY <3>1 DEF Parent
    <3>3. QED
      BY <2>1, <2>2, <3>1, <3>2
  <2>5. CASE UNCHANGED pc /\ \E c \in Preferred(Parent) : mem' = [mem EXCEPT !.path = Append(@, c)]
    <3>1. PICK c : mem' = [mem EXCEPT !.path = Append(@, c)]
      BY <2>5
    <3>2. mem'.path = Append(mem.path, c)
      BY <1>0, <3>1 DEF MemTyped, MemType
    <3>3. Append(mem.path, c) # <<>>
      BY <1>0
    <3>4. QED
      BY <2>1, <2>5, <3>2, <3>3
  <2>6. QED
    BY <1>2, <2>3, <2>4, <2>5 DEF Descend, Parent
<1>3. CASE CreateChild \/ Boot \/ CreateRoot \/ SetRoot \/ SetFirstBest \/ Load \/ WriteRecord
           \/ Crash \/ BackupFails
  <2>1. pc' \notin {"decide", "clear_flag", "create"}
    BY <1>3 DEF CreateChild, Boot, CreateRoot, SetRoot, SetFirstBest, Load, WriteRecord, Crash,
       BackupFails
  <2>2. pc' \in Begun => CreateChild
    BY <1>3 DEF Boot, CreateRoot, SetRoot, SetFirstBest, Load, WriteRecord, Crash, BackupFails,
       Begun, Created, Unscored, Scored
  <2>3. CreateChild => pc \in Begun /\ mem'.path = mem.path
    BY <1>0 DEF CreateChild, Begun, MemTyped, MemType
  <2>4. QED
    BY <1>0, <2>1, <2>2, <2>3
<1>4. CASE Plain /\ ~Iterate /\ ~Descend /\ ~SetFirstBest /\ ~Load
  <2>1. mem'.path = mem.path
    BY <1>0, <1>4 DEF MemTyped, MemType, Plain, Decide, ClearFlag, Work, Patch, Outcome,
       SaveLastMetric, SaveStreak, SaveFlag, SaveLow, SaveHigh, ResetStreak, SaveResult,
       Backup, SaveBest, SaveSince, Finish, Spend, disk
  <2>2. pc' \in Begun => pc \in Begun
    BY <1>4 DEF Begun, Created, Unscored, Scored, Plain, Decide, ClearFlag, Work, Patch,
       Outcome, SaveLastMetric, SaveStreak, SaveFlag, SaveLow, SaveHigh, ResetStreak,
       SaveResult, Backup, SaveBest, SaveSince, Finish, Spend
  <2>3. pc' \in {"decide", "clear_flag", "create"} =>
          pc \in {"decide", "clear_flag", "create"} /\ UNCHANGED nodes
    BY <1>4 DEF Plain, Decide, ClearFlag, Work, Patch, Outcome, SaveLastMetric, SaveStreak,
       SaveFlag, SaveLow, SaveHigh, ResetStreak, SaveResult, Backup, SaveBest, SaveSince,
       Finish, Spend, disk
  <2>4. Parent' = Parent
    BY <2>1 DEF Parent
  <2>5. QED
    BY <1>0, <2>1, <2>2, <2>3, <2>4
<1>5. QED
  BY <1>1, <1>2, <1>3, <1>4, StepKinds DEF Plain

\* The steps between the creation of a node and its record, or an end of the controller.
LEMMA InHand ==
  ASSUME IInv, Next, pc' \in Created
  PROVE  \/ CreateChild
         \/ /\ pc \in Created /\ mem'.child = mem.child /\ Len(nodes') = Len(nodes)
            /\ UNCHANGED records /\ kv'.root = kv.root
            /\ pc' \in Unscored => pc \in Unscored /\ ~SaveResult
            /\ pc' \in Scored => SaveResult \/ (pc \in Scored /\ mem'.metric = mem.metric)
<1>1. CASE Plain
  <2>1. /\ pc \in Created /\ Len(nodes') = Len(nodes) /\ UNCHANGED records /\ kv'.root = kv.root
    BY <1>1, PlainSteps
  <2>2. MemTyped
    BY TypeParts DEF IInv
  <2>3. mem'.child = mem.child
    BY <1>1, <2>1, <2>2 DEF MemTyped, MemType, Created, Unscored, Scored, Plain, SetFirstBest,
       Load, Iterate, Descend, Decide, ClearFlag, Work, Patch, Outcome, SaveLastMetric,
       SaveStreak, SaveFlag, SaveLow, SaveHigh, ResetStreak, SaveResult, Backup, SaveBest,
       SaveSince, Finish, Spend, disk
  <2>4. pc' \in Unscored => pc \in Unscored /\ ~SaveResult
    BY <1>1, <2>1 DEF Created, Unscored, Scored, Plain, SetFirstBest,
       Load, Iterate, Descend, Decide, ClearFlag, Work, Patch, Outcome, SaveLastMetric,
       SaveStreak, SaveFlag, SaveLow, SaveHigh, ResetStreak, SaveResult, Backup, SaveBest,
       SaveSince, Finish, Spend
  <2>5. pc' \in Scored => SaveResult \/ (pc \in Scored /\ mem'.metric = mem.metric)
    BY <1>1, <2>1, <2>2 DEF MemTyped, MemType, Created, Unscored, Scored, Plain, SetFirstBest,
       Load, Iterate, Descend, Decide, ClearFlag, Work, Patch, Outcome, SaveLastMetric,
       SaveStreak, SaveFlag, SaveLow, SaveHigh, ResetStreak, Backup, SaveBest,
       SaveSince, Finish, Spend, disk
  <2>6. QED
    BY <2>1, <2>3, <2>4, <2>5
<1>2. CASE Boot \/ CreateRoot \/ SetRoot \/ WriteRecord \/ Crash \/ BackupFails
  BY <1>2 DEF Boot, CreateRoot, SetRoot, WriteRecord, Crash, BackupFails, Created, Unscored,
     Scored
<1>3. QED
  BY <1>1, <1>2, StepKinds

\* The node in hand is the newest and is in no record.
LEMMA ChildIsNewest ==
  ASSUME IInv, Next, pc' \in Created
  PROVE  /\ mem'.child = Len(nodes') /\ mem'.child # kv'.root
         /\ \A i \in DOMAIN records' : records'[i] # mem'.child
<1>0. NodesTyped /\ KvTyped /\ MemTyped /\ RestTyped /\ Chosen /\ Len(nodes) \in Nat
  BY TypeParts DEF IInv, NodesTyped
<1>1. CASE CreateChild
  <2>1. /\ mem'.child = Len(nodes) + 1 /\ UNCHANGED <<kv, records>>
        /\ Len(nodes') = Len(nodes) + 1
    BY <1>0, <1>1, Creation DEF CreateChild, MemTyped, MemType
  <2>2. kv.root \in 0 .. Len(nodes) /\ \A i \in DOMAIN records : records[i] \in 0 .. Len(nodes)
    BY <1>0 DEF KvTyped, RestTyped
  <2>3. QED
    BY <1>0, <2>1, <2>2
<1>2. CASE ~CreateChild
  <2>1. /\ pc \in Created /\ mem'.child = mem.child /\ Len(nodes') = Len(nodes)
        /\ UNCHANGED records /\ kv'.root = kv.root
    BY <1>2, InHand
  <2>2. QED
    BY <1>0, <2>1 DEF Chosen
<1>3. QED
  BY <1>1, <1>2

\* The row of the node in hand has no metric until the result is written, and from then on
\* the one in memory, or none if that is not a number.
LEMMA RowMatches ==
  ASSUME IInv, Next
  PROVE  /\ pc' \in Unscored => nodes'[mem'.child].metric = None
         /\ pc' \in Scored =>
              nodes'[mem'.child].metric = IF mem'.metric = NaN THEN None ELSE mem'.metric
<1>0. MemTyped /\ Chosen /\ NodesTyped
  BY TypeParts DEF IInv
<1>1. CASE CreateChild
  <2>1. pc' = "work" /\ mem'.child = Len(nodes')
    BY <1>0, <1>1, Creation DEF CreateChild, MemTyped, MemType
  <2>2. nodes'[Len(nodes')].metric = None
    BY <1>1, Creation
  <2>3. "work" \notin Scored
    BY DEF Scored
  <2>4. QED
    BY <2>1, <2>2, <2>3
<1>2. CASE SaveResult
  <2>1. pc' \in Scored /\ pc' \notin Unscored /\ UNCHANGED mem
    BY <1>2 DEF SaveResult, Scored, Unscored
  <2>2. QED
    BY <1>2, <2>1, Update
<1>3. CASE ~CreateChild /\ ~SaveResult
  <2>1. ASSUME pc' \in Created
        PROVE  /\ pc \in Created /\ mem'.child = mem.child
               /\ pc' \in Unscored => pc \in Unscored
               /\ pc' \in Scored => pc \in Scored /\ mem'.metric = mem.metric
               /\ nodes'[mem.child].metric = nodes[mem.child].metric
    <3>1. /\ pc \in Created /\ mem'.child = mem.child
          /\ pc' \in Unscored => pc \in Unscored
          /\ pc' \in Scored => pc \in Scored /\ mem'.metric = mem.metric
      BY <1>3, <2>1, InHand
    <3>2. mem.child \in Node
      BY <3>1, ChildIsNode
    <3>3. QED
      BY <1>3, <3>1, <3>2, RowsKept
  <2>2. QED
    BY <1>0, <2>1 DEF Chosen, Created
<1>4. QED
  BY <1>1, <1>2, <1>3

\* The range, the streak and the best node are asked only for an iteration that has a
\* metric; the streak is reset for one that has none.
LEMMA MetricGuards ==
  ASSUME IInv, Next
  PROVE  /\ pc' \in {"last_metric", "streak", "flag", "low", "high", "best"} => mem'.metric # None
         /\ pc' = "reset_streak" => mem'.metric = None
<1>0. /\ MemTyped
      /\ pc \in {"last_metric", "streak", "flag", "low", "high", "best"} => mem.metric # None
      /\ pc = "reset_streak" => mem.metric = None
  BY TypeParts DEF IInv, Chosen
<1> DEFINE G == {"last_metric", "streak", "flag", "low", "high", "best"}
<1>1. CASE \E m \in Measured \cup {None} : Outcome(m)
  BY <1>0, <1>1 DEF Outcome, MemTyped, MemType
<1>2. CASE Backup
  <2>1. mem'.metric = mem.metric /\ pc = "backup"
        /\ (pc' = "best" => mem.metric # None) /\ pc' \in {"backup", "since", "best"}
    BY <1>0, <1>2 DEF Backup, MemTyped, MemType
  <2>2. QED
    BY <2>1
<1>3. CASE SaveLastMetric \/ SaveStreak \/ SaveFlag \/ SaveLow
  <2>1. mem'.metric = mem.metric
    BY <1>0, <1>3 DEF SaveLastMetric, SaveStreak, SaveFlag, SaveLow, MemTyped, MemType
  <2>2. pc \in G /\ pc' # "reset_streak"
    BY <1>3 DEF SaveLastMetric, SaveStreak, SaveFlag, SaveLow
  <2>3. QED
    BY <1>0, <2>1, <2>2
<1>4. CASE Spend \/ \E s \in {"codegen_done", "patched"} : Patch(s)
  BY <1>0, <1>4 DEF Spend, Patch
<1>5. CASE ~(Spend \/ \E s \in {"codegen_done", "patched"} : Patch(s)) /\ ~Backup
           /\ ~(\E m \in Measured \cup {None} : Outcome(m))
           /\ ~(SaveLastMetric \/ SaveStreak \/ SaveFlag \/ SaveLow)
  <2>1. pc' \notin G /\ pc' # "reset_streak"
    BY <1>5 DEF Next, Resume, Selection, Work, Scoring, Boot, CreateRoot, SetRoot, SetFirstBest,
       Load, Iterate, Descend, Decide, ClearFlag, CreateChild, SaveHigh, ResetStreak,
       SaveResult, BackupFails, SaveBest, SaveSince, WriteRecord, Finish, Crash
  <2>2. QED
    BY <2>1
<1>6. QED
  BY <1>1, <1>2, <1>3, <1>4, <1>5

\* The counter that the streak and the backup share is 0 outside them, and the backup ends
\* at the node in hand.
LEMMA BackedCounts ==
  ASSUME IInv, Next
  PROVE  /\ pc' \in Up \ {"streak", "backup"} => mem'.backed = 0
         /\ pc' = "backup" => mem'.backed <= Len(mem'.path)
<1>0. /\ MemTyped /\ mem.backed \in Nat /\ mem.path \in Seq(Node)
      /\ pc \in Up \ {"streak", "backup"} => mem.backed = 0
      /\ pc = "backup" => mem.backed <= Len(mem.path)
  BY TypeParts DEF IInv, Chosen, MemTyped, MemType
<1>1. CASE Load
  BY <1>1 DEF Load, NoMem
<1>2. CASE Backup
  <2>1. Len(BackupPath) = Len(mem.path) + 1 /\ Len(mem.path) \in Nat
    BY <1>0 DEF BackupPath
  <2>2. mem.backed <= Len(mem.path)
    BY <1>0, <1>2 DEF Backup
  <2>3. CASE mem.backed + 1 = Len(BackupPath)
    <3>1. mem'.backed = 0 /\ pc' \in {"since", "best"}
      BY <1>0, <1>2, <2>1, <2>3 DEF Backup, MemTyped, MemType
    <3>2. QED
      BY <3>1
  <2>4. CASE mem.backed + 1 # Len(BackupPath)
    <3>1. mem.backed + 1 < Len(BackupPath)
      BY <1>0, <2>1, <2>2, <2>4
    <3>2. mem'.backed = mem.backed + 1 /\ mem'.path = mem.path /\ pc' = "backup"
      BY <1>0, <1>2, <2>4, <3>1 DEF Backup, MemTyped, MemType
    <3>3. mem'.backed <= Len(mem'.path)
      BY <1>0, <2>1, <3>1, <3>2
    <3>4. QED
      BY <3>2, <3>3
  <2>5. QED
    BY <2>3, <2>4
<1>3. CASE SaveStreak \/ SaveLastMetric
  <2>1. SaveStreak => mem'.backed = 0 /\ pc' # "backup"
    BY <1>0 DEF SaveStreak, MemTyped, MemType
  <2>2. SaveLastMetric => pc' = "streak"
    BY DEF SaveLastMetric
  <2>3. QED
    BY <1>3, <2>1, <2>2
<1>4. CASE SaveResult
  <2>1. pc = "result" /\ pc \in Up \ {"streak", "backup"} /\ pc' = "backup" /\ UNCHANGED mem
    BY <1>4 DEF SaveResult, Up, Begun, Created, Unscored
  <2>2. Len(mem.path) \in Nat
    BY <1>0
  <2>3. QED
    BY <1>0, <2>1, <2>2
<1>5. CASE Spend
  BY <1>0, <1>5 DEF Spend
<1>6. CASE Boot \/ CreateRoot \/ SetRoot \/ SetFirstBest \/ Crash \/ BackupFails
  BY <1>6 DEF Boot, CreateRoot, SetRoot, SetFirstBest, Crash, BackupFails, Up, Begun, Created,
     Unscored, Scored
<1>7. CASE CreateChild \/ WriteRecord \/ (Plain /\ ~Load /\ ~Backup /\ ~SaveStreak
             /\ ~SaveLastMetric /\ ~SaveResult /\ ~Spend /\ ~SetFirstBest)
  <2>1. mem'.backed = mem.backed
    BY <1>0, <1>7 DEF CreateChild, WriteRecord, MemTyped, MemType, Plain, Iterate, Descend,
       Decide, ClearFlag, Work, Patch, Outcome, SaveFlag, SaveLow, SaveHigh, ResetStreak,
       SaveBest, SaveSince, Finish, disk
  <2>2. pc \in Up \ {"streak", "backup"} /\ pc' # "backup"
    BY <1>7 DEF CreateChild, WriteRecord, Plain, Iterate, Descend, Decide, ClearFlag, Work,
       Patch, Outcome, SaveFlag, SaveLow, SaveHigh, ResetStreak, SaveBest, SaveSince, Finish,
       Up, Begun, Created, Unscored, Scored
  <2>3. QED
    BY <1>0, <2>1, <2>2
<1>8. QED
  BY <1>1, <1>2, <1>3, <1>4, <1>5, <1>6, <1>7, StepKinds DEF Plain

\* Every step keeps what is known of the node in hand and of the path to it.
LEMMA StepChosen == ASSUME IInv, Next PROVE Chosen'
<1>1. BuggyNeverExpanded'
  BY StaysUnexpanded
<1>2. QED
  BY <1>1, PathLeadsOn, ChildIsNewest, RowMatches, MetricGuards, BackedCounts DEF Chosen

\* What MetricHistory.update makes of the ends of a range with the value v: they hold v,
\* unless it is not a number, and what they held before, also while only the lower one is
\* written; and a value that is not a number is put in place of no upper end, and by none.
LEMMA Widened ==
  ASSUME NEW low \in Value, NEW high \in Value, NEW v \in Value, v # None,
         NEW l, NEW h,
         l = IF low = None \/ Below(v, low) THEN v ELSE low,
         h = IF high = None \/ Below(high, v) THEN v ELSE high
  PROVE  /\ v # NaN => Holds(l, h, v)
         /\ \A u \in Int : Holds(low, high, u) => Holds(l, h, u) /\ Holds(l, high, u)
         /\ high # None /\ (h = NaN \/ high = NaN) => h = high
         /\ low \notin {None, NaN} => l # NaN
<1>1. None \in Int /\ NaN \notin Int /\ \A w \in Value : w # NaN => w \in Int
  <2>1. NaN \notin Int /\ Metric \subseteq Int /\ \A m \in Metric : m \in Int /\ -m \in Int
    BY SearchAssumption
  <2>2. \A w \in Value : w # NaN => w = None \/ w \in Metric \/ \E m \in Metric : w = -m
    BY DEF Value, Measured
  <2>3. None \in Int
    BY DEF None
  <2>4. QED
    BY <2>1, <2>2, <2>3
<1>2. v # NaN => Holds(l, h, v)
  <2> SUFFICES ASSUME v # NaN PROVE Holds(l, h, v)
    OBVIOUS
  <2>1. v \in Int
    BY <1>1
  <2>2. l # None /\ (l # NaN => l <= v)
    <3>1. CASE low = None \/ Below(v, low)
      BY <2>1, <3>1
    <3>2. CASE low # None /\ ~Below(v, low)
      <4>1. l = low
        BY <3>2
      <4>2. low # NaN => low \in Int /\ ~(v < low)
        BY <1>1, <3>2 DEF Below
      <4>3. QED
        BY <2>1, <3>2, <4>1, <4>2
    <3>3. QED
      BY <3>1, <3>2
  <2>3. h # None /\ (h # NaN => v <= h)
    <3>1. CASE high = None \/ Below(high, v)
      BY <2>1, <3>1
    <3>2. CASE high # None /\ ~Below(high, v)
      <4>1. h = high
        BY <3>2
      <4>2. high # NaN => high \in Int /\ ~(high < v)
        BY <1>1, <3>2 DEF Below
      <4>3. QED
        BY <2>1, <3>2, <4>1, <4>2
    <3>3. QED
      BY <3>1, <3>2
  <2>4. QED
    BY <2>2, <2>3 DEF Holds
<1>3. low # None => l # None /\ (low = NaN <=> l = NaN) /\ (low # NaN => l <= low /\ l \in Int)
  <2> SUFFICES ASSUME low # None
               PROVE  l # None /\ (low = NaN <=> l = NaN) /\ (low # NaN => l <= low /\ l \in Int)
    OBVIOUS
  <2>1. CASE Below(v, low)
    <3>1. l = v /\ v # NaN /\ low # NaN /\ v < low
      BY <2>1 DEF Below
    <3>2. v \in Int /\ low \in Int
      BY <1>1, <3>1
    <3>3. QED
      BY <3>1, <3>2
  <2>2. CASE ~Below(v, low)
    <3>1. l = low
      BY <2>2
    <3>2. low # NaN => low \in Int
      BY <1>1
    <3>3. QED
      BY <3>1, <3>2
  <2>3. QED
    BY <2>1, <2>2
<1>4. high # None => h # None /\ (high = NaN <=> h = NaN) /\ (high # NaN => high <= h /\ h \in Int)
                     /\ (high = NaN => h = high)
  <2> SUFFICES ASSUME high # None
               PROVE  h # None /\ (high = NaN <=> h = NaN) /\ (high # NaN => high <= h /\ h \in Int)
                      /\ (high = NaN => h = high)
    OBVIOUS
  <2>1. CASE Below(high, v)
    <3>1. h = v /\ v # NaN /\ high # NaN /\ high < v
      BY <2>1 DEF Below
    <3>2. v \in Int /\ high \in Int
      BY <1>1, <3>1
    <3>3. QED
      BY <3>1, <3>2
  <2>2. CASE ~Below(high, v)
    <3>1. h = high
      BY <2>2
    <3>2. high # NaN => high \in Int
      BY <1>1
    <3>3. QED
      BY <3>1, <3>2
  <2>3. QED
    BY <2>1, <2>2
<1>5. ASSUME NEW u \in Int, Holds(low, high, u)
      PROVE  Holds(l, h, u) /\ Holds(l, high, u)
  <2>1. low # None /\ high # None /\ (low # NaN /\ high # NaN => low <= u /\ u <= high)
    BY <1>5 DEF Holds
  <2>2. l # NaN => low # NaN /\ low \in Int /\ l \in Int /\ l <= low
    BY <1>1, <1>3, <2>1
  <2>3. h # NaN => high # NaN /\ high \in Int /\ h \in Int /\ high <= h
    BY <1>1, <1>4, <2>1
  <2>4. l # NaN /\ h # NaN => l <= u /\ u <= h
    BY <2>1, <2>2, <2>3
  <2>5. l # NaN /\ high # NaN => l <= u /\ u <= high
    BY <1>1, <2>1, <2>2
  <2>6. l # None /\ h # None
    BY <1>3, <1>4, <2>1
  <2>7. QED
    BY <2>1, <2>4, <2>5, <2>6 DEF Holds
<1>6. QED
  BY <1>2, <1>3, <1>4, <1>5

\* The objective of a metric is a number, and none is that of no metric.
LEMMA ObjectiveIsInt ==
  /\ \A m \in Metric : Objective(m) \in Int
  /\ \A m \in Measured : Objective(m) # None /\ (Objective(m) = NaN <=> m = NaN)
<1>1. NaN \notin Int /\ None = 0 /\ \A m \in Metric : m \in Nat /\ m # 0
  BY SearchAssumption DEF None
<1>2. ASSUME NEW m \in Metric
      PROVE  Objective(m) \in Int /\ Objective(m) # None /\ m # NaN
  <2>1. m \in Int /\ -m \in Int /\ m # 0 /\ -m # 0 /\ m # NaN
    BY <1>1
  <2>2. QED
    BY <1>1, <2>1 DEF Objective
<1>3. Objective(NaN) = NaN /\ NaN # None
  BY <1>1 DEF Objective
<1>4. QED
  BY <1>1, <1>2, <1>3 DEF Measured

\* The nodes that have a metric after a step had it before, but for the one whose result
\* the step writes.
LEMMA MetricsFrom ==
  ASSUME IInv, Next
  PROVE  /\ \A n \in Node : nodes[n].metric # None => nodes[n].metric \in Metric
         /\ ~SaveResult => \A n \in Node' : nodes'[n].metric # None =>
              n \in Node /\ nodes[n].metric = nodes'[n].metric
<1>1. NodesTyped /\ Len(nodes) \in Nat
  BY TypeParts DEF IInv, NodesTyped
<1>2. \A n \in Node : nodes[n].metric # None => nodes[n].metric \in Metric
  <2>1. \A n \in Node : nodes[n] \in NodeRec
    BY <1>1 DEF NodesTyped, Node
  <2>2. QED
    BY <2>1 DEF NodeRec
<1>3. ASSUME ~SaveResult, NEW n \in Node', nodes'[n].metric # None
      PROVE  n \in Node /\ nodes[n].metric = nodes'[n].metric
  <2>1. CASE CreateRoot \/ CreateChild
    <3>1. Len(nodes') = Len(nodes) + 1 /\ nodes'[Len(nodes')].metric = None
      BY <2>1, Creation
    <3>2. n \in Node
      BY <1>1, <1>3, <3>1 DEF Node
    <3>3. QED
      BY <1>3, <3>2, RowsKept
  <2>2. CASE ~CreateRoot /\ ~CreateChild
    <3>1. Len(nodes') = Len(nodes)
      BY <2>2, NodeWriters, Update
    <3>2. n \in Node
      BY <3>1 DEF Node
    <3>3. QED
      BY <1>3, <3>2, RowsKept
  <2>3. QED
    BY <2>1, <2>2
<1>4. QED
  BY <1>2, <1>3

\* SaveLow moves the lower end on disk and both ends in memory; SaveHigh brings the upper
\* end on disk in line before the metric reaches the table.
LEMMA StepRanged == ASSUME IInv, Next PROVE Ranged'
<1>0. /\ NodesTyped /\ KvTyped /\ MemTyped /\ Ranged
      /\ kv.low \in Value /\ kv.high \in Value
  BY TypeParts DEF IInv, KvTyped
<1>1. \A n \in Node : nodes[n].metric # None => Holds(kv.low, kv.high, Objective(nodes[n].metric))
  BY <1>0 DEF Ranged
<1>2. ASSUME ~SaveResult, kv'.low = kv.low, kv'.high = kv.high
      PROVE  \A n \in Node' : nodes'[n].metric # None =>
               Holds(kv'.low, kv'.high, Objective(nodes'[n].metric))
  BY <1>1, <1>2, MetricsFrom
<1>3. CASE Load
  <2>1. /\ pc' \notin {"high", "result"} /\ UNCHANGED kv /\ ~SaveResult
        /\ mem'.low = kv.low /\ mem'.high = kv.high
    BY <1>3 DEF Load, SaveResult, NoMem, disk
  <2>2. QED
    BY <1>2, <2>1 DEF Ranged
<1>4. CASE SaveLow
  <2> DEFINE v == Objective(mem.metric)
             l == IF kv.low = None \/ Below(v, kv.low) THEN v ELSE kv.low
             h == IF kv.high = None \/ Below(kv.high, v) THEN v ELSE kv.high
  <2>1. mem.low = kv.low /\ mem.high = kv.high /\ mem.metric # None /\ pc = "low"
    BY <1>0, <1>4 DEF SaveLow, IInv, Chosen, Ranged, Up, Begun, Created, Unscored
  <2>2. mem.metric \in Measured
    BY <1>0, <2>1 DEF MemTyped, MemType
  <2>3. mem'.low = l /\ mem'.high = h /\ mem'.metric = mem.metric
    BY <1>0, <1>4, <2>1 DEF SaveLow, MemTyped, MemType
  <2>4. kv'.low = l /\ kv'.high = kv.high /\ pc' = "high" /\ UNCHANGED nodes
    BY <1>0, <1>4, <2>3 DEF SaveLow, KvTyped
  <2>5. v \in Value /\ v # None /\ (v # NaN <=> mem.metric # NaN)
    BY <2>2, ObjectiveIsValue, ObjectiveIsInt
  <2>6. /\ v # NaN => Holds(l, h, v)
        /\ \A u \in Int : Holds(kv.low, kv.high, u) => Holds(l, h, u) /\ Holds(l, kv.high, u)
        /\ kv.high # None /\ (h = NaN \/ kv.high = NaN) => h = kv.high
    <3> HIDE DEF v
    <3>1. QED
      BY <1>0, <2>5, Widened
  <2>7. \A n \in Node : nodes[n].metric # None =>
          /\ Holds(l, h, Objective(nodes[n].metric))
          /\ Holds(l, kv.high, Objective(nodes[n].metric))
    BY <1>1, <2>6, MetricsFrom, ObjectiveIsInt
  <2>8. Node' = Node
    BY <2>4 DEF Node
  <2>9. QED
    <3> HIDE DEF l, h
    <3>1. QED
      BY <2>3, <2>4, <2>5, <2>6, <2>7, <2>8 DEF Ranged
<1>5. CASE SaveHigh
  <2>1. /\ kv'.low = kv.low /\ kv'.high = mem.high /\ UNCHANGED <<nodes, mem>>
        /\ pc = "high" /\ pc' = "result" /\ pc \in Up
    BY <1>0, <1>5 DEF SaveHigh, KvTyped, Up, Begun, Created, Unscored
  <2>2. /\ mem.low = kv.low
        /\ mem.metric # NaN => Holds(mem.low, mem.high, Objective(mem.metric))
        /\ \A n \in Node : nodes[n].metric # None =>
             Holds(mem.low, mem.high, Objective(nodes[n].metric))
    BY <1>0, <2>1 DEF Ranged
  <2>3. Node' = Node
    BY <2>1 DEF Node
  <2>4. QED
    BY <2>1, <2>2, <2>3 DEF Ranged
<1>6. CASE SaveResult
  <2>1. UNCHANGED <<kv, mem>> /\ pc = "result" /\ pc' = "backup" /\ pc \in Up \ {"high"}
    BY <1>6 DEF SaveResult, Up, Begun, Created, Unscored
  <2>2. /\ Len(nodes') = Len(nodes)
        /\ \A n \in Node \ {mem.child} : nodes'[n] = nodes[n]
        /\ nodes'[mem.child].metric = IF mem.metric = NaN THEN None ELSE mem.metric
    BY <1>6, Update DEF SaveResult, Backup
  <2>3. mem.metric \notin {None, NaN} => Holds(kv.low, kv.high, Objective(mem.metric))
    BY <1>0, <2>1 DEF Ranged
  <2>4. \A n \in Node' : nodes'[n].metric # None =>
          Holds(kv'.low, kv'.high, Objective(nodes'[n].metric))
    <3>1. Node' = Node
      BY <2>2 DEF Node
    <3>2. QED
      BY <1>1, <2>1, <2>2, <2>3, <3>1
  <2>5. QED
    BY <1>0, <2>1, <2>4 DEF Ranged
<1>7. CASE Boot \/ CreateRoot \/ SetRoot \/ SetFirstBest \/ Crash \/ BackupFails
  <2>1. pc' \notin Up /\ pc' \notin {"high", "result"} /\ ~SaveResult
    BY <1>7 DEF Boot, CreateRoot, SetRoot, SetFirstBest, Crash, BackupFails, SaveResult, Up,
       Begun, Created, Unscored, Scored
  <2>2. kv'.low = kv.low /\ kv'.high = kv.high
    BY <1>0, <1>7 DEF Boot, CreateRoot, SetRoot, SetFirstBest, Crash, BackupFails, KvTyped, disk
  <2>3. QED
    BY <1>2, <2>1, <2>2 DEF Ranged
<1>8. CASE Spend
  <2>1. UNCHANGED <<pc, nodes, kv, mem>> /\ Node' = Node
    BY <1>8 DEF Spend, disk, Node
  <2>2. QED
    BY <1>0, <2>1 DEF Ranged
<1>9. CASE CreateChild \/ WriteRecord \/ (Plain /\ ~Load /\ ~SaveLow /\ ~SaveHigh /\ ~SaveResult
             /\ ~SetFirstBest /\ ~Spend)
  <2>1. ~SaveResult /\ pc' # "high" /\ (pc' = "result" => ResetStreak)
    BY <1>9 DEF CreateChild, WriteRecord, SaveResult, Plain, Iterate, Descend, Decide,
       ClearFlag, Work, Patch, Outcome, SaveLastMetric, SaveStreak, SaveFlag, ResetStreak,
       Backup, SaveBest, SaveSince, Finish
  <2>2. ResetStreak => mem'.metric = None
    BY DEF ResetStreak, IInv, Chosen
  <2>3. kv'.low = kv.low /\ kv'.high = kv.high
    BY <1>0, <1>9 DEF CreateChild, WriteRecord, Plain, Iterate, Descend, Decide,
       ClearFlag, Work, Patch, Outcome, SaveLastMetric, SaveStreak, SaveFlag, ResetStreak,
       Backup, SaveBest, SaveSince, Finish, KvTyped, disk
  <2>4. mem'.low = mem.low /\ mem'.high = mem.high
    BY <1>0, <1>9 DEF CreateChild, WriteRecord, Plain, Iterate, Descend, Decide,
       ClearFlag, Work, Patch, Outcome, SaveLastMetric, SaveStreak, SaveFlag, ResetStreak,
       Backup, SaveBest, SaveSince, Finish, MemTyped, MemType, disk
  <2>5. pc \in Up \ {"high"}
    BY <1>9 DEF CreateChild, WriteRecord, Plain, Iterate, Descend, Decide,
       ClearFlag, Work, Patch, Outcome, SaveLastMetric, SaveStreak, SaveFlag, ResetStreak,
       Backup, SaveBest, SaveSince, Finish, Up, Begun, Created, Unscored, Scored
  <2>6. QED
    BY <1>0, <1>2, <2>1, <2>2, <2>3, <2>4, <2>5 DEF Ranged
<1>10. QED
  BY <1>3, <1>4, <1>5, <1>6, <1>7, <1>8, <1>9, StepKinds DEF Plain

\* Improvement is a strict order on metrics, and a metric that is not a number improves
\* nothing but the lack of one.
LEMMA Improvement ==
  /\ \A m \in Metric : ~Improves(m, m)
  /\ \A m, old, r \in Metric : Improves(m, old) /\ ~Improves(r, old) => ~Improves(r, m)
  /\ \A old : old # None => ~Improves(NaN, old)
<1>1. \A m \in Metric : m \in Int /\ m # NaN /\ m # None
  BY SearchAssumption DEF None
<1>2. \A m, old \in Metric : Improves(m, old) <=> IF HigherIsBetter THEN old < m ELSE m < old
  BY <1>1 DEF Improves, Below
<1>3. QED
  BY <1>1, <1>2 DEF Improves, Below

\* The best node on disk is as good as what is recorded, as long as neither changes.
LEMMA RecordsCovered ==
  ASSUME IInv, Next, UNCHANGED records, kv'.best = kv.best
  PROVE  BestCoversRecords'
<1>0. KvTyped /\ RestTyped /\ Chosen /\ Best /\ BestCoversRecords
  BY TypeParts DEF IInv, Best
<1>1. SUFFICES ASSUME NEW i \in DOMAIN records, records[i] # None,
                      nodes'[records[i]].metric # None
               PROVE  /\ kv.best # None /\ nodes'[kv.best].metric # None
                      /\ ~Improves(nodes'[records[i]].metric, nodes'[kv.best].metric)
  BY DEF BestCoversRecords
<1>2. records[i] \in Node
  BY <1>0, <1>1 DEF RestTyped, Node, None
<1>3. SaveResult => records[i] # mem.child /\ kv.best # mem.child
  BY <1>0 DEF SaveResult, Chosen, Best, Created, Unscored
<1>4. nodes'[records[i]].metric = nodes[records[i]].metric
  BY <1>2, <1>3, RowsKept
<1>5. /\ kv.best # None /\ nodes[kv.best].metric # None
      /\ ~Improves(nodes[records[i]].metric, nodes[kv.best].metric)
  BY <1>0, <1>1, <1>4 DEF BestCoversRecords
<1>6. kv.best \in Node
  BY <1>0, <1>5 DEF KvTyped, Node, None
<1>7. nodes'[kv.best].metric = nodes[kv.best].metric
  BY <1>3, <1>6, RowsKept
<1>8. QED
  BY <1>4, <1>5, <1>7

\* The best node is compared with the node in hand before this is recorded.
LEMMA StepBest == ASSUME IInv, Next PROVE Best'
<1>0. /\ NodesTyped /\ KvTyped /\ MemTyped /\ RestTyped /\ Rooted /\ Chosen /\ Best
      /\ BestCoversRecords /\ Len(nodes) \in Nat
      /\ kv.root = None \/ pc = "set_best" => \A i \in DOMAIN records : records[i] = None
      /\ pc \in Up => mem.best = IF kv.best = None THEN kv.root ELSE kv.best
      /\ pc \in Created \ {"since", "record"} => kv.best # mem.child
  BY TypeParts DEF IInv, Best, NodesTyped
<1>1. ASSUME kv'.root = kv.root \/ SetRoot, ~WriteRecord
      PROVE  kv'.root = None \/ pc' = "set_best" => \A i \in DOMAIN records' : records'[i] = None
  <2>1. UNCHANGED records
    BY <1>1 DEF Next, Resume, Selection, Work, Scoring, Boot, CreateRoot, SetRoot, SetFirstBest,
       Load, Iterate, Descend, Decide, ClearFlag, CreateChild, Patch, Outcome,
       SaveLastMetric, SaveStreak, SaveFlag, SaveLow, SaveHigh, ResetStreak, SaveResult,
       Backup, BackupFails, SaveBest, SaveSince, Finish, Crash, Spend, disk
  <2>2. SetRoot => kv.root = None
    BY <1>0 DEF SetRoot, Rooted
  <2>3. pc' = "set_best" => pc = "set_best" \/ SetRoot
    BY DEF Next, Resume, Selection, Work, Scoring, Boot, CreateRoot, SetFirstBest,
       Load, Iterate, Descend, Decide, ClearFlag, CreateChild, Patch, Outcome,
       SaveLastMetric, SaveStreak, SaveFlag, SaveLow, SaveHigh, ResetStreak, SaveResult,
       Backup, BackupFails, SaveBest, SaveSince, WriteRecord, Finish, Crash, Spend
  <2>4. QED
    BY <1>0, <1>1, <2>1, <2>2, <2>3
<1>2. CASE SetFirstBest
  <2>1. pc = "set_best" /\ pc' = "load" /\ UNCHANGED records /\ kv'.root = kv.root
    BY <1>0, <1>2 DEF SetFirstBest, KvTyped
  <2>2. \A i \in DOMAIN records : records[i] = None
    BY <1>0, <2>1
  <2>3. pc' \notin Up /\ pc' \notin Created
    BY <2>1 DEF Up, Begun, Created, Unscored, Scored
  <2>4. QED
    BY <2>1, <2>2, <2>3 DEF Best, BestCoversRecords
<1>3. CASE SaveBest
  <2> DEFINE old == nodes[mem.best].metric
             c == mem.child
  <2>1. /\ pc = "best" /\ pc' = "since" /\ UNCHANGED <<nodes, records>> /\ mem'.child = c
        /\ kv'.root = kv.root /\ ~WriteRecord /\ pc \in Up /\ pc \in Scored /\ pc \in Created
    BY <1>0, <1>3 DEF SaveBest, WriteRecord, MemTyped, MemType, KvTyped, Up, Begun, Created,
       Scored
  <2>2. /\ mem.metric # None /\ c \in Node
        /\ nodes[c].metric = IF mem.metric = NaN THEN None ELSE mem.metric
    BY <1>0, <2>1, ChildIsNode DEF Chosen
  <2>3. mem.metric \in Measured /\ mem.best = IF kv.best = None THEN kv.root ELSE kv.best
    BY <1>0, <2>1, <2>2 DEF MemTyped, MemType
  <2>4. kv.root # None /\ nodes[kv.root].metric = None
    BY <1>0, <2>1 DEF Rooted
  <2>5. \A n \in Node : nodes[n].metric # None => nodes[n].metric \in Metric
    BY MetricsFrom
  <2>6. old # None => kv.best # None /\ mem.best = kv.best /\ kv.best \in Node /\ old \in Metric
    <3>1. old # None => kv.best # None /\ mem.best = kv.best
      BY <2>3, <2>4
    <3>2. kv.best # None => kv.best \in Node
      BY <1>0 DEF KvTyped, Node, None
    <3>3. QED
      BY <2>5, <3>1, <3>2
  <2>7. \A i \in DOMAIN records : records[i] # None => records[i] \in Node
    BY <1>0 DEF RestTyped, Node, None
  <2>8. \A i \in DOMAIN records : records[i] # None /\ nodes[records[i]].metric # None =>
          old # None /\ ~Improves(nodes[records[i]].metric, old)
    BY <1>0, <2>3 DEF BestCoversRecords
  <2>9. CASE Improves(mem.metric, old)
    <3>1. kv'.best = c /\ mem'.best = c
      BY <1>0, <1>3, <2>9 DEF SaveBest, KvTyped, MemTyped, MemType
    <3>2. c # None
      BY <2>2 DEF Node, None
    <3>3. ASSUME NEW i \in DOMAIN records, records[i] # None, nodes[records[i]].metric # None
          PROVE  nodes[c].metric # None /\ ~Improves(nodes[records[i]].metric, nodes[c].metric)
      <4>1. old # None /\ old \in Metric /\ ~Improves(nodes[records[i]].metric, old)
            /\ nodes[records[i]].metric \in Metric
        BY <2>5, <2>6, <2>7, <2>8, <3>3
      <4>2. mem.metric \in Metric /\ mem.metric # NaN
        BY <2>3, <2>9, <4>1, Improvement DEF Measured
      <4>3. QED
        BY <2>2, <2>9, <4>1, <4>2, Improvement
    <3>4. BestCoversRecords'
      BY <2>1, <3>1, <3>2, <3>3 DEF BestCoversRecords
    <3>5. nodes[c].metric # None => ~Improves(nodes[c].metric, nodes[c].metric)
      BY <2>2, <2>5, Improvement
    <3>6. QED
      BY <1>1, <2>1, <3>1, <3>2, <3>4, <3>5 DEF Best, AsGood
  <2>10. CASE ~Improves(mem.metric, old)
    <3>1. kv'.best = kv.best /\ mem'.best = mem.best
      BY <1>0, <1>3, <2>10 DEF SaveBest, KvTyped, MemTyped, MemType
    <3>2. old # None
      BY <2>10 DEF Improves
    <3>3. kv.best # None /\ mem.best = kv.best
      BY <2>6, <3>2
    <3>4. nodes[c].metric # None => ~Improves(nodes[c].metric, nodes[kv.best].metric)
      BY <2>2, <2>10, <3>3
    <3>5. BestCoversRecords'
      BY <2>1, <3>1, RecordsCovered
    <3>6. QED
      BY <1>1, <2>1, <2>3, <3>1, <3>2, <3>3, <3>4, <3>5 DEF Best, AsGood
  <2>11. QED
    BY <2>9, <2>10
<1>4. CASE WriteRecord
  <2>1. /\ pc = "record" /\ pc' = "iterate" /\ UNCHANGED <<nodes, kv>> /\ mem'.best = mem.best
        /\ records' = [records EXCEPT ![mem.it] = mem.child]
        /\ pc \in Up /\ pc' \notin Created
    BY <1>0, <1>4 DEF WriteRecord, MemTyped, MemType, Up, Begun, Created, Unscored, Scored
  <2>2. nodes[mem.child].metric # None =>
          /\ kv.best # None /\ nodes[kv.best].metric # None
          /\ ~Improves(nodes[mem.child].metric, nodes[kv.best].metric)
    BY <1>0, <2>1 DEF Best, AsGood
  <2>3. \A i \in DOMAIN records' :
          records'[i] = mem.child \/ (i \in DOMAIN records /\ records'[i] = records[i])
    BY <1>0, <2>1 DEF RestTyped
  <2>4. BestCoversRecords'
    BY <1>0, <2>1, <2>2, <2>3 DEF BestCoversRecords
  <2>5. kv.root # None
    BY <1>0, <2>1 DEF Rooted
  <2>6. QED
    BY <1>0, <2>1, <2>4, <2>5 DEF Best
<1>5. CASE Finish
  <2>1. /\ pc = "finish" /\ pc' = "done" /\ UNCHANGED <<nodes, records, mem>>
        /\ kv'.root = kv.root /\ kv'.best = mem.best /\ ~WriteRecord
        /\ pc \in Up /\ pc' \notin Created
    BY <1>0, <1>5 DEF Finish, WriteRecord, KvTyped, Up, Begun, Created, Unscored, Scored
  <2>2. mem.best = IF kv.best = None THEN kv.root ELSE kv.best
    BY <1>0, <2>1
  <2>3. kv.root # None
    BY <1>0, <2>1 DEF Rooted
  <2>4. BestCoversRecords'
    BY <1>0, <2>1, <2>2 DEF BestCoversRecords
  <2>5. QED
    BY <1>1, <2>1, <2>2, <2>3, <2>4 DEF Best
<1>6. CASE CreateChild
  <2>1. /\ UNCHANGED <<kv, records>> /\ mem'.child = Len(nodes) + 1 /\ mem'.best = mem.best
        /\ pc \in Up /\ pc' = "work" /\ ~WriteRecord
    BY <1>0, <1>6 DEF CreateChild, WriteRecord, MemTyped, MemType, Up, Begun
  <2>2. kv.best # Len(nodes) + 1
    BY <1>0 DEF KvTyped
  <2>3. BestCoversRecords'
    BY <2>1, RecordsCovered
  <2>4. QED
    BY <1>0, <1>1, <2>1, <2>2, <2>3 DEF Best
<1>7. CASE Boot \/ CreateRoot \/ SetRoot \/ Load \/ Crash \/ BackupFails
  <2>1. /\ UNCHANGED records /\ kv'.best = kv.best /\ pc' \notin Created /\ ~WriteRecord
        /\ kv'.root = kv.root \/ SetRoot
        /\ pc' \in Up => Load
    BY <1>0, <1>7 DEF Boot, CreateRoot, SetRoot, Load, Crash, BackupFails, WriteRecord, KvTyped,
       Up, Begun, Created, Unscored, Scored, disk
  <2>2. Load => UNCHANGED kv /\ mem'.best = IF kv.best = None THEN kv.root ELSE kv.best
    BY DEF Load, NoMem, disk
  <2>3. BestCoversRecords'
    BY <2>1, RecordsCovered
  <2>4. QED
    BY <1>1, <2>1, <2>2, <2>3 DEF Best, Scored, Created
<1>8. CASE Plain /\ ~SetFirstBest /\ ~SaveBest /\ ~Finish /\ ~Load
  <2>1. /\ kv'.root = kv.root /\ UNCHANGED records /\ (pc' \in Created <=> pc \in Created)
    BY <1>8, PlainSteps
  <2>2. kv'.best = kv.best /\ mem'.best = mem.best /\ mem'.child = mem.child
    BY <1>0, <1>8, ZenonT(60) DEF KvTyped, MemTyped, MemType, Plain, Iterate, Descend, Decide, ClearFlag,
       Work, Patch, Outcome, SaveLastMetric, SaveStreak, SaveFlag, SaveLow, SaveHigh,
       ResetStreak, SaveResult, Backup, SaveSince, Spend, disk
  <2>3. (pc' \in Up => pc \in Up) /\ ~WriteRecord
    BY <1>8 DEF Up, Begun, Created, Unscored, Scored, Plain, Iterate, Descend, Decide,
       ClearFlag, Work, Patch, Outcome, SaveLastMetric, SaveStreak, SaveFlag, SaveLow,
       SaveHigh, ResetStreak, SaveResult, Backup, SaveSince, Spend, WriteRecord
  <2>4. pc \in {"since", "record"} => pc' \in {"since", "record"} /\ UNCHANGED nodes
    BY <1>8 DEF Plain, Iterate, Descend, Decide, ClearFlag, Work, Patch, Outcome,
       SaveLastMetric, SaveStreak, SaveFlag, SaveLow, SaveHigh, ResetStreak, SaveResult,
       Backup, SaveSince, Spend, disk
  <2>5. pc' \in {"since", "record"} /\ pc \notin {"since", "record"} =>
          Backup /\ mem.metric = None
    BY <1>8 DEF Plain, Iterate, Descend, Decide, ClearFlag, Work, Patch, Outcome,
       SaveLastMetric, SaveStreak, SaveFlag, SaveLow, SaveHigh, ResetStreak, SaveResult,
       Backup, SaveSince, Spend
  <2>6. Backup /\ mem.metric = None => nodes'[mem.child].metric = None
    <3>1. SUFFICES ASSUME Backup, mem.metric = None PROVE nodes'[mem.child].metric = None
      OBVIOUS
    <3>2. pc \in Scored /\ pc \in Created /\ ~SaveResult
      BY <3>1 DEF Backup, SaveResult, Scored, Created
    <3>3. nodes[mem.child].metric = None /\ mem.child \in Node
      BY <1>0, <3>1, <3>2, ChildIsNode DEF Chosen
    <3>4. QED
      BY <3>2, <3>3, RowsKept
  <2>7. pc' \in {"since", "record"} /\ nodes'[mem.child].metric # None =>
          /\ kv.best # None /\ nodes'[kv.best].metric # None
          /\ ~Improves(nodes'[mem.child].metric, nodes'[kv.best].metric)
    <3>1. CASE pc \in {"since", "record"}
      BY <1>0, <2>4, <3>1 DEF Best, AsGood
    <3>2. CASE pc \notin {"since", "record"}
      BY <2>5, <2>6, <3>2
    <3>3. QED
      BY <3>1, <3>2
  <2>8. pc' \in Created \ {"since", "record"} => kv.best # mem.child
    BY <1>0, <2>1, <2>4
  <2>9. BestCoversRecords'
    BY <2>1, <2>2, RecordsCovered
  <2>10. QED
    BY <1>0, <1>1, <2>1, <2>2, <2>3, <2>7, <2>8, <2>9 DEF Best, AsGood
<1>9. QED
  BY <1>2, <1>3, <1>4, <1>5, <1>6, <1>7, <1>8, StepKinds DEF Plain

-----------------------------------------------------------------------------
(* The theorems.                                                           *)

\* The search begins in the invariant: nothing on disk, no controller.
LEMMA InitIInv == ASSUME Init PROVE IInv
<1>1. /\ pc = "down" /\ nodes = <<>> /\ Len(nodes) = 0 /\ Node = {} /\ repos = {}
      /\ kv.root = None /\ crashes = 0
  BY DEF Init, Node
<1>2. pc \notin Up /\ pc \notin Begun /\ pc \notin Created /\ pc \notin Unscored /\ pc \notin Scored
  BY <1>1 DEF Up, Begun, Created, Unscored, Scored
<1>3. NodesTyped /\ KvTyped /\ MemTyped /\ RestTyped
  <2>1. NodesTyped
    BY <1>1 DEF NodesTyped
  <2>2. KvTyped
    BY <1>1, SearchAssumption DEF Init, KvTyped, Value, None
  <2>3. MemTyped
    BY <2>1, NoMemTyped DEF Init, MemTyped
  <2>4. RestTyped
    <3>1. records \in [1 .. MaxIters -> 0 .. Len(nodes)]
      <4>1. None \in 0 .. Len(nodes)
        BY <1>1 DEF None
      <4>2. QED
        BY <4>1 DEF Init
    <3>2. budget \in 0 .. Budget /\ crashes \in 0 .. MaxCrashes + 1
      BY Bounds DEF Init
    <3>3. QED
      BY <1>1, <3>1, <3>2 DEF Init, RestTyped, PC
  <2>5. QED
    BY <2>1, <2>2, <2>3, <2>4
<1>4. Rooted
  BY <1>1, <1>2 DEF Rooted
<1>5. Numbered
  <2>1. LastOf(records) \in Nat /\ Rooting(kv.root, pc) = 0 /\ Creating(pc) = 0
    BY <1>1, <1>2, LastOfIs, Bounds DEF Rooting, Creating
  <2>2. QED
    BY <1>1, <1>2, <2>1 DEF Numbered
<1>6. Chosen
  BY <1>1, <1>2 DEF Chosen, BuggyNeverExpanded
<1>7. Housed
  BY <1>1, FS_EmptySet DEF Housed, SnapshotsUnshared
<1>8. Ranged
  BY <1>1, <1>2 DEF Ranged
<1>9. Best
  BY <1>1, <1>2 DEF Best, BestCoversRecords, Init
<1>10. QED
  BY <1>3, <1>4, <1>5, <1>6, <1>7, <1>8, <1>9, TypeParts DEF IInv

\* Every step keeps the invariant.
LEMMA StepIInv == ASSUME IInv, [Next]_vars PROVE IInv'
<1>1. CASE Next
  BY <1>1, StepTyped, StepRooted, StepNumbered, StepChosen, StepHoused, StepRanged, StepBest
     DEF IInv
<1>2. CASE UNCHANGED vars
  <2>1. UNCHANGED <<pc, nodes, kv, records, repos, mem, budget, crashes, owed>> /\ Node' = Node
        /\ Parent' = Parent
    BY <1>2 DEF vars, disk, Node, Parent
  <2>2. TypeOK'
    <3>1. NodesTyped /\ KvTyped /\ MemTyped /\ RestTyped
      BY TypeParts DEF IInv
    <3>2. NodesTyped' /\ KvTyped' /\ MemTyped' /\ RestTyped'
      BY <2>1, <3>1 DEF NodesTyped, KvTyped, MemTyped, MemType, RestTyped
    <3>3. QED
      BY <3>2 DEF TypeOK, NodesTyped, KvTyped, MemTyped, MemType, RestTyped, NodeRec
  <2>3. Rooted' /\ Numbered'
    BY <2>1 DEF IInv, Rooted, Numbered
  <2>4. Chosen' /\ Housed'
    BY <2>1 DEF IInv, Chosen, BuggyNeverExpanded, Housed, SnapshotsUnshared
  <2>5. Ranged'
    BY <2>1 DEF IInv, Ranged
  <2>6. Best'
    BY <2>1 DEF IInv, Best, BestCoversRecords, AsGood
  <2>7. QED
    BY <2>2, <2>3, <2>4, <2>5, <2>6 DEF IInv
<1>3. QED
  BY <1>1, <1>2

\* The invariant holds throughout the search.
THEOREM SearchInvariance == Spec => []IInv
<1>1. Init => IInv
  BY InitIInv
<1>2. IInv /\ [Next]_vars => IInv'
  BY StepIInv
<1>3. QED
  BY <1>1, <1>2, PTL DEF Spec

\* The tables, the files and the variables of run_controller have their types throughout.
THEOREM SearchTyping == Spec => []TypeOK
<1>1. IInv => TypeOK
  BY DEF IInv
<1>2. QED
  BY <1>1, SearchInvariance, PTL

\* No two nodes ever have one directory: materialize_repo always finds a new one, however
\* often iterations of the same number are begun.
THEOREM SnapshotSafety == Spec => []SnapshotsUnshared
<1>1. IInv => SnapshotsUnshared
  BY DEF IInv, Housed
<1>2. QED
  BY <1>1, SearchInvariance, PTL

\* No node is ever put under a buggy one, and none with a child becomes buggy.
THEOREM BuggyLeaves == Spec => []BuggyNeverExpanded
<1>1. IInv => BuggyNeverExpanded
  BY DEF IInv, Chosen
<1>2. QED
  BY <1>1, SearchInvariance, PTL

\* The persistent range always covers the metric of every node that is done.
THEOREM RangeSafety == Spec => []RangeCovers
<1>1. IInv => RangeCovers
  <2> SUFFICES ASSUME IInv, NaN \notin {kv.low, kv.high}, NEW n \in Node,
                      nodes[n].metric # None
               PROVE  kv.low <= Objective(nodes[n].metric) /\ Objective(nodes[n].metric) <= kv.high
    BY DEF RangeCovers
  <2>1. Holds(kv.low, kv.high, Objective(nodes[n].metric))
    BY DEF IInv, Ranged
  <2>2. QED
    BY <2>1 DEF Holds
<1>2. QED
  BY <1>1, SearchInvariance, PTL

\* No recorded iteration ever beats the best node on disk, whatever crashes came after it.
THEOREM BestSafety == Spec => []BestCoversRecords
<1>1. IInv => BestCoversRecords
  BY DEF IInv, Best
<1>2. QED
  BY <1>1, SearchInvariance, PTL

\* The record of an iteration is written once: a resumed run begins after the last.
THEOREM RecordSafety == Spec => RecordsKept
<1>1. ASSUME IInv, [Next]_vars, NEW i \in DOMAIN records, records[i] # None
      PROVE  records'[i] = records[i]
  <2>1. CASE WriteRecord
    <3>1. RestTyped /\ MemTyped
      BY <1>1, TypeParts DEF IInv
    <3>2. pc \in Up
      BY <2>1 DEF WriteRecord, Up, Begun, Created, Scored
    <3>3. mem.it = LastOf(records) + 1 /\ LastOf(records) \in Int
      BY <1>1, <3>2, LastOfIs, Bounds DEF IInv, Numbered
    <3>4. i \in 1 .. MaxIters /\ i \in Int
      BY <1>1, <3>1, Bounds DEF RestTyped
    <3>5. i <= LastOf(records)
      BY <1>1, <3>4, LastOfIs
    <3>6. i # mem.it
      BY <3>3, <3>4, <3>5
    <3>7. QED
      BY <1>1, <2>1, <3>1, <3>6 DEF WriteRecord, RestTyped
  <2>2. CASE ~WriteRecord
    <3>1. UNCHANGED records
      BY <1>1, <2>2 DEF Next, Resume, Selection, Work, Scoring, Boot, CreateRoot, SetRoot,
         SetFirstBest, Load, Iterate, Descend, Decide, ClearFlag, CreateChild, Patch, Outcome,
         SaveLastMetric, SaveStreak, SaveFlag, SaveLow, SaveHigh, ResetStreak, SaveResult,
         Backup, BackupFails, SaveBest, SaveSince, Finish, Crash, Spend, vars, disk
    <3>2. QED
      BY <3>1
  <2>3. QED
    BY <2>1, <2>2
<1>2. IInv /\ [Next]_vars =>
        [\A i \in DOMAIN records : records[i] # None => records'[i] = records[i]]_vars
  BY <1>1
<1>3. QED
  BY <1>2, SearchInvariance, PTL DEF Spec, RecordsKept

\* A metric that is not a number never displaces an end of the persistent range that is
\* set, though comparisons with it are false whichever way they are asked.
THEOREM RangeKept == Spec => NaNDisplacesNothing
<1>1. ASSUME IInv, Next
      PROVE  /\ kv.low \notin {None, NaN} => kv'.low # NaN
             /\ kv.high \notin {None, NaN} => kv'.high # NaN
  <2>0. KvTyped /\ MemTyped
    BY <1>1, TypeParts DEF IInv
  <2>1. CASE SaveLow
    <3> DEFINE v == Objective(mem.metric)
    <3>1. mem.low = kv.low
      BY <1>1, <2>1 DEF SaveLow, IInv, Ranged, Up, Begun, Created, Unscored
    <3>2. kv'.low = (IF kv.low = None \/ Below(v, kv.low) THEN v ELSE kv.low)
          /\ kv'.high = kv.high
      BY <2>0, <2>1, <3>1 DEF SaveLow, KvTyped, MemTyped, MemType
    <3>3. QED
      <4> HIDE DEF v
      <4>1. QED
        BY <3>2 DEF Below
  <2>2. CASE SaveHigh
    <3>1. kv'.low = kv.low /\ kv'.high = mem.high
      BY <2>0, <2>2 DEF SaveHigh, KvTyped
    <3>2. kv.high # None /\ mem.high = NaN => mem.high = kv.high
      BY <1>1, <2>2 DEF SaveHigh, IInv, Ranged
    <3>3. QED
      BY <3>1, <3>2
  <2>3. CASE ~SaveLow /\ ~SaveHigh
    <3>1. kv'.low = kv.low /\ kv'.high = kv.high
      BY <1>1, <2>0, <2>3 DEF KvTyped, Next, Resume, Selection, Work, Scoring, Boot, CreateRoot,
         SetRoot, SetFirstBest, Load, Iterate, Descend, Decide, ClearFlag, CreateChild, Patch,
         Outcome, SaveLastMetric, SaveStreak, SaveFlag, ResetStreak, SaveResult,
         Backup, BackupFails, SaveBest, SaveSince, WriteRecord, Finish, Crash, Spend, disk
    <3>2. QED
      BY <3>1
  <2>4. QED
    BY <2>1, <2>2, <2>3
<1>2. IInv /\ [Next]_vars =>
        [\A e \in {"low", "high"} : kv[e] \notin {None, NaN} => kv'[e] # NaN]_vars
  <2> SUFFICES ASSUME IInv, Next, NEW e \in {"low", "high"}, kv[e] \notin {None, NaN}
               PROVE  kv'[e] # NaN
    OBVIOUS
  <2>1. QED
    BY <1>1
<1>3. QED
  BY <1>2, SearchInvariance, PTL DEF Spec, NaNDisplacesNothing

-----------------------------------------------------------------------------
(* The forced DEBUG.                                                       *)

\* A DEBUG that is owed is asked for by the flag on disk and, once the controller has
\* loaded it, by the flag in memory; the flag on disk is taken back only when none is owed.
Owing ==
  /\ owed => kv.force
  /\ owed /\ pc \in Up => mem.force
  /\ pc = "clear_flag" => ~owed

\* Every step keeps it: Decide pays before ClearFlag, and SaveFlag sets both flags at once.
LEMMA StepOwing == ASSUME IInv, Owing, [Next]_vars PROVE Owing'
<1>0. /\ KvTyped /\ MemTyped /\ RestTyped
      /\ owed => kv.force
      /\ owed /\ pc \in Up => mem.force
      /\ pc = "clear_flag" => ~owed
  BY TypeParts DEF IInv, Owing
<1>1. CASE Load
  BY <1>0, <1>1 DEF Load, NoMem, Owing, disk
<1>2. CASE Decide
  <2>1. /\ kv' = kv /\ pc \in Up
        /\ pc' \in {"clear_flag", "create"}
        /\ mem.force => owed' = FALSE
        /\ ~mem.force => owed' = owed
    BY <1>2 DEF Decide, Up, Begun, disk
  <2>2. owed' = FALSE
    BY <1>0, <2>1 DEF RestTyped
  <2>3. QED
    BY <2>2 DEF Owing
<1>3. CASE SaveFlag
  <2>1. kv'.force = TRUE /\ mem'.force = TRUE /\ pc' = "low"
    BY <1>0, <1>3 DEF SaveFlag, KvTyped, MemTyped, MemType
  <2>2. QED
    BY <2>1 DEF Owing
<1>4. CASE ClearFlag
  <2>1. owed' = owed /\ pc = "clear_flag"
    BY <1>4 DEF ClearFlag
  <2>2. QED
    BY <1>0, <2>1 DEF Owing
<1>5. CASE Boot \/ CreateRoot \/ SetRoot \/ SetFirstBest \/ Crash \/ BackupFails
  <2>1. kv'.force = kv.force /\ owed' = owed
    BY <1>0, <1>5 DEF Boot, CreateRoot, SetRoot, SetFirstBest, Crash, BackupFails, KvTyped, disk
  <2>2. pc' \notin Up /\ pc' # "clear_flag"
    BY <1>5 DEF Boot, CreateRoot, SetRoot, SetFirstBest, Crash, BackupFails, Up, Begun,
       Created, Unscored, Scored
  <2>3. QED
    BY <1>0, <2>1, <2>2 DEF Owing
<1>6. CASE CreateChild \/ WriteRecord
           \/ (Plain /\ ~Load /\ ~Decide /\ ~SaveFlag /\ ~ClearFlag /\ ~SetFirstBest)
  <2>1. kv'.force = kv.force /\ owed' = owed /\ mem'.force = mem.force
    BY <1>0, <1>6 DEF CreateChild, WriteRecord, Plain, Iterate, Descend, Work, Patch, Outcome,
       SaveLastMetric, SaveStreak, SaveLow, SaveHigh, ResetStreak, SaveResult, Backup,
       SaveBest, SaveSince, Finish, Spend, KvTyped, MemTyped, MemType, disk
  <2>2. (pc' \in Up => pc \in Up) /\ (pc' = "clear_flag" => pc = "clear_flag")
    BY <1>6 DEF CreateChild, WriteRecord, Plain, Iterate, Descend, Work, Patch, Outcome,
       SaveLastMetric, SaveStreak, SaveLow, SaveHigh, ResetStreak, SaveResult, Backup,
       SaveBest, SaveSince, Finish, Spend, Up, Begun, Created, Unscored, Scored
  <2>3. QED
    BY <1>0, <2>1, <2>2 DEF Owing
<1>7. CASE UNCHANGED vars
  BY <1>0, <1>7 DEF vars, disk, Owing
<1>8. QED
  BY <1>1, <1>2, <1>3, <1>4, <1>5, <1>6, <1>7, StepKinds DEF Plain

\* When the guard has asked for a DEBUG, the next iteration that begins is one, also when
\* it is another controller that begins it.
THEOREM DebugIsPaid == Spec => ForcedDebugNext
<1>1. Init => Owing
  BY DEF Init, Owing
<1>2. IInv /\ Owing /\ [Next]_vars => Owing'
  BY StepOwing
<1>3. IInv /\ Owing /\ [Next]_vars =>
        [pc = "decide" /\ pc' \in {"clear_flag", "create"} /\ owed => mem'.action = "debug"]_vars
  <2> SUFFICES ASSUME IInv, Owing, Next, pc = "decide", pc' \in {"clear_flag", "create"}, owed
               PROVE  mem'.action = "debug"
    OBVIOUS
  <2>1. MemTyped /\ pc \in Up
    BY TypeParts DEF IInv, Up, Begun
  <2>2. Decide
    BY DEF Next, Resume, Selection, Work, Scoring, Boot, CreateRoot, SetRoot, SetFirstBest,
       Load, Iterate, Descend, ClearFlag, CreateChild, Patch, Outcome, SaveLastMetric,
       SaveStreak, SaveFlag, SaveLow, SaveHigh, ResetStreak, SaveResult, Backup, BackupFails,
       SaveBest, SaveSince, WriteRecord, Finish, Crash, Spend
  <2>3. mem.force
    BY <2>1 DEF Owing
  <2>4. QED
    BY <2>1, <2>2, <2>3 DEF Decide, MemTyped, MemType
<1>4. QED
  BY <1>1, <1>2, <1>3, SearchInvariance, PTL DEF Spec, ForcedDebugNext

-----------------------------------------------------------------------------
(* The streak of identical metrics.                                        *)

\* Where the streak on disk counts the iterations before the one in hand, and where it
\* counts this one too.
Uncounted == {"iterate", "descend", "decide", "clear_flag", "create", "work", "last_metric",
              "reset_streak", "finish", "done"}
Counted == {"flag", "low", "high", "result"} \cup Scored

\* The k iterations up to top are recorded with the metric m.
Run(r, t, m, top, k) ==
  \A i \in top - k + 1 .. top : i \in DOMAIN r /\ r[i] # None /\ t[r[i]].metric = m

\* As long as no controller has ended, the streak is the length of a run of iterations that
\* had the last metric.
Streaked ==
  crashes = 0 =>
    /\ pc \notin Up => kv.streak = 0
    /\ pc \in Uncounted =>
         /\ kv.streak < mem.it
         /\ kv.last # NaN => Run(records, nodes, kv.last, mem.it - 1, kv.streak)
    /\ pc = "streak" =>
         /\ mem.backed \in 1 .. mem.it /\ kv.last = mem.metric
         /\ kv.last # NaN => Run(records, nodes, kv.last, mem.it - 1, mem.backed - 1)
    /\ pc \in Counted =>
         IF mem.metric = None THEN kv.streak = 0
         ELSE /\ kv.streak \in 1 .. mem.it /\ kv.last = mem.metric
              /\ kv.last # NaN => Run(records, nodes, kv.last, mem.it - 1, kv.streak - 1)
    /\ pc = "streak" /\ mem.metric = NaN => mem.backed = 1
    /\ pc = "flag" => kv.streak >= Threshold /\ (mem.metric = NaN => kv.streak = 1)

\* No step changes the metric of a node that is recorded.
LEMMA RunKept ==
  ASSUME IInv, Next, UNCHANGED records, NEW m, NEW top, NEW k,
         Run(records, nodes, m, top, k)
  PROVE  Run(records', nodes', m, top, k)
<1>1. SUFFICES ASSUME NEW i \in top - k + 1 .. top
               PROVE  i \in DOMAIN records /\ records[i] # None
                      /\ nodes'[records[i]].metric = m
  BY DEF Run
<1>2. i \in DOMAIN records /\ records[i] # None /\ nodes[records[i]].metric = m
  BY DEF Run
<1>3. records[i] \in Node
  BY <1>2, TypeParts DEF IInv, RestTyped, Node, None
<1>4. records[i] # mem.child \/ pc \notin Created
  BY <1>2 DEF IInv, Chosen
<1>5. QED
  BY <1>2, <1>3, <1>4, RowsKept

\* The steps at which the streak is neither counted nor reset.
LEMMA StreakStays ==
  ASSUME IInv, Streaked, Next, crashes' = 0, crashes = 0, UNCHANGED records,
         kv'.streak = kv.streak, kv'.last = kv.last, mem'.it = mem.it,
         pc' \in Uncounted => pc \in Uncounted,
         pc' = "streak" => pc = "streak" /\ mem'.backed = mem.backed /\ mem'.metric = mem.metric,
         pc' \in Counted => pc \in Counted /\ mem'.metric = mem.metric,
         pc' = "flag" => pc = "flag",
         pc' \notin Up => pc \notin Up
  PROVE  Streaked'
<1>1. \A m, top, k : Run(records, nodes, m, top, k) => Run(records', nodes', m, top, k)
  BY RunKept
<1>2. pc' \notin Up => kv'.streak = 0
  BY DEF Streaked
<1>3. ASSUME pc' \in Uncounted
      PROVE  /\ kv'.streak < mem'.it
             /\ kv'.last # NaN => Run(records', nodes', kv'.last, mem'.it - 1, kv'.streak)
  <2>1. /\ kv.streak < mem.it
        /\ kv.last # NaN => Run(records, nodes, kv.last, mem.it - 1, kv.streak)
    BY <1>3 DEF Streaked
  <2>2. kv.last # NaN => Run(records', nodes', kv.last, mem.it - 1, kv.streak)
    BY <1>1, <2>1
  <2>3. QED
    BY <2>1, <2>2
<1>4. ASSUME pc' = "streak"
      PROVE  /\ mem'.backed \in 1 .. mem'.it /\ kv'.last = mem'.metric
             /\ kv'.last # NaN => Run(records', nodes', kv'.last, mem'.it - 1, mem'.backed - 1)
             /\ mem'.metric = NaN => mem'.backed = 1
  <2>1. /\ mem.backed \in 1 .. mem.it /\ kv.last = mem.metric
        /\ kv.last # NaN => Run(records, nodes, kv.last, mem.it - 1, mem.backed - 1)
        /\ mem.metric = NaN => mem.backed = 1
    BY <1>4 DEF Streaked
  <2>2. kv.last # NaN => Run(records', nodes', kv.last, mem.it - 1, mem.backed - 1)
    BY <1>1, <2>1
  <2>3. QED
    BY <1>4, <2>1, <2>2
<1>5. ASSUME pc' \in Counted
      PROVE  IF mem'.metric = None THEN kv'.streak = 0
             ELSE /\ kv'.streak \in 1 .. mem'.it /\ kv'.last = mem'.metric
                  /\ kv'.last # NaN => Run(records', nodes', kv'.last, mem'.it - 1, kv'.streak - 1)
  <2>1. IF mem.metric = None THEN kv.streak = 0
        ELSE /\ kv.streak \in 1 .. mem.it /\ kv.last = mem.metric
             /\ kv.last # NaN => Run(records, nodes, kv.last, mem.it - 1, kv.streak - 1)
    BY <1>5 DEF Streaked
  <2>2. mem.metric # None /\ kv.last # NaN =>
          Run(records', nodes', kv.last, mem.it - 1, kv.streak - 1)
    BY <1>1, <2>1
  <2>3. QED
    BY <1>5, <2>1, <2>2
<1>6. pc' = "flag" => kv'.streak >= Threshold /\ (mem'.metric = NaN => kv'.streak = 1)
  <2>1. pc' = "flag" => mem'.metric = mem.metric
    BY DEF Counted
  <2>2. QED
    BY <2>1 DEF Streaked
<1>7. QED
  BY <1>2, <1>3, <1>4, <1>5, <1>6 DEF Streaked

\* Every step keeps it.
LEMMA StepStreaked == ASSUME IInv, Streaked, [Next]_vars PROVE Streaked'
<1>0. /\ KvTyped /\ MemTyped /\ RestTyped /\ Chosen
      /\ mem.it \in Nat /\ kv.streak \in Nat /\ mem.backed \in Nat /\ crashes \in Nat
      /\ Threshold \in Nat
  <2>1. KvTyped /\ MemTyped /\ RestTyped /\ Chosen
    BY TypeParts DEF IInv
  <2>2. mem.it \in Nat /\ mem.backed \in Nat
    BY <2>1, Bounds DEF MemTyped, MemType
  <2>3. kv.streak \in Nat /\ crashes \in Nat /\ Threshold \in Nat
    BY <2>1, Bounds DEF KvTyped, RestTyped
  <2>4. QED
    BY <2>1, <2>2, <2>3
<1>1. CASE Crash \/ BackupFails
  <2>1. crashes' # 0
    BY <1>0, <1>1 DEF Crash, BackupFails
  <2>2. QED
    BY <2>1 DEF Streaked
<1>2. CASE crashes # 0 /\ crashes' = crashes
  BY <1>2 DEF Streaked
<1> DEFINE Same == crashes' = 0 /\ crashes = 0
<1>3. ASSUME Load, Same PROVE Streaked'
  <2>1. kv.streak = 0
    BY <1>3 DEF Streaked, Load, Up, Begun, Created, Unscored, Scored
  <2>2. /\ UNCHANGED <<kv, records>> /\ mem'.it = LastOf(records) + 1 /\ pc' \in {"iterate", "done"}
        /\ LastOf(records) \in Nat
    BY <1>3, LastRecordIs, Bounds DEF Load, NoMem, disk
  <2>3. Run(records', nodes', kv'.last, mem'.it - 1, kv'.streak) /\ kv'.streak < mem'.it
    BY <2>1, <2>2 DEF Run
  <2>4. pc' \in Up /\ pc' \notin Counted
    BY <2>2 DEF Up, Counted, Scored
  <2>5. QED
    BY <2>2, <2>3, <2>4 DEF Streaked
<1>4. ASSUME SaveLastMetric, Same PROVE Streaked'
  <2>1. /\ UNCHANGED <<records, nodes>> /\ pc = "last_metric" /\ pc' = "streak"
        /\ mem'.it = mem.it /\ mem'.metric = mem.metric /\ kv'.last = mem.metric
        /\ mem'.backed = IF mem.metric # NaN /\ kv.last = mem.metric THEN kv.streak + 1 ELSE 1
    BY <1>0, <1>4 DEF SaveLastMetric, KvTyped, MemTyped, MemType
  <2>2. kv.streak < mem.it /\ (kv.last # NaN => Run(records, nodes, kv.last, mem.it - 1, kv.streak))
    BY <1>4, <2>1 DEF Streaked, Uncounted
  <2>3. mem'.backed \in 1 .. mem.it
    BY <1>0, <2>1, <2>2
  <2>4. mem.metric # NaN => Run(records, nodes, mem.metric, mem.it - 1, mem'.backed - 1)
    <3>1. CASE mem.metric # NaN /\ kv.last = mem.metric
      <4>1. mem'.backed - 1 = kv.streak
        BY <1>0, <2>1, <3>1
      <4>2. QED
        BY <2>2, <3>1, <4>1
    <3>2. CASE ~(mem.metric # NaN /\ kv.last = mem.metric)
      <4>1. mem'.backed - 1 = 0
        BY <2>1, <3>2
      <4>2. QED
        BY <1>0, <4>1 DEF Run
    <3>3. QED
      BY <3>1, <3>2
  <2>5. pc' \in Up /\ pc' \notin Counted /\ pc' \notin Uncounted
    BY <2>1 DEF Up, Begun, Created, Unscored, Counted, Uncounted, Scored
  <2>6. QED
    BY <2>1, <2>3, <2>4, <2>5 DEF Streaked
<1>5. ASSUME SaveStreak, Same PROVE Streaked'
  <2>1. /\ UNCHANGED <<records, nodes>> /\ pc = "streak"
        /\ pc' = IF mem.backed < Threshold THEN "low" ELSE "flag"
        /\ mem'.it = mem.it /\ mem'.metric = mem.metric /\ kv'.last = kv.last
        /\ kv'.streak = mem.backed
    BY <1>0, <1>5 DEF SaveStreak, KvTyped, MemTyped, MemType
  <2>2. /\ mem.backed \in 1 .. mem.it /\ kv.last = mem.metric /\ mem.metric # None
        /\ kv.last # NaN => Run(records, nodes, kv.last, mem.it - 1, mem.backed - 1)
        /\ mem.metric = NaN => mem.backed = 1
    BY <1>0, <1>5, <2>1 DEF Streaked, Chosen
  <2>3. pc' \in {"low", "flag"} /\ (pc' = "flag" => mem.backed >= Threshold)
    BY <1>0, <2>1
  <2>4. pc' \in Up /\ pc' \notin Uncounted /\ pc' # "streak"
    BY <2>3 DEF Up, Begun, Created, Unscored, Uncounted
  <2>5. QED
    BY <2>1, <2>2, <2>3, <2>4 DEF Streaked
<1>6. ASSUME ResetStreak, Same PROVE Streaked'
  <2>1. kv'.streak = 0 /\ mem'.metric = None /\ pc' = "result"
    BY <1>0, <1>6 DEF ResetStreak, KvTyped, Chosen
  <2>2. pc' \in Up /\ pc' \notin Uncounted
    BY <2>1 DEF Up, Begun, Created, Unscored, Uncounted
  <2>3. QED
    BY <2>1, <2>2 DEF Streaked
<1>7. ASSUME WriteRecord, Same PROVE Streaked'
  <2>1. /\ UNCHANGED <<nodes, kv>> /\ pc = "record" /\ pc' = "iterate" /\ mem'.it = mem.it + 1
        /\ records' = [records EXCEPT ![mem.it] = mem.child]
        /\ pc \in Created /\ pc \in Scored /\ pc \in Up /\ pc \in Begun
    BY <1>0, <1>7 DEF WriteRecord, MemTyped, MemType, Up, Begun, Created, Scored
  <2>2. IF mem.metric = None THEN kv.streak = 0
        ELSE /\ kv.streak \in 1 .. mem.it /\ kv.last = mem.metric
             /\ kv.last # NaN => Run(records, nodes, kv.last, mem.it - 1, kv.streak - 1)
    BY <1>7, <2>1 DEF Streaked, Counted
  <2>3. mem.it \in 1 .. MaxIters /\ mem.it \in DOMAIN records
    <3>1. mem.it = LastOf(records) + 1 /\ LastOf(records) \in Nat /\ mem.it <= MaxIters
      BY <2>1, LastRecordIs, Bounds DEF IInv, Numbered
    <3>2. QED
      BY <1>0, <3>1, Bounds DEF RestTyped
  <2>4. mem.child # None /\ nodes[mem.child].metric = IF mem.metric = NaN THEN None ELSE mem.metric
    BY <1>0, <2>1, ChildIsNode DEF Chosen, Node, None
  <2>5. /\ DOMAIN records' = DOMAIN records /\ records'[mem.it] = mem.child
        /\ \A i \in DOMAIN records : i # mem.it => records'[i] = records[i]
    BY <1>0, <2>1, <2>3 DEF RestTyped
  <2>6. kv.last # NaN => Run(records', nodes, kv.last, mem.it, kv.streak)
    <3>1. SUFFICES ASSUME kv.last # NaN, NEW i \in mem.it - kv.streak + 1 .. mem.it
                   PROVE  i \in DOMAIN records /\ records'[i] # None
                          /\ nodes[records'[i]].metric = kv.last
      BY <2>5 DEF Run
    <3>2. mem.metric # None
      BY <1>0, <2>2, <3>1
    <3>3. CASE i = mem.it
      BY <2>2, <2>3, <2>4, <2>5, <3>1, <3>2, <3>3
    <3>4. CASE i # mem.it
      <4>1. i \in (mem.it - 1) - (kv.streak - 1) + 1 .. mem.it - 1
        BY <1>0, <3>1, <3>4
      <4>2. i \in DOMAIN records /\ records[i] # None /\ nodes[records[i]].metric = kv.last
        BY <2>2, <3>1, <3>2, <4>1 DEF Run
      <4>3. QED
        BY <2>5, <3>4, <4>2
    <3>5. QED
      BY <3>3, <3>4
  <2>7. kv.streak < mem.it + 1 /\ mem'.it - 1 = mem.it
    BY <1>0, <2>1, <2>2
  <2>8. pc' \in Up /\ pc' \notin Counted
    BY <2>1 DEF Up, Counted, Scored
  <2>9. QED
    BY <2>1, <2>6, <2>7, <2>8 DEF Streaked
<1>8. ASSUME Same, CreateChild \/ Boot \/ CreateRoot \/ SetRoot
                   \/ (Plain /\ ~Load /\ ~SaveLastMetric /\ ~SaveStreak /\ ~ResetStreak)
      PROVE  Streaked'
  <2>1. /\ UNCHANGED records /\ kv'.streak = kv.streak /\ kv'.last = kv.last /\ mem'.it = mem.it
    BY <1>0, <1>8 DEF CreateChild, Boot, CreateRoot, SetRoot, Plain, SetFirstBest, Iterate,
       Descend, Decide, ClearFlag, Work, Patch, Outcome, SaveFlag, SaveLow, SaveHigh,
       SaveResult, Backup, SaveBest, SaveSince, Finish, Spend, KvTyped, MemTyped, MemType, disk
  <2>2. /\ pc' \in Uncounted => pc \in Uncounted
        /\ pc' = "streak" => Spend
        /\ pc' = "flag" => pc = "flag"
        /\ pc' \notin Up => pc \notin Up
    BY <1>8 DEF CreateChild, Boot, CreateRoot, SetRoot, Plain, SetFirstBest, Iterate,
       Descend, Decide, ClearFlag, Work, Patch, Outcome, SaveFlag, SaveLow, SaveHigh,
       SaveResult, Backup, SaveBest, SaveSince, Finish, Spend, Uncounted, Up, Begun, Created,
       Unscored, Scored
  <2>3. Spend => pc' = pc /\ mem' = mem
    BY DEF Spend
  <2>4. pc' \in Counted => pc \in Counted /\ mem'.metric = mem.metric
    BY <1>0, <1>8 DEF CreateChild, Boot, CreateRoot, SetRoot, Plain, SetFirstBest, Iterate,
       Descend, Decide, ClearFlag, Work, Patch, Outcome, SaveFlag, SaveLow, SaveHigh,
       SaveResult, Backup, SaveBest, SaveSince, Finish, Spend, MemTyped, MemType, disk, Counted,
       Scored
  <2>5. Next
    BY <1>8 DEF Next, Plain, Resume, Selection, Scoring
  <2>6. QED
    BY <1>8, <2>1, <2>2, <2>3, <2>4, <2>5, StreakStays
<1>9. CASE UNCHANGED vars
  BY <1>9 DEF vars, disk, Streaked
<1>10. ASSUME Next, ~Crash, ~BackupFails PROVE crashes' = crashes
  BY <1>10 DEF Next, Resume, Selection, Work, Scoring, Boot, CreateRoot, SetRoot, SetFirstBest,
     Load, Iterate, Descend, Decide, ClearFlag, CreateChild, Patch, Outcome, SaveLastMetric,
     SaveStreak, SaveFlag, SaveLow, SaveHigh, ResetStreak, SaveResult, Backup, SaveBest,
     SaveSince, WriteRecord, Finish, Spend
<1>11. QED
  BY <1>1, <1>2, <1>3, <1>4, <1>5, <1>6, <1>7, <1>8, <1>9, <1>10, StepKinds DEF Plain

\* In a run that never crashed, the guard asks for a DEBUG only after as many identical
\* metrics in a row as its threshold says.
THEOREM FlagSafety == Spec => []FlagMeansRepeated
<1>1. Init => Streaked
  <2> SUFFICES ASSUME Init PROVE Streaked
    OBVIOUS
  <2>1. pc = "down" /\ kv.streak = 0
    BY DEF Init
  <2>2. pc \notin Uncounted /\ pc \notin Counted
    BY <2>1 DEF Uncounted, Counted, Scored
  <2>3. QED
    BY <2>1, <2>2 DEF Streaked
<1>2. IInv /\ Streaked /\ [Next]_vars => Streaked'
  BY StepStreaked
<1>3. IInv /\ Streaked => FlagMeansRepeated
  <2> SUFFICES ASSUME IInv, Streaked, pc = "flag", crashes = 0
               PROVE  /\ mem.it >= Threshold
                      /\ \A i \in mem.it - Threshold + 1 .. mem.it - 1 :
                           nodes[records[i]].metric = mem.metric
    BY DEF FlagMeansRepeated
  <2>1. pc \in Counted /\ mem.metric # None
    BY DEF Counted, IInv, Chosen
  <2>2. /\ kv.streak \in 1 .. mem.it /\ kv.last = mem.metric /\ kv.streak >= Threshold
        /\ mem.metric = NaN => kv.streak = 1
        /\ mem.metric # NaN => Run(records, nodes, mem.metric, mem.it - 1, kv.streak - 1)
    BY <2>1 DEF Streaked
  <2>3. Threshold \in Nat /\ mem.it \in Nat /\ kv.streak \in Nat
    BY TypeParts, Bounds DEF IInv, KvTyped, MemTyped, MemType
  <2>4. ASSUME NEW i \in mem.it - Threshold + 1 .. mem.it - 1
        PROVE  nodes[records[i]].metric = mem.metric
    <3>1. i \in (mem.it - 1) - (kv.streak - 1) + 1 .. mem.it - 1
      BY <2>2, <2>3
    <3>2. mem.metric # NaN
      BY <2>2, <2>3
    <3>3. QED
      BY <2>2, <3>1, <3>2 DEF Run
  <2>5. QED
    BY <2>2, <2>3, <2>4
<1>4. QED
  BY <1>1, <1>2, <1>3, SearchInvariance, PTL DEF Spec

-----------------------------------------------------------------------------
(* The visits flow down the tree.                                          *)

\* The visits of the nodes of S together, in the table ns, as VisitsFlow adds them up.
Total(ns, S) == MapThenSumSet(LAMBDA c : ns[c].visits, S)

\* The sum over s from the sums over smaller sets, and the function that has them all.
One(s) == CHOOSE x \in s : TRUE
Added(f, ns, s) == IF s = {} THEN 0 ELSE ns[One(s)].visits + f[s \ {One(s)}]
Adds(f, ns, S) == f = [s \in SUBSET S |-> Added(f, ns, s)]

\* Of a set of subsets of a finite set, one has no smaller one in the set.
LEMMA SmallestSet ==
  ASSUME NEW S, IsFiniteSet(S), NEW B \in SUBSET SUBSET S, B # {}
  PROVE  \E T \in B : \A x \in T : T \ {x} \notin B
<1> DEFINE N == {Cardinality(T) : T \in B}
<1>1. \A T \in B : IsFiniteSet(T) /\ Cardinality(T) \in Nat
  BY FS_Subset, FS_CardinalityType
<1>2. N \in SUBSET Nat /\ N # {}
  BY <1>1
<1>3. Min(N) \in N /\ \A n \in N : Min(N) <= n
  <2> HIDE DEF N
  <2>1. QED
    BY <1>2, Smallest
<1>4. PICK T \in B : \A R \in B : Cardinality(T) <= Cardinality(R)
  BY <1>3
<1>5. ASSUME NEW x \in T, T \ {x} \in B PROVE FALSE
  <2>1. Cardinality(T \ {x}) = Cardinality(T) - 1
    BY <1>1, FS_RemoveElement
  <2>2. QED
    BY <1>1, <1>4, <1>5, <2>1
<1>6. QED
  BY <1>5

\* There is such a function: one that is right about sets of n members gives one that is
\* right about sets of one more.
LEMMA AddsExists ==
  ASSUME NEW ns, NEW S, IsFiniteSet(S)
  PROVE  \E f : Adds(f, ns, S)
<1> DEFINE Right(f, n) == /\ f = [s \in SUBSET S |-> f[s]]
                          /\ \A s \in SUBSET S : Cardinality(s) <= n => f[s] = Added(f, ns, s)
           W == {n \in Nat : ~\E f : Right(f, n)}
<1>1. \A s \in SUBSET S : /\ IsFiniteSet(s) /\ Cardinality(s) \in Nat
                          /\ Cardinality(s) <= Cardinality(S)
                          /\ s # {} => One(s) \in s /\ Cardinality(s \ {One(s)}) = Cardinality(s) - 1
  BY FS_Subset, FS_CardinalityType, FS_RemoveElement DEF One
<1>2. \E f : Right(f, 0)
  <2> DEFINE z == [s \in SUBSET S |-> 0]
  <2>1. ASSUME NEW s \in SUBSET S, Cardinality(s) <= 0 PROVE s = {}
    <3>1. IsFiniteSet(s) /\ Cardinality(s) \in Nat
      BY <1>1
    <3>2. Cardinality(s) = 0
      BY <2>1, <3>1
    <3>3. QED
      BY <3>1, <3>2, FS_EmptySet
  <2>2. Right(z, 0)
    BY <2>1 DEF Added
  <2>3. QED
    BY <2>2
<1>3. ASSUME NEW n \in Nat, NEW f, Right(f, n) PROVE \E g : Right(g, n + 1)
  <2> DEFINE g == [s \in SUBSET S |-> Added(f, ns, s)]
  <2>1. ASSUME NEW s \in SUBSET S, Cardinality(s) <= n + 1 PROVE g[s] = Added(g, ns, s)
    <3>1. CASE s = {}
      BY <3>1 DEF Added
    <3>2. CASE s # {}
      <4>1. s \ {One(s)} \in SUBSET S /\ Cardinality(s \ {One(s)}) <= n
        BY <1>1, <2>1, <3>2
      <4>2. g[s \ {One(s)}] = f[s \ {One(s)}]
        BY <1>3, <4>1
      <4>3. QED
        BY <3>2, <4>2 DEF Added
    <3>3. QED
      BY <3>1, <3>2
  <2>2. g = [s \in SUBSET S |-> g[s]]
    OBVIOUS
  <2>3. Right(g, n + 1)
    BY <2>1, <2>2
  <2>4. QED
    BY <2>3
<1>4. W = {}
  <2> SUFFICES ASSUME W # {} PROVE FALSE
    OBVIOUS
  <2> DEFINE m == Min(W)
  <2>1. W \in SUBSET Nat
    OBVIOUS
  <2>2. m \in W /\ \A x \in W : m <= x
    <3> HIDE DEF W
    <3>1. QED
      BY <2>1, Smallest
  <2> HIDE DEF m
  <2>3. m \in Nat /\ m # 0
    BY <1>2, <2>2
  <2>4. m - 1 \in Nat /\ m - 1 \notin W
    <3> HIDE DEF W
    <3>1. QED
      BY <2>2, <2>3
  <2>5. PICK f : Right(f, m - 1)
    BY <2>4
  <2>6. \E g : Right(g, m - 1 + 1)
    BY <1>3, <2>4, <2>5, ZenonT(60)
  <2>7. m - 1 + 1 = m
    BY <2>3
  <2>8. QED
    BY <2>2, <2>6, <2>7
<1>5. PICK f : Right(f, Cardinality(S))
  BY <1>4, FS_CardinalityType
<1>6. f = [s \in SUBSET S |-> Added(f, ns, s)]
  BY <1>1, <1>5
<1>7. QED
  BY <1>6 DEF Adds

\* VisitsFlow adds up with such a function.
LEMMA TotalIs ==
  ASSUME NEW ns, NEW S, IsFiniteSet(S)
  PROVE  \E f : Adds(f, ns, S) /\ Total(ns, S) = f[S]
<1> DEFINE f == CHOOSE f : Adds(f, ns, S)
<1>1. Adds(f, ns, S)
  BY AddsExists
<1>2. Total(ns, S) = f[S]
  BY DEF Total, MapThenSumSet, MapThenFoldSet, Adds, Added, One
<1>3. QED
  BY <1>1, <1>2

\* What it says of a set follows from what it says of the set without a member.
LEMMA AddedIs ==
  ASSUME NEW f, NEW ns, NEW S, Adds(f, ns, S), NEW T \in SUBSET S
  PROVE  /\ T = {} => f[T] = 0
         /\ T # {} => One(T) \in T /\ f[T] = ns[One(T)].visits + f[T \ {One(T)}]
BY DEF Adds, Added, One

\* Two tables with the same visits have the same sums.
LEMMA SameSums ==
  ASSUME NEW f, NEW ns, NEW S, Adds(f, ns, S), NEW g, NEW ms, NEW R, Adds(g, ms, R),
         IsFiniteSet(S), NEW T \in SUBSET S, T \subseteq R,
         \A c \in T : ms[c].visits = ns[c].visits
  PROVE  g[T] = f[T]
<1> DEFINE B == {U \in SUBSET T : g[U] # f[U]}
<1> SUFFICES ASSUME B # {} PROVE FALSE
  OBVIOUS
<1>1. B \in SUBSET SUBSET T /\ IsFiniteSet(T)
  BY FS_Subset
<1>2. PICK U \in B : \A x \in U : U \ {x} \notin B
  <2> HIDE DEF B
  <2>1. QED
    BY <1>1, SmallestSet
<1>3. U \in SUBSET S /\ U \in SUBSET R
  OBVIOUS
<1>4. U # {}
  BY <1>2, <1>3, AddedIs
<1>5. /\ One(U) \in U /\ f[U] = ns[One(U)].visits + f[U \ {One(U)}]
      /\ g[U] = ms[One(U)].visits + g[U \ {One(U)}]
  <2> HIDE DEF B
  <2>1. Adds(f, ns, S) /\ U \in SUBSET S /\ U # {}
    BY <1>3, <1>4
  <2>2. Adds(g, ms, R) /\ U \in SUBSET R
    BY <1>3
  <2>3. One(U) \in U /\ f[U] = ns[One(U)].visits + f[U \ {One(U)}]
    BY ONLY <2>1, AddedIs
  <2>4. g[U] = ms[One(U)].visits + g[U \ {One(U)}]
    BY ONLY <2>1, <2>2, AddedIs
  <2>5. QED
    BY <2>3, <2>4
<1>6. g[U \ {One(U)}] = f[U \ {One(U)}]
  BY <1>2, <1>5
<1>7. QED
  BY <1>2, <1>5, <1>6

\* The sums are numbers.
LEMMA SumsTyped ==
  ASSUME NEW f, NEW ns, NEW S, Adds(f, ns, S), IsFiniteSet(S),
         \A c \in S : ns[c].visits \in Nat
  PROVE  \A T \in SUBSET S : f[T] \in Nat
<1> DEFINE B == {U \in SUBSET S : f[U] \notin Nat}
<1> SUFFICES ASSUME B # {} PROVE FALSE
  OBVIOUS
<1>1. B \in SUBSET SUBSET S
  OBVIOUS
<1>2. PICK U \in B : \A x \in U : U \ {x} \notin B
  <2> HIDE DEF B
  <2>1. QED
    BY <1>1, SmallestSet
<1>3. U # {}
  <2>1. U \in SUBSET S /\ f[U] # 0
    BY <1>2
  <2>2. QED
    BY <2>1, AddedIs
<1>4. One(U) \in U /\ f[U] = ns[One(U)].visits + f[U \ {One(U)}]
  BY <1>3, AddedIs
<1>5. f[U \ {One(U)}] \in Nat /\ ns[One(U)].visits \in Nat
  BY <1>2, <1>4
<1>6. QED
  BY <1>2, <1>4, <1>5

\* Any member may be added last.
LEMMA AnyLast ==
  ASSUME NEW f, NEW ns, NEW S, Adds(f, ns, S), IsFiniteSet(S),
         \A c \in S : ns[c].visits \in Nat
  PROVE  \A T \in SUBSET S : \A x \in T : f[T] = ns[x].visits + f[T \ {x}]
<1> DEFINE B == {U \in SUBSET S : \E x \in U : f[U] # ns[x].visits + f[U \ {x}]}
<1> SUFFICES ASSUME B # {} PROVE FALSE
  OBVIOUS
<1>1. B \in SUBSET SUBSET S
  OBVIOUS
<1>2. PICK U \in B : \A x \in U : U \ {x} \notin B
  <2> HIDE DEF B
  <2>1. QED
    BY <1>1, SmallestSet
<1>3. PICK x \in U : f[U] # ns[x].visits + f[U \ {x}]
  BY <1>2
<1> DEFINE y == One(U)
           V == U \ {x, y}
<1>4. y \in U /\ f[U] = ns[y].visits + f[U \ {y}]
  BY <1>3, AddedIs
<1> HIDE DEF y
<1>5. y # x
  BY <1>3, <1>4
<1>6. f[U \ {y}] = ns[x].visits + f[V]
  <2>1. U \ {y} \notin B /\ U \ {y} \in SUBSET S /\ x \in U \ {y}
    BY <1>2, <1>4, <1>5
  <2>2. f[U \ {y}] = ns[x].visits + f[(U \ {y}) \ {x}]
    BY <2>1
  <2>3. (U \ {y}) \ {x} = V
    OBVIOUS
  <2>4. QED
    BY <2>2, <2>3
<1>7. f[U \ {x}] = ns[y].visits + f[V]
  <2>1. U \ {x} \notin B /\ U \ {x} \in SUBSET S /\ y \in U \ {x}
    BY <1>2, <1>3, <1>4, <1>5
  <2>2. f[U \ {x}] = ns[y].visits + f[(U \ {x}) \ {y}]
    BY <2>1
  <2>3. (U \ {x}) \ {y} = V
    OBVIOUS
  <2>4. QED
    BY <2>2, <2>3
<1>8. ns[x].visits \in Nat /\ ns[y].visits \in Nat /\ f[V] \in Nat
  BY <1>3, <1>4, SumsTyped
<1>9. QED
  <2> HIDE DEF V
  <2>1. QED
    BY <1>3, <1>4, <1>6, <1>7, <1>8

\* No nodes have no visits.
LEMMA TotalOfNone ==
  ASSUME NEW ns
  PROVE  Total(ns, {}) = 0
<1>1. PICK f : Adds(f, ns, {}) /\ Total(ns, {}) = f[{}]
  BY TotalIs, FS_EmptySet
<1>2. QED
  BY <1>1, AddedIs

\* S is a finite set of nodes that have numbers of visits.
Visited(ns, S) == IsFiniteSet(S) /\ \A c \in S : ns[c].visits \in Nat

\* The nodes of S have as many visits in one table as in the other.
Alike(ns, ms, S) == IsFiniteSet(S) /\ \A c \in S : ms[c].visits = ns[c].visits

\* The node x of S has one visit more, the others as many.
Raised(ns, ms, S, x) ==
  /\ Visited(ns, S) /\ x \in S
  /\ ms[x].visits = ns[x].visits + 1
  /\ \A c \in S \ {x} : ms[c].visits = ns[c].visits

\* The sum depends on nothing but the visits of the nodes it is over.
LEMMA TotalSame ==
  ASSUME NEW ns, NEW ms, NEW S, Alike(ns, ms, S)
  PROVE  Total(ms, S) = Total(ns, S)
<1>0. IsFiniteSet(S) /\ \A c \in S : ms[c].visits = ns[c].visits
  BY DEF Alike
<1>1. PICK f : Adds(f, ns, S) /\ Total(ns, S) = f[S]
  BY <1>0, TotalIs
<1>2. PICK g : Adds(g, ms, S) /\ Total(ms, S) = g[S]
  BY <1>0, TotalIs
<1>3. g[S] = f[S]
  BY <1>0, <1>1, <1>2, SameSums
<1>4. QED
  BY <1>1, <1>2, <1>3

\* It is a number.
LEMMA TotalTyped ==
  ASSUME NEW ns, NEW S, Visited(ns, S)
  PROVE  Total(ns, S) \in Nat
<1>0. IsFiniteSet(S) /\ \A c \in S : ns[c].visits \in Nat
  BY DEF Visited
<1>1. PICK f : Adds(f, ns, S) /\ Total(ns, S) = f[S]
  BY <1>0, TotalIs
<1>2. QED
  BY <1>0, <1>1, SumsTyped

\* Any node may be counted last.
LEMMA TotalWithout ==
  ASSUME NEW ns, NEW S, Visited(ns, S), NEW x, x \in S
  PROVE  /\ Visited(ns, S \ {x})
         /\ Total(ns, S) = ns[x].visits + Total(ns, S \ {x})
<1>0. IsFiniteSet(S) /\ IsFiniteSet(S \ {x}) /\ \A c \in S : ns[c].visits \in Nat
  BY FS_Subset DEF Visited
<1>1. PICK f : Adds(f, ns, S) /\ Total(ns, S) = f[S]
  BY <1>0, TotalIs
<1>2. PICK g : Adds(g, ns, S \ {x}) /\ Total(ns, S \ {x}) = g[S \ {x}]
  BY <1>0, TotalIs
<1>3. f[S] = ns[x].visits + f[S \ {x}]
  BY <1>0, <1>1, AnyLast
<1>4. g[S \ {x}] = f[S \ {x}]
  BY <1>0, <1>1, <1>2, SameSums
<1>5. Visited(ns, S \ {x})
  BY <1>0 DEF Visited
<1>6. QED
  BY <1>1, <1>2, <1>3, <1>4, <1>5

\* A node without visits adds nothing.
LEMMA TotalWith ==
  ASSUME NEW ns, NEW S, Visited(ns, S), NEW x, x \notin S, ns[x].visits = 0
  PROVE  Total(ns, S \cup {x}) = Total(ns, S)
<1> DEFINE T == S \cup {x}
<1>1. x \in T /\ Visited(ns, T)
  BY FS_AddElement DEF Visited
<1>2. T \ {x} = S
  OBVIOUS
<1>3. Total(ns, T) = ns[x].visits + Total(ns, T \ {x})
  <2> HIDE DEF T
  <2>1. QED
    BY ONLY <1>1, TotalWithout
<1>4. Total(ns, T) = ns[x].visits + Total(ns, S)
  BY <1>2, <1>3, Zenon
<1>5. Total(ns, S) \in Nat
  BY TotalTyped
<1>6. QED
  BY <1>4, <1>5

\* One visit more makes the sum larger by one.
LEMMA TotalRises ==
  ASSUME NEW ns, NEW ms, NEW S, NEW x, Raised(ns, ms, S, x)
  PROVE  Total(ns, S) \in Nat /\ Total(ms, S) = Total(ns, S) + 1
<1> DEFINE R == S \ {x}
<1>1. x \in S /\ Visited(ns, S) /\ Visited(ms, S) /\ ms[x].visits = ns[x].visits + 1
      /\ ns[x].visits \in Nat
  BY DEF Raised, Visited
<1>2. Alike(ns, ms, R)
  BY FS_Subset DEF Raised, Visited, Alike
<1> HIDE DEF R
<1>3. Total(ns, S) = ns[x].visits + Total(ns, R) /\ Visited(ns, R)
  BY <1>1, TotalWithout DEF R
<1>4. Total(ms, S) = ms[x].visits + Total(ms, R)
  BY <1>1, TotalWithout DEF R
<1>5. Total(ms, R) = Total(ns, R) /\ Total(ns, R) \in Nat
  BY <1>2, <1>3, TotalSame, TotalTyped
<1>6. QED
  BY <1>1, <1>3, <1>4, <1>5

\* The children of a node, and VisitsFlow, in the table ns.
Kids(ns, n) == {c \in 1 .. Len(ns) : ns[c].parent = n}
Flows(ns) == \A n \in 1 .. Len(ns) : ns[n].visits >= Total(ns, Kids(ns, n))

\* The table ns is one that TypeOK allows.
Table(ns) == ns \in Seq(NodeRec) /\ \A n \in 1 .. Len(ns) : ns[n].parent \in 0 .. n - 1

\* What its rows hold; the children of a node are finitely many, and later than it.
LEMMA TableIs ==
  ASSUME NEW ns, Table(ns)
  PROVE  /\ Len(ns) \in Nat
         /\ \A n \in 1 .. Len(ns) : ns[n].visits \in Nat /\ ns[n].parent \in Nat /\ ns[n].parent < n
         /\ \A n : Visited(ns, Kids(ns, n)) /\ Kids(ns, n) \subseteq 1 .. Len(ns)
         /\ \A n \in 1 .. Len(ns) : n \notin Kids(ns, n)
<1>1. Len(ns) \in Nat /\ \A n \in 1 .. Len(ns) : ns[n] \in NodeRec /\ ns[n].parent \in 0 .. n - 1
  BY DEF Table
<1>2. \A n \in 1 .. Len(ns) : ns[n].visits \in Nat /\ ns[n].parent \in Nat /\ ns[n].parent < n
  BY <1>1 DEF NodeRec
<1>3. IsFiniteSet(1 .. Len(ns)) /\ \A n : Kids(ns, n) \subseteq 1 .. Len(ns)
  BY <1>1, FS_Interval DEF Kids
<1>4. \A n : Visited(ns, Kids(ns, n))
  BY <1>2, <1>3, FS_Subset DEF Visited
<1>5. \A n \in 1 .. Len(ns) : n \notin Kids(ns, n)
  BY <1>2 DEF Kids
<1>6. QED
  BY <1>1, <1>2, <1>3, <1>4, <1>5

\* A table whose parents and visits are those of a table whose visits flow.
LEMMA FlowStays ==
  ASSUME NEW ns, NEW ms, Table(ns), Flows(ns), Len(ms) = Len(ns),
         \A n \in 1 .. Len(ns) : ms[n].parent = ns[n].parent /\ ms[n].visits = ns[n].visits
  PROVE  Flows(ms)
<1>1. SUFFICES ASSUME NEW n \in 1 .. Len(ns) PROVE ms[n].visits >= Total(ms, Kids(ms, n))
  BY DEF Flows
<1>2. Kids(ms, n) = Kids(ns, n)
  BY DEF Kids
<1>3. Alike(ns, ms, Kids(ns, n))
  BY TableIs DEF Alike, Visited
<1>4. Total(ms, Kids(ms, n)) = Total(ns, Kids(ns, n))
  BY <1>2, <1>3, TotalSame
<1>5. QED
  BY <1>1, <1>4 DEF Flows

\* A new row that has no visit yet.
LEMMA FlowGrows ==
  ASSUME NEW ns, NEW ms, Table(ns), Table(ms), Flows(ns), Len(ms) = Len(ns) + 1,
         \A n \in 1 .. Len(ns) : ms[n] = ns[n], ms[Len(ms)].visits = 0
  PROVE  Flows(ms)
<1> DEFINE x == Len(ms)
<1>1. SUFFICES ASSUME NEW n \in 1 .. Len(ms) PROVE ms[n].visits >= Total(ms, Kids(ms, n))
  BY DEF Flows
<1>2. Len(ns) \in Nat /\ x \in 1 .. x /\ x \notin 1 .. Len(ns) /\ ms[x].parent < x
  BY TableIs
<1>3. CASE n = x
  <2>1. Kids(ms, n) = {}
    <3> SUFFICES ASSUME NEW c \in 1 .. Len(ms), ms[c].parent = x PROVE FALSE
      BY <1>3 DEF Kids
    <3>1. ms[c].parent < c /\ c <= x
      BY TableIs
    <3>2. QED
      BY <1>2, <3>1
  <2>2. ms[n].visits = 0 /\ Total(ms, {}) = 0
    BY <1>3, TotalOfNone
  <2>3. QED
    BY <2>1, <2>2
<1>4. CASE n # x
  <2> DEFINE K == Kids(ns, n)
  <2>1. n \in 1 .. Len(ns) /\ ms[n] = ns[n] /\ ns[n].visits >= Total(ns, K)
    BY <1>2, <1>4 DEF Flows
  <2>2. Visited(ns, K) /\ K \subseteq 1 .. Len(ns) /\ x \notin K
    BY <1>2, TableIs
  <2>3. Alike(ns, ms, K) /\ Visited(ms, K)
    BY <2>2 DEF Alike, Visited
  <2>4. Total(ms, K) = Total(ns, K)
    BY <2>3, TotalSame
  <2>5. CASE ms[x].parent # n
    <3>1. Kids(ms, n) = K
      BY <1>2, <2>5 DEF Kids
    <3>2. QED
      BY <2>1, <2>4, <3>1
  <2>6. CASE ms[x].parent = n
    <3>1. Kids(ms, n) = K \cup {x} /\ ms[x].visits = 0
      BY <1>2, <2>2, <2>6 DEF Kids
    <3>2. Total(ms, K \cup {x}) = Total(ms, K)
      <4> HIDE DEF K, x
      <4>1. QED
        BY <2>2, <2>3, <3>1, TotalWith
    <3>3. QED
      BY <2>1, <2>4, <3>1, <3>2
  <2>7. QED
    BY <2>5, <2>6
<1>5. QED
  BY <1>3, <1>4

\* A row that has one more visit: its children's visits are the same together, and its
\* parent has had one more than it needed.
LEMMA FlowRises ==
  ASSUME NEW ns, NEW ms, Table(ns), Flows(ns), Len(ms) = Len(ns), NEW x \in 1 .. Len(ns),
         \A n \in 1 .. Len(ns) : ms[n].parent = ns[n].parent,
         \A n \in 1 .. Len(ns) \ {x} : ms[n].visits = ns[n].visits,
         ms[x].visits = ns[x].visits + 1,
         LET p == ns[x].parent IN p # None => ns[p].visits > Total(ns, Kids(ns, p))
  PROVE  Flows(ms) /\ ms[x].visits > Total(ms, Kids(ms, x))
<1>1. \A n : Kids(ms, n) = Kids(ns, n)
  BY DEF Kids
<1>2. \A n \in 1 .. Len(ns) : ns[n].visits \in Nat
  BY TableIs
<1>3. ASSUME NEW n, x \notin Kids(ns, n) PROVE Total(ms, Kids(ms, n)) = Total(ns, Kids(ns, n))
  <2>1. Alike(ns, ms, Kids(ns, n))
    BY <1>3, TableIs DEF Alike, Visited
  <2>2. QED
    BY <1>1, <2>1, TotalSame
<1>4. ASSUME NEW n, x \in Kids(ns, n)
      PROVE  Total(ms, Kids(ms, n)) = Total(ns, Kids(ns, n)) + 1 /\ Total(ns, Kids(ns, n)) \in Nat
  <2>1. Visited(ns, Kids(ns, n)) /\ Kids(ns, n) \subseteq 1 .. Len(ns)
    BY TableIs
  <2>2. Raised(ns, ms, Kids(ns, n), x)
    BY <1>4, <2>1 DEF Raised
  <2>3. Total(ns, Kids(ns, n)) \in Nat /\ Total(ms, Kids(ns, n)) = Total(ns, Kids(ns, n)) + 1
    BY <2>2, TotalRises
  <2>4. QED
    BY <1>1, <2>3
<1>5. ms[x].visits > Total(ms, Kids(ms, x))
  <2>1. Total(ms, Kids(ms, x)) = Total(ns, Kids(ns, x))
    BY <1>3, TableIs
  <2>2. ns[x].visits >= Total(ns, Kids(ns, x))
    BY DEF Flows
  <2>3. Total(ns, Kids(ns, x)) \in Nat
    BY TotalTyped, TableIs
  <2>4. QED
    BY <1>2, <2>1, <2>2, <2>3
<1>6. ASSUME NEW n \in 1 .. Len(ns) PROVE ms[n].visits >= Total(ms, Kids(ms, n))
  <2>1. CASE n = x
    <3>1. x \notin Kids(ns, x) /\ Total(ns, Kids(ns, x)) \in Nat
      BY TotalTyped, TableIs
    <3>2. QED
      BY <1>2, <1>3, <1>5, <2>1, <3>1
  <2>2. CASE n # x /\ x \notin Kids(ns, n)
    BY <1>3, <2>2 DEF Flows
  <2>3. CASE n # x /\ x \in Kids(ns, n)
    <3>1. n = ns[x].parent /\ n # None
      BY <2>3 DEF Kids, None
    <3>2. ns[n].visits > Total(ns, Kids(ns, n)) /\ ms[n].visits = ns[n].visits
      BY <2>3, <3>1
    <3>3. QED
      BY <1>2, <1>4, <2>3, <3>2
  <2>4. QED
    BY <2>1, <2>2, <2>3
<1>7. QED
  BY <1>5, <1>6 DEF Flows

\* The child that the search goes down to is one.
LEMMA PreferredIsChild ==
  ASSUME NEW n, NEW c \in Preferred(n), Len(nodes) \in Nat
  PROVE  c \in Children(n)
<1> DEFINE U == {x \in Children(n) : nodes[x].visits = 0}
<1>1. U \in SUBSET Nat
  BY DEF Children, Node
<1>2. U # {} => Min(U) \in U
  <2> HIDE DEF U
  <2>1. QED
    BY <1>1, Smallest
<1>3. QED
  BY <1>2 DEF Preferred

\* The path of the iteration in hand leads from the root, which has no parent, down to the
\* node it puts its child under.
Leads ==
  /\ pc = "set_root" => nodes[Len(nodes)].parent = None
  /\ kv.root # None => nodes[kv.root].parent = None
  /\ pc \in Begun =>
       /\ mem.path[1] = kv.root
       /\ \A i \in 1 .. Len(mem.path) - 1 : nodes[mem.path[i + 1]].parent = mem.path[i]
  /\ pc \in Created => nodes[mem.child].parent = Parent

\* Below a node that has been counted, the path counts one visit more: there is room for it.
Room ==
  pc = "backup" /\ mem.backed > 0 =>
    LET n == BackupPath[mem.backed] IN nodes[n].visits > Total(nodes, Kids(nodes, n))

\* How a step changes the path of the iteration in hand.
LEMMA PathGrows ==
  ASSUME IInv, Next, pc' \in Begun
  PROVE  /\ kv'.root = kv.root /\ kv.root \in Node
         /\ \/ mem'.path = <<kv.root>> /\ pc' \notin Created
            \/ pc \in Begun /\ mem'.path = mem.path
            \/ /\ pc \in Begun /\ pc' \notin Created
               /\ \E c \in Node : nodes[c].parent = Parent /\ mem'.path = Append(mem.path, c)
<1>0. MemTyped /\ KvTyped /\ mem.path \in Seq(Node)
  BY TypeParts DEF IInv, MemTyped, MemType
<1>1. CASE Iterate
  <2>1. pc = "iterate" /\ pc' = "descend" /\ mem'.path = <<mem.root>> /\ kv' = kv
    BY <1>0, <1>1 DEF Iterate, MemTyped, MemType, Begun, Created, Unscored, Scored, disk
  <2>2. mem.root = kv.root /\ kv.root \in Node
    BY <2>1, RootIsNode DEF Up
  <2>3. "descend" \notin Created
    BY DEF Created, Unscored, Scored
  <2>4. QED
    BY <2>1, <2>2, <2>3
<1>2. CASE Descend
  <2>1. pc = "descend" /\ pc \in Up /\ pc \in Begun /\ kv' = kv /\ pc' \in {"descend", "decide"}
    BY <1>2 DEF Descend, Up, Begun, disk
  <2>2. mem.root = kv.root /\ kv.root \in Node
    BY <2>1, RootIsNode
  <2>3. pc' \notin Created
    BY <2>1 DEF Created, Unscored, Scored
  <2>4. CASE UNCHANGED mem
    BY <2>1, <2>2, <2>4
  <2>5. CASE mem' = [mem EXCEPT !.path = <<mem.root>>]
    <3>1. mem'.path = <<mem.root>>
      BY <1>0, <2>5 DEF MemTyped, MemType
    <3>2. QED
      BY <2>1, <2>2, <2>3, <3>1
  <2>6. ASSUME NEW c \in Preferred(Parent), mem' = [mem EXCEPT !.path = Append(@, c)]
        PROVE  c \in Node /\ nodes[c].parent = Parent /\ mem'.path = Append(mem.path, c)
    <3>1. mem'.path = Append(mem.path, c)
      BY <1>0, <2>6 DEF MemTyped, MemType
    <3>2. c \in Children(Parent)
      BY <2>6, PreferredIsChild
    <3>3. QED
      BY <3>1, <3>2 DEF Children
  <2>7. QED
    BY <1>2, <2>1, <2>2, <2>3, <2>4, <2>5, <2>6 DEF Descend, Parent
<1>3. CASE CreateChild
  <2>1. pc = "create" /\ kv' = kv /\ mem'.path = mem.path
    BY <1>0, <1>3 DEF CreateChild, MemTyped, MemType
  <2>2. pc \in Begun /\ pc \in Up
    BY <2>1 DEF Begun, Up
  <2>3. QED
    BY <2>1, <2>2, RootIsNode
<1>4. CASE Boot \/ CreateRoot \/ SetRoot \/ SetFirstBest \/ Load \/ WriteRecord
           \/ Crash \/ BackupFails
  BY <1>4 DEF Boot, CreateRoot, SetRoot, SetFirstBest, Load, WriteRecord, Crash, BackupFails,
     Begun, Created, Unscored, Scored
<1>5. CASE Plain /\ ~Iterate /\ ~Descend /\ ~SetFirstBest /\ ~Load
  <2>1. mem'.path = mem.path
    BY <1>0, <1>5 DEF MemTyped, MemType, Plain, Decide, ClearFlag, Work, Patch, Outcome,
       SaveLastMetric, SaveStreak, SaveFlag, SaveLow, SaveHigh, ResetStreak, SaveResult,
       Backup, SaveBest, SaveSince, Finish, Spend, disk
  <2>2. pc \in Begun
    BY <1>5 DEF Begun, Created, Unscored, Scored, Plain, Decide, ClearFlag, Work, Patch,
       Outcome, SaveLastMetric, SaveStreak, SaveFlag, SaveLow, SaveHigh, ResetStreak,
       SaveResult, Backup, SaveBest, SaveSince, Finish, Spend
  <2>3. kv'.root = kv.root /\ pc \in Up
    BY <1>5, <2>2, PlainSteps DEF Up
  <2>4. QED
    BY <2>1, <2>2, <2>3, RootIsNode
<1>6. QED
  BY <1>1, <1>2, <1>3, <1>4, <1>5, StepKinds DEF Plain

\* The path goes on leading from the root to the node's parent.
LEMMA StepLeads == ASSUME IInv, Leads, Next PROVE Leads'
<1>0. /\ NodesTyped /\ KvTyped /\ MemTyped /\ Len(nodes) \in Nat /\ mem.path \in Seq(Node)
      /\ pc \in Begun => mem.path # <<>>
      /\ \A n \in Node : n \in Node' /\ nodes'[n].parent = nodes[n].parent
  BY TypeParts, RowsKept DEF IInv, NodesTyped, MemTyped, MemType, Chosen
<1>1. pc' = "set_root" => nodes'[Len(nodes')].parent = None
  <2>1. CASE CreateRoot
    BY <2>1, Creation
  <2>2. CASE ~CreateRoot /\ pc' = "set_root"
    <3>1. pc = "set_root" /\ nodes' = nodes
      BY <2>2 DEF Next, Resume, Selection, Work, Scoring, Boot, SetRoot,
         SetFirstBest, Load, Iterate, Descend, Decide, ClearFlag, CreateChild, Patch, Outcome,
         SaveLastMetric, SaveStreak, SaveFlag, SaveLow, SaveHigh, ResetStreak, SaveResult,
         Backup, BackupFails, SaveBest, SaveSince, WriteRecord, Finish, Crash, Spend, disk
    <3>2. QED
      BY <3>1 DEF Leads
  <2>3. QED
    BY <2>1, <2>2
<1>2. kv'.root # None => nodes'[kv'.root].parent = None
  <2>1. CASE SetRoot
    <3>1. pc = "set_root" /\ nodes' = nodes /\ kv'.root = Len(nodes)
      BY <1>0, <2>1 DEF SetRoot, KvTyped
    <3>2. QED
      BY <3>1 DEF Leads
  <2>2. CASE ~SetRoot
    <3>1. kv'.root = kv.root
      <4>1. CASE Plain
        BY <4>1, PlainSteps
      <4>2. CASE Boot \/ CreateRoot \/ CreateChild \/ WriteRecord \/ Crash \/ BackupFails
        BY <4>2 DEF Boot, CreateRoot, CreateChild, WriteRecord, Crash, BackupFails, disk
      <4>3. QED
        BY <2>2, <4>1, <4>2, StepKinds
    <3>2. kv.root # None => kv.root \in Node
      BY <1>0 DEF KvTyped, Node, None
    <3>3. QED
      BY <1>0, <3>1, <3>2 DEF Leads
  <2>3. QED
    BY <2>1, <2>2
<1>3. ASSUME pc' \in Begun
      PROVE  /\ mem'.path[1] = kv'.root
             /\ \A i \in 1 .. Len(mem'.path) - 1 :
                  nodes'[mem'.path[i + 1]].parent = mem'.path[i]
  <2>1. CASE mem'.path = <<kv.root>>
    BY <1>3, <2>1, PathGrows
  <2>2. CASE pc \in Begun /\ mem'.path = mem.path
    <3>1. mem.path[1] = kv.root /\ kv'.root = kv.root
      BY <1>3, <2>2, PathGrows DEF Leads
    <3>2. ASSUME NEW i \in 1 .. Len(mem.path) - 1
          PROVE  nodes'[mem.path[i + 1]].parent = mem.path[i]
      <4>1. mem.path[i + 1] \in Node
        BY <1>0
      <4>2. QED
        BY <1>0, <2>2, <4>1 DEF Leads
    <3>3. QED
      BY <2>2, <3>1, <3>2
  <2>3. ASSUME pc \in Begun, NEW c \in Node, nodes[c].parent = Parent,
               mem'.path = Append(mem.path, c)
        PROVE  /\ mem'.path[1] = kv'.root
               /\ \A i \in 1 .. Len(mem'.path) - 1 :
                    nodes'[mem'.path[i + 1]].parent = mem'.path[i]
    <3> DEFINE p == mem.path
    <3>1. /\ Len(p) \in Nat /\ Len(p) > 0 /\ Len(mem'.path) = Len(p) + 1
          /\ \A i \in 1 .. Len(p) : mem'.path[i] = p[i] /\ p[i] \in Node
          /\ mem'.path[Len(p) + 1] = c
      BY <1>0, <2>3
    <3>2. p[1] = kv.root /\ kv'.root = kv.root
      BY <1>3, <2>3, PathGrows DEF Leads
    <3>3. ASSUME NEW i \in 1 .. Len(p) PROVE nodes'[mem'.path[i + 1]].parent = mem'.path[i]
      <4>1. CASE i = Len(p)
        BY <1>0, <2>3, <3>1, <4>1 DEF Parent
      <4>2. CASE i # Len(p)
        <5>1. i \in 1 .. Len(p) - 1 /\ i + 1 \in 1 .. Len(p)
          BY <3>1, <4>2
        <5>2. nodes[p[i + 1]].parent = p[i]
          BY <2>3, <5>1 DEF Leads
        <5>3. QED
          BY <1>0, <3>1, <5>1, <5>2
      <4>3. QED
        BY <4>1, <4>2
    <3>4. QED
      BY <3>1, <3>2, <3>3
  <2>4. QED
    BY <1>3, <2>1, <2>2, <2>3, PathGrows
<1>4. ASSUME pc' \in Created PROVE nodes'[mem'.child].parent = Parent'
  <2>1. pc' \in Begun /\ mem'.path = mem.path
    BY <1>4, PathGrows DEF Begun
  <2>2. Parent' = Parent
    BY <2>1 DEF Parent
  <2>3. CASE CreateChild
    <3>1. mem'.child = Len(nodes) + 1
      BY <1>0, <2>3 DEF CreateChild, MemTyped, MemType
    <3>2. Len(nodes') = Len(nodes) + 1 /\ nodes'[Len(nodes')].parent = Parent
      BY <2>3, Creation
    <3>3. QED
      BY <2>2, <3>1, <3>2
  <2>4. CASE ~CreateChild
    <3>1. pc \in Created /\ mem'.child = mem.child
      BY <1>4, <2>4, InHand
    <3>2. mem.child \in Node
      BY <3>1, ChildIsNode
    <3>3. QED
      BY <1>0, <2>2, <3>1, <3>2 DEF Leads
  <2>5. QED
    BY <2>3, <2>4
<1>5. QED
  BY <1>1, <1>2, <1>3, <1>4 DEF Leads

\* No action but _backup_path counts a visit, and a new node has none.
LEMMA VisitsKept ==
  ASSUME IInv, Next, ~Backup
  PROVE  /\ \A n \in Node : nodes'[n].visits = nodes[n].visits
         /\ CreateRoot \/ CreateChild => nodes'[Len(nodes')].visits = 0
<1>0. nodes \in Seq(NodeRec) /\ Len(nodes) \in Nat /\ \A n \in Node : nodes[n] \in NodeRec
  BY TypeParts DEF IInv, NodesTyped, Node
<1>1. CASE CreateRoot \/ CreateChild
  <2>1. PICK p, a, s, d : nodes' = Append(nodes, NewNode(p, a, s, d))
    BY <1>1 DEF CreateRoot, CreateChild
  <2> DEFINE r == NewNode(p, a, s, d)
  <2>2. r.visits = 0
    BY DEF NewNode
  <2> HIDE DEF r
  <2>3. /\ nodes'[Len(nodes')] = r
        /\ \A n \in Node : nodes'[n] = nodes[n]
    BY <1>0, <2>1 DEF Node, r
  <2>4. QED
    BY <2>2, <2>3
<1>2. CASE SaveResult
  <2> DEFINE r == [nodes[mem.child] EXCEPT
                     !.metric = IF mem.metric = NaN THEN None ELSE mem.metric,
                     !.status = IF mem.metric = None THEN "buggy" ELSE "done"]
  <2>1. nodes' = [nodes EXCEPT ![mem.child] = r] /\ mem.child \in Node
    BY <1>2, ResultRow, ChildIsNode DEF SaveResult, Created, Unscored
  <2>2. r.visits = nodes[mem.child].visits
    BY <1>0, <2>1 DEF NodeRec
  <2>3. ~CreateRoot /\ ~CreateChild
    BY <1>2 DEF SaveResult, CreateRoot, CreateChild
  <2> HIDE DEF r
  <2>4. QED
    BY <1>0, <2>1, <2>2, <2>3 DEF Node
<1>3. ASSUME NEW s \in {"codegen_done", "patched"}, Patch(s)
      PROVE  /\ \A n \in Node : nodes'[n].visits = nodes[n].visits
             /\ ~CreateRoot /\ ~CreateChild
  <2> DEFINE r == [nodes[mem.child] EXCEPT !.status = s]
  <2>1. nodes' = [nodes EXCEPT ![mem.child] = r] /\ mem.child \in Node
    BY <1>3, PatchRow, ChildIsNode DEF Patch, Created, Unscored
  <2>2. r.visits = nodes[mem.child].visits
    BY <1>0, <2>1 DEF NodeRec
  <2>3. ~CreateRoot /\ ~CreateChild
    BY <1>3 DEF Patch, CreateRoot, CreateChild
  <2> HIDE DEF r
  <2>4. QED
    BY <1>0, <2>1, <2>2, <2>3 DEF Node
<1>4. CASE UNCHANGED nodes
  <2>1. ~CreateRoot /\ ~CreateChild
    BY <1>0, <1>4, Creation
  <2>2. QED
    BY <1>4, <2>1
<1>5. QED
  BY <1>1, <1>2, <1>3, <1>4, NodeWriters

\* The node whose visit is counted next: the root, or a child of the one before it.
LEMMA NextCounted ==
  ASSUME IInv, Leads, Backup
  PROVE  LET x == BackupPath[mem.backed + 1]
         IN  /\ x \in Node
             /\ mem.backed = 0 => nodes[x].parent = None
             /\ mem.backed > 0 => nodes[x].parent = BackupPath[mem.backed]
<1> DEFINE p == mem.path
           x == BackupPath[mem.backed + 1]
<1>1. pc = "backup" /\ pc \in Begun /\ pc \in Created /\ pc \in Up
  BY DEF Backup, Begun, Created, Scored, Up
<1>2. /\ p \in Seq(Node) /\ Len(p) \in Nat /\ Len(p) > 0
      /\ mem.backed \in Nat /\ mem.backed <= Len(p)
      /\ BackupPath = Append(p, mem.child) /\ mem.child \in Node
  BY <1>1, TypeParts, ChildIsNode DEF IInv, Chosen, MemTyped, MemType, BackupPath
<1>3. /\ x \in Node
      /\ mem.backed = Len(p) => x = mem.child
      /\ mem.backed < Len(p) => x = p[mem.backed + 1]
      /\ mem.backed > 0 => BackupPath[mem.backed] = p[mem.backed]
  BY <1>2
<1>4. /\ p[1] = kv.root /\ kv.root \in Node /\ nodes[kv.root].parent = None
      /\ \A i \in 1 .. Len(p) - 1 : nodes[p[i + 1]].parent = p[i]
      /\ nodes[mem.child].parent = p[Len(p)]
  <2>1. kv.root \in Node /\ kv.root # None
    BY <1>1, RootIsNode DEF IInv, Rooted
  <2>2. /\ p[1] = kv.root
        /\ \A i \in 1 .. Len(p) - 1 : nodes[p[i + 1]].parent = p[i]
    BY <1>1 DEF Leads
  <2>3. nodes[kv.root].parent = None /\ nodes[mem.child].parent = p[Len(p)]
    BY <1>1, <2>1 DEF Leads, Parent
  <2>4. QED
    BY <2>1, <2>2, <2>3
<1>5. CASE mem.backed = 0
  BY <1>2, <1>3, <1>4, <1>5
<1>6. CASE mem.backed > 0
  <2> HIDE DEF x, p
  <2>1. CASE mem.backed = Len(p)
    BY <1>2, <1>3, <1>4, <1>6, <2>1 DEF x
  <2>2. CASE mem.backed < Len(p)
    <3>1. mem.backed \in 1 .. Len(p) - 1
      BY <1>2, <1>6, <2>2
    <3>2. nodes[p[mem.backed + 1]].parent = p[mem.backed]
      BY <1>4, <3>1
    <3>3. QED
      BY <1>2, <1>3, <1>6, <2>2, <3>2 DEF x
  <2>3. QED
    BY <1>2, <2>1, <2>2
<1>7. QED
  BY <1>2, <1>5, <1>6

\* The table says what VisitsFlow does.
LEMMA FlowIsFlows == VisitsFlow <=> Flows(nodes)
BY DEF VisitsFlow, Flows, Total, Kids, Children, Node

\* _backup_path keeps the visits flowing, and makes room below the node it counts.
LEMMA BackupFlows ==
  ASSUME IInv, Leads, Room, Flows(nodes), Backup
  PROVE  Flows(nodes') /\ Room'
<1> DEFINE x == BackupPath[mem.backed + 1]
           r == [nodes[x] EXCEPT !.visits = @ + 1]
<1>1. /\ x \in Node /\ nodes' = [nodes EXCEPT ![x] = r]
      /\ pc = "backup" /\ mem.backed \in Nat /\ MemTyped
      /\ nodes \in Seq(NodeRec) /\ Len(nodes) \in Nat /\ nodes[x] \in NodeRec
      /\ \A n \in Node : nodes[n].parent \in 0 .. n - 1
  BY BackupRow, TypeParts DEF Backup, IInv, NodesTyped, MemTyped, MemType, Node
<1>2. r.visits = nodes[x].visits + 1 /\ r.parent = nodes[x].parent
  BY <1>1 DEF NodeRec
<1>3. /\ Len(nodes') = Len(nodes) /\ nodes'[x] = r
      /\ \A n \in Node \ {x} : nodes'[n] = nodes[n]
  <2> HIDE DEF x, r
  <2>1. QED
    BY <1>1 DEF Node
<1>4. LET p == nodes[x].parent IN p # None => nodes[p].visits > Total(nodes, Kids(nodes, p))
  BY <1>1, NextCounted DEF Room
<1>5. Table(nodes)
  BY <1>1 DEF Table, Node
<1>6. Flows(nodes') /\ nodes'[x].visits > Total(nodes', Kids(nodes', x))
  <2>1. /\ x \in 1 .. Len(nodes)
        /\ \A n \in 1 .. Len(nodes) : nodes'[n].parent = nodes[n].parent
        /\ \A n \in 1 .. Len(nodes) \ {x} : nodes'[n].visits = nodes[n].visits
        /\ nodes'[x].visits = nodes[x].visits + 1
    BY <1>1, <1>2, <1>3 DEF Node
  <2> HIDE DEF x
  <2>2. QED
    BY <1>3, <1>4, <1>5, <2>1, FlowRises, ZenonT(60)
<1>7. Room'
  <2>1. SUFFICES ASSUME pc' = "backup", mem'.backed > 0
                 PROVE  LET n == BackupPath'[mem'.backed]
                        IN  nodes'[n].visits > Total(nodes', Kids(nodes', n))
    BY DEF Room
  <2>2. mem'.backed = mem.backed + 1 /\ mem'.path = mem.path /\ mem'.child = mem.child
    BY <1>1, <2>1 DEF Backup, MemTyped, MemType
  <2>3. BackupPath'[mem'.backed] = x
    BY <2>2 DEF BackupPath
  <2>4. QED
    BY <1>6, <2>3
<1>8. QED
  BY <1>6, <1>7

\* The visits go on flowing, whatever is in the way of the one that is being counted.
LEMMA StepFlows ==
  ASSUME IInv, Leads, Room, Flows(nodes), Next
  PROVE  Flows(nodes') /\ Room'
<1>0. Table(nodes) /\ Table(nodes') /\ Len(nodes) \in Nat
  <2>1. NodesTyped /\ NodesTyped'
    BY StepTyped, TypeParts DEF IInv, TypeOK, NodesTyped, NodeRec, Node
  <2>2. QED
    BY <2>1 DEF NodesTyped, Table, Node
<1>1. CASE Backup
  BY <1>1, BackupFlows
<1>2. CASE ~Backup
  <2>1. Flows(nodes')
    <3>1. CASE CreateRoot \/ CreateChild
      <4>1. /\ Len(nodes') = Len(nodes) + 1 /\ \A n \in 1 .. Len(nodes) : nodes'[n] = nodes[n]
            /\ nodes'[Len(nodes')].visits = 0
        BY <1>2, <3>1, Creation, VisitsKept DEF Node
      <4>2. QED
        BY <1>0, <4>1, FlowGrows
    <3>2. CASE ~CreateRoot /\ ~CreateChild
      <4>1. Len(nodes') = Len(nodes)
        BY <3>2, NodeWriters, Update
      <4>2. \A n \in 1 .. Len(nodes) : nodes'[n].parent = nodes[n].parent
                                       /\ nodes'[n].visits = nodes[n].visits
        BY <1>2, RowsKept, VisitsKept DEF Node
      <4>3. QED
        BY <1>0, <4>1, <4>2, FlowStays
    <3>3. QED
      BY <3>1, <3>2
  <2>2. Room'
    <3>1. SUFFICES ASSUME pc' = "backup", mem'.backed > 0 PROVE Room'
      BY DEF Room
    <3>2. MemTyped
      BY TypeParts DEF IInv
    <3>3. CASE SaveResult
      BY <3>1, <3>2, <3>3 DEF SaveResult, IInv, Chosen, Up, Begun, Created, Unscored
    <3>4. CASE ~SaveResult
      <4>1. UNCHANGED <<pc, mem, nodes>>
        BY <1>2, <3>1, <3>4 DEF Next, Resume, Selection, Work, Scoring, Boot, CreateRoot, SetRoot,
           SetFirstBest, Load, Iterate, Descend, Decide, ClearFlag, CreateChild, Patch, Outcome,
           SaveLastMetric, SaveStreak, SaveFlag, SaveLow, SaveHigh, ResetStreak,
           BackupFails, SaveBest, SaveSince, WriteRecord, Finish, Crash, Spend, disk
      <4>2. QED
        BY <4>1 DEF Room, BackupPath
    <3>5. QED
      BY <3>3, <3>4
  <2>3. QED
    BY <2>1, <2>2
<1>3. QED
  BY <1>1, <1>2

\* UCT never divides by less than it takes the logarithm of: whatever crash cuts a count
\* short, a node has been visited as often as its children together.
THEOREM VisitsSafety == Spec => []VisitsFlow
<1>1. Init => Leads /\ Room /\ Flows(nodes)
  BY DEF Init, Leads, Room, Flows, Begun, Created, Unscored, Scored, None
<1>2. IInv /\ Leads /\ Room /\ Flows(nodes) /\ [Next]_vars
        => Leads' /\ Room' /\ Flows(nodes)'
  <2>1. CASE UNCHANGED vars
    BY <2>1 DEF vars, disk, Leads, Room, Parent, BackupPath
  <2>2. QED
    BY <2>1, StepLeads, StepFlows
<1>3. Flows(nodes) => VisitsFlow
  BY FlowIsFlows
<1>4. QED
  BY <1>1, <1>2, <1>3, SearchInvariance, PTL DEF Spec

-----------------------------------------------------------------------------
(* What a dead controller leaves behind.                                   *)

\* The nodes whose iteration neither failed nor succeeded, but for the one in hand.
Abandoned ==
  {n \in Node : nodes[n].status \notin {"done", "buggy"}
                /\ ~(pc \in Unscored /\ n = mem.child)}

\* Only the end of a controller leaves a node behind, the one in hand.
LEMMA StepAbandons ==
  ASSUME IInv, Next
  PROVE  \/ Abandoned' \subseteq Abandoned /\ crashes' = crashes
         \/ Abandoned' \subseteq Abandoned \cup {mem.child} /\ crashes' = crashes + 1
<1>0. NodesTyped /\ MemTyped /\ Len(nodes) \in Nat
  BY TypeParts DEF IInv, NodesTyped
<1>1. CASE Crash \/ BackupFails
  <2>1. UNCHANGED nodes /\ crashes' = crashes + 1
    BY <1>1 DEF Crash, BackupFails, disk
  <2>2. Abandoned' \subseteq Abandoned \cup {mem.child}
    BY <2>1 DEF Abandoned, Node
  <2>3. QED
    BY <2>1, <2>2
<1>2. CASE CreateRoot
  <2>1. /\ pc \notin Unscored /\ crashes' = crashes /\ Len(nodes') = Len(nodes) + 1
        /\ \A n \in Node : nodes'[n] = nodes[n]
        /\ nodes'[Len(nodes')].status = "done"
    BY <1>2, Creation DEF CreateRoot, Unscored
  <2>2. \A n \in Node' : n \in Node \/ n = Len(nodes')
    BY <1>0, <2>1 DEF Node
  <2>3. QED
    BY <2>1, <2>2 DEF Abandoned
<1>3. CASE CreateChild
  <2>1. /\ pc \notin Unscored /\ pc' = "work" /\ crashes' = crashes
        /\ Len(nodes') = Len(nodes) + 1 /\ mem'.child = Len(nodes')
        /\ \A n \in Node : nodes'[n] = nodes[n]
    BY <1>0, <1>3, Creation DEF CreateChild, Unscored, MemTyped, MemType
  <2>2. \A n \in Node' : n \in Node \/ n = Len(nodes')
    BY <1>0, <2>1 DEF Node
  <2>3. pc' \in Unscored
    BY <2>1 DEF Unscored
  <2>4. QED
    BY <2>1, <2>2, <2>3 DEF Abandoned
<1>4. CASE SaveResult
  <2>1. pc \in Unscored /\ pc' \notin Unscored /\ crashes' = crashes
    BY <1>4 DEF SaveResult, Unscored
  <2>2. /\ mem.child \in Node /\ Len(nodes') = Len(nodes)
        /\ \A n \in Node \ {mem.child} : nodes'[n] = nodes[n]
    BY <1>4, <2>1, Update, ChildIsNode DEF SaveResult, Backup, Created
  <2>3. nodes'[mem.child].status \in {"done", "buggy"}
    <3> DEFINE c == mem.child
               r == [nodes[c] EXCEPT !.metric = IF mem.metric = NaN THEN None ELSE mem.metric,
                                     !.status = IF mem.metric = None THEN "buggy" ELSE "done"]
    <3>1. r \in NodeRec /\ nodes' = [nodes EXCEPT ![c] = r] /\ nodes[c] \in NodeRec
      BY <1>0, <1>4, <2>2, ResultRow DEF NodesTyped, Node
    <3>2. r.status \in {"done", "buggy"}
      BY <3>1 DEF NodeRec
    <3>3. nodes'[c] = r
      <4> HIDE DEF r
      <4>1. QED
        BY <1>0, <2>2, <3>1 DEF NodesTyped, Node
    <3>4. QED
      BY <3>2, <3>3
  <2>4. QED
    BY <2>1, <2>2, <2>3 DEF Abandoned, Node
<1>5. CASE ~CreateRoot /\ ~CreateChild /\ ~SaveResult /\ ~Crash /\ ~BackupFails
  <2>1. Node' = Node /\ crashes' = crashes
    <3>1. Len(nodes') = Len(nodes)
      BY <1>5, NodeWriters, Update
    <3>2. crashes' = crashes
      BY <1>5, StepKinds, PlainSteps DEF Boot, SetRoot, WriteRecord
    <3>3. QED
      BY <3>1, <3>2 DEF Node
  <2>2. CASE pc' \in Unscored
    <3>1. pc \in Unscored /\ pc \in Created /\ mem'.child = mem.child
      BY <1>5, <2>2, InHand DEF Created
    <3>2. \A n \in Node : n # mem.child => nodes'[n].status = nodes[n].status
      BY RowsKept
    <3>3. QED
      BY <2>1, <2>2, <3>1, <3>2 DEF Abandoned
  <2>3. CASE pc' \notin Unscored
    <3>1. pc \notin Unscored
      BY <1>5, <2>3 DEF Next, Resume, Selection, Work, Scoring, Boot, SetRoot, SetFirstBest,
         Load, Iterate, Descend, Decide, ClearFlag, Patch, Outcome, SaveLastMetric, SaveStreak,
         SaveFlag, SaveLow, SaveHigh, ResetStreak, Backup, SaveBest, SaveSince, WriteRecord,
         Finish, Spend, Unscored
    <3>2. \A n \in Node : nodes'[n].status = nodes[n].status
      <4>1. ~(\E s \in {"codegen_done", "patched"} : Patch(s))
        BY <3>1 DEF Patch, Unscored
      <4>2. UNCHANGED nodes \/ Backup
        BY <1>5, <4>1, NodeWriters
      <4>3. QED
        BY <4>2, Update
    <3>3. QED
      BY <2>1, <2>3, <3>1, <3>2 DEF Abandoned
  <2>4. QED
    BY <2>1, <2>2, <2>3
<1>6. QED
  BY <1>1, <1>2, <1>3, <1>4, <1>5

\* There are no more of them than controllers have ended.
Few == IsFiniteSet(Abandoned) /\ Cardinality(Abandoned) <= crashes

\* No step abandons more nodes than it ends controllers.
LEMMA StepFew == ASSUME IInv, Few, [Next]_vars PROVE Few'
<1>0. crashes \in Nat /\ IsFiniteSet(Abandoned) /\ Cardinality(Abandoned) \in Nat
  BY FS_CardinalityType, TypeParts, Bounds DEF IInv, Few, RestTyped
<1>1. ASSUME Abandoned' \subseteq Abandoned, crashes' = crashes PROVE Few'
  BY <1>0, <1>1, FS_Subset, FS_CardinalityType DEF Few
<1>2. ASSUME Abandoned' \subseteq Abandoned \cup {mem.child}, crashes' = crashes + 1
      PROVE  Few'
  <2>1. /\ IsFiniteSet(Abandoned \cup {mem.child})
        /\ Cardinality(Abandoned \cup {mem.child}) <= crashes + 1
    BY <1>0, FS_AddElement DEF Few
  <2>2. /\ IsFiniteSet(Abandoned')
        /\ Cardinality(Abandoned') <= Cardinality(Abandoned \cup {mem.child})
    BY <1>2, <2>1, FS_Subset
  <2>3. Cardinality(Abandoned') \in Nat /\ Cardinality(Abandoned \cup {mem.child}) \in Nat
    BY <2>1, <2>2, FS_CardinalityType
  <2>4. QED
    BY <1>0, <1>2, <2>1, <2>2, <2>3 DEF Few
<1>3. CASE UNCHANGED vars
  BY <1>3 DEF vars, disk, Few, Abandoned, Node
<1>4. QED
  BY <1>1, <1>2, <1>3, StepAbandons

\* Each end of a controller leaves at most one node without a result: the status of all
\* others says how their iteration came out, however the run was interrupted.
THEOREM FewAbandoned == Spec => []Few
<1>1. Init => Few
  <2> SUFFICES ASSUME Init PROVE Few
    OBVIOUS
  <2>1. Abandoned = {} /\ crashes = 0
    BY DEF Init, Abandoned, Node
  <2>2. QED
    BY <2>1, FS_EmptySet DEF Few
<1>2. IInv /\ Few /\ [Next]_vars => Few'
  BY StepFew
<1>3. QED
  BY <1>1, <1>2, SearchInvariance, PTL DEF Spec

\* "Improve (valid nodes)" is true as long as no controller has died: what
\* OnlyValidImproved says then holds.
THEOREM UninterruptedImproves ==
  Spec => [][crashes = 0 /\ pc = "decide" /\ pc' = "create" /\ mem'.action = "improve"
               => nodes[Parent].status = "done"]_vars
<1>1. ASSUME IInv, Few, Next, crashes = 0, pc = "decide", pc' = "create",
             mem'.action = "improve"
      PROVE  nodes[Parent].status = "done"
  <2>1. MemTyped /\ NodesTyped /\ Chosen /\ pc \in Begun
    BY <1>1, TypeParts DEF IInv, Begun
  <2>2. Parent \in Node /\ nodes[Parent].status # "buggy"
    BY <1>1, <2>1, ParentIsNode DEF Chosen
  <2>3. Abandoned = {}
    BY <1>1, FS_EmptySet, FS_CardinalityType DEF Few
  <2>4. pc \notin Unscored
    BY <1>1 DEF Unscored
  <2>5. QED
    BY <2>2, <2>3, <2>4 DEF Abandoned
<1>2. IInv /\ Few /\ [Next]_vars =>
        [crashes = 0 /\ pc = "decide" /\ pc' = "create" /\ mem'.action = "improve"
           => nodes[Parent].status = "done"]_vars
  BY <1>1
<1>3. QED
  BY <1>2, SearchInvariance, FewAbandoned, PTL DEF Spec

-----------------------------------------------------------------------------
(* The descent.                                                            *)

\* Each round of the selection goes on to a newer node: it visits none twice, and ends
\* after as many rounds as there are nodes.
THEOREM DescentEnds ==
  Spec => [][pc = "descend" /\ pc' = "descend" /\ mem' # mem
               => Parent < Parent' /\ Parent' <= Len(nodes)]_vars
<1>1. ASSUME IInv, Next, pc = "descend", pc' = "descend", mem' # mem
      PROVE  Parent < Parent' /\ Parent' <= Len(nodes)
  <2>1. /\ MemTyped /\ NodesTyped /\ Chosen /\ pc \in Begun /\ Len(nodes) \in Nat
        /\ mem.path \in Seq(Node) /\ mem.path # <<>>
    BY <1>1, TypeParts DEF IInv, Begun, NodesTyped, MemTyped, MemType, Chosen
  <2>2. Descend
    BY <1>1 DEF Next, Resume, Selection, Work, Scoring, Boot, CreateRoot, SetRoot, SetFirstBest,
       Load, Iterate, Decide, ClearFlag, CreateChild, Patch, Outcome, SaveLastMetric,
       SaveStreak, SaveFlag, SaveLow, SaveHigh, ResetStreak, SaveResult, Backup, BackupFails,
       SaveBest, SaveSince, WriteRecord, Finish, Crash, Spend
  <2>3. PICK c \in Preferred(Parent) : mem' = [mem EXCEPT !.path = Append(@, c)]
    BY <1>1, <2>2 DEF Descend, Parent
  <2>4. c \in Node /\ nodes[c].parent = Parent
    BY <2>1, <2>3, PreferredIsChild DEF Children
  <2>5. Parent' = c
    <3>1. mem'.path = Append(mem.path, c)
      BY <2>1, <2>3 DEF MemTyped, MemType
    <3>2. Len(Append(mem.path, c)) = Len(mem.path) + 1 /\ Len(mem.path) \in Nat
      BY <2>1
    <3>3. Append(mem.path, c)[Len(mem.path) + 1] = c
      BY <2>1
    <3>4. QED
      BY <3>1, <3>2, <3>3 DEF Parent
  <2>6. nodes[c].parent \in 0 .. c - 1 /\ c \in 1 .. Len(nodes)
    BY <2>1, <2>4 DEF NodesTyped, Node
  <2>7. QED
    BY <2>1, <2>4, <2>5, <2>6
<1>2. IInv /\ [Next]_vars =>
        [pc = "descend" /\ pc' = "descend" /\ mem' # mem
           => Parent < Parent' /\ Parent' <= Len(nodes)]_vars
  BY <1>1
<1>3. QED
  BY <1>2, SearchInvariance, PTL DEF Spec

=============================================================================
