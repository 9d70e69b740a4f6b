--------------------------- MODULE IterationProofs ---------------------------
(***************************************************************************)
(* Theorems about Iteration, for any metrics, any number of modules and    *)
(* attempts, and any budget.                                               *)
(***************************************************************************)
EXTENDS Iteration, TLAPS

\* Up to the first run nothing has been measured, and each patch that may still be
\* asked for has its place in the count of versions.
Unrun ==
  /\ pc \in {"idea", "plan", "create", "patch", "check"} =>
       /\ attempts = 0 /\ measured = 0 /\ result = NoResult
       /\ applied => version > 0
  /\ pc \in {"idea", "plan", "create"} => version = 0 /\ todo > 0
  /\ pc = "patch" => todo > 0 /\ version + todo <= MaxModules + 1

\* Each attempt at debugging adds one version at most.
Counted ==
  /\ version <= MaxModules + 1 + attempts
  /\ pc = "fix" => attempts > 0 /\ version < MaxModules + 1 + attempts

\* What was measured last is the present version, wherever there is a result.
Measured ==
  /\ pc = "exec" => measured = version /\ version > 0
  /\ pc # "end" /\ result.metric # None => measured = version /\ version > 0

IInv == TypeOK /\ Unrun /\ Counted /\ Measured

\* An iteration begins with nothing patched and nothing run.
LEMMA InitIInv == Init => IInv
<1> SUFFICES ASSUME Init PROVE IInv
  OBVIOUS
<1> USE IterationAssumption DEF Init, PC, None, NoResult
<1>1. TypeOK
  <2>1. result \in [exit : {-1, 0, 1}, metric : Metric \cup {None}]
    OBVIOUS
  <2>2. pc \in PC /\ action \in {"draft", "improve", "debug"} /\ status = "none"
    OBVIOUS
  <2>3. todo \in 0 .. MaxModules + 1 /\ version \in 0 .. MaxModules + 1 + MaxDebug
    OBVIOUS
  <2>4. attempts \in 0 .. MaxDebug /\ {remaining, budget} \subseteq 0 .. Budget
    OBVIOUS
  <2>5. timeout \in 0 .. PerRun /\ measured \in 0 .. version
    OBVIOUS
  <2>6. applied \in BOOLEAN /\ failed \in BOOLEAN /\ exhausted \in BOOLEAN
    OBVIOUS
  <2>7. QED
    BY <2>1, <2>2, <2>3, <2>4, <2>5, <2>6 DEF TypeOK
<1>2. Unrun /\ Counted /\ Measured
  BY DEF Unrun, Counted, Measured
<1>3. QED
  BY <1>1, <1>2 DEF IInv

\* The idea, the plan and the patches lead up to the first run.
LEMMA PatchingKeepsIInv ==
  ASSUME IInv,
         \/ Idea \/ (\E k \in 0 .. MaxModules : Plan(k)) \/ CreateNode
         \/ \E o \in {"missing", "applied", "rejected"} : Patch(o)
  PROVE  IInv'
<1> USE IterationAssumption DEF IInv, TypeOK, PC, None, Unrun, Counted, Measured, NoResult,
        patching
<1>1. CASE Idea
  BY <1>1 DEF Idea
<1>2. ASSUME NEW k \in 0 .. MaxModules, Plan(k) PROVE IInv'
  BY <1>2 DEF Plan
<1>3. CASE CreateNode
  BY <1>3 DEF CreateNode
<1>4. ASSUME NEW o \in {"missing", "applied", "rejected"}, Patch(o) PROVE IInv'
  <2> USE <1>4 DEF Patch
  <2>1. TypeOK'
    BY DEF Patch
  <2>2. Unrun' /\ Counted' /\ Measured'
    BY DEF Patch
  <2>3. QED
    BY <2>1, <2>2
<1>5. QED
  BY <1>1, <1>2, <1>3, <1>4

\* Runs, fixes and the review: the version that is run is the one that is kept.
LEMMA RunningKeepsIInv ==
  ASSUME IInv,
         \/ Check \/ (\E r \in [exit : {-1, 0, 1}, metric : Metric \cup {None}] : RunEnds(r))
         \/ Debug \/ FixMissing \/ FixRejected \/ Fix
         \/ \E m \in Metric \cup {None} : Review(m)
  PROVE  IInv'
<1> USE IterationAssumption DEF IInv, TypeOK, PC, None, Unrun, Counted, Measured, NoResult,
        patching
<1>1. CASE Check
  <2> USE <1>1
  <2>1. CASE failed \/ ~applied
    BY <2>1 DEF Check
  <2>2. CASE ~failed /\ applied /\ budget = 0
    <3> USE <2>2 DEF Check
    <3>a. ~(budget > 0)
      OBVIOUS
    <3>b. exhausted'
      BY ONLY <3>a, <2>2, Check, Zenon DEF Check
    <3>c. pc' = "debug" /\ remaining' = 0 /\ result' = NoResult
      OBVIOUS
    <3>1. exhausted' \in BOOLEAN /\ pc' = "debug" /\ remaining' = 0 /\ result' = NoResult
      BY ONLY <3>b, <3>c, Check, <2>2, <3>a, Zenon DEF Check
    <3>2. UNCHANGED <<timeout, measured, action, patching, attempts, budget>>
      OBVIOUS
    <3>3. QED
      BY ONLY <3>1, <3>2, IInv, <2>2, pc = "check", IterationAssumption
         DEF IInv, TypeOK, PC, None, Unrun, Counted, Measured, NoResult, patching
  <2>3. CASE ~failed /\ applied /\ budget > 0
    BY <2>3 DEF Check, Run, Lesser
  <2>4. QED
    BY <2>1, <2>2, <2>3
<1>2. ASSUME NEW r \in [exit : {-1, 0, 1}, metric : Metric \cup {None}], RunEnds(r)
      PROVE  IInv'
  BY <1>2 DEF RunEnds
<1>3. CASE Debug
  <2> USE <1>3
  <2>1. CASE exhausted \/ Succeeded \/ attempts = MaxDebug
    BY <2>1 DEF Debug
  <2>2. CASE ~exhausted /\ ~Succeeded /\ attempts < MaxDebug
    <3> USE <2>2 DEF Debug
    <3>1. exhausted' \in BOOLEAN
      BY Zenon
    <3>2. /\ pc = "debug" /\ pc' \in {"review", "fix"}
          /\ attempts' = attempts + 1 /\ remaining' = budget
          /\ UNCHANGED <<action, patching, result, timeout, budget, measured>>
      OBVIOUS
    <3>3. QED
      BY ONLY <3>1, <3>2, <2>2, IInv, IterationAssumption
         DEF IInv, TypeOK, PC, None, Unrun, Counted, Measured, NoResult, patching
  <2>3. QED
    BY <2>1, <2>2
<1>4. CASE FixMissing
  BY <1>4 DEF FixMissing
<1>5. CASE FixRejected
  BY <1>5 DEF FixRejected
<1>6. CASE Fix
  BY <1>6 DEF Fix, Run, Lesser
<1>7. ASSUME NEW m \in Metric \cup {None}, Review(m) PROVE IInv'
  BY <1>7 DEF Review
<1>8. QED
  BY <1>1, <1>2, <1>3, <1>4, <1>5, <1>6, <1>7

\* Every step preserves the inductive invariant.
LEMMA NextIInv == IInv /\ [Next]_vars => IInv'
<1> SUFFICES ASSUME IInv, [Next]_vars PROVE IInv'
  OBVIOUS
<1>1. CASE Work
  BY <1>1, PatchingKeepsIInv, RunningKeepsIInv DEF Work
<1>2. CASE Tick
  BY <1>2, IterationAssumption DEF Tick, Less, IInv, TypeOK, PC, None, Unrun, Counted,
     Measured, NoResult, patching
<1>3. CASE UNCHANGED vars
  BY <1>3 DEF vars, patching, IInv, TypeOK, PC, None, Unrun, Counted, Measured, NoResult
<1>4. QED
  BY <1>1, <1>2, <1>3 DEF Next

\* The inductive invariant holds throughout an iteration.
THEOREM Invariance == Spec => []IInv
  BY InitIInv, NextIInv, PTL DEF Spec

\* Every variable of the iteration keeps its type: in particular the versions never
\* outnumber the patches that may be asked for.
THEOREM Typing == Spec => []TypeOK
<1>1. IInv => TypeOK
  BY DEF IInv
<1>2. QED
  BY <1>1, Invariance, PTL

\* The metric that reaches the score was measured on the code the node keeps.
THEOREM MetricOfFinalCode == Spec => []MetricMatchesCode
<1>1. IInv => MetricMatchesCode
  BY DEF IInv, Measured, MetricMatchesCode
<1>2. QED
  BY <1>1, Invariance, PTL

\* Nothing is run twice, and nothing is run that no patch has changed.
THEOREM RunsAreNew == Spec => RunsOnlyNewCode
<1>1. ASSUME IInv, [Next]_vars PROVE [pc # "exec" /\ pc' = "exec" => measured' > measured]_vars
  <2> SUFFICES ASSUME Next, pc # "exec", pc' = "exec" PROVE measured' > measured
    BY <1>1
  <2>1. Check \/ Fix
    BY DEF Next, Work, Tick, Idea, Plan, CreateNode, Patch, RunEnds, Debug, FixMissing,
       FixRejected, Review
  <2>2. CASE Check
    BY <1>1, <2>2 DEF Check, Run, IInv, TypeOK, Unrun
  <2>3. CASE Fix
    BY <1>1, <2>3, IterationAssumption DEF Fix, Run, IInv, TypeOK
  <2>4. QED
    BY <2>1, <2>2, <2>3
<1>2. QED
  BY <1>1, Invariance, PTL DEF Spec, RunsOnlyNewCode
-----------------------------------------------------------------------------
(* How long an iteration can get.                                          *)

\* What an attempt at debugging, the patches and the plan can still add to the steps
\* of the iteration, not counting the time that passes.
AttemptsLeft == 3 * (MaxDebug - attempts)

StepsLeft ==
  CASE pc = "idea"   -> AttemptsLeft + MaxModules + 8
    [] pc = "plan"   -> AttemptsLeft + MaxModules + 7
    [] pc = "create" -> AttemptsLeft + todo + 5
    [] pc = "patch"  -> AttemptsLeft + todo + 4
    [] pc = "check"  -> AttemptsLeft + 4
    [] pc = "fix"    -> AttemptsLeft + 4
    [] pc = "exec"   -> AttemptsLeft + 3
    [] pc = "debug"  -> AttemptsLeft + 2
    [] pc = "review" -> 1
    [] pc = "end"    -> 0

MostSteps == 3 * MaxDebug + MaxModules + 8

\* The steps left are counted by a number that no state exceeds.
LEMMA StepsLeftBounded == IInv => StepsLeft \in 0 .. MostSteps
<1> SUFFICES ASSUME IInv PROVE StepsLeft \in 0 .. MostSteps
  OBVIOUS
<1>1. /\ pc \in PC /\ attempts \in 0 .. MaxDebug /\ todo \in 0 .. MaxModules + 1
      /\ MaxDebug \in Nat /\ MaxModules \in Nat
  BY IterationAssumption DEF IInv, TypeOK
<1>2. PICK d \in Nat : d = MaxDebug - attempts
  BY <1>1
<1>3. AttemptsLeft = 3 * d /\ d \in 0 .. MaxDebug
  BY <1>1, <1>2 DEF AttemptsLeft
<1>4. 3 * d \in 0 .. 3 * MaxDebug /\ 3 * MaxDebug \in Nat
  BY <1>1, <1>3
<1>5. AttemptsLeft \in 0 .. 3 * MaxDebug
  BY <1>3, <1>4
<1>6. PICK a \in Nat, m \in Nat : a = AttemptsLeft /\ m = 3 * MaxDebug /\ a <= m
  BY <1>4, <1>5
<1>7. /\ MostSteps = m + MaxModules + 8
      /\ StepsLeft \in {a + MaxModules + 8, a + MaxModules + 7, a + todo + 5, a + todo + 4,
                        a + 4, a + 3, a + 2, 1, 0}
  BY ONLY <1>1, <1>6 DEF StepsLeft, MostSteps, PC
<1>8. QED
  BY ONLY <1>1, <1>6, <1>7

\* Each step of the iteration uses one of those that are left.
LEMMA WorkUsesSteps ==
  ASSUME IInv, Work
  PROVE  StepsLeft' < StepsLeft /\ budget' = budget
<1>1. /\ pc \in PC /\ attempts \in 0 .. MaxDebug /\ todo \in 0 .. MaxModules + 1
      /\ MaxDebug \in Nat /\ MaxModules \in Nat /\ (pc = "patch" => todo > 0)
  BY IterationAssumption DEF IInv, TypeOK, Unrun
<1> USE <1>1 DEF StepsLeft, AttemptsLeft, patching
<1>2. CASE Idea
  BY <1>2 DEF Idea
<1>3. ASSUME NEW k \in 0 .. MaxModules, Plan(k) PROVE StepsLeft' < StepsLeft /\ budget' = budget
  BY <1>3 DEF Plan
<1>4. CASE CreateNode
  BY <1>4 DEF CreateNode
<1>5. ASSUME NEW o \in {"missing", "applied", "rejected"}, Patch(o)
      PROVE  StepsLeft' < StepsLeft /\ budget' = budget
  BY <1>5 DEF Patch
<1>6. CASE Check
  BY <1>6 DEF Check, Run
<1>7. ASSUME NEW r \in [exit : {-1, 0, 1}, metric : Metric \cup {None}], RunEnds(r)
      PROVE  StepsLeft' < StepsLeft /\ budget' = budget
  BY <1>7 DEF RunEnds
<1>8. CASE Debug
  BY <1>8 DEF Debug
<1>9. CASE FixMissing \/ FixRejected
  BY <1>9 DEF FixMissing, FixRejected
<1>10. CASE Fix
  BY <1>10 DEF Fix, Run
<1>11. ASSUME NEW m \in Metric \cup {None}, Review(m)
       PROVE  StepsLeft' < StepsLeft /\ budget' = budget
  BY <1>11 DEF Review
<1>12. QED
  BY Work, <1>2, <1>3, <1>4, <1>5, <1>6, <1>7, <1>8, <1>9, <1>10, <1>11 DEF Work

\* A step is made of those that are left, or of the time that is left.
LEMMA SumFalls ==
  ASSUME NEW s \in Int, NEW b \in Int, NEW t \in Int, NEW c \in Int,
         (t < s /\ c = b) \/ (t = s /\ c = b - 1)
  PROVE  t + c < s + b
OBVIOUS

\* No iteration goes on for ever, whatever the plan, the patches and the runs come to:
\* each step leaves fewer steps to be made, out of a number fixed by the settings of
\* the run, and time can pass only while there is budget left.  IterationEnds needs
\* besides that the steps are made.
THEOREM IterationIsBounded ==
  Spec => /\ [](StepsLeft + budget \in 0 .. MostSteps + Budget)
          /\ [][StepsLeft' + budget' < StepsLeft + budget]_vars
<1>1. IInv => StepsLeft + budget \in 0 .. MostSteps + Budget
  <2> SUFFICES ASSUME IInv PROVE StepsLeft + budget \in 0 .. MostSteps + Budget
    OBVIOUS
  <2>1. budget \in 0 .. Budget /\ Budget \in Nat /\ MostSteps \in Nat
    BY IterationAssumption DEF IInv, TypeOK, MostSteps
  <2>2. QED
    BY <2>1, StepsLeftBounded
<1>2. ASSUME IInv, Next,
             StepsLeft \in 0 .. MostSteps, (StepsLeft \in 0 .. MostSteps)', (IInv)'
      PROVE  StepsLeft' + budget' < StepsLeft + budget
  <2>1. /\ StepsLeft \in Int /\ StepsLeft' \in Int
        /\ budget \in Int /\ budget' \in Int
    BY <1>2 DEF IInv, TypeOK
  <2>2. CASE Work
    <3>1. StepsLeft' < StepsLeft /\ budget' = budget
      BY <1>2, <2>2, WorkUsesSteps
    <3>2. QED
      BY <2>1, <3>1, SumFalls, Zenon
  <2>3. CASE Tick
    <3>1. StepsLeft' = StepsLeft /\ budget' = budget - 1
      BY <2>3 DEF Tick, StepsLeft, AttemptsLeft, patching
    <3>2. QED
      BY <2>1, <3>1, SumFalls, Zenon
  <2>4. QED
    BY <1>2, <2>2, <2>3 DEF Next
<1>3. /\ IInv /\ [Next]_vars /\ IInv'
      /\ StepsLeft \in 0 .. MostSteps /\ (StepsLeft \in 0 .. MostSteps)'
      => [StepsLeft' + budget' < StepsLeft + budget]_vars
  BY <1>2
<1>4. QED
  BY <1>1, <1>3, StepsLeftBounded, Invariance, PTL DEF Spec

=============================================================================
