----------------------------- MODULE PatchProofs -----------------------------
(***************************************************************************)
(* Theorems about Patch, for every answer: computing the counts of hunk    *)
(* headers anew keeps the content of a diff, the counts are those that git *)
(* finds, with git a diff is applied as a whole or not at all, and a clean *)
(* diff is found in its answer and taken, whatever its headers say.        *)
(***************************************************************************)
EXTENDS Patch, FiniteSetTheorems, SequenceTheorems,
        WellFoundedInduction, TLAPS

-----------------------------------------------------------------------------
(* The smallest and the largest member of a set of positions.              *)

\* A set of numbers that is not empty has a smallest member, and Min is it.
LEMMA MinOfNats ==
  ASSUME NEW S \in SUBSET Nat, S # {}
  PROVE  Min(S) \in S /\ \A x \in S : Min(S) <= x
<1>1. PICK x \in S : \A y \in S : ~(<<y, x>> \in OpToRel(<, Nat))
  BY NatLessThanWellFounded, WFMin
<1>2. \A y \in S : ~(y < x)
  <2> TAKE y \in S
  <2>1. <<y, x>> \in Nat \X Nat /\ <<y, x>>[1] = y /\ <<y, x>>[2] = x
    OBVIOUS
  <2>2. y < x => <<y, x>> \in OpToRel(<, Nat)
    BY <2>1 DEF OpToRel
  <2>3. QED
    BY <1>1, <2>2
<1>3. \A y \in S : x <= y
  BY <1>2
<1>4. QED
  BY <1>3 DEF Min

\* A set of positions that is not empty has a largest member, and Max is it.
LEMMA MaxOfPositions ==
  ASSUME NEW n \in Nat, NEW S \in SUBSET (1 .. n), S # {}
  PROVE  Max(S) \in S /\ \A x \in S : Max(S) >= x
<1> DEFINE T == {n - x : x \in S}
<1>1. T \in SUBSET Nat /\ T # {}
  <2>1. \A x \in S : n - x \in Nat
    OBVIOUS
  <2>2. PICK x \in S : TRUE
    OBVIOUS
  <2>3. n - x \in T
    OBVIOUS
  <2>4. QED
    BY <2>1, <2>3
<1>2. Min(T) \in T /\ \A y \in T : Min(T) <= y
  BY <1>1, MinOfNats
<1>3. PICK x \in S : Min(T) = n - x
  BY <1>2
<1>4. \A y \in S : n - x <= n - y
  BY <1>2, <1>3
<1>5. \A y \in S : x >= y
  BY <1>4
<1>6. QED
  BY <1>5 DEF Max

-----------------------------------------------------------------------------
(* Extraction returns a sequence of lines.                                 *)

\* str.strip() leaves a sequence of lines.
LEMMA StripIsLines == ASSUME NEW s \in Seq(Line) PROVE Strip(s) \in Seq(Line)
<1> DEFINE solid == {p \in DOMAIN s : s[p].kind \notin {"bare", "space"}}
<1>1. CASE solid = {}
  BY <1>1 DEF Strip
<1>2. CASE solid # {}
  <2>1. /\ solid \in SUBSET (1 .. Len(s)) /\ solid \in SUBSET Nat
        /\ Len(s) \in Nat /\ \A p \in 1 .. Len(s) : s[p] \in Line
    OBVIOUS
  <2>2. Min(solid) \in solid
    BY <1>2, <2>1, MinOfNats
  <2>3. Max(solid) \in solid
    <3> HIDE DEF solid
    <3>1. QED
      BY <1>2, <2>1, MaxOfPositions
  <2>4. SubSeq(s, Min(solid), Max(solid)) \in Seq(Line)
    <3> HIDE DEF solid
    <3>1. Min(solid) \in 1 .. Len(s) /\ Max(solid) \in 1 .. Len(s)
      BY <2>1, <2>2, <2>3
    <3>2. QED
      BY <3>1
  <2>5. QED
    BY <1>2, <2>4 DEF Strip
<1>3. QED
  BY <1>1, <1>2

\* What it takes within lines leaves their number, their kinds but for a first line of
\* context, and the lines themselves but for blanks at the end of the last one.
LEMMA TrimKeeps ==
  ASSUME NEW s \in Seq(Line)
  PROVE  /\ Trim(s) \in Seq(Line) /\ Len(Trim(s)) = Len(s)
         /\ \A p \in 1 .. Len(s) :
              /\ Trim(s)[p].kind = s[p].kind \/ Trim(s)[p].kind = "text"
              /\ p # 1 \/ s[p].kind # "ctx" =>
                   \/ Trim(s)[p] = s[p]
                   \/ p = Len(s) /\ Trim(s)[p] = Trimmed(s[p])
<1>1. PICK n \in Nat : n = Len(s) /\ DOMAIN s = 1 .. n
  OBVIOUS
<1>2. \A p \in 1 .. n : s[p] \in Line
  BY <1>1
<1>3. Trim(s) = [p \in 1 .. n |-> Trim(s)[p]]
  BY <1>1 DEF Trim
<1>4. ASSUME NEW p \in 1 .. n
      PROVE  /\ Trim(s)[p] \in Line
             /\ Trim(s)[p].kind = s[p].kind \/ Trim(s)[p].kind = "text"
             /\ p # 1 \/ s[p].kind # "ctx" =>
                  \/ Trim(s)[p] = s[p]
                  \/ p = n /\ Trim(s)[p] = Trimmed(s[p])
  <2>1. PICK l \in Line : l = s[p]
    BY <1>2
  <2>2. Trim(s)[p] = [kind |-> IF p = 1 /\ l.kind = "ctx" THEN "text" ELSE l.kind,
                      old |-> l.old, new |-> l.new, blank |-> l.blank /\ p # n]
    BY <1>1, <2>1 DEF Trim
  <2>3. /\ l = [kind |-> l.kind, old |-> l.old, new |-> l.new, blank |-> l.blank]
        /\ l.kind \in Kind /\ l.old \in Nat /\ l.new \in Nat /\ l.blank \in BOOLEAN
    BY DEF Line
  <2>4. Trimmed(l) = [kind |-> l.kind, old |-> l.old, new |-> l.new, blank |-> FALSE]
    BY DEF Trimmed
  <2>5. "text" \in Kind
    BY DEF Kind
  <2>6. Trim(s)[p] \in Line
    BY <2>2, <2>3, <2>5 DEF Line
  <2>7. ASSUME p # 1 \/ l.kind # "ctx"
        PROVE  Trim(s)[p] = l \/ (p = n /\ Trim(s)[p] = Trimmed(l))
    <3>1. CASE p # n
      BY <2>2, <2>3, <2>7, <3>1
    <3>2. CASE p = n
      BY <2>2, <2>4, <2>7, <3>2
    <3>3. QED
      BY <3>1, <3>2
  <2>8. Trim(s)[p].kind = l.kind \/ Trim(s)[p].kind = "text"
    BY <2>2
  <2>9. QED
    BY <2>1, <2>6, <2>7, <2>8
<1>5. Trim(s) \in Seq(Line) /\ Len(Trim(s)) = n
  <2>1. Trim(s) \in [1 .. n -> Line]
    BY <1>3, <1>4
  <2>2. QED
    BY <2>1
<1>6. QED
  BY <1>1, <1>4, <1>5

\* So does the removal of a fence around the answer.
LEMMA StripFenceIsLines == ASSUME NEW s \in Seq(Line) PROVE StripFence(s) \in Seq(Line)
<1> DEFINE t == Strip(s)
           u == IF t # <<>> /\ t[1].kind \in {"fence", "dfence", "lang"} THEN Tail(t) ELSE t
           v == IF u # t /\ IsKind(u, Len(u), "fence") THEN SubSeq(u, 1, Len(u) - 1) ELSE u
<1>1. t \in Seq(Line)
  BY StripIsLines
<1>2. u \in Seq(Line)
  BY <1>1
<1>3. v \in Seq(Line)
  <2>1. IsKind(u, Len(u), "fence") => SubSeq(u, 1, Len(u) - 1) \in Seq(Line)
    BY <1>2 DEF IsKind
  <2>2. QED
    BY <1>2, <2>1
<1>4. Trim(Strip(v)) \in Seq(Line)
  BY <1>3, StripIsLines, TrimKeeps
<1>5. QED
  BY <1>4 DEF StripFence

\* So does cutting a fenced block out of the answer.
LEMMA BlockIsLines ==
  ASSUME text \in Seq(Line), NEW p \in Nat \ {0}, HasBlock(p)
  PROVE  /\ Block(p) \in Seq(Line)
         /\ Min(BlockEnds(p)) \in p .. Len(text)
<1> DEFINE a == BlockStart(p)
           b == Min(BlockEnds(p))
<1>1. a \in p .. Len(text)
  <2>1. At(text, p, Len(text), Opening) \in SUBSET Nat
    BY DEF At
  <2>2. QED
    BY <2>1, MinOfNats DEF HasBlock, BlockStart, At
<1>2. b \in a + 1 .. Len(text)
  <2>1. BlockEnds(p) \in SUBSET Nat
    BY <1>1 DEF BlockEnds, At
  <2>2. QED
    BY <2>1, MinOfNats DEF HasBlock, BlockEnds, At
<1>3. SubSeq(text, a + 1, b - 1) \in Seq(Line)
  BY <1>1, <1>2
<1>4. Remains(text, b) \in Seq(Line)
  <2>1. Plain("add") \in Line
    BY DEF Plain, Line, Kind
  <2>2. QED
    BY <2>1 DEF Remains
<1>5. QED
  BY <1>1, <1>2, <1>3, <1>4 DEF Block

-----------------------------------------------------------------------------
(* The inductive invariant of the normaliser.                              *)

Shape ==
  /\ text \in Seq(Line) /\ lines \in Seq(Line) /\ out \in Seq(Line)
  /\ scan \in Nat \ {0} /\ i \in 1 .. Len(lines) + 1
  /\ pc = "extract" => out = <<>> /\ i = 1

\* A header is written together with its body, with the counts of that body.
Exact ==
  \A h \in 1 .. Len(out) :
    out[h].kind = "hunk" => out[h] = Recounted(lines, h) /\ BodyEnd(lines, h) <= i

PInv == Shape /\ OnlyCountsChange /\ Exact

\* The inner loop stops behind the header, at the first line that ends the hunk.
LEMMA BodyEndRange ==
  ASSUME NEW s \in Seq(Line), NEW h \in 1 .. Len(s)
  PROVE  /\ BodyEnd(s, h) \in h + 1 .. Len(s) + 1
         /\ \A p \in h + 1 .. BodyEnd(s, h) - 1 : ~Stops(s, p)
         /\ BodyEnd(s, h) <= Len(s) => Stops(s, BodyEnd(s, h))
<1> DEFINE S == {j \in h + 1 .. Len(s) : Stops(s, j)} \union {Len(s) + 1}
<1>1. S \in SUBSET Nat /\ S # {}
  OBVIOUS
<1>2. Min(S) \in S /\ \A x \in S : Min(S) <= x
  BY <1>1, MinOfNats
<1>3. Min(S) \in h + 1 .. Len(s) + 1
  BY <1>2
<1>4. ASSUME NEW p \in h + 1 .. Min(S) - 1, Stops(s, p) PROVE FALSE
  <2>1. p \in S
    BY <1>3, <1>4
  <2>2. QED
    BY <1>2, <1>3, <2>1
<1>5. Min(S) <= Len(s) => Stops(s, Min(S))
  BY <1>2
<1>6. QED
  BY <1>3, <1>4, <1>5 DEF BodyEnd

LEMMA BodyEndIsNat ==
  ASSUME NEW s \in Seq(Line), NEW h \in 1 .. Len(s)
  PROVE  BodyEnd(s, h) \in Nat
<1>1. BodyEnd(s, h) \in h + 1 .. Len(s) + 1
  BY BodyEndRange
<1> HIDE DEF BodyEnd
<1>2. QED
  BY <1>1

\* A header that is computed anew is a line: its counts are natural numbers.
LEMMA RecountedIsLine ==
  ASSUME NEW s \in Seq(Line), NEW h \in 1 .. Len(s)
  PROVE  /\ Recounted(s, h) \in Line /\ Recounted(s, h).kind = "hunk"
         /\ Recounted(s, h).blank = s[h].blank
<1> DEFINE b == BodyEnd(s, h) - 1
<1>1. b \in Nat
  BY BodyEndRange
<1>2. ASSUME NEW K PROVE Cardinality(At(s, h + 1, b, K)) \in Nat
  <2>1. IsFiniteSet(h + 1 .. b)
    BY <1>1, FS_Interval
  <2>2. At(s, h + 1, b, K) \subseteq h + 1 .. b
    BY DEF At
  <2>3. IsFiniteSet(At(s, h + 1, b, K))
    BY <2>1, <2>2, FS_Subset
  <2>4. QED
    BY <2>3, FS_CardinalityType
<1>3. Cardinality(At(s, h + 1, b, Old)) \in Nat /\ Cardinality(At(s, h + 1, b, New)) \in Nat
  BY <1>2
<1>4. s[h].blank \in BOOLEAN
  <2>1. s[h] \in Line
    OBVIOUS
  <2>2. QED
    BY <2>1 DEF Line
<1>5. QED
  BY <1>3, <1>4 DEF Recounted, Line, Kind

\* A hunk with its new header keeps what has been put out equal to what has been read,
\* but for the counts, and adds a hunk whose counts fit.
LEMMA NormalizeHunkKeeps == PInv /\ NormalizeHunk => PInv'
<1> SUFFICES ASSUME PInv, NormalizeHunk PROVE PInv'
  OBVIOUS
<1> DEFINE j == BodyEnd(lines, i)
           R == Recounted(lines, i)
           body == SubSeq(lines, i + 1, j - 1)
<1>1. /\ i \in 1 .. Len(lines) /\ lines[i].kind = "hunk" /\ pc = "normalize"
      /\ out' = out \o <<R>> \o body /\ i' = j
      /\ UNCHANGED <<text, scan, lines, pc>>
  BY DEF NormalizeHunk, IsKind, PInv, Shape
<1>2. /\ lines \in Seq(Line) /\ out \in Seq(Line) /\ Len(out) = i - 1
      /\ text \in Seq(Line) /\ scan \in Nat \ {0}
  BY DEF PInv, Shape, OnlyCountsChange
<1>3. j \in i + 1 .. Len(lines) + 1 /\ \A p \in i + 1 .. j - 1 : ~Stops(lines, p)
  BY <1>1, <1>2, BodyEndRange
<1>4. R \in Line /\ R.kind = "hunk" /\ R.blank = lines[i].blank
  BY <1>1, <1>2, RecountedIsLine
<1> HIDE DEF j, R
<1>a. /\ i \in Nat /\ j \in Nat /\ i < j
      /\ lines[i].kind = "hunk" /\ R.kind = "hunk" /\ R.blank = lines[i].blank
  BY <1>1, <1>3, <1>4
<1>5. /\ body \in Seq(Line) /\ Len(body) = j - 1 - i
      /\ \A p \in 1 .. j - 1 - i : body[p] = lines[i + p]
  BY <1>1, <1>2, <1>3
<1> HIDE DEF body
<1> DEFINE front == out \o <<R>>
<1>0. /\ front \in Seq(Line) /\ Len(front) = i
      /\ \A p \in 1 .. i : front[p] = IF p < i THEN out[p] ELSE R
  BY <1>1, <1>2, <1>4
<1> HIDE DEF front
<1>6. out' = front \o body /\ out' \in Seq(Line) /\ Len(out') = j - 1
  <2>1. out' = front \o body
    BY <1>1 DEF front
  <2>2. Len(front) + Len(body) = j - 1
    BY <1>0, <1>1, <1>3, <1>5
  <2>3. front \o body \in Seq(Line) /\ Len(front \o body) = Len(front) + Len(body)
    BY <1>0, <1>5, ConcatProperties
  <2>4. QED
    BY <2>1, <2>2, <2>3
<1>7. \A p \in 1 .. j - 1 :
        out'[p] = IF p < i THEN out[p] ELSE IF p = i THEN R ELSE lines[p]
  <2>3. \A p \in 1 .. Len(front) + Len(body) :
          (front \o body)[p] = IF p <= Len(front) THEN front[p] ELSE body[p - Len(front)]
    BY <1>0, <1>5, ConcatProperties
  <2>4. \A p \in 1 .. j - 1 : out'[p] = IF p <= i THEN front[p] ELSE body[p - i]
    <3>1. Len(front) = i /\ Len(front) + Len(body) = j - 1
      BY <1>0, <1>1, <1>3, <1>5
    <3>2. QED
      BY ONLY <1>6, <2>3, <3>1
  <2>5. \A p \in i + 1 .. j - 1 : body[p - i] = lines[p]
    <3> TAKE p \in i + 1 .. j - 1
    <3>1. p - i \in 1 .. j - 1 - i /\ i + (p - i) = p
      BY <1>1, <1>3
    <3>2. QED
      BY <1>5, <3>1
  <2>6. \A p \in 1 .. i : front[p] = IF p < i THEN out[p] ELSE R
    BY <1>0
  <2>7. QED
    BY ONLY <1>a, <2>4, <2>5, <2>6
<1>8. Shape'
  BY <1>1, <1>2, <1>3, <1>6 DEF Shape
<1>9. OnlyCountsChange'
  <2>1. Len(out') = i' - 1
    BY <1>1, <1>6
  <2>2. \A p \in 1 .. Len(out) :
          \/ out[p] = lines[p]
          \/ out[p].kind = "hunk" /\ lines[p].kind = "hunk" /\ out[p].blank = lines[p].blank
    BY DEF PInv, OnlyCountsChange
  <2>3. ASSUME NEW p \in 1 .. j - 1
        PROVE  \/ out'[p] = lines[p]
               \/ /\ out'[p].kind = "hunk" /\ lines[p].kind = "hunk"
                  /\ out'[p].blank = lines[p].blank
    <3>1. CASE p < i
      <4>1. p \in 1 .. Len(out) /\ out'[p] = out[p]
        BY <1>1, <1>2, <1>3, <1>7, <3>1
      <4>2. QED
        BY <2>2, <4>1
    <3>2. CASE p = i
      BY <1>a, <1>7, <3>2
    <3>3. CASE p > i
      BY <1>a, <1>7, <3>3
    <3>4. QED
      BY <1>a, <3>1, <3>2, <3>3
  <2>4. QED
    BY <1>1, <1>6, <2>1, <2>3 DEF OnlyCountsChange
<1>10. Exact'
  <2>1. ASSUME NEW h \in 1 .. Len(out'), out'[h].kind = "hunk"
        PROVE  out'[h] = Recounted(lines, h) /\ BodyEnd(lines, h) <= j
    <3>1. CASE h < i
      <4>1. h \in 1 .. Len(out) /\ out'[h] = out[h]
        BY <1>1, <1>2, <1>3, <1>6, <1>7, <3>1
      <4>2. out[h] = Recounted(lines, h) /\ BodyEnd(lines, h) <= i
        BY <2>1, <4>1 DEF PInv, Exact
      <4>3. BodyEnd(lines, h) \in Nat
        <5>1. h \in 1 .. Len(lines)
          BY <1>1, <1>2, <3>1, <4>1
        <5>2. QED
          BY <1>2, <5>1, BodyEndIsNat
      <4>4. QED
        BY <1>1, <1>3, <4>1, <4>2, <4>3
    <3>2. CASE h = i
      BY <1>1, <1>3, <1>6, <1>7, <3>2 DEF R, j
    <3>3. CASE h > i
      <4>1. h \in i + 1 .. j - 1 /\ out'[h] = lines[h]
        BY <1>1, <1>3, <1>6, <1>7, <3>3
      <4>2. QED
        BY <1>3, <2>1, <4>1 DEF Stops, Old, New
    <3>4. QED
      BY <1>1, <1>6, <1>3, <3>1, <3>2, <3>3
  <2>2. QED
    BY <1>1, <2>1 DEF Exact
<1>11. QED
  BY <1>8, <1>9, <1>10 DEF PInv

\* A line outside of hunks is copied as it is.
LEMMA CopyLineKeeps == PInv /\ CopyLine => PInv'
<1> SUFFICES ASSUME PInv, CopyLine PROVE PInv'
  OBVIOUS
<1>1. /\ i \in 1 .. Len(lines) /\ lines[i].kind # "hunk" /\ pc = "normalize"
      /\ out' = Append(out, lines[i]) /\ i' = i + 1
      /\ UNCHANGED <<text, scan, lines, pc>>
  BY DEF CopyLine, PInv, Shape
<1>2. /\ lines \in Seq(Line) /\ out \in Seq(Line) /\ Len(out) = i - 1
      /\ lines[i] \in Line
  BY <1>1 DEF PInv, Shape, OnlyCountsChange
<1>3. /\ out' \in Seq(Line) /\ Len(out') = i
      /\ \A p \in 1 .. i : out'[p] = IF p < i THEN out[p] ELSE lines[i]
  BY <1>1, <1>2
<1>4. Shape'
  BY <1>1, <1>2, <1>3 DEF PInv, Shape
<1>5. OnlyCountsChange'
  BY <1>1, <1>2, <1>3 DEF PInv, OnlyCountsChange
<1>6. Exact'
  <2>1. ASSUME NEW h \in 1 .. Len(out'), out'[h].kind = "hunk"
        PROVE  out'[h] = Recounted(lines, h) /\ BodyEnd(lines, h) <= i + 1
    <3>1. h \in 1 .. Len(out) /\ out'[h] = out[h]
      BY <1>1, <1>2, <1>3, <2>1
    <3>2. BodyEnd(lines, h) \in Nat
      <4>1. h \in 1 .. Len(lines)
        BY <1>1, <1>2, <3>1
      <4>2. QED
        BY <1>2, <4>1, BodyEndIsNat
    <3>3. QED
      BY <1>1, <2>1, <3>1, <3>2 DEF PInv, Exact
  <2>2. QED
    BY <1>1, <2>1 DEF Exact
<1>7. QED
  BY <1>4, <1>5, <1>6 DEF PInv

\* Every step of extraction, normaliser and application keeps the invariant.
LEMMA NextPInv == PInv /\ [Next]_vars => PInv'
<1> SUFFICES ASSUME PInv, [Next]_vars PROVE PInv'
  OBVIOUS
<1>1. CASE TryBlock
  <2>1. /\ pc = "extract" /\ HasBlock(scan) /\ scan \in Nat \ {0} /\ out = <<>> /\ i = 1
        /\ text \in Seq(Line) /\ lines \in Seq(Line)
    BY <1>1 DEF TryBlock, PInv, Shape
  <2>2. Block(scan) \in Seq(Line) /\ Min(BlockEnds(scan)) + 1 \in Nat \ {0}
    BY <2>1, BlockIsLines
  <2>3. StripFence(Block(scan)) \in Seq(Line)
    BY <2>2, StripFenceIsLines
  <2>4. lines' \in Seq(Line) /\ scan' \in Nat \ {0} /\ UNCHANGED <<text, out, i>>
    BY <1>1, <2>1, <2>2, <2>3 DEF TryBlock, Return
  <2>5. QED
    BY <2>1, <2>4 DEF PInv, Shape, OnlyCountsChange, Exact
<1>2. CASE TryWhole
  <2>1. /\ pc = "extract" /\ scan \in Nat \ {0} /\ out = <<>> /\ i = 1
        /\ text \in Seq(Line)
    BY <1>2 DEF TryWhole, PInv, Shape
  <2>2. StripFence(text) \in Seq(Line) /\ <<>> \in Seq(Line)
    BY <2>1, StripFenceIsLines
  <2>3. lines' \in Seq(Line) /\ UNCHANGED <<text, scan, out, i>>
    BY <1>2, <2>2 DEF TryWhole, Return
  <2>4. QED
    BY <2>1, <2>3 DEF PInv, Shape, OnlyCountsChange, Exact
<1>3. CASE NormalizeHunk
  BY <1>3, NormalizeHunkKeeps
<1>4. CASE CopyLine
  BY <1>4, CopyLineKeeps
<1>5. ASSUME UNCHANGED <<text, scan, lines, out, i>>, pc' # "extract" \/ pc' = pc
      PROVE  PInv'
  BY <1>5 DEF PInv, Shape, OnlyCountsChange, Exact
<1>6. CASE Normalized \/ GitApplies \/ GitRejects \/ GitMissing \/ DryRunFails
           \/ DryRunPasses \/ PatchApplies \/ PatchFails \/ Done \/ UNCHANGED vars
  BY <1>5, <1>6 DEF Normalized, GitApplies, GitRejects, GitMissing, DryRunFails,
     DryRunPasses, PatchApplies, PatchFails, Done, Untouched, vars
<1>7. QED
  BY <1>1, <1>2, <1>3, <1>4, <1>6 DEF Next

\* The inductive invariant of the normaliser (patch.py:46-115) holds throughout.
THEOREM NormalizerInvariance == Spec => []PInv
<1>1. Init => PInv
  BY PatchAssumption DEF Init, PInv, Shape, OnlyCountsChange, Exact
<1>2. QED
  BY <1>1, NextPInv, PTL DEF Spec

\* "fixes only header counts, preserving content", for every answer.
THEOREM ContentPreserved == Spec => []OnlyCountsChange
<1>1. PInv => OnlyCountsChange
  BY DEF PInv
<1>2. QED
  BY <1>1, NormalizerInvariance, PTL

\* So every header that has been put out fits the lines that the loop passed by.
LEMMA HeadersFit == PInv => HunksFit
<1> SUFFICES ASSUME PInv PROVE HunksFit
  OBVIOUS
<1>1. SUFFICES ASSUME NEW h \in 1 .. Len(out), out[h].kind = "hunk"
               PROVE  Fits(out, h, BodyEnd(lines, h) - 1)
  BY DEF HunksFit
<1> DEFINE b == BodyEnd(lines, h) - 1
<1>2. /\ lines \in Seq(Line) /\ i \in 1 .. Len(lines) + 1 /\ h \in 1 .. Len(lines)
      /\ Len(out) = i - 1
  BY DEF PInv, Shape, OnlyCountsChange
<1>3. /\ BodyEnd(lines, h) \in Nat
      /\ b \in h .. Len(lines) /\ \A p \in h + 1 .. b : ~Stops(lines, p)
  BY <1>2, BodyEndRange
<1>4. out[h] = Recounted(lines, h) /\ b <= Len(out)
  <2>1. out[h] = Recounted(lines, h) /\ BodyEnd(lines, h) <= i
    BY <1>1 DEF PInv, Exact
  <2>2. QED
    BY <1>2, <1>3, <2>1
<1> HIDE DEF b
<1>5. \A p \in h + 1 .. b : /\ out[p].kind = lines[p].kind
                            /\ lines[p].kind \in Old \union New \union {"nonl"}
  <2>1. \A p \in h + 1 .. b : p \in 1 .. Len(out) /\ lines[p].kind \in Old \union New \union {"nonl"}
    BY <1>2, <1>3, <1>4 DEF Stops
  <2>2. QED
    BY <2>1 DEF PInv, OnlyCountsChange, Old, New
<1>6. /\ At(out, h + 1, b, GitOld) = At(lines, h + 1, b, Old)
      /\ At(out, h + 1, b, GitNew) = At(lines, h + 1, b, New)
      /\ \A p \in h + 1 .. b : out[p].kind \in GitBody
  BY <1>5 DEF At, GitOld, GitNew, GitBody, Old, New
<1>7. /\ out[h].old = Cardinality(At(lines, h + 1, b, Old))
      /\ out[h].new = Cardinality(At(lines, h + 1, b, New))
  BY <1>4 DEF Recounted, Hunk, b
<1>8. Fits(out, h, b)
  BY <1>6, <1>7 DEF Fits
<1>9. QED
  BY <1>8 DEF b

\* The counts written over a hunk are the counts that git finds in it, for every
\* answer: git never calls a hunk corrupt for its counts.
THEOREM CountsFit == Spec => []HunksFit
  BY HeadersFit, NormalizerInvariance, PTL

-----------------------------------------------------------------------------
(* What is made of the repository.                                         *)

\* With git the dry run and patch are never reached, and nothing is written before git
\* has taken the whole diff.
Whole ==
  hasGit =>
    /\ pc \notin {"dry", "patch"}
    /\ tree = IF pc = "applied" THEN GitReads(out).taken ELSE {}

\* "Do not fall back when git exists but rejects the diff": where there is git, any diff
\* changes the repository as a whole or not at all.
THEOREM NoHalfPatch == Spec => []AllOrNothing
<1>1. Init => Whole
  BY DEF Init, Whole
<1>2. ASSUME Whole, [Next]_vars PROVE Whole'
  <2> DEFINE Taken(s) == GitReads(s).taken
  <2>1. hasGit' = hasGit
    BY <1>2 DEF Next, TryBlock, TryWhole, NormalizeHunk, CopyLine, Normalized, GitApplies,
       GitRejects, GitMissing, DryRunFails, DryRunPasses, PatchApplies, PatchFails, Done,
       Untouched, vars
  <2>2. ASSUME hasGit
        PROVE  /\ pc' \notin {"dry", "patch"}
               /\ tree' = IF pc' = "applied" THEN Taken(out') ELSE {}
    <3> HIDE DEF Taken
    <3>1. /\ pc \notin {"dry", "patch"}
          /\ tree = IF pc = "applied" THEN Taken(out) ELSE {}
      BY <1>2, <2>2 DEF Whole, Taken
    <3>2. CASE TryBlock \/ TryWhole \/ NormalizeHunk \/ CopyLine \/ Normalized \/ GitRejects
               \/ GitMissing
      BY <2>2, <3>1, <3>2 DEF TryBlock, TryWhole, Return, NormalizeHunk, CopyLine, Normalized,
         GitRejects, GitMissing, Untouched
    <3>3. CASE GitApplies
      BY <3>3 DEF GitApplies, Taken
    <3>4. CASE Done \/ UNCHANGED vars
      BY <3>1, <3>4 DEF Done, vars
    <3>5. CASE DryRunFails \/ DryRunPasses \/ PatchApplies \/ PatchFails
      BY <3>1, <3>5 DEF DryRunFails, DryRunPasses, PatchApplies, PatchFails
    <3>6. QED
      BY <1>2, <3>2, <3>3, <3>4, <3>5 DEF Next
  <2>3. QED
    BY <2>1, <2>2 DEF Whole
<1>3. Whole => AllOrNothing
  BY DEF Whole, AllOrNothing
<1>4. QED
  BY <1>1, <1>2, <1>3, PTL DEF Spec

-----------------------------------------------------------------------------
(* git's reading of a diff.  The recursive function that GitReads chooses  *)
(* exists, since each of its values is got from values further on.         *)

\* Where git goes on after the hunk at p.
AfterHunk(s, p) ==
  IF IsKind(s, HunkEnd(s, p) + 1, "nonl") THEN HunkEnd(s, p) + 2 ELSE HunkEnd(s, p) + 1

\* One step of that function, given the values f further on.
ReadStep(s, f, p) ==
  IF p > Len(s) THEN [ok |-> TRUE, taken |-> {}]
  ELSE IF s[p].kind = "hunk"
  THEN IF ~Sound(s, p) THEN Rejected
       ELSE [f[AfterHunk(s, p)] EXCEPT !.taken = @ \union At(s, p + 1, HunkEnd(s, p), Changing)]
  ELSE IF FirstHunk(s, p) # 0 THEN f[FirstHunk(s, p)]
  ELSE IF s[p].kind = "diff" \/ IsKind(s, p + 1, "hunk") THEN Rejected
  ELSE f[p + 1]

\* f is a reading of s.
Reading(s, f) == f = [p \in 1 .. Len(s) + 2 |-> ReadStep(s, f, p)]

\* A sound hunk ends in the text, and a header that has a hunk is before it.
LEMMA Ahead ==
  ASSUME NEW s \in Seq(Line), NEW p \in 1 .. Len(s)
  PROVE  /\ Sound(s, p) => /\ HunkEnd(s, p) \in p .. Len(s)
                           /\ Fits(s, p, HunkEnd(s, p))
                           /\ \A e \in p .. Len(s) : Fits(s, p, e) => HunkEnd(s, p) <= e
                           /\ AfterHunk(s, p) \in p + 1 .. Len(s) + 2
         /\ FirstHunk(s, p) # 0 => FirstHunk(s, p) \in p + 1 .. Len(s)
<1>1. ASSUME Sound(s, p)
      PROVE  /\ HunkEnd(s, p) \in p .. Len(s) /\ Fits(s, p, HunkEnd(s, p))
             /\ \A e \in p .. Len(s) : Fits(s, p, e) => HunkEnd(s, p) <= e
  <2> DEFINE E == {e \in p .. Len(s) : Fits(s, p, e)}
  <2>1. E \in SUBSET Nat /\ E # {}
    BY <1>1 DEF Sound
  <2>2. Min(E) \in E /\ \A e \in E : Min(E) <= e
    BY <2>1, MinOfNats
  <2>3. HunkEnd(s, p) = Min(E)
    BY DEF HunkEnd
  <2>4. QED
    BY <2>2, <2>3
<1>2. ASSUME Sound(s, p) PROVE AfterHunk(s, p) \in p + 1 .. Len(s) + 2
  BY <1>1, <1>2 DEF AfterHunk
<1>3. ASSUME FirstHunk(s, p) # 0 PROVE FirstHunk(s, p) \in p + 1 .. Len(s)
  <2> DEFINE q == IF IsKind(s, p, "diff") THEN p + 1 ELSE p
             r == IF IsKind(s, q, "minus") /\ IsKind(s, q + 1, "plus") THEN q + 2 ELSE q
  <2>1. q \in {p, p + 1}
    OBVIOUS
  <2>2. r \in {q, q + 2}
    OBVIOUS
  <2>3. FirstHunk(s, p) = r /\ r # p /\ r \in 1 .. Len(s)
    <3> HIDE DEF r
    <3>1. FirstHunk(s, p) = IF r # p /\ IsKind(s, r, "hunk") THEN r ELSE 0
      BY DEF FirstHunk, r
    <3>2. QED
      BY <1>3, <3>1 DEF IsKind
  <2> HIDE DEF q, r
  <2>4. r \in p + 1 .. Len(s)
    BY <2>1, <2>2, <2>3
  <2>5. QED
    BY <2>3, <2>4
<1>4. QED
  BY <1>1, <1>2, <1>3

\* Only the values further on matter to a step.
LEMMA StepReadsAhead ==
  ASSUME NEW s \in Seq(Line), NEW f, NEW g, NEW p \in 1 .. Len(s) + 2,
         \A q \in p + 1 .. Len(s) + 2 : f[q] = g[q]
  PROVE  ReadStep(s, f, p) = ReadStep(s, g, p)
<1>1. CASE p > Len(s)
  BY <1>1 DEF ReadStep
<1>2. CASE p <= Len(s)
  <2>1. p \in 1 .. Len(s)
    BY <1>2
  <2>2. ASSUME FirstHunk(s, p) # 0 PROVE f[FirstHunk(s, p)] = g[FirstHunk(s, p)]
    <3>1. PICK r : r = FirstHunk(s, p)
      OBVIOUS
    <3>2. r \in p + 1 .. Len(s)
      BY <2>1, <2>2, <3>1, Ahead
    <3>3. f[r] = g[r]
      BY ONLY <3>2, s \in Seq(Line), p \in 1 .. Len(s) + 2,
              \A q \in p + 1 .. Len(s) + 2 : f[q] = g[q]
    <3>4. QED
      BY <3>1, <3>3
  <2>3. f[p + 1] = g[p + 1]
    BY <2>1
  <2>4. Sound(s, p) => f[AfterHunk(s, p)] = g[AfterHunk(s, p)]
    BY <2>1, Ahead
  <2>5. QED
    BY <1>2, <2>2, <2>3, <2>4 DEF ReadStep
<1>3. QED
  BY <1>1, <1>2

\* Every text has a reading.
LEMMA ReadingExists == ASSUME NEW s \in Seq(Line) PROVE \E f : Reading(s, f)
<1> DEFINE P == 1 .. Len(s) + 2
           From(k, f) == /\ f = [p \in P |-> f[p]]
                         /\ \A p \in P : p >= k => f[p] = ReadStep(s, f, p)
           K == {k \in 1 .. Len(s) + 3 : \E f : From(k, f)}
<1>1. Len(s) + 3 \in K
  <2> DEFINE f == [p \in P |-> 0]
  <2>1. f = [p \in P |-> f[p]] /\ \A p \in P : ~(p >= Len(s) + 3)
    OBVIOUS
  <2>2. From(Len(s) + 3, f)
    BY <2>1
  <2>3. QED
    BY <2>2
<1>2. Min(K) \in K /\ \A k \in K : Min(K) <= k
  <2>1. K \in SUBSET Nat /\ K # {}
    BY <1>1
  <2>2. QED
    BY <2>1, MinOfNats
<1>3. PICK k \in 1 .. Len(s) + 3 : k = Min(K) /\ \E f : From(k, f)
  BY <1>2
<1>4. PICK f : From(k, f)
  BY <1>3
<1>5. CASE k = 1
  <2>1. f = [p \in P |-> f[p]] /\ \A p \in P : p >= k
    BY <1>4, <1>5
  <2>2. \A p \in P : f[p] = ReadStep(s, f, p)
    BY <1>4, <2>1
  <2>3. Reading(s, f)
    BY <2>1, <2>2, Zenon DEF Reading
  <2>4. QED
    BY <2>3
<1>6. CASE k # 1
  <2>1. PICK j \in P : k = j + 1
    BY <1>6
  <2> DEFINE g == [p \in P |-> IF p = j THEN ReadStep(s, f, p) ELSE f[p]]
  <2>2. /\ \A p \in P : g[p] = IF p = j THEN ReadStep(s, f, p) ELSE f[p]
        /\ g = [p \in P |-> g[p]]
    OBVIOUS
  <2> HIDE DEF g
  <2>3. ASSUME NEW p \in P, p >= j
        PROVE  g[p] = ReadStep(s, g, p)
    <3>1. \A q \in p + 1 .. Len(s) + 2 : f[q] = g[q]
      BY <2>2, <2>3
    <3>2. ReadStep(s, f, p) = ReadStep(s, g, p)
      BY <3>1, StepReadsAhead
    <3>3. g[p] = ReadStep(s, f, p)
      BY <1>4, <2>1, <2>2, <2>3
    <3>4. QED
      BY <3>2, <3>3
  <2>4. From(j, g)
    BY <2>2, <2>3
  <2>5. j \in K /\ j < k
    BY <2>1, <2>4
  <2> HIDE DEF K
  <2>6. QED
    BY <1>2, <1>3, <2>1, <2>5
<1>7. QED
  BY <1>5, <1>6

\* What git reads is the value of such a reading at the start.
LEMMA GitReadsIs ==
  ASSUME NEW s \in Seq(Line)
  PROVE  \E f : /\ \A p \in 1 .. Len(s) + 2 : f[p] = ReadStep(s, f, p)
                /\ GitReads(s) = IF IsKind(s, 1, "hunk") THEN Rejected ELSE f[1]
<1> DEFINE R == CHOOSE f : Reading(s, f)
<1>1. Reading(s, R)
  BY ReadingExists
<1>2. GitReads(s) = IF IsKind(s, 1, "hunk") THEN Rejected ELSE R[1]
  BY DEF GitReads, Reading, ReadStep, AfterHunk
<1> HIDE DEF R
<1>3. \A p \in 1 .. Len(s) + 2 : R[p] = ReadStep(s, R, p)
  BY <1>1 DEF Reading
<1>4. QED
  BY <1>2, <1>3

\* git takes nothing but lines of the diff.
LEMMA GitReadsTyped ==
  ASSUME NEW s \in Seq(Line)
  PROVE  GitReads(s) \in [ok : BOOLEAN, taken : SUBSET (1 .. Len(s))]
<1> DEFINE T == [ok : BOOLEAN, taken : SUBSET (1 .. Len(s))]
<1>1. PICK f : /\ \A p \in 1 .. Len(s) + 2 : f[p] = ReadStep(s, f, p)
               /\ GitReads(s) = IF IsKind(s, 1, "hunk") THEN Rejected ELSE f[1]
  BY GitReadsIs
<1> DEFINE Bad == {p \in 1 .. Len(s) + 2 : f[p] \notin T}
<1>2. CASE Bad = {}
  BY <1>1, <1>2 DEF Rejected
<1>3. CASE Bad # {}
  <2>1. PICK p \in 1 .. Len(s) + 2 : /\ f[p] \notin T
                                     /\ \A q \in 1 .. Len(s) + 2 : f[q] \notin T => p >= q
    <3>1. Bad \in SUBSET (1 .. Len(s) + 2) /\ Len(s) + 2 \in Nat
      OBVIOUS
    <3>2. PICK p : p = Max(Bad)
      OBVIOUS
    <3>3. p \in Bad /\ \A q \in Bad : p >= q
      <4> HIDE DEF Bad
      <4>1. QED
        BY <1>3, <3>1, <3>2, MaxOfPositions
    <3>4. QED
      BY <3>3
  <2>2. \A q \in p + 1 .. Len(s) + 2 : f[q] \in T
    BY <2>1
  <2>3. f[p] = ReadStep(s, f, p)
    BY <1>1
  <2>4. p \in 1 .. Len(s)
    BY <2>1, <2>3 DEF ReadStep
  <2>5. ASSUME Sound(s, p) 
        PROVE  [f[AfterHunk(s, p)] EXCEPT !.taken = @ \union At(s, p + 1, HunkEnd(s, p), Changing)] \in T
    <3>1. f[AfterHunk(s, p)] \in T /\ HunkEnd(s, p) \in p .. Len(s)
      BY <2>2, <2>4, <2>5, Ahead
    <3>2. At(s, p + 1, HunkEnd(s, p), Changing) \subseteq 1 .. Len(s)
      BY <3>1, <2>4 DEF At
    <3>3. QED
      BY <3>1, <3>2
  <2>6. FirstHunk(s, p) # 0 => f[FirstHunk(s, p)] \in T
    BY <2>2, <2>4, Ahead
  <2>7. f[p + 1] \in T /\ Rejected \in T
    BY <2>2, <2>4 DEF Rejected
  <2>8. QED
    BY <2>1, <2>3, <2>4, <2>5, <2>6, <2>7 DEF ReadStep
<1>4. QED
  BY <1>2, <1>3


-----------------------------------------------------------------------------
(* git's reading of a tidy diff, whose headers count what follows them.    *)

\* The line at p is where a diff from a to b may have a line of its kind.
Proper(s, p, a, b) ==
  /\ s[p].kind # "atat"
  /\ s[p].kind = "diff" => p < b /\ s[p + 1].kind \in {"minus", "hunk"}
  /\ s[p].kind = "minus" => p < b /\ s[p + 1].kind = "plus"
  /\ s[p].kind = "plus" => /\ p > a /\ s[p - 1].kind = "minus"
                           /\ p < b /\ s[p + 1].kind = "hunk"
  /\ s[p].kind = "hunk" =>
       /\ p > a /\ s[p - 1].kind \in {"diff", "plus"} \union Body
       /\ \E e \in p + 1 .. b : /\ s[e].kind \in Changing
                                /\ \A q \in p + 1 .. e : s[q].kind \in Body
  /\ s[p].kind = "nonl" => p > a /\ s[p - 1].kind \in Body \ {"nonl"}
  /\ s[p].kind \in Body \ {"nonl"} => p > a /\ s[p - 1].kind \in Body \union {"hunk"}

\* s is a diff, or diffs, with prose before, after and in between.
Tidy(s) == \A p \in 1 .. Len(s) : Proper(s, p, 1, Len(s))

\* The loop of the normaliser ends the body of a tidy hunk where the diff does.
LEMMA TidyBody ==
  ASSUME NEW s \in Seq(Line), Tidy(s), NEW h \in 1 .. Len(s), s[h].kind = "hunk"
  PROVE  /\ BodyEnd(s, h) \in h + 1 .. Len(s) + 1
         /\ \A q \in h + 1 .. BodyEnd(s, h) - 1 : s[q].kind \in Body
         /\ BodyEnd(s, h) <= Len(s) => s[BodyEnd(s, h)].kind \notin Body \union {"plus"}
         /\ \E e \in h + 1 .. BodyEnd(s, h) - 1 : s[e].kind \in Changing
<1> DEFINE B == BodyEnd(s, h)
<1>1. /\ B \in h + 1 .. Len(s) + 1
      /\ \A q \in h + 1 .. B - 1 : ~Stops(s, q)
      /\ B <= Len(s) => Stops(s, B)
  BY BodyEndRange
<1> HIDE DEF B
<1>2. \A q \in h + 1 .. B - 1 : s[q].kind # "minus"
  <2> TAKE q \in h + 1 .. B - 1
  <2>1. q \in 1 .. Len(s) /\ Proper(s, q, 1, Len(s)) /\ ~Stops(s, q)
    BY <1>1 DEF Tidy
  <2>2. QED
    BY <2>1 DEF Proper, Stops, IsKind
<1>3. \A q \in h + 1 .. B - 1 : s[q].kind # "plus"
  <2> SUFFICES ASSUME NEW q \in h + 1 .. B - 1, s[q].kind = "plus" PROVE FALSE
    OBVIOUS
  <2>1. q \in 1 .. Len(s) /\ Proper(s, q, 1, Len(s))
    BY <1>1 DEF Tidy
  <2>2. s[q - 1].kind = "minus"
    BY <2>1 DEF Proper
  <2>3. q - 1 \in h + 1 .. B - 1
    BY <1>1, <2>2
  <2>4. QED
    BY <1>2, <2>2, <2>3
<1>4. \A q \in h + 1 .. B - 1 : s[q].kind \in Body
  BY <1>1, <1>2, <1>3 DEF Stops, Old, New, Body
<1>5. B <= Len(s) => s[B].kind \notin Body \union {"plus"}
  BY <1>1 DEF Stops, Old, New, Body
<1>6. PICK e \in h + 1 .. Len(s) : /\ s[e].kind \in Changing
                                   /\ \A q \in h + 1 .. e : s[q].kind \in Body
  BY DEF Tidy, Proper
<1>7. e < B
  BY <1>1, <1>5, <1>6
<1>8. QED
  BY <1>1, <1>4, <1>5, <1>6, <1>7 DEF B

\* git ends a tidy hunk with right counts there too, and takes what it changes.
LEMMA TidyHunk ==
  ASSUME NEW s \in Seq(Line), Tidy(s), NEW h \in 1 .. Len(s), s[h].kind = "hunk",
         Fits(s, h, BodyEnd(s, h) - 1)
  PROVE  /\ Sound(s, h) /\ AfterHunk(s, h) = BodyEnd(s, h)
         /\ At(s, h + 1, HunkEnd(s, h), Changing) = {q \in Changes(s) : q \in h .. BodyEnd(s, h) - 1}
<1> DEFINE B == BodyEnd(s, h)
           H == HunkEnd(s, h)
<1>1. /\ B \in h + 1 .. Len(s) + 1
      /\ \A q \in h + 1 .. B - 1 : s[q].kind \in Body
      /\ B <= Len(s) => s[B].kind \notin Body \union {"plus"}
      /\ \E e \in h + 1 .. B - 1 : s[e].kind \in Changing
      /\ Fits(s, h, B - 1)
  BY TidyBody
<1> HIDE DEF B
<1>2. Sound(s, h)
  <2>1. B - 1 \in h .. Len(s) /\ At(s, h + 1, B - 1, Changing) # {}
    BY <1>1 DEF At
  <2>2. QED
    BY <1>1, <2>1 DEF Sound
<1>3. H \in h .. B - 1 /\ Fits(s, h, H)
  <2>1. /\ H \in h .. Len(s) /\ Fits(s, h, H)
        /\ \A e \in h .. Len(s) : Fits(s, h, e) => H <= e
    BY <1>2, Ahead
  <2>2. B - 1 \in h .. Len(s)
    BY <1>1
  <2> HIDE DEF H
  <2>3. H <= B - 1
    BY <1>1, <2>1, <2>2
  <2>4. QED
    BY <1>1, <2>1, <2>3
<1> HIDE DEF H
<1>4. ASSUME NEW K, Cardinality(At(s, h + 1, H, K)) = Cardinality(At(s, h + 1, B - 1, K))
      PROVE  \A q \in H + 1 .. B - 1 : s[q].kind \notin K
  <2>1. At(s, h + 1, H, K) \subseteq At(s, h + 1, B - 1, K)
    BY <1>1, <1>3 DEF At
  <2>2. IsFiniteSet(At(s, h + 1, B - 1, K))
    <3>1. IsFiniteSet(h + 1 .. B - 1)
      BY <1>1, FS_Interval
    <3>2. At(s, h + 1, B - 1, K) \subseteq h + 1 .. B - 1
      BY DEF At
    <3>3. QED
      BY <3>1, <3>2, FS_Subset
  <2>3. At(s, h + 1, H, K) = At(s, h + 1, B - 1, K)
    BY <1>4, <2>1, <2>2, FS_Subset
  <2>4. ASSUME NEW q \in H + 1 .. B - 1, s[q].kind \in K PROVE FALSE
    <3>1. q \in At(s, h + 1, B - 1, K)
      BY <1>3, <2>4 DEF At
    <3>2. q \in At(s, h + 1, H, K)
      BY <2>3, <3>1
    <3>3. q \in h + 1 .. H
      BY <3>2 DEF At
    <3>4. QED
      BY <1>1, <1>3, <2>4, <3>3
  <2>5. QED
    BY <2>4
<1>5. \A q \in H + 1 .. B - 1 : s[q].kind = "nonl"
  <2>1. \A q \in H + 1 .. B - 1 : s[q].kind \notin GitOld /\ s[q].kind \notin GitNew
    BY <1>1, <1>3, <1>4 DEF Fits
  <2>2. \A q \in H + 1 .. B - 1 : s[q].kind \in Body
    BY <1>1, <1>3
  <2>3. QED
    BY <2>1, <2>2 DEF GitOld, GitNew, Body
<1>6. H + 2 >= B
  <2> SUFFICES ASSUME H + 2 < B PROVE FALSE
    BY <1>1, <1>3
  <2>1. s[H + 1].kind = "nonl" /\ s[H + 2].kind = "nonl" /\ H + 2 \in 1 .. Len(s)
    BY <1>1, <1>3, <1>5
  <2>2. s[(H + 2) - 1].kind \in Body \ {"nonl"} /\ (H + 2) - 1 = H + 1
    BY <1>3, <2>1 DEF Tidy, Proper
  <2>3. QED
    BY <2>1, <2>2
<1>7. AfterHunk(s, h) = B
  <2>1. CASE H = B - 1
    <3>1. ~IsKind(s, H + 1, "nonl") /\ H + 1 = B
      BY <1>1, <2>1 DEF IsKind, Body
    <3>2. QED
      BY <3>1 DEF AfterHunk, H
  <2>2. CASE H = B - 2
    <3>1. H + 1 \in H + 1 .. B - 1 /\ H + 1 \in 1 .. Len(s)
      BY <1>1, <1>3, <2>2
    <3>2. IsKind(s, H + 1, "nonl") /\ H + 2 = B
      BY <1>1, <1>5, <2>2, <3>1 DEF IsKind
    <3>3. QED
      BY <3>2 DEF AfterHunk, H
  <2>3. QED
    BY <1>1, <1>3, <1>6, <2>1, <2>2
<1>8. At(s, h + 1, H, Changing) = {q \in Changes(s) : q \in h .. B - 1}
  <2>1. ASSUME NEW q \in h + 1 .. H, s[q].kind \in Changing
        PROVE  q \in Changes(s) /\ q \in h .. B - 1
    BY <1>1, <1>3, <2>1 DEF Changes, Changing, Body
  <2>2. ASSUME NEW q \in Changes(s), q \in h .. B - 1
        PROVE  q \in h + 1 .. H /\ s[q].kind \in Changing
    <3>1. s[q].kind \in {"add", "addfence", "del"} /\ q # h
      BY <2>2 DEF Changes
    <3>2. q <= H
      BY <1>1, <1>3, <1>5, <2>2, <3>1
    <3>3. QED
      BY <1>1, <1>3, <2>2, <3>1, <3>2 DEF Changing
  <2>3. QED
    BY <2>1, <2>2 DEF At
<1>9. QED
  BY <1>2, <1>7, <1>8 DEF B, H

\* git accepts a tidy diff whose headers count what follows them, with all its changes.
LEMMA TidyIsRead ==
  ASSUME NEW s \in Seq(Line), Tidy(s),
         \A h \in 1 .. Len(s) : s[h].kind = "hunk" => Fits(s, h, BodyEnd(s, h) - 1)
  PROVE  GitReads(s) = [ok |-> TRUE, taken |-> Changes(s)]
<1> DEFINE Rest(p) == [ok |-> TRUE, taken |-> {q \in Changes(s) : q >= p}]
           Between(p) == p <= Len(s) => s[p].kind \notin Body \union {"plus"}
<1>1. PICK f : /\ \A p \in 1 .. Len(s) + 2 : f[p] = ReadStep(s, f, p)
               /\ GitReads(s) = IF IsKind(s, 1, "hunk") THEN Rejected ELSE f[1]
  BY GitReadsIs
<1>2. ASSUME NEW p \in 1 .. Len(s) + 1, Between(p),
             \A q \in p + 1 .. Len(s) + 1 : Between(q) => f[q] = Rest(q)
      PROVE  f[p] = Rest(p)
  <2>1. f[p] = ReadStep(s, f, p)
    BY <1>1
  <2>2. CASE p = Len(s) + 1
    <3>1. f[p] = [ok |-> TRUE, taken |-> {}]
      BY <2>1, <2>2 DEF ReadStep
    <3>2. {q \in Changes(s) : q >= p} = {}
      BY <2>2 DEF Changes
    <3>3. QED
      BY <3>1, <3>2
  <2>3. CASE p <= Len(s)
    <3>1. p \in 1 .. Len(s) /\ Proper(s, p, 1, Len(s)) /\ s[p].kind \notin Body \union {"plus"}
      BY <1>2, <2>3 DEF Tidy
    <3>2. CASE s[p].kind = "hunk"
      <4> DEFINE B == BodyEnd(s, p)
                 X == At(s, p + 1, HunkEnd(s, p), Changing)
      <4>1. Sound(s, p) /\ AfterHunk(s, p) = B /\ X = {q \in Changes(s) : q \in p .. B - 1}
        BY <3>1, <3>2, TidyHunk
      <4>2. B \in p + 1 .. Len(s) + 1 /\ Between(B)
        BY <3>1, <3>2, TidyBody
      <4>3. f[B] = Rest(B)
        BY <1>2, <4>2
      <4>4. f[p] = [f[B] EXCEPT !.taken = @ \union X]
        BY <2>1, <3>1, <3>2, <4>1 DEF ReadStep
      <4>5. f[p] = [ok |-> TRUE, taken |-> {q \in Changes(s) : q >= B} \union X]
        <5> DEFINE Y == {q \in Changes(s) : q >= B}
        <5>1. f[B] = [ok |-> TRUE, taken |-> Y]
          BY <4>3
        <5> HIDE DEF B, X, Y
        <5>2. f[p] = [ok |-> TRUE, taken |-> Y \union X]
          <6>1. PICK F, W : F = f[B] /\ W = f[p]
            OBVIOUS
          <6>2. W = [F EXCEPT !.taken = @ \union X] /\ F = [ok |-> TRUE, taken |-> Y]
            BY <4>4, <5>1, <6>1
          <6>3. W \in [ok : {TRUE}, taken : {Y \union X}]
            BY ONLY <6>2
          <6>4. W = [ok |-> TRUE, taken |-> Y \union X]
            BY ONLY <6>3
          <6>5. QED
            BY <6>1, <6>4
        <5>3. QED
          BY <5>2 DEF Y
      <4>6. {q \in Changes(s) : q >= B} \union X = {q \in Changes(s) : q >= p}
        BY <4>1, <4>2 DEF Changes
      <4>7. QED
        BY <4>5, <4>6
    <3>3. CASE s[p].kind \in {"diff", "minus"}
      <4>1. PICK r \in p + 1 .. Len(s) :
              /\ FirstHunk(s, p) = r /\ s[r].kind = "hunk"
              /\ \A q \in p .. r - 1 : s[q].kind \in {"diff", "minus", "plus"}
        <5>1. ASSUME NEW m \in 1 .. Len(s), s[m].kind = "minus"
              PROVE  /\ m + 1 \in 1 .. Len(s) /\ s[m + 1].kind = "plus"
                     /\ m + 2 \in 1 .. Len(s) /\ s[m + 2].kind = "hunk"
          <6>1. m + 1 \in 1 .. Len(s) /\ s[m + 1].kind = "plus"
            BY <5>1 DEF Tidy, Proper
          <6>2. (m + 1) + 1 \in 1 .. Len(s) /\ s[(m + 1) + 1].kind = "hunk" /\ (m + 1) + 1 = m + 2
            BY <6>1 DEF Tidy, Proper
          <6>3. QED
            BY <6>1, <6>2
        <5>2. CASE s[p].kind = "minus"
          <6>1. FirstHunk(s, p) = p + 2
            BY <3>1, <5>1, <5>2 DEF FirstHunk, IsKind
          <6>2. \A q \in p .. (p + 2) - 1 : q = p \/ q = p + 1
            OBVIOUS
          <6>3. QED
            BY <3>1, <5>1, <5>2, <6>1, <6>2
        <5>3. CASE s[p].kind = "diff" /\ s[p + 1].kind = "hunk"
          <6>1. p + 1 \in 1 .. Len(s)
            BY <3>1, <5>3 DEF Proper
          <6>2. FirstHunk(s, p) = p + 1
            BY <3>1, <5>3, <6>1 DEF FirstHunk, IsKind
          <6>3. \A q \in p .. (p + 1) - 1 : q = p
            OBVIOUS
          <6>4. QED
            BY <3>1, <5>3, <6>1, <6>2, <6>3
        <5>4. CASE s[p].kind = "diff" /\ s[p + 1].kind = "minus"
          <6>1. p + 1 \in 1 .. Len(s)
            BY <3>1, <5>4 DEF Proper
          <6>2. /\ p + 2 \in 1 .. Len(s) /\ s[p + 2].kind = "plus"
                /\ p + 3 \in 1 .. Len(s) /\ s[p + 3].kind = "hunk"
            <7>1. (p + 1) + 1 = p + 2 /\ (p + 1) + 2 = p + 3
              OBVIOUS
            <7>2. QED
              BY <5>1, <5>4, <6>1, <7>1
          <6>3. FirstHunk(s, p) = p + 3
            BY <3>1, <5>4, <6>1, <6>2 DEF FirstHunk, IsKind
          <6>4. \A q \in p .. (p + 3) - 1 : q = p \/ q = p + 1 \/ q = p + 2
            OBVIOUS
          <6>5. QED
            BY <3>1, <5>4, <6>1, <6>2, <6>3, <6>4
        <5>5. QED
          BY <3>1, <3>3, <5>2, <5>3, <5>4 DEF Proper
      <4>2. r # 0 /\ f[p] = f[r]
        BY <2>1, <3>1, <3>3, <4>1 DEF ReadStep
      <4>3. Between(r) /\ r \in p + 1 .. Len(s) + 1
        BY <4>1 DEF Body
      <4>4. f[r] = Rest(r)
        BY <1>2, <4>3
      <4>5. {q \in Changes(s) : q >= r} = {q \in Changes(s) : q >= p}
        <5>1. \A q \in Changes(s) : q >= p => q >= r
          BY <4>1 DEF Changes
        <5>2. \A q \in Changes(s) : q >= r => q >= p
          BY <4>1 DEF Changes
        <5>3. QED
          BY <5>1, <5>2
      <4>6. QED
        BY <4>2, <4>4, <4>5
    <3>4. CASE s[p].kind \in Prose
      <4>1. p + 1 <= Len(s) => s[p + 1].kind \notin Body \union {"plus", "hunk"}
        <5> SUFFICES ASSUME p + 1 <= Len(s) PROVE s[p + 1].kind \notin Body \union {"plus", "hunk"}
          OBVIOUS
        <5>1. Proper(s, p + 1, 1, Len(s)) /\ (p + 1) - 1 = p
          BY <3>1 DEF Tidy
        <5>2. QED
          BY <3>4, <5>1 DEF Proper, Prose, Body
      <4>2. FirstHunk(s, p) = 0 /\ ~IsKind(s, p + 1, "hunk") /\ s[p].kind \notin {"hunk", "diff"}
        BY <3>1, <3>4, <4>1 DEF FirstHunk, IsKind, Prose
      <4>3. f[p] = f[p + 1]
        BY <2>1, <3>1, <4>2 DEF ReadStep
      <4>4. f[p + 1] = Rest(p + 1)
        BY <1>2, <3>1, <4>1
      <4>5. {q \in Changes(s) : q >= p + 1} = {q \in Changes(s) : q >= p}
        BY <3>1, <3>4 DEF Changes, Prose
      <4>6. QED
        BY <4>3, <4>4, <4>5
    <3>5. s[p].kind \in Kind
      <4>1. s[p] \in Line
        BY <3>1
      <4>2. QED
        BY <4>1 DEF Line
    <3>6. s[p].kind # "atat"
      BY <3>1 DEF Proper
    <3>7. QED
      BY <3>1, <3>2, <3>3, <3>4, <3>5, <3>6 DEF Kind, Body, Prose
  <2>4. QED
    BY <2>2, <2>3
<1>3. \A p \in 1 .. Len(s) + 1 : Between(p) => f[p] = Rest(p)
  <2> DEFINE Bad == {p \in 1 .. Len(s) + 1 : Between(p) /\ f[p] # Rest(p)}
  <2>1. CASE Bad # {}
    <3>1. Bad \in SUBSET (1 .. Len(s) + 1) /\ Len(s) + 1 \in Nat
      OBVIOUS
    <3>2. PICK p : p = Max(Bad)
      OBVIOUS
    <3>3. p \in Bad /\ \A q \in Bad : p >= q
      <4> HIDE DEF Bad
      <4>1. QED
        BY <2>1, <3>1, <3>2, MaxOfPositions
    <3>4. p \in 1 .. Len(s) + 1 /\ Between(p) /\ f[p] # Rest(p)
      BY <3>3
    <3>5. \A q \in p + 1 .. Len(s) + 1 : Between(q) => f[q] = Rest(q)
      <4>1. \A q \in p + 1 .. Len(s) + 1 : q \in 1 .. Len(s) + 1 /\ ~(p >= q)
        BY <3>4
      <4>2. \A q \in p + 1 .. Len(s) + 1 : q \notin Bad
        BY <3>3, <4>1
      <4>3. QED
        BY <4>1, <4>2
    <3>6. QED
      BY <1>2, <3>4, <3>5
  <2>2. QED
    BY <2>1
<1>4. ~IsKind(s, 1, "hunk") /\ Between(1)
  <2>1. 1 <= Len(s) => s[1].kind \notin Body \union {"plus", "hunk"}
    BY DEF Tidy, Proper
  <2>2. QED
    BY <2>1 DEF IsKind
<1>5. {q \in Changes(s) : q >= 1} = Changes(s)
  BY DEF Changes
<1>6. f[1] = Rest(1)
  BY <1>3, <1>4
<1>7. QED
  BY <1>1, <1>4, <1>5, <1>6


-----------------------------------------------------------------------------
(* What the extraction takes from an answer with a clean diff.             *)

\* Each line of t is a line of s.
LinesOf(t, s) == \A p \in 1 .. Len(t) : \E q \in 1 .. Len(s) : t[p] = s[q]

\* Cutting lines off a part of x leaves a part of x.
LEMMA SubSubSeq ==
  ASSUME NEW x \in Seq(Line), NEW c \in 1 .. Len(x), NEW d \in c .. Len(x),
         NEW m \in 1 .. d - c + 1, NEW n \in m - 1 .. d - c + 1
  PROVE  SubSeq(SubSeq(x, c, d), m, n) = SubSeq(x, c + m - 1, c + n - 1)
<1> DEFINE s == SubSeq(x, c, d)
           t == SubSeq(x, c + m - 1, c + n - 1)
<1>1. /\ s \in Seq(Line) /\ Len(s) = d - c + 1
      /\ \A p \in 1 .. d - c + 1 : s[p] = x[c + p - 1]
  BY SMTT(60)
<1>2. /\ t \in Seq(Line) /\ Len(t) = n - m + 1
      /\ \A p \in 1 .. n - m + 1 : t[p] = x[(c + m - 1) + p - 1]
  <2>1. PICK a, b \in Nat : a = c + m - 1 /\ b = c + n - 1
    OBVIOUS
  <2>2. /\ a \in 1 .. Len(x) + 1 /\ b \in a - 1 .. Len(x) /\ b - a + 1 = n - m + 1
    BY <2>1
  <2>3. /\ SubSeq(x, a, b) \in Seq(Line) /\ Len(SubSeq(x, a, b)) = b - a + 1
        /\ \A p \in 1 .. b - a + 1 : SubSeq(x, a, b)[p] = x[a + p - 1]
    BY ONLY <2>2, x \in Seq(Line), a \in Nat, b \in Nat
  <2>4. QED
    BY <2>1, <2>2, <2>3
<1> HIDE DEF s
<1>3. /\ SubSeq(s, m, n) \in Seq(Line) /\ Len(SubSeq(s, m, n)) = n - m + 1
      /\ \A p \in 1 .. n - m + 1 : SubSeq(s, m, n)[p] = s[m + p - 1]
  BY <1>1
<1>4. \A p \in 1 .. n - m + 1 : s[m + p - 1] = x[(c + m - 1) + p - 1]
  <2> TAKE p \in 1 .. n - m + 1
  <2>1. m + p - 1 \in 1 .. d - c + 1 /\ c + (m + p - 1) - 1 = (c + m - 1) + p - 1
    OBVIOUS
  <2>2. QED
    BY <1>1, <2>1
<1> HIDE DEF t
<1>5. SubSeq(s, m, n) = t
  <2> DEFINE w == SubSeq(s, m, n)
  <2> HIDE DEF w
  <2>1. w \in Seq(Line) /\ Len(w) = Len(t) /\ \A p \in 1 .. Len(w) : w[p] = t[p]
    BY <1>2, <1>3, <1>4 DEF w
  <2>2. w = t
    BY <1>2, <2>1, SeqEqual
  <2>3. QED
    BY <2>2 DEF w
<1>6. QED
  BY <1>5 DEF s, t

\* str.strip() invents no line.
LEMMA StripLines == ASSUME NEW s \in Seq(Line) PROVE LinesOf(Strip(s), s)
<1> DEFINE solid == {p \in DOMAIN s : s[p].kind \notin {"bare", "space"}}
<1>1. CASE solid = {}
  BY <1>1 DEF Strip, LinesOf
<1>2. CASE solid # {}
  <2>1. solid \in SUBSET (1 .. Len(s)) /\ solid \in SUBSET Nat /\ Len(s) \in Nat
    OBVIOUS
  <2>2. PICK m, n \in 1 .. Len(s) : m = Min(solid) /\ n = Max(solid)
    <3> HIDE DEF solid
    <3>1. QED
      BY <1>2, <2>1, MinOfNats, MaxOfPositions
  <2>3. Strip(s) = SubSeq(s, m, n)
    BY <1>2, <2>2 DEF Strip
  <2>4. \A p \in 1 .. Len(SubSeq(s, m, n)) :
          m + p - 1 \in 1 .. Len(s) /\ SubSeq(s, m, n)[p] = s[m + p - 1]
    OBVIOUS
  <2>5. QED
    BY <2>3, <2>4 DEF LinesOf
<1>3. QED
  BY <1>1, <1>2

\* Nor does the removal of a fence around the answer add a kind of lines, but for text.
LEMMA StripFenceLines ==
  ASSUME NEW s \in Seq(Line)
  PROVE  \A p \in 1 .. Len(StripFence(s)) :
           \E q \in 1 .. Len(s) : StripFence(s)[p].kind \in {s[q].kind, "text"}
<1> DEFINE t == Strip(s)
           u == IF t # <<>> /\ t[1].kind \in {"fence", "dfence", "lang"} THEN Tail(t) ELSE t
           v == IF u # t /\ IsKind(u, Len(u), "fence") THEN SubSeq(u, 1, Len(u) - 1) ELSE u
<1>1. t \in Seq(Line) /\ LinesOf(t, s)
  BY StripIsLines, StripLines
<1>2. u \in Seq(Line) /\ LinesOf(u, t)
  <2>1. LinesOf(t, t)
    BY <1>1 DEF LinesOf
  <2>2. ASSUME t # <<>> PROVE Tail(t) \in Seq(Line) /\ LinesOf(Tail(t), t)
    <3> HIDE DEF t
    <3>1. /\ Tail(t) \in Seq(Line) /\ Len(Tail(t)) = Len(t) - 1
          /\ \A p \in 1 .. Len(t) - 1 : Tail(t)[p] = t[p + 1] /\ p + 1 \in 1 .. Len(t)
      BY <1>1, <2>2
    <3>2. QED
      BY <3>1 DEF LinesOf
  <2>3. QED
    BY <1>1, <2>1, <2>2
<1> HIDE DEF t, u
<1>3. v \in Seq(Line) /\ LinesOf(v, u)
  <2>1. LinesOf(u, u)
    BY <1>2 DEF LinesOf
  <2>2. ASSUME IsKind(u, Len(u), "fence")
        PROVE  SubSeq(u, 1, Len(u) - 1) \in Seq(Line) /\ LinesOf(SubSeq(u, 1, Len(u) - 1), u)
    <3>1. Len(u) \in 1 .. Len(u)
      BY <1>2, <2>2 DEF IsKind
    <3>2. /\ SubSeq(u, 1, Len(u) - 1) \in Seq(Line) /\ Len(SubSeq(u, 1, Len(u) - 1)) = Len(u) - 1
          /\ \A p \in 1 .. Len(u) - 1 : SubSeq(u, 1, Len(u) - 1)[p] = u[p] /\ p \in 1 .. Len(u)
      <4>1. PICK n \in Nat : n = Len(u)
        BY <1>2
      <4>2. n >= 1
        BY <3>1, <4>1
      <4>3. PICK k \in Nat : n = k + 1
        BY ONLY <4>1, <4>2
      <4>4. \A p \in 1 .. k : p \in 1 .. n
        BY <4>3
      <4>5. /\ SubSeq(u, 1, k) \in Seq(Line) /\ Len(SubSeq(u, 1, k)) = k
            /\ \A p \in 1 .. k : SubSeq(u, 1, k)[p] = u[p]
        <5>1. u \in Seq(Line) /\ k < Len(u)
          BY <1>2, <4>1, <4>3
        <5>2. QED
          BY ONLY <4>3, <5>1
      <4>6. Len(u) - 1 = k
        BY <4>1, <4>3
      <4>7. QED
        BY <4>1, <4>4, <4>5, <4>6
    <3>3. QED
      BY <3>2 DEF LinesOf
  <2>3. QED
    BY <1>2, <2>1, <2>2
<1> HIDE DEF v
<1>4. LinesOf(Strip(v), v)
  BY <1>3, StripLines
<1>5. LinesOf(Strip(v), s)
  BY <1>1, <1>2, <1>3, <1>4 DEF LinesOf
<1>6. PICK w \in Seq(Line) : w = Strip(v)
  BY <1>3, StripIsLines
<1>7. StripFence(s) = Trim(w)
  BY <1>6 DEF StripFence, v, u, t
<1>8. Len(Trim(w)) = Len(w) /\ \A p \in 1 .. Len(w) : Trim(w)[p].kind \in {w[p].kind, "text"}
  BY TrimKeeps
<1>9. \A p \in 1 .. Len(w) : \E q \in 1 .. Len(s) : w[p] = s[q]
  BY <1>5, <1>6 DEF LinesOf
<1>10. QED
  BY <1>7, <1>8, <1>9

\* In a clean answer every line of the diff is proper, the diff starts with a header,
\* and no other line is of a kind that a diff has.
LEMMA CleanIsProper ==
  ASSUME text \in Seq(Line), NEW a \in DOMAIN text, NEW b \in DOMAIN text, CleanAt(a, b)
  PROVE  /\ a \in 1 .. b /\ b \in 1 .. Len(text)
         /\ \A p \in a .. b : Proper(text, p, a, b) /\ text[p].kind \notin Prose \union {"addfence"}
         /\ text[a].kind \in {"diff", "minus"}
         /\ \A p \in 1 .. Len(text) : p \notin a .. b => text[p].kind \in Prose
<1> DEFINE s == SubSeq(text, a, b)
           n == b - a + 1
<1>1. a \in 1 .. Len(text) /\ b \in 1 .. Len(text) /\ a <= b
  BY DEF CleanAt
<1>2. /\ s \in Seq(Line) /\ Len(s) = n /\ n \in Nat
      /\ \A p \in 1 .. n : s[p] = text[p + a - 1]
  BY <1>1
<1>3. CleanDiff(s)
  BY DEF CleanAt
<1> HIDE DEF s
<1>4. ASSUME NEW p \in 1 .. n
      PROVE  Proper(s, p, 1, n) /\ s[p].kind \notin Prose
  <2>1. p \in DOMAIN s /\ Len(s) = n
    BY <1>2
  <2>2. s[p].kind \notin Prose \union {"atat"}
    BY <1>3, <2>1 DEF CleanDiff, Body, Prose
  <2>3. s[p].kind = "diff" => p < n /\ s[p + 1].kind \in {"minus", "hunk"}
    BY <1>3, <2>1 DEF CleanDiff, Body
  <2>4. s[p].kind = "minus" => p < n /\ s[p + 1].kind = "plus"
    BY <1>3, <2>1 DEF CleanDiff, Body
  <2>5. s[p].kind = "plus" => p > 1 /\ s[p - 1].kind = "minus" /\ p < n /\ s[p + 1].kind = "hunk"
    BY <1>3, <2>1 DEF CleanDiff, Body
  <2>6. s[p].kind = "hunk" =>
          /\ p > 1 /\ s[p - 1].kind \in {"diff", "plus"} \union Body
          /\ \E e \in p + 1 .. n : /\ s[e].kind \in Changing
                                   /\ \A q \in p + 1 .. e : s[q].kind \in Body
    BY <1>3, <2>1 DEF CleanDiff, Body
  <2>7. s[p].kind = "nonl" => p > 1 /\ s[p - 1].kind \in Body \ {"nonl"}
    BY <1>3, <2>1 DEF CleanDiff, Body
  <2>8. s[p].kind \in Body \ {"nonl"} => p > 1 /\ s[p - 1].kind \in Body \union {"hunk"}
    BY <1>3, <2>1 DEF CleanDiff, Body
  <2>9. QED
    BY <2>2, <2>3, <2>4, <2>5, <2>6, <2>7, <2>8 DEF Proper
<1>5. ASSUME NEW p \in a .. b
      PROVE  Proper(text, p, a, b) /\ text[p].kind \notin Prose
  <2>0. a \in Nat /\ b \in Nat /\ p \in Nat
    BY <1>1
  <2> DEFINE r == p - a + 1
  <2>a. r \in 1 .. n /\ r \in Nat /\ r + a - 1 = p
    BY <1>1
  <2> HIDE DEF r
  <2>1. r \in 1 .. n /\ text[p] = s[r]
    BY <1>2, <2>a
  <2>2. Proper(s, r, 1, n) /\ s[r].kind \notin Prose
    BY <1>4, <2>1
  <2>3. /\ r > 1 => p > a /\ s[r - 1] = text[p - 1]
        /\ r < n => p < b /\ s[r + 1] = text[p + 1]
    <3>1. /\ r > 1 => p > a /\ r - 1 \in 1 .. n /\ (r - 1) + a - 1 = p - 1
          /\ r < n => p < b /\ r + 1 \in 1 .. n /\ (r + 1) + a - 1 = p + 1
      <4>1. r > 1 => p > a /\ r - 1 \in 1 .. n /\ (r - 1) + a - 1 = p - 1
        BY ONLY <2>0, <2>a
      <4>2. r < n => p < b /\ r + 1 \in 1 .. n /\ (r + 1) + a - 1 = p + 1
        <5>1. n \in Nat /\ n = b - a + 1
          BY <1>1, <1>2
        <5> HIDE DEF n
        <5>2. QED
          BY ONLY <2>0, <2>a, <5>1
      <4>3. QED
        BY <4>1, <4>2
    <3>2. /\ r - 1 \in 1 .. n => s[r - 1] = text[(r - 1) + a - 1]
          /\ r + 1 \in 1 .. n => s[r + 1] = text[(r + 1) + a - 1]
      BY <1>2
    <3>3. QED
      BY <3>1, <3>2
  <2>4. ASSUME NEW e \in r + 1 .. n, s[e].kind \in Changing, \A q \in r + 1 .. e : s[q].kind \in Body
        PROVE  \E k \in p + 1 .. b : /\ text[k].kind \in Changing
                                     /\ \A q \in p + 1 .. k : text[q].kind \in Body
    <3>1. e + a - 1 \in p + 1 .. b /\ text[e + a - 1] = s[e]
      <4>1. e + a - 1 \in p + 1 .. b /\ e \in 1 .. n
        BY <2>0, <2>a, SMTT(60)
      <4>2. QED
        BY <1>2, <4>1
    <3>2. \A q \in p + 1 .. e + a - 1 : text[q].kind \in Body
      <4> TAKE q \in p + 1 .. e + a - 1
      <4>1. q - a + 1 \in r + 1 .. e /\ text[q] = s[q - a + 1]
        <5>0. /\ a \in Nat /\ e \in Nat /\ q \in Nat /\ r \in Nat /\ b \in Nat
              /\ p = r + a - 1 /\ p + 1 <= q /\ q <= e + a - 1 /\ 1 <= r /\ e <= n
          BY <2>0, <2>a
        <5>1. q - a + 1 \in r + 1 .. e /\ q - a + 1 \in 1 .. n /\ (q - a + 1) + a - 1 = q
          BY ONLY <5>0
        <5>2. QED
          BY <1>2, <5>1
      <4>2. QED
        BY <2>4, <4>1
    <3>3. QED
      BY <2>4, <3>1, <3>2
  <2>5. QED
    BY <2>1, <2>2, <2>3, <2>4 DEF Proper
<1>6. text[a].kind \in {"diff", "minus"}
  <2>1. Proper(text, a, a, b) /\ text[a].kind \notin Prose /\ text[a] \in Line
    BY <1>1, <1>5
  <2>2. ~(a > a)
    BY <1>1
  <2>3. QED
    BY <2>1, <2>2 DEF Proper, Line, Kind, Prose, Body
<1>7. \A p \in 1 .. Len(text) : p \notin a .. b => text[p].kind \in Prose
  BY <1>1 DEF CleanAt
<1>8. QED
  BY <1>1, <1>5, <1>6, <1>7 DEF CleanAt

\* The lines from c to d of the answer hold the whole diff, but for blank lines at its end.
Cut(a, b, c, d) ==
  /\ c \in 1 .. a /\ d \in a .. Len(text)
  /\ \A q \in d + 1 .. b : text[q].kind = "space"

\* str.strip() leaves such lines.
LEMMA StripCut ==
  ASSUME text \in Seq(Line), NEW a \in DOMAIN text, NEW b \in DOMAIN text, CleanAt(a, b),
         NEW c, NEW d, Cut(a, b, c, d)
  PROVE  \E c1, d1 : Cut(a, b, c1, d1) /\ Strip(SubSeq(text, c, d)) = SubSeq(text, c1, d1)
<1> DEFINE s == SubSeq(text, c, d)
           solid == {p \in DOMAIN s : s[p].kind \notin {"bare", "space"}}
<1>1. /\ c \in 1 .. a /\ d \in a .. Len(text) /\ \A q \in d + 1 .. b : text[q].kind = "space"
      /\ a \in 1 .. b /\ b \in 1 .. Len(text)
      /\ \A p \in a .. b : text[p].kind \notin Prose
      /\ text[a].kind \in {"diff", "minus"}
  BY CleanIsProper DEF Cut
<1>2. /\ s \in Seq(Line) /\ Len(s) = d - c + 1
      /\ \A p \in 1 .. d - c + 1 : s[p] = text[c + p - 1]
  BY <1>1
<1> HIDE DEF s
<1>3. a - c + 1 \in solid
  BY <1>1, <1>2
<1>4. solid \in SUBSET (1 .. Len(s)) /\ solid \in SUBSET Nat /\ Len(s) \in Nat
  BY <1>2
<1>5. PICK m, n \in 1 .. Len(s) :
        /\ m = Min(solid) /\ n = Max(solid)
        /\ \A p \in solid : m <= p /\ p <= n
  <2> HIDE DEF solid
  <2>1. Min(solid) \in solid /\ \A p \in solid : Min(solid) <= p
    BY <1>3, <1>4, MinOfNats
  <2>2. Max(solid) \in solid /\ \A p \in solid : Max(solid) >= p
    BY <1>3, <1>4, MaxOfPositions
  <2>3. QED
    BY <1>4, <2>1, <2>2
<1>6. Strip(s) = SubSeq(s, m, n)
  BY <1>3, <1>5 DEF Strip
<1>7. m <= a - c + 1 /\ a - c + 1 <= n
  BY <1>3, <1>5
<1>a. m \in 1 .. d - c + 1 /\ n \in 1 .. d - c + 1
  BY <1>2, <1>5
<1> HIDE DEF solid
<1>8. SubSeq(s, m, n) = SubSeq(text, c + m - 1, c + n - 1)
  <2>1. /\ c \in 1 .. Len(text) /\ d \in c .. Len(text)
        /\ m \in 1 .. d - c + 1 /\ n \in m - 1 .. d - c + 1
    BY <1>1, <1>7, <1>a
  <2>2. QED
    BY <2>1, SubSubSeq DEF s
<1>9. Cut(a, b, c + m - 1, c + n - 1)
  <2>1. c + m - 1 \in 1 .. a /\ c + n - 1 \in a .. Len(text)
    BY <1>1, <1>7, <1>a, SMTT(60)
  <2>2. ASSUME NEW q \in (c + n - 1) + 1 .. b
        PROVE  text[q].kind = "space"
    <3>1. CASE q > d
      BY <1>1, <1>a, <2>2, <3>1
    <3>2. CASE q <= d
      <4> DEFINE r == q - c + 1
      <4>1. r \in 1 .. d - c + 1 /\ ~(r <= n) /\ c + r - 1 = q
        BY <1>1, <1>a, <2>2, <3>2
      <4> HIDE DEF r
      <4>2. r \notin solid /\ s[r] = text[q] /\ r \in DOMAIN s
        BY <1>2, <1>5, <4>1
      <4>3. text[q].kind \in {"bare", "space"}
        BY <4>2 DEF solid
      <4>4. text[q].kind \notin Prose
        BY <1>1, <2>1, <2>2
      <4>5. QED
        BY <4>3, <4>4 DEF Prose
    <3>3. QED
      BY <1>1, <1>a, <2>2, <3>1, <3>2
  <2>3. QED
    BY <2>1, <2>2 DEF Cut
<1>10. QED
  BY <1>6, <1>8, <1>9 DEF s

\* So does the removal of a fence around them.
LEMMA StripFenceCut ==
  ASSUME text \in Seq(Line), NEW a \in DOMAIN text, NEW b \in DOMAIN text, CleanAt(a, b),
         NEW c, NEW d, Cut(a, b, c, d)
  PROVE  \E c1, d1 : Cut(a, b, c1, d1) /\ StripFence(SubSeq(text, c, d)) = Trim(SubSeq(text, c1, d1))
<1> DEFINE s == SubSeq(text, c, d)
           t == Strip(s)
           u == IF t # <<>> /\ t[1].kind \in {"fence", "dfence", "lang"} THEN Tail(t) ELSE t
           v == IF u # t /\ IsKind(u, Len(u), "fence") THEN SubSeq(u, 1, Len(u) - 1) ELSE u
<1>1. /\ a \in 1 .. b /\ b \in 1 .. Len(text)
      /\ \A p \in a .. b : text[p].kind \notin Prose
      /\ text[a].kind \in {"diff", "minus"}
  BY CleanIsProper
<1>2. PICK c1, d1 : Cut(a, b, c1, d1) /\ t = SubSeq(text, c1, d1)
  BY StripCut
<1>3. c1 \in 1 .. a /\ d1 \in a .. Len(text)
  BY <1>2 DEF Cut
<1> HIDE DEF s, t
<1>4. t \in Seq(Line) /\ Len(t) = d1 - c1 + 1 /\ t[1] = text[c1] /\ t # <<>>
  <2>1. /\ t \in Seq(Line) /\ Len(t) = d1 - c1 + 1
        /\ \A p \in 1 .. d1 - c1 + 1 : t[p] = text[c1 + p - 1]
    BY <1>1, <1>2, <1>3
  <2>2. 1 \in 1 .. d1 - c1 + 1 /\ c1 + 1 - 1 = c1
    BY <1>1, <1>3
  <2>3. QED
    BY <2>1, <2>2
<1>5. \E c2, d2 : Cut(a, b, c2, d2) /\ u = SubSeq(text, c2, d2)
  <2>1. CASE t[1].kind \in {"fence", "dfence", "lang"}
    <3>1. c1 < a
      BY <1>1, <1>3, <1>4, <2>1
    <3>2. u = Tail(t) /\ Tail(t) = SubSeq(t, 2, Len(t))
      BY <1>4, <2>1
    <3>3. SubSeq(SubSeq(text, c1, d1), 2, d1 - c1 + 1) = SubSeq(text, c1 + 2 - 1, c1 + (d1 - c1 + 1) - 1)
      <4>1. /\ c1 \in 1 .. Len(text) /\ d1 \in c1 .. Len(text)
            /\ 2 \in 1 .. d1 - c1 + 1 /\ d1 - c1 + 1 \in 2 - 1 .. d1 - c1 + 1
        BY <1>1, <1>3, <3>1
      <4>2. QED
        BY <4>1, SubSubSeq
    <3>4. c1 + 2 - 1 = c1 + 1 /\ c1 + (d1 - c1 + 1) - 1 = d1
      BY <1>1, <1>3
    <3>5. u = SubSeq(text, c1 + 1, d1)
      BY <1>2, <1>4, <3>2, <3>3, <3>4
    <3>6. Cut(a, b, c1 + 1, d1)
      BY <1>1, <1>2, <3>1 DEF Cut
    <3>7. QED
      BY <3>5, <3>6
  <2>2. CASE t[1].kind \notin {"fence", "dfence", "lang"}
    BY <1>2, <2>2
  <2>3. QED
    BY <2>1, <2>2
<1>6. PICK c2, d2 : Cut(a, b, c2, d2) /\ u = SubSeq(text, c2, d2)
  BY <1>5
<1> HIDE DEF u
<1>7. c2 \in 1 .. a /\ d2 \in a .. Len(text)
  BY <1>6 DEF Cut
<1>8. u \in Seq(Line) /\ Len(u) = d2 - c2 + 1 /\ u[Len(u)] = text[d2]
  BY <1>1, <1>6, <1>7
<1>9. \E c3, d3 : Cut(a, b, c3, d3) /\ v = SubSeq(text, c3, d3)
  <2>1. CASE u # t /\ IsKind(u, Len(u), "fence")
    <3>1. text[d2].kind = "fence"
      BY <1>8, <2>1 DEF IsKind
    <3>2. d2 > b
      BY <1>1, <1>7, <3>1 DEF Prose
    <3>3. v = SubSeq(u, 1, Len(u) - 1)
      BY <2>1
    <3>4. SubSeq(SubSeq(text, c2, d2), 1, d2 - c2) = SubSeq(text, c2 + 1 - 1, c2 + (d2 - c2) - 1)
      <4>1. /\ c2 \in 1 .. Len(text) /\ d2 \in c2 .. Len(text)
            /\ 1 \in 1 .. d2 - c2 + 1 /\ d2 - c2 \in 1 - 1 .. d2 - c2 + 1
        BY <1>1, <1>7, <3>2
      <4>2. QED
        BY <4>1, SubSubSeq
    <3>5. c2 + 1 - 1 = c2 /\ c2 + (d2 - c2) - 1 = d2 - 1 /\ Len(u) - 1 = d2 - c2
      BY <1>1, <1>7, <1>8
    <3>6. v = SubSeq(text, c2, d2 - 1)
      BY <1>6, <3>3, <3>4, <3>5
    <3>7. Cut(a, b, c2, d2 - 1)
      BY <1>1, <1>6, <1>7, <3>2 DEF Cut
    <3>8. QED
      BY <3>6, <3>7
  <2>2. CASE ~(u # t /\ IsKind(u, Len(u), "fence"))
    BY <1>6, <2>2
  <2>3. QED
    BY <2>1, <2>2
<1>10. PICK c3, d3 : Cut(a, b, c3, d3) /\ v = SubSeq(text, c3, d3)
  BY <1>9
<1>11. \E c4, d4 : Cut(a, b, c4, d4) /\ Strip(SubSeq(text, c3, d3)) = SubSeq(text, c4, d4)
  BY <1>10, StripCut
<1>12. StripFence(s) = Trim(Strip(v))
  BY DEF StripFence, v, u, t
<1>13. QED
  BY <1>10, <1>11, <1>12 DEF s

\* Such lines are of the kinds they had in the answer, as the first of them is no line
\* of context, and they are the lines of the answer, but for blanks at the very end.
LEMMA CutKinds ==
  ASSUME text \in Seq(Line), NEW a \in DOMAIN text, NEW b \in DOMAIN text, CleanAt(a, b),
         NEW c, NEW d, Cut(a, b, c, d), NEW s, s = Trim(SubSeq(text, c, d))
  PROVE  /\ s \in Seq(Line) /\ Len(s) = d - c + 1
         /\ \A p \in 1 .. d - c + 1 :
              /\ s[p].kind = text[c + p - 1].kind
              /\ \/ s[p] = text[c + p - 1]
                 \/ p = Len(s) /\ s[p] = Trimmed(text[c + p - 1])
<1>1. /\ c \in 1 .. a /\ d \in a .. Len(text)
      /\ a \in 1 .. b /\ b \in 1 .. Len(text)
      /\ text[a].kind \in {"diff", "minus"}
      /\ \A p \in 1 .. Len(text) : p \notin a .. b => text[p].kind \in Prose
  BY CleanIsProper DEF Cut
<1>2. PICK t \in Seq(Line) : t = SubSeq(text, c, d)
  <2>1. c \in 1 .. Len(text) /\ d \in c .. Len(text)
    BY <1>1
  <2>2. SubSeq(text, c, d) \in Seq(Line)
    BY <2>1
  <2>3. QED
    BY <2>2
<1>3. Len(t) = d - c + 1 /\ \A p \in 1 .. d - c + 1 : t[p] = text[c + p - 1]
  BY <1>1, <1>2
<1>4. text[c].kind # "ctx"
  <2>1. CASE c = a
    BY <1>1, <2>1
  <2>2. CASE c # a
    BY <1>1, <2>2 DEF Prose
  <2>3. QED
    BY <2>1, <2>2
<1>5. t[1].kind # "ctx"
  BY <1>1, <1>3, <1>4
<1>6. /\ s \in Seq(Line) /\ Len(s) = Len(t)
      /\ \A p \in 1 .. Len(t) : s[p] = t[p] \/ (p = Len(t) /\ s[p] = Trimmed(t[p]))
  <2>1. s = Trim(t)
    BY <1>2
  <2>2. QED
    BY <1>5, <2>1, TrimKeeps
<1>7. ASSUME NEW p \in 1 .. Len(t) PROVE s[p].kind = t[p].kind
  <2>1. t[p] \in Line
    BY <1>7
  <2>2. Trimmed(t[p]).kind = t[p].kind
    BY <2>1 DEF Trimmed, Line
  <2>3. QED
    BY <1>6, <2>2
<1>8. QED
  BY <1>3, <1>6, <1>7

\* Lines that hold the diff look like one.
LEMMA CutLooks ==
  ASSUME text \in Seq(Line), NEW a \in DOMAIN text, NEW b \in DOMAIN text, CleanAt(a, b),
         NEW c, NEW d, Cut(a, b, c, d)
  PROVE  /\ LooksLikeUnifiedDiff(Trim(SubSeq(text, c, d)))
         /\ Trim(SubSeq(text, c, d)) # <<>>
<1> DEFINE s == Trim(SubSeq(text, c, d))
<1>1. /\ c \in 1 .. a /\ d \in a .. Len(text) /\ \A q \in d + 1 .. b : text[q].kind = "space"
      /\ a \in 1 .. b /\ b \in 1 .. Len(text)
      /\ \A p \in a .. b : Proper(text, p, a, b)
      /\ text[a].kind \in {"diff", "minus"}
  BY CleanIsProper DEF Cut
<1>2. /\ s \in Seq(Line) /\ Len(s) = d - c + 1
      /\ \A p \in 1 .. d - c + 1 : s[p].kind = text[c + p - 1].kind
  <2> HIDE DEF s
  <2>1. s = Trim(SubSeq(text, c, d))
    BY DEF s
  <2>2. QED
    BY <2>1, CutKinds
<1> HIDE DEF s
<1>3. ASSUME NEW p \in a .. b, text[p].kind # "space"
      PROVE  \E q \in DOMAIN s : s[q].kind = text[p].kind
  <2>1. p <= d
    BY <1>1, <1>3
  <2>2. p - c + 1 \in 1 .. d - c + 1 /\ c + (p - c + 1) - 1 = p
    BY <1>1, <1>3, <2>1
  <2>3. QED
    BY <1>2, <2>2
<1>4. ASSUME NEW p \in a .. b, text[p].kind = "minus"
      PROVE  /\ \E q \in DOMAIN s : s[q].kind = "minus"
             /\ \E q \in DOMAIN s : s[q].kind = "plus"
             /\ \E q \in DOMAIN s : s[q].kind = "hunk"
  <2>1. p + 1 \in a .. b /\ text[p + 1].kind = "plus"
    BY <1>1, <1>4 DEF Proper
  <2>2. (p + 1) + 1 \in a .. b /\ text[(p + 1) + 1].kind = "hunk"
    BY <1>1, <2>1 DEF Proper
  <2>3. QED
    BY <1>3, <1>4, <2>1, <2>2
<1>5. a \in a .. b
  BY <1>1
<1>9. s # <<>>
  <2>1. Len(s) # 0
    BY <1>1, <1>2
  <2>2. QED
    BY <2>1
<1>6. CASE text[a].kind = "minus"
  <2>1. LooksLikeUnifiedDiff(s)
    BY <1>4, <1>5, <1>6 DEF LooksLikeUnifiedDiff
  <2>2. QED
    BY <1>9, <2>1 DEF s
<1>7. CASE text[a].kind = "diff"
  <2>1. a + 1 \in a .. b /\ text[a + 1].kind \in {"minus", "hunk"}
    BY <1>1, <1>5, <1>7 DEF Proper
  <2>2. \E q \in DOMAIN s : s[q].kind = "diff"
    BY <1>3, <1>5, <1>7
  <2>3. \E q \in DOMAIN s : s[q].kind = "hunk"
    BY <1>3, <1>4, <2>1
  <2>4. LooksLikeUnifiedDiff(s)
    BY <2>2, <2>3 DEF LooksLikeUnifiedDiff
  <2>5. QED
    BY <1>9, <2>4 DEF s
<1>8. QED
  BY <1>1, <1>6, <1>7

\* And they are tidy.
LEMMA CutIsTidy ==
  ASSUME text \in Seq(Line), NEW a \in DOMAIN text, NEW b \in DOMAIN text, CleanAt(a, b),
         NEW c, NEW d, Cut(a, b, c, d)
  PROVE  Tidy(Trim(SubSeq(text, c, d)))
<1> DEFINE s == Trim(SubSeq(text, c, d))
           n == d - c + 1
<1>1. /\ c \in 1 .. a /\ d \in a .. Len(text) /\ \A q \in d + 1 .. b : text[q].kind = "space"
      /\ a \in 1 .. b /\ b \in 1 .. Len(text)
      /\ \A p \in a .. b : Proper(text, p, a, b)
      /\ \A p \in 1 .. Len(text) : p \notin a .. b => text[p].kind \in Prose
  BY CleanIsProper DEF Cut
<1>2. /\ s \in Seq(Line) /\ Len(s) = n /\ n \in Nat
      /\ \A p \in 1 .. n : s[p].kind = text[c + p - 1].kind
  <2> HIDE DEF s
  <2>1. s = Trim(SubSeq(text, c, d))
    BY DEF s
  <2>2. /\ s \in Seq(Line) /\ Len(s) = d - c + 1
        /\ \A p \in 1 .. d - c + 1 : s[p].kind = text[c + p - 1].kind
    BY <2>1, CutKinds
  <2>3. QED
    BY <1>1, <2>2
<1> HIDE DEF s
<1>3. ASSUME NEW r \in 1 .. n PROVE Proper(s, r, 1, n)
  <2> DEFINE p == c + r - 1
  <2>1. p \in c .. d /\ p \in 1 .. Len(text) /\ s[r].kind = text[p].kind
    BY <1>1, <1>2
  <2>2. CASE p \notin a .. b
    <3>1. s[r].kind \in Prose
      BY <1>1, <2>1, <2>2
    <3>2. QED
      BY <3>1 DEF Proper, Prose, Body
  <2>3. CASE p \in a .. b
    <3>1. Proper(text, p, a, b)
      BY <1>1, <2>3
    <3>2. p > a => r > 1 /\ s[r - 1].kind = text[p - 1].kind
      BY <1>1, <1>2
    <3>3. ASSUME p < b, text[p + 1].kind # "space"
          PROVE  r < n /\ s[r + 1].kind = text[p + 1].kind
      <4>1. p + 1 <= d
        BY <1>1, <2>3, <3>3, SMTT(60)
      <4>2. r + 1 \in 1 .. n /\ c + (r + 1) - 1 = p + 1
        BY <1>1, <4>1
      <4>3. QED
        BY <1>2, <4>2
    <3>4. ASSUME NEW e \in p + 1 .. b, text[e].kind \in Changing, \A q \in p + 1 .. e : text[q].kind \in Body
          PROVE  \E k \in r + 1 .. n : /\ s[k].kind \in Changing
                                       /\ \A q \in r + 1 .. k : s[q].kind \in Body
      <4>1. e <= d
        BY <1>1, <2>3, <3>4 DEF Changing
      <4>2. e - c + 1 \in r + 1 .. n /\ s[e - c + 1].kind = text[e].kind
        <5>1. e - c + 1 \in r + 1 .. n /\ e - c + 1 \in 1 .. n /\ c + (e - c + 1) - 1 = e
          BY <1>1, <4>1
        <5>2. QED
          BY <1>2, <5>1
      <4>3. \A q \in r + 1 .. e - c + 1 : s[q].kind \in Body
        <5> TAKE q \in r + 1 .. e - c + 1
        <5>1. c + q - 1 \in p + 1 .. e /\ q \in 1 .. n
          BY <1>1, <4>1, SMTT(60)
        <5>a. s[q].kind = text[c + q - 1].kind
          BY <1>2, <5>1
        <5>2. QED
          BY <3>4, <5>1, <5>a
      <4>4. QED
        BY <3>4, <4>2, <4>3
    <3> HIDE DEF p
    <3>5. QED
      BY <2>1, <3>1, <3>2, <3>3, <3>4 DEF Proper
  <2>4. QED
    BY <2>2, <2>3
<1>4. QED
  BY <1>2, <1>3 DEF Tidy, s


-----------------------------------------------------------------------------
(* Clean answers are understood.                                           *)

\* Once the search for the diff from a to b is over, it has found the whole of it.
Found(a, b) ==
  /\ pc # "none"
  /\ pc # "extract" => \E c, d : Cut(a, b, c, d) /\ lines = Trim(SubSeq(text, c, d))

\* The diff in a clean answer is found.
Extracted == \A a, b \in DOMAIN text : CleanAt(a, b) => Found(a, b)

\* Nothing is applied before the normaliser is through.
Through == pc \notin {"extract", "none", "normalize"} => i = Len(lines) + 1

\* A fenced block of a clean answer holds the whole diff or nothing of it.
LEMMA BlockIsAllOrProse ==
  ASSUME text \in Seq(Line), NEW a \in DOMAIN text, NEW b \in DOMAIN text, CleanAt(a, b),
         NEW p \in Nat \ {0}, HasBlock(p)
  PROVE  /\ Block(p) \in Seq(Line)
         /\ \/ \E c, d : Cut(a, b, c, d) /\ Block(p) = SubSeq(text, c, d)
            \/ \A q \in 1 .. Len(Block(p)) : Block(p)[q].kind \in Prose
<1> DEFINE x == BlockStart(p)
           y == Min(BlockEnds(p))
<1>1. /\ a \in 1 .. b /\ b \in 1 .. Len(text)
      /\ \A q \in a .. b : text[q].kind \notin Prose \union {"addfence"}
      /\ \A q \in 1 .. Len(text) : q \notin a .. b => text[q].kind \in Prose
  BY CleanIsProper
<1>2. x \in p .. Len(text) /\ text[x].kind \in Opening
  <2>1. At(text, p, Len(text), Opening) \in SUBSET Nat
    BY DEF At
  <2>2. QED
    BY <2>1, MinOfNats DEF HasBlock, BlockStart, At
<1>3. y \in x + 1 .. Len(text) /\ text[y].kind \in Closing
  <2>1. BlockEnds(p) \in SUBSET Nat
    BY <1>2 DEF BlockEnds, At
  <2>2. QED
    BY <2>1, MinOfNats DEF HasBlock, BlockEnds, At
<1>4. x \notin a .. b /\ y \notin a .. b /\ text[y].kind # "addfence"
  BY <1>1, <1>2, <1>3, SMTT(60) DEF Opening, Closing, Prose
<1>5. Block(p) = SubSeq(text, x + 1, y - 1)
  <2>1. Remains(text, y) = <<>>
    BY <1>4 DEF Remains
  <2>2. SubSeq(text, x + 1, y - 1) \in Seq(Line)
    BY <1>2, <1>3
  <2>3. Block(p) = SubSeq(text, x + 1, y - 1) \o <<>>
    BY <2>1 DEF Block
  <2>4. QED
    BY <2>2, <2>3
<1> HIDE DEF x, y
<1>6. CASE x < a /\ y > b
  <2>1. Cut(a, b, x + 1, y - 1)
    BY <1>1, <1>2, <1>3, <1>6 DEF Cut
  <2>2. SubSeq(text, x + 1, y - 1) \in Seq(Line)
    BY <1>2, <1>3
  <2>3. QED
    BY <1>5, <2>1, <2>2
<1>7. CASE y < a \/ x > b
  <2>1. /\ SubSeq(text, x + 1, y - 1) \in Seq(Line)
        /\ Len(SubSeq(text, x + 1, y - 1)) = y - 1 - x
        /\ \A q \in 1 .. y - 1 - x : SubSeq(text, x + 1, y - 1)[q] = text[x + q]
    BY <1>2, <1>3
  <2>2. \A q \in 1 .. y - 1 - x : text[x + q].kind \in Prose
    BY <1>1, <1>2, <1>3, <1>7
  <2>3. QED
    BY <1>5, <2>1, <2>2
<1>8. QED
  BY <1>1, <1>2, <1>3, <1>4, <1>6, <1>7

\* Each step of the search keeps it so.
LEMMA ExtractedKept == Shape /\ Extracted /\ [Next]_vars => Extracted'
<1> SUFFICES ASSUME Shape, Extracted, [Next]_vars PROVE Extracted'
  OBVIOUS
<1>0. text' = text
  BY DEF Next, TryBlock, TryWhole, NormalizeHunk, CopyLine, Normalized,
     GitApplies, GitRejects, GitMissing, DryRunFails, DryRunPasses, PatchApplies, PatchFails, Done,
     Untouched, vars
<1>a. \A a, b : CleanAt(a, b)' <=> CleanAt(a, b)
  BY <1>0 DEF CleanAt
<1> SUFFICES ASSUME NEW a \in DOMAIN text, NEW b \in DOMAIN text, CleanAt(a, b)
             PROVE  Found(a, b)'
  BY <1>0, <1>a DEF Extracted
<1>b. ASSUME pc' # "none",
             pc' # "extract" => \E c, d : Cut(a, b, c, d) /\ lines' = Trim(SubSeq(text, c, d))
      PROVE  Found(a, b)'
  BY <1>0, <1>b DEF Found, Cut
<1> SUFFICES /\ pc' # "none"
             /\ pc' # "extract" => \E c, d : Cut(a, b, c, d) /\ lines' = Trim(SubSeq(text, c, d))
  BY <1>b
<1>1. text \in Seq(Line) /\ scan \in Nat \ {0}
  BY DEF Shape
<1>2. /\ pc # "none"
      /\ pc # "extract" => \E c, d : Cut(a, b, c, d) /\ lines = Trim(SubSeq(text, c, d))
  BY DEF Extracted, Found
<1>3. CASE TryBlock
  <2> DEFINE K == Block(scan)
  <2>1. pc = "extract" /\ HasBlock(scan)
    BY <1>3 DEF TryBlock
  <2>2. /\ K \in Seq(Line)
        /\ \/ \E c, d : Cut(a, b, c, d) /\ K = SubSeq(text, c, d)
           \/ \A q \in 1 .. Len(K) : K[q].kind \in Prose
    BY <1>1, <2>1, BlockIsAllOrProse
  <2> HIDE DEF K
  <2>3. CASE \E c, d : Cut(a, b, c, d) /\ K = SubSeq(text, c, d)
    <3>1. PICK c, d : Cut(a, b, c, d) /\ K = SubSeq(text, c, d)
      BY <2>3
    <3>2. PICK c1, d1 : Cut(a, b, c1, d1) /\ StripFence(K) = Trim(SubSeq(text, c1, d1))
      BY <1>1, <3>1, StripFenceCut
    <3>3. LooksLikeUnifiedDiff(StripFence(K)) /\ StripFence(K) # <<>>
      BY <1>1, <3>2, CutLooks
    <3>4. lines' = StripFence(K) /\ pc' = "normalize"
      BY <1>3, <3>3 DEF TryBlock, Return, K
    <3>5. QED
      BY <3>2, <3>4
  <2>4. CASE \A q \in 1 .. Len(K) : K[q].kind \in Prose
    <3>1. /\ StripFence(K) \in Seq(Line)
          /\ \A q \in 1 .. Len(StripFence(K)) : StripFence(K)[q].kind \in Prose
      BY <2>2, <2>4, StripFenceLines, StripFenceIsLines DEF Prose
    <3>2. ~LooksLikeUnifiedDiff(StripFence(K))
      BY <3>1, SMTT(60) DEF LooksLikeUnifiedDiff, Prose
    <3>3. pc' = pc
      BY <1>3, <3>2 DEF TryBlock, K
    <3>4. QED
      BY <2>1, <3>3
  <2>5. QED
    BY <2>2, <2>3, <2>4
<1>4. CASE TryWhole
  <2>1. text = SubSeq(text, 1, Len(text)) /\ Cut(a, b, 1, Len(text))
    <3>1. a \in 1 .. b /\ b \in 1 .. Len(text)
      BY <1>1, CleanIsProper
    <3>2. QED
      BY <1>1, <3>1 DEF Cut
  <2>2. PICK c, d : Cut(a, b, c, d) /\ StripFence(SubSeq(text, 1, Len(text))) = Trim(SubSeq(text, c, d))
    BY <1>1, <2>1, StripFenceCut
  <2>3. LooksLikeUnifiedDiff(Trim(SubSeq(text, c, d))) /\ Trim(SubSeq(text, c, d)) # <<>>
    BY <1>1, <2>2, CutLooks
  <2>4. StripFence(text) = Trim(SubSeq(text, c, d))
    BY <2>1, <2>2
  <2>5. lines' = Trim(SubSeq(text, c, d)) /\ pc' = "normalize"
    BY <1>4, <2>3, <2>4 DEF TryWhole, Return
  <2>6. QED
    BY <2>2, <2>5
<1>5. ASSUME lines' = lines, pc' # "none", pc' = "extract" <=> pc = "extract"
      PROVE  /\ pc' # "none"
             /\ pc' # "extract" => \E c, d : Cut(a, b, c, d) /\ lines' = Trim(SubSeq(text, c, d))
  BY <1>2, <1>5
<1>6. CASE NormalizeHunk \/ CopyLine \/ Normalized \/ GitApplies \/ GitRejects \/ GitMissing
           \/ DryRunFails \/ DryRunPasses \/ PatchApplies \/ PatchFails
           \/ Done \/ UNCHANGED vars
  <2>1. lines' = lines /\ pc' # "none" /\ (pc' = "extract" <=> pc = "extract")
    BY <1>2, <1>6 DEF NormalizeHunk, CopyLine, Normalized, GitApplies, GitRejects, GitMissing,
       DryRunFails, DryRunPasses, PatchApplies, PatchFails, Done, Untouched, vars
  <2>2. QED
    BY <1>5, <2>1
<1>7. QED
  BY <1>3, <1>4, <1>6 DEF Next

\* Nor is a part of the lines applied.
LEMMA ThroughKept == Through /\ [Next]_vars => Through'
<1> SUFFICES ASSUME Through, [Next]_vars PROVE Through'
  OBVIOUS
<1>1. CASE TryBlock \/ TryWhole \/ NormalizeHunk \/ CopyLine
  BY <1>1 DEF Through, TryBlock, TryWhole, Return, NormalizeHunk, CopyLine
<1>2. CASE Normalized \/ GitApplies \/ GitRejects \/ GitMissing
           \/ DryRunFails \/ DryRunPasses \/ PatchApplies \/ PatchFails
           \/ Done \/ UNCHANGED vars
  BY <1>2 DEF Through, Normalized, GitApplies, GitRejects, GitMissing,
     DryRunFails, DryRunPasses, PatchApplies, PatchFails, Done, Untouched, vars
<1>3. QED
  BY <1>1, <1>2 DEF Next

\* The normaliser keeps a text tidy, and every header of it fits.
LEMMA OutIsTidy ==
  ASSUME PInv, i = Len(lines) + 1, Tidy(lines)
  PROVE  /\ out \in Seq(Line) /\ Len(out) = Len(lines) /\ Tidy(out)
         /\ \A p \in 1 .. Len(out) : out[p].kind = lines[p].kind
         /\ \A h \in 1 .. Len(out) : out[h].kind = "hunk" => Fits(out, h, BodyEnd(out, h) - 1)
<1>1. /\ out \in Seq(Line) /\ lines \in Seq(Line) /\ Len(out) = Len(lines)
      /\ Len(lines) \in Nat
  BY DEF PInv, Shape, OnlyCountsChange
<1>2. \A p \in 1 .. Len(out) : out[p].kind = lines[p].kind
  BY DEF PInv, OnlyCountsChange
<1>3. \A p \in 1 .. Len(lines) : Proper(lines, p, 1, Len(lines)) => Proper(out, p, 1, Len(out))
  <2> SUFFICES ASSUME NEW p \in 1 .. Len(lines), Proper(lines, p, 1, Len(lines))
               PROVE  Proper(out, p, 1, Len(out))
    OBVIOUS
  <2>1. out[p].kind = lines[p].kind
    BY <1>1, <1>2
  <2>2. p < Len(lines) => out[p + 1].kind = lines[p + 1].kind
    BY <1>1, <1>2
  <2>3. p > 1 => out[p - 1].kind = lines[p - 1].kind
    BY <1>1, <1>2
  <2>4. \A e \in p + 1 .. Len(lines) : out[e].kind = lines[e].kind
    BY <1>1, <1>2
  <2>5. ASSUME NEW e \in p + 1 .. Len(lines), \A q \in p + 1 .. e : lines[q].kind \in Body
        PROVE  \A q \in p + 1 .. e : out[q].kind \in Body
    BY <1>1, <2>4, <2>5
  <2>6. QED
    BY <1>1, <2>1, <2>2, <2>3, <2>4, <2>5 DEF Proper
<1>4. \A h \in 1 .. Len(out) : BodyEnd(out, h) = BodyEnd(lines, h)
  <2> TAKE h \in 1 .. Len(out)
  <2>1. ASSUME NEW j \in h + 1 .. Len(out) PROVE Stops(out, j) <=> Stops(lines, j)
    <3>1. j \in 1 .. Len(out) /\ out[j].kind = lines[j].kind
      BY <1>2
    <3>2. IsKind(out, j + 1, "plus") <=> IsKind(lines, j + 1, "plus")
      BY <1>1, <1>2 DEF IsKind
    <3>3. QED
      BY <3>1, <3>2 DEF Stops
  <2>2. {j \in h + 1 .. Len(out) : Stops(out, j)} = {j \in h + 1 .. Len(lines) : Stops(lines, j)}
    BY <1>1, <2>1
  <2>3. QED
    BY <1>1, <2>2 DEF BodyEnd
<1>5. \A h \in 1 .. Len(out) : out[h].kind = "hunk" => Fits(out, h, BodyEnd(lines, h) - 1)
  BY HeadersFit DEF HunksFit
<1>6. Tidy(out)
  BY <1>1, <1>3 DEF Tidy
<1>7. QED
  BY <1>1, <1>2, <1>4, <1>5, <1>6

\* In a clean answer the diff that is normalised holds all changes of the answer,
\* and git takes them.
LEMMA CleanIsRepaired ==
  ASSUME PInv, Extracted, Through, CleanAnswer, pc \in {"git", "dry"}
  PROVE  AllGiven /\ GitAccepts(out) /\ GitReads(out).taken = Changes(out)
<1>1. PICK a, b \in DOMAIN text : CleanAt(a, b)
  BY DEF CleanAnswer
<1>2. PICK c, d : Cut(a, b, c, d) /\ lines = Trim(SubSeq(text, c, d))
  BY <1>1 DEF Extracted, Found
<1>3. text \in Seq(Line) /\ lines \in Seq(Line) /\ i = Len(lines) + 1
  BY DEF PInv, Shape, Through
<1>4. Tidy(lines) /\ LooksLikeUnifiedDiff(lines)
  BY <1>1, <1>2, <1>3, CutIsTidy, CutLooks
<1>5. /\ out \in Seq(Line) /\ Len(out) = Len(lines) /\ Tidy(out)
      /\ \A p \in 1 .. Len(out) : out[p].kind = lines[p].kind
      /\ \A h \in 1 .. Len(out) : out[h].kind = "hunk" => Fits(out, h, BodyEnd(out, h) - 1)
  BY <1>3, <1>4, OutIsTidy
<1>6. GitReads(out) = [ok |-> TRUE, taken |-> Changes(out)]
  BY <1>5, TidyIsRead
<1>7. Changes(out) # {}
  <2>1. PICK h \in 1 .. Len(out) : out[h].kind = "hunk"
    <3>1. \A p \in 1 .. Len(lines) : lines[p].kind # "atat"
      BY <1>4 DEF Tidy, Proper
    <3>2. \E p \in 1 .. Len(lines) : lines[p].kind = "hunk"
      BY <1>3, <1>4, <3>1 DEF LooksLikeUnifiedDiff
    <3>3. QED
      BY <1>5, <3>2
  <2>2. /\ BodyEnd(out, h) \in h + 1 .. Len(out) + 1
        /\ \A q \in h + 1 .. BodyEnd(out, h) - 1 : out[q].kind \in Body
        /\ \E e \in h + 1 .. BodyEnd(out, h) - 1 : out[e].kind \in Changing
    BY <1>5, <2>1, TidyBody
  <2>3. PICK e \in h + 1 .. BodyEnd(out, h) - 1 : out[e].kind \in Changing /\ out[e].kind \in Body
    BY <2>2
  <2>4. e \in DOMAIN out /\ out[e].kind \in {"add", "addfence", "del"}
    BY <1>5, <2>2, <2>3 DEF Changing, Body
  <2>5. QED
    BY <2>4 DEF Changes
<1>8. AllGiven
  <2>1. /\ c \in 1 .. a /\ d \in a .. Len(text) /\ \A q \in d + 1 .. b : text[q].kind = "space"
        /\ a \in 1 .. b /\ b \in 1 .. Len(text)
        /\ \A q \in 1 .. Len(text) : q \notin a .. b => text[q].kind \in Prose
    BY <1>1, <1>2, <1>3, CleanIsProper DEF Cut
  <2>2. /\ Len(lines) = d - c + 1
        /\ \A p \in 1 .. d - c + 1 :
             /\ lines[p].kind = text[c + p - 1].kind
             /\ \/ lines[p] = text[c + p - 1]
                \/ p = Len(lines) /\ lines[p] = Trimmed(text[c + p - 1])
    BY <1>1, <1>2, <1>3, CutKinds
  <2>3. c - 1 \in 0 .. Len(text)
    BY <2>1
  <2>4. \A p \in Changes(out) :
          /\ \/ out[p] = text[p + (c - 1)]
             \/ p = Len(out) /\ out[p] = Trimmed(text[p + (c - 1)])
          /\ p + (c - 1) \in Changes(text)
    <3> TAKE p \in Changes(out)
    <3>1. p \in 1 .. Len(out) /\ out[p].kind \in {"add", "addfence", "del"}
      BY <1>5 DEF Changes
    <3>2. out[p] = lines[p]
      BY <3>1 DEF PInv, OnlyCountsChange
    <3>3. p \in 1 .. d - c + 1 /\ c + p - 1 = p + (c - 1) /\ p + (c - 1) \in 1 .. Len(text)
      BY <1>5, <2>1, <2>2, <3>1
    <3>4. /\ lines[p].kind = text[p + (c - 1)].kind
          /\ \/ lines[p] = text[p + (c - 1)]
             \/ p = Len(lines) /\ lines[p] = Trimmed(text[p + (c - 1)])
      BY <2>2, <3>3
    <3>5. p + (c - 1) \in Changes(text)
      BY <1>3, <3>1, <3>2, <3>3, <3>4 DEF Changes
    <3>6. QED
      BY <1>5, <3>2, <3>4, <3>5
  <2>5. \A q \in Changes(text) : \E p \in Changes(out) : q = p + (c - 1)
    <3> TAKE q \in Changes(text)
    <3>1. q \in 1 .. Len(text) /\ text[q].kind \in {"add", "addfence", "del"}
      BY <1>3 DEF Changes
    <3>2. q \in a .. b /\ ~(q \in d + 1 .. b)
      BY <2>1, <3>1 DEF Prose
    <3>3. q - (c - 1) \in 1 .. d - c + 1 /\ c + (q - (c - 1)) - 1 = q /\ q = (q - (c - 1)) + (c - 1)
      BY <2>1, <3>2
    <3>4. lines[q - (c - 1)].kind = text[q].kind /\ q - (c - 1) \in 1 .. Len(out)
      BY <1>5, <2>2, <3>3
    <3>5. q - (c - 1) \in Changes(out)
      BY <1>5, <3>1, <3>4 DEF Changes
    <3>6. QED
      BY <3>3, <3>5
  <2>6. Changes(text) = {p + (c - 1) : p \in Changes(out)}
    BY <2>4, <2>5
  <2>7. QED
    BY <2>3, <2>4, <2>6 DEF AllGiven
<1>9. QED
  BY <1>6, <1>7, <1>8 DEF GitAccepts

\* Every answer that holds a clean diff, with whatever counts in its headers, is
\* understood: git is given all of its changes, accepts them and takes all of them; all
\* that is lost are blanks at the end of the very last line.
THEOREM CleanIsUnderstood == Spec => []CleanRepaired
<1>1. Init => Extracted /\ Through
  BY DEF Init, Extracted, Found, Through
<1>2. PInv /\ Extracted /\ Through /\ [Next]_vars => (Extracted /\ Through)'
  BY ExtractedKept, ThroughKept DEF PInv
<1>3. PInv /\ Extracted /\ Through => CleanRepaired
  BY CleanIsRepaired DEF CleanRepaired, Extracted, Found, CleanAnswer
<1>4. QED
  BY <1>1, <1>2, <1>3, NormalizerInvariance, PTL DEF Spec

-----------------------------------------------------------------------------
(* Types.                                                                  *)

\* For every answer the variables stay of their types.
THEOREM PatchTyping == Spec => []TypeOK
<1> DEFINE Ty == /\ scan \in 1 .. Len(text) + 1 /\ tree \subseteq 1 .. Len(out)
                 /\ pc \in {"extract", "normalize", "git", "dry", "patch", "applied", "failed", "none"}
                 /\ hasGit \in BOOLEAN
                 /\ pc \in {"extract", "normalize"} => tree = {}
<1>1. Init => Ty
  BY PatchAssumption DEF Init
<1>2. ASSUME PInv, Ty, [Next]_vars PROVE Ty'
  <2> DEFINE Taken == GitReads(out).taken
  <2>1. /\ text \in Seq(Line) /\ out \in Seq(Line) /\ scan \in Nat \ {0}
        /\ Taken \in SUBSET (1 .. Len(out))
    <3>1. text \in Seq(Line) /\ out \in Seq(Line) /\ scan \in Nat \ {0}
      BY <1>2 DEF PInv, Shape
    <3>2. QED
      BY <3>1, GitReadsTyped
  <2> HIDE DEF Taken
  <2>2. CASE TryBlock
    <3>1. pc = "extract" /\ HasBlock(scan) /\ scan' = Min(BlockEnds(scan)) + 1
          /\ UNCHANGED <<text, out, hasGit, tree>> /\ pc' \in {"extract", "none", "normalize"}
      BY <2>2 DEF TryBlock, Return
    <3>2. Min(BlockEnds(scan)) \in scan .. Len(text)
      BY <2>1, <3>1, BlockIsLines
    <3>3. scan' \in 1 .. Len(text) + 1
      BY <2>1, <3>1, <3>2
    <3>4. QED
      BY <1>2, <3>1, <3>3
  <2>3. CASE TryWhole \/ NormalizeHunk \/ CopyLine
    <3>1. /\ UNCHANGED <<text, scan, hasGit, tree>> /\ pc \in {"extract", "normalize"}
          /\ pc' \in {"extract", "normalize", "none"}
      BY <2>3 DEF TryWhole, Return, NormalizeHunk, CopyLine
    <3>2. QED
      BY <1>2, <3>1
  <2>4. CASE Normalized \/ GitRejects \/ GitMissing \/ DryRunFails \/ DryRunPasses
             \/ Done \/ UNCHANGED vars
    BY <1>2, <2>4 DEF Normalized, GitRejects, GitMissing, DryRunFails, DryRunPasses, Done,
       Untouched, vars
  <2>5. CASE GitApplies \/ PatchApplies \/ PatchFails
    <3>1. /\ UNCHANGED <<text, scan, out, hasGit>> /\ pc' \in {"applied", "failed"}
          /\ tree' \subseteq Taken
      BY <2>5 DEF GitApplies, PatchApplies, PatchFails, Taken
    <3>2. QED
      BY <1>2, <2>1, <3>1
  <2>6. QED
    BY <1>2, <2>2, <2>3, <2>4, <2>5 DEF Next
<1>3. PInv /\ Ty => TypeOK
  BY DEF PInv, Shape, TypeOK
<1>4. QED
  BY <1>1, <1>2, <1>3, NormalizerInvariance, PTL DEF Spec

-----------------------------------------------------------------------------
(* The normaliser is through with a diff that it has written itself.       *)

\* The inner loop looks at the kinds of the lines only, and keeps the rest of a header.
LEMMA SameKinds ==
  ASSUME NEW s \in Seq(Line), NEW t \in Seq(Line), Len(s) = Len(t),
         \A p \in 1 .. Len(s) : s[p].kind = t[p].kind,
         NEW h \in 1 .. Len(s), s[h].blank = t[h].blank
  PROVE  Recounted(s, h) = Recounted(t, h)
<1> DEFINE n == Len(s)
<1>1. n \in Nat /\ DOMAIN s = 1 .. n /\ DOMAIN t = 1 .. n /\ h \in 1 .. n
  OBVIOUS
<1>2. \A j \in h + 1 .. n : Stops(s, j) <=> Stops(t, j)
  <2> TAKE j \in h + 1 .. n
  <2>1. s[j].kind = t[j].kind
    BY <1>1
  <2>2. IsKind(s, j + 1, "plus") <=> IsKind(t, j + 1, "plus")
    BY <1>1 DEF IsKind
  <2>3. QED
    BY <2>1, <2>2 DEF Stops
<1>3. {j \in h + 1 .. Len(s) : Stops(s, j)} = {j \in h + 1 .. Len(t) : Stops(t, j)}
  BY <1>2
<1>4. BodyEnd(s, h) = BodyEnd(t, h)
  BY <1>3, Zenon DEF BodyEnd
<1>5. BodyEnd(s, h) \in h + 1 .. n + 1
  BY <1>1, BodyEndRange
<1>6. ASSUME NEW K PROVE At(s, h + 1, BodyEnd(s, h) - 1, K) = At(t, h + 1, BodyEnd(t, h) - 1, K)
  <2>1. \A p \in h + 1 .. BodyEnd(s, h) - 1 : s[p].kind = t[p].kind
    BY <1>1, <1>5
  <2>2. QED
    BY <1>4, <2>1 DEF At
<1>7. /\ At(s, h + 1, BodyEnd(s, h) - 1, Old) = At(t, h + 1, BodyEnd(t, h) - 1, Old)
      /\ At(s, h + 1, BodyEnd(s, h) - 1, New) = At(t, h + 1, BodyEnd(t, h) - 1, New)
  BY <1>6
<1>8. s[h].blank = t[h].blank
  OBVIOUS
<1>9. QED
  BY ONLY <1>7, <1>8, Zenon DEF Recounted

\* Each header already has the counts that the normaliser would give it.
Recounts(s) == \A h \in DOMAIN s : s[h].kind = "hunk" => s[h] = Recounted(s, h)

\* What the normaliser has written it would not change if it read it again, and a diff
\* whose headers have the counts that it finds reaches git as the model wrote it.  So
\* an accepted diff can be spoilt, against what AcceptedStays says, only where the counts
\* of git and of the normaliser differ on what the model wrote.
Settled == pc = "git" => Recounts(out) /\ (Recounts(lines) => out = lines)

\* The counts the normaliser writes are final.
THEOREM NormalizerSettles == Spec => []Settled
<1>1. ASSUME PInv, Through, pc = "git" PROVE Recounts(out) /\ (Recounts(lines) => out = lines)
  <2>1. /\ out \in Seq(Line) /\ lines \in Seq(Line) /\ Len(out) = Len(lines)
        /\ \A p \in 1 .. Len(out) :
             out[p].kind = lines[p].kind /\ out[p].blank = lines[p].blank
    BY <1>1 DEF PInv, Shape, OnlyCountsChange, Through
  <2>2. \A h \in 1 .. Len(out) : out[h].kind = "hunk" => out[h] = Recounted(lines, h)
    BY <1>1 DEF PInv, Exact
  <2>3. \A h \in 1 .. Len(out) : Recounted(out, h) = Recounted(lines, h)
    BY <2>1, SameKinds
  <2>4. Recounts(out)
    BY <2>1, <2>2, <2>3 DEF Recounts
  <2>5. ASSUME Recounts(lines) PROVE out = lines
    <3>1. ASSUME NEW p \in 1 .. Len(out) PROVE out[p] = lines[p]
      <4>1. CASE out[p].kind = "hunk"
        BY <2>1, <2>2, <2>5, <3>1, <4>1 DEF Recounts
      <4>2. CASE out[p].kind # "hunk"
        BY <1>1, <3>1, <4>2 DEF PInv, OnlyCountsChange
      <4>3. QED
        BY <4>1, <4>2
    <3>2. QED
      BY <2>1, <3>1
  <2>6. QED
    BY <2>4, <2>5
<1>2. Init => Through
  BY DEF Init, Through
<1>3. PInv /\ Through => Settled
  BY <1>1 DEF Settled
<1>4. QED
  BY <1>2, <1>3, ThroughKept, NormalizerInvariance, PTL DEF Spec

=============================================================================
