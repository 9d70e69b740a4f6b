-------------------------------- MODULE Patch --------------------------------
(***************************************************************************)
(* How the controller turns an answer of the LLM into a change of a node's *)
(* repository: src/src/mars/repo/patch.py.  The diff is extracted from the *)
(* answer, the counts of its hunk headers are computed anew, and git       *)
(* applies it, or patch(1) where there is no git.                          *)
(***************************************************************************)
EXTENDS DiffText

CONSTANT Texts   \* the answers considered

ASSUME PatchAssumption == Texts \subseteq Seq(Line)

VARIABLES
  text,     \* the answer
  scan,     \* where in the answer the search for a fenced block goes on
  lines,    \* the diff extracted from it
  out, i,   \* _normalize_hunk_headers: the lines written, the next line to read
  pc,
  hasGit,   \* git is installed (never changes)
  tree      \* the lines of out whose change has been made to the repository

vars == <<text, scan, lines, out, i, pc, hasGit, tree>>

TypeOK ==
  /\ text \in Seq(Line) /\ lines \in Seq(Line) /\ out \in Seq(Line)
  /\ scan \in 1 .. Len(text) + 1 /\ i \in 1 .. Len(lines) + 1
  /\ pc \in {"extract", "normalize", "git", "dry", "patch", "applied", "failed", "none"}
  /\ hasGit \in BOOLEAN
  /\ tree \subseteq 1 .. Len(out)

Init ==
  /\ text \in Texts
  /\ scan = 1 /\ lines = <<>> /\ out = <<>> /\ i = 1
  /\ pc = "extract"
  /\ hasGit \in BOOLEAN
  /\ tree = {}

-----------------------------------------------------------------------------
(* extract_unified_diff                                                    *)

LooksLikeUnifiedDiff(s) ==
  LET has(k) == \E p \in DOMAIN s : s[p].kind = k
  IN  /\ has("diff") \/ (has("minus") /\ has("plus"))
      /\ has("hunk") \/ has("atat")

\* str.strip() between lines: blank ones go from both ends, those of a hunk included.
Strip(s) ==
  LET solid == {p \in DOMAIN s : s[p].kind \notin {"bare", "space"}}
  IN  IF solid = {} THEN <<>> ELSE SubSeq(s, Min(solid), Max(solid))

\* str.strip() within lines: the first one loses the blanks it begins with, as a line
\* of context does, and the last one those it ends in, be they part of a change.
Trim(s) ==
  [p \in DOMAIN s |->
     [kind |-> IF p = 1 /\ s[p].kind = "ctx" THEN "text" ELSE s[p].kind,
      old |-> s[p].old, new |-> s[p].new,
      blank |-> s[p].blank /\ p # Len(s)]]

\* Both calls of strip() trim; the lines cut between the two are fences, so that the
\* second call has the last word.
StripFence(s) ==
  LET t == Strip(s)
      u == IF t # <<>> /\ t[1].kind \in {"fence", "dfence", "lang"} THEN Tail(t) ELSE t
      v == IF u # t /\ IsKind(u, Len(u), "fence") THEN SubSeq(u, 1, Len(u) - 1) ELSE u
  IN  Trim(Strip(v))

\* The pattern of a fenced block is not anchored to the start of a line: a line of
\* the diff that holds a fence opens and closes blocks as well.
Opening == {"fence", "dfence", "addfence"}
Closing == {"fence", "dfence", "lang", "addfence"}

\* What is left of a line of the diff that closes a block: its "+".
Remains(s, b) == IF s[b].kind = "addfence" THEN <<Plain("add")>> ELSE <<>>

\* Where a fenced block that the pattern finds from p on starts and ends.
BlockStart(p) == Min(At(text, p, Len(text), Opening))
BlockEnds(p) == At(text, BlockStart(p) + 1, Len(text), Closing)
HasBlock(p) == At(text, p, Len(text), Opening) # {} /\ BlockEnds(p) # {}

Block(p) ==
  SubSeq(text, BlockStart(p) + 1, Min(BlockEnds(p)) - 1) \o Remains(text, Min(BlockEnds(p)))

\* The controller asks no tool to apply an empty diff.
Return(s) == lines' = s /\ pc' = IF s = <<>> THEN "none" ELSE "normalize"

\* The next fenced block is the diff, or the search goes on behind it.
TryBlock ==
  /\ pc = "extract" /\ HasBlock(scan)
  /\ scan' = Min(BlockEnds(scan)) + 1
  /\ IF LooksLikeUnifiedDiff(StripFence(Block(scan)))
       THEN Return(StripFence(Block(scan)))
       ELSE UNCHANGED <<lines, pc>>
  /\ UNCHANGED <<text, out, i, hasGit, tree>>

\* The last candidate is the whole answer.
TryWhole ==
  /\ pc = "extract" /\ ~HasBlock(scan)
  /\ Return(IF LooksLikeUnifiedDiff(StripFence(text)) THEN StripFence(text) ELSE <<>>)
  /\ UNCHANGED <<text, scan, out, i, hasGit, tree>>

-----------------------------------------------------------------------------
(* _normalize_hunk_headers                                                 *)

\* The lines the inner loop counts as old and as new.
Old == {"del", "minus", "ctx", "space"}
New == {"add", "addfence", "plus", "ctx", "space"}

\* The inner loop stops at a header, and at any line that is no part of a hunk as it
\* sees it, which an empty line is not.
Stops(s, j) ==
  \/ s[j].kind \notin Old \union New \union {"nonl"}
  \/ s[j].kind = "minus" /\ IsKind(s, j + 1, "plus")

\* Mutant: a line on the end of the file ends the hunk.
BodyEndAtNoNewline(s, h) ==
  Min({j \in h + 1 .. Len(s) : Stops(s, j) \/ s[j].kind = "nonl"} \union {Len(s) + 1})

\* Where the inner loop stops for the header at h.
BodyEnd(s, h) == Min({j \in h + 1 .. Len(s) : Stops(s, j)} \union {Len(s) + 1})

\* Mutant: a line of context counts as a new line only.
RecountedHalf(s, h) ==
  [kind |-> "hunk", blank |-> s[h].blank,
   old |-> Cardinality(At(s, h + 1, BodyEnd(s, h) - 1, Old \ {"ctx"})),
   new |-> Cardinality(At(s, h + 1, BodyEnd(s, h) - 1, New))]

\* The header at h with the counts of its body, and what follows its counts.
Recounted(s, h) ==
  [kind |-> "hunk", blank |-> s[h].blank,
   old |-> Cardinality(At(s, h + 1, BodyEnd(s, h) - 1, Old)),
   new |-> Cardinality(At(s, h + 1, BodyEnd(s, h) - 1, New))]

\* Mutant: the body is copied without its last line.
NormalizeHunkShort ==
  /\ pc = "normalize" /\ IsKind(lines, i, "hunk")
  /\ out' = out \o <<Recounted(lines, i)>> \o SubSeq(lines, i + 1, BodyEnd(lines, i) - 2)
  /\ i' = BodyEnd(lines, i)
  /\ UNCHANGED <<text, scan, lines, pc, hasGit, tree>>

\* One round of the outer loop at a hunk header.
NormalizeHunk ==
  /\ pc = "normalize" /\ IsKind(lines, i, "hunk")
  /\ out' = out \o <<Recounted(lines, i)>> \o SubSeq(lines, i + 1, BodyEnd(lines, i) - 1)
  /\ i' = BodyEnd(lines, i)
  /\ UNCHANGED <<text, scan, lines, pc, hasGit, tree>>

\* One round at any other line.
CopyLine ==
  /\ pc = "normalize" /\ i <= Len(lines) /\ lines[i].kind # "hunk"
  /\ out' = Append(out, lines[i])
  /\ i' = i + 1
  /\ UNCHANGED <<text, scan, lines, pc, hasGit, tree>>

Normalized ==
  /\ pc = "normalize" /\ i = Len(lines) + 1
  /\ pc' = "git"
  /\ UNCHANGED <<text, scan, lines, out, i, hasGit, tree>>

-----------------------------------------------------------------------------
(* apply_unified_diff.  patch(1) is taken to read a diff as git does.      *)

Untouched == UNCHANGED <<text, scan, lines, out, i, hasGit, tree>>

GitApplies ==
  /\ pc = "git" /\ hasGit /\ GitAccepts(out)
  /\ tree' = GitReads(out).taken
  /\ pc' = "applied"
  /\ UNCHANGED <<text, scan, lines, out, i, hasGit>>

\* Mutant: a rejected diff is handed on to patch.
GitRejectsThenPatch == pc = "git" /\ hasGit /\ pc' = "patch" /\ Untouched

\* git apply checks every hunk against the tree before it writes anything.
GitRejects == pc = "git" /\ hasGit /\ pc' = "failed" /\ Untouched

GitMissing == pc = "git" /\ ~hasGit /\ pc' = "dry" /\ Untouched

\* The dry run fails, or there is no patch either.
DryRunFails == pc = "dry" /\ pc' = "failed" /\ Untouched

DryRunPasses == pc = "dry" /\ GitAccepts(out) /\ pc' = "patch" /\ Untouched

PatchApplies ==
  /\ pc = "patch"
  /\ tree' = GitReads(out).taken
  /\ pc' = "applied"
  /\ UNCHANGED <<text, scan, lines, out, i, hasGit>>

\* patch writes file after file: what it has done before it fails stays done.
PatchFails ==
  /\ pc = "patch"
  /\ tree' \in SUBSET GitReads(out).taken
  /\ pc' = "failed"
  /\ UNCHANGED <<text, scan, lines, out, i, hasGit>>

Done == pc \in {"applied", "failed", "none"} /\ UNCHANGED vars

Next ==
  \/ TryBlock \/ TryWhole \/ NormalizeHunk \/ CopyLine \/ Normalized
  \/ GitApplies \/ GitRejects \/ GitMissing
  \/ DryRunFails \/ DryRunPasses \/ PatchApplies \/ PatchFails
  \/ Done

Spec == Init /\ [][Next]_vars

-----------------------------------------------------------------------------
(* Properties.                                                             *)

\* "fixes only header counts, preserving content": line by line, what has been
\* written is what was read, but for the counts of hunk headers.  (Lines are what
\* splitlines() takes for lines: other ends than a line feed become one.)
OnlyCountsChange ==
  /\ Len(out) = i - 1
  /\ \A p \in 1 .. Len(out) :
       \/ out[p] = lines[p]
       \/ /\ out[p].kind = "hunk" /\ lines[p].kind = "hunk"
          /\ out[p].blank = lines[p].blank

\* "Recompute unified-diff hunk counts from body lines": the counts written are those
\* git itself finds in the lines the inner loop stopped after, though git knows
\* a hunk's lines by other rules.
HunksFit ==
  \A h \in 1 .. Len(out) :
    out[h].kind = "hunk" => Fits(out, h, BodyEnd(lines, h) - 1)

Body == {"add", "addfence", "del", "ctx", "space", "nonl"}

\* s is a diff as a model is asked for, but for the counts of its hunk headers.
CleanDiff(s) ==
  LET before(p, K) == p > 1 /\ s[p - 1].kind \in K
      after(p, K) == p < Len(s) /\ s[p + 1].kind \in K
  IN \A p \in DOMAIN s :
       \/ s[p].kind = "diff" /\ after(p, {"minus", "hunk"})
       \/ s[p].kind = "minus" /\ after(p, {"plus"})
       \/ s[p].kind = "plus" /\ before(p, {"minus"}) /\ after(p, {"hunk"})
       \/ /\ s[p].kind = "hunk" /\ before(p, {"diff", "plus"} \union Body)
          /\ \E e \in p + 1 .. Len(s) :
               /\ s[e].kind \in Changing
               /\ \A q \in p + 1 .. e : s[q].kind \in Body
       \/ s[p].kind = "nonl" /\ before(p, Body \ {"nonl"})
       \/ s[p].kind \in Body \ {"nonl"} /\ before(p, Body \union {"hunk"})

Prose == {"text", "bare", "fence", "dfence", "lang"}

\* The lines from a to b of the answer are such a diff, without a fence in a line of it,
\* and there is prose around it, or fences, or nothing.
CleanAt(a, b) ==
  /\ a <= b /\ CleanDiff(SubSeq(text, a, b))
  /\ \A p \in a .. b : text[p].kind # "addfence"
  /\ \A p \in (1 .. a - 1) \union (b + 1 .. Len(text)) : text[p].kind \in Prose

CleanAnswer == \E a, b \in DOMAIN text : CleanAt(a, b)

\* The lines of s that change something, headers aside.
Changes(s) == {p \in DOMAIN s : s[p].kind \in {"add", "addfence", "del"}}

\* What strip() makes of a line that is the last one.
Trimmed(l) == [kind |-> l.kind, old |-> l.old, new |-> l.new, blank |-> FALSE]

\* out has the changes of the answer, all of them and no others, each as it was written
\* but for the blanks at the end of the very last line.
AllGiven ==
  \E d \in 0 .. Len(text) :
    /\ Changes(text) = {p + d : p \in Changes(out)}
    /\ \A p \in Changes(out) :
         out[p] = text[p + d] \/ (p = Len(out) /\ out[p] = Trimmed(text[p + d]))

\* An answer that says what is to be changed is understood: whatever the counts of its
\* headers, the fences and the prose around it, a diff is found in it, git is given
\* every change, takes every change and finds nothing corrupt.  Only the last line of
\* the diff may have lost blanks at its end: an added one is then added without
\* them, and a removed one is not found in the tree, where git tells blanks apart.
CleanRepaired ==
  CleanAnswer =>
    /\ pc # "none"
    /\ pc \in {"git", "dry"} =>
         AllGiven /\ GitAccepts(out) /\ GitReads(out).taken = Changes(out)

\* "Do not fall back when git exists but rejects the diff": with git the repository is
\* changed by the whole of the diff or not at all.
AllOrNothing ==
  hasGit => tree = IF pc = "applied" THEN GitReads(out).taken ELSE {}

\* "this normalizer fixes only header counts": a diff that git accepts as the model
\* wrote it is accepted with the same changes after its counts were computed anew.
AcceptedStays ==
  pc = "git" /\ GitAccepts(lines) =>
    GitAccepts(out) /\ GitReads(out).taken = GitReads(lines).taken

=============================================================================
