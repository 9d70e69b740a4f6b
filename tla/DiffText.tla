------------------------------ MODULE DiffText ------------------------------
(***************************************************************************)
(* A unified diff as the programs that read it tell its lines apart, and   *)
(* what `git apply` makes of one: the part of the environment that         *)
(* repo/patch.py works against.  Whether the context of a hunk is found in *)
(* the tree is left out: it depends on files, not on the form of the diff. *)
(***************************************************************************)
EXTENDS Integers, Sequences, FiniteSetsExt

\* diff   "diff --git a/f b/f", with the extended headers that follow it
\* minus  "--- x": an old file's header, or a removed line that starts with "-- "
\* plus   "+++ x": a new file's header, or an added line that starts with "++ "
\* hunk   "@@ -1,old +1,new @@"     atat  "@@ ...", without such counts
\* add    "+x"     addfence  "+```x"     del  "-x"     ctx  " x"
\* space  " "      bare      ""          nonl "\ No newline at end of file"
\* fence  "```"    dfence    "```diff"   lang "```python"
\* text   any other line
Kind == {"diff", "minus", "plus", "hunk", "atat", "add", "addfence", "del", "ctx", "space",
         "bare", "nonl", "fence", "dfence", "lang", "text"}

\* A line; old and new are the counts of a hunk header, and 0 for any other line.  It
\* may end in blanks that are part of its content, as the two of "+x  ".
Line == [kind : Kind, old : Nat, new : Nat, blank : BOOLEAN]

Plain(k) == [kind |-> k, old |-> 0, new |-> 0, blank |-> FALSE]
Hunk(o, n) == [kind |-> "hunk", old |-> o, new |-> n, blank |-> FALSE]

IsKind(s, p, k) == p \in DOMAIN s /\ s[p].kind = k

\* The positions of s from a to b whose lines are of a kind in K.
At(s, a, b, K) == {p \in a .. b : s[p].kind \in K}

Changing == {"add", "addfence", "plus", "del", "minus"}

-----------------------------------------------------------------------------
(* git apply.                                                              *)

\* git counts an empty line of a hunk as context, as GNU diff writes it.
GitOld == {"del", "minus", "ctx", "space", "bare"}
GitNew == {"add", "addfence", "plus", "ctx", "space", "bare"}
GitBody == GitOld \union GitNew \union {"nonl"}

\* The lines after the header h, up to e, use up the counts of the header.
Fits(s, h, e) ==
  /\ \A p \in h + 1 .. e : s[p].kind \in GitBody
  /\ Cardinality(At(s, h + 1, e, GitOld)) = s[h].old
  /\ Cardinality(At(s, h + 1, e, GitNew)) = s[h].new

\* A hunk without a change, or whose counts are never met, is corrupt.
Sound(s, h) ==
  \E e \in h .. Len(s) : Fits(s, h, e) /\ At(s, h + 1, e, Changing) # {}

\* git stops reading a hunk as soon as its counts are used up.
HunkEnd(s, h) == Min({e \in h .. Len(s) : Fits(s, h, e)})

\* Where the first hunk is if a file's header starts at p, else 0.
FirstHunk(s, p) ==
  LET q == IF IsKind(s, p, "diff") THEN p + 1 ELSE p
      r == IF IsKind(s, q, "minus") /\ IsKind(s, q + 1, "plus") THEN q + 2 ELSE q
  IN  IF r # p /\ IsKind(s, r, "hunk") THEN r ELSE 0

Rejected == [ok |-> FALSE, taken |-> {}]

\* git's reading of s: hunks that follow a header or a hunk are taken, any other
\* line is skipped, but for a header without hunks and a hunk without header.
GitReads(s) ==
  LET read[p \in 1 .. Len(s) + 2] ==
        IF p > Len(s) THEN [ok |-> TRUE, taken |-> {}]
        ELSE IF s[p].kind = "hunk"
        THEN IF ~Sound(s, p) THEN Rejected
             ELSE LET e == HunkEnd(s, p)
                      rest == read[IF IsKind(s, e + 1, "nonl") THEN e + 2 ELSE e + 1]
                  IN  [rest EXCEPT !.taken = @ \union At(s, p + 1, e, Changing)]
        ELSE IF FirstHunk(s, p) # 0 THEN read[FirstHunk(s, p)]
        ELSE IF s[p].kind = "diff" \/ IsKind(s, p + 1, "hunk") THEN Rejected
        ELSE read[p + 1]
  IN  IF IsKind(s, 1, "hunk") THEN Rejected ELSE read[1]

\* git accepts s if it finds something to apply in it.
GitAccepts(s) == GitReads(s).ok /\ GitReads(s).taken # {}
=============================================================================
