------------------------------ MODULE MCPatch ------------------------------
(* Patch on every body of at most three lines.                             *)
EXTENDS Patch

\* A line that ends in blanks.
Blank(k) == [kind |-> k, old |-> 0, new |-> 0, blank |-> TRUE]

BodyLine == {Plain(k) : k \in Kind \ {"hunk", "fence", "dfence", "lang"}}
              \union {Hunk(1, 0), Hunk(1, 1), Blank("add"), Blank("del")}

Bodies == UNION {[1 .. n -> BodyLine] : n \in 1 .. 3}

Lines(kinds) == [p \in DOMAIN kinds |-> Plain(kinds[p])]

\* What may come before a diff and after it.
Wrapping ==
  {<<<<>>, <<>>>>,
   <<<<"text", "dfence">>, <<"fence", "text">>>>,
   <<<<"dfence">>, <<>>>>,
   <<<<"lang", "text", "fence", "fence">>, <<"fence">>>>,
   <<<<>>, <<"bare", "text">>>>}

Headers == {<<"diff">>, <<"minus", "plus">>}

AllTexts ==
  {Lines(w[1] \o h) \o <<Hunk(1, 1)>> \o b \o Lines(w[2]) :
     w \in Wrapping, h \in Headers, b \in Bodies}

\* The header that git expects over the body b.
RightHunk(b) ==
  Hunk(Cardinality(At(b, 1, Len(b), GitOld)), Cardinality(At(b, 1, Len(b), GitNew)))

\* A change of one line, then two or three lines more, all counted in the header.
RightTexts ==
  LET more == UNION {[1 .. n -> {"add", "del", "ctx", "bare"}] : n \in 2 .. 3}
      bodies == {Lines(<<"ctx", "del", "add">> \o m) : m \in more}
  IN  {Lines(<<"minus", "plus">>) \o <<RightHunk(b)>> \o b : b \in bodies}
=============================================================================
