-------------------------- MODULE MC_ReviewSession --------------------------
(* Instances of the review session, and of the texts below it, for TLC. *)
EXTENDS ReviewSession, TextPatches

CONSTANTS a, b

Hunk(first, last, new) == [first |-> first, last |-> last, new |-> new]

MC_FirstPlan == <<a, b>>
MC_Sources   == {<<a, b>>, <<b, a>>, <<b, b>>}

\* A line grows; one line goes and another grows, with a line between them.
MC_Patches == {<<Hunk(1, 1, <<a, b>>)>>, <<Hunk(1, 1, <<>>), Hunk(3, 3, <<b, a>>)>>}

MC_Letters == {"x", "y", "z"}

\* Three lines, of which some may be equal or part of one another; or four
\* different lines, so that deletions have a line before and one in between.
MC_TextDocuments ==
    UNION {[1 .. n -> {<<>>, <<"x">>, <<"y">>, <<"x", "y">>}] : n \in 1 .. 3}
        \union {d \in [1 .. 4 -> {<<>>, <<"x">>, <<"y">>, <<"z">>}] : IsInjective(d)}

\* A hunk deletes its lines, or puts two others there.
MC_Replacements == {<<>>, <<<<"z">>, <<"z">>>>}
=============================================================================
