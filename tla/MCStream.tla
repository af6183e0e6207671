----------------------------- MODULE MCStream -----------------------------
(* Small instances of Stream: one file, one or two streams, files of at    *)
(* most three characters and a read buffer of two, so that refills, read-   *)
(* ahead, overwriting and gaps all happen.                                 *)
EXTENDS Stream, TLC

MCContents == {<<"x">>, <<"x", "nl", "y">>}
SharedContents == {<<"nl", "x">>}
MCLines == {<<>>, <<"y">>}
SharedLines == {<<>>, <<"y">>}

\* Streams are interchangeable: no action and no property tells them apart.
Symmetry == Permutations(Streams)

\* What the last call returned influences no later step, and of the state bits
\* only whether the stream is good and whether it has met end of file.  After
\* the process ends no step follows: the disk and the histories are left.
Essence(d) == [d EXCEPT !.state = (@ \cap {"eof"}) \cup (IF @ = {} THEN {} ELSE {"fail"})]
View == IF running THEN <<diskVars, heapVars, [s \in Streams |-> Essence(fs[s])], calls, log>>
                   ELSE <<diskVars, log>>
===========================================================================
