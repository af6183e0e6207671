----------------------------- MODULE MCHarness -----------------------------
(* Files of up to three characters, a read buffer of two, two rounds.      *)
EXTENDS Harness

MCContents == {<<>>, <<"nl">>, <<"x">>, <<"x", "nl">>, <<"x", "nl", "nl">>,
               <<"x", "nl", "y">>, <<"nl", "x", "y">>}
MCSyntax == <<"x", "nl", "y">>
MCLines == {MCSyntax}
=============================================================================
