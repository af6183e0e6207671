------------------------------ MODULE MCLexer ------------------------------
(* Source texts for Lexer, put together from pieces: a family for each     *)
(* group of functions that share a buffer or a flag.                       *)
EXTENDS Lexer

\* All concatenations of at most n of the pieces.
Texts0(pieces, n) == UNION {{FlattenSeq(s) : s \in [1 .. k -> pieces]} : k \in 0 .. n}

Digit(d, n) == [i \in 1 .. n |-> d]

\* Literals around the limits of the fast paths, and what may follow them.
Numbers == {a \o b \o c \o d :
    a \in {<<>>, <<"0">>, <<"0", "x">>},
    b \in {Digit(x, n) : x \in {"7", "9", "e"}, n \in {0, 1, 7, 8, 9}},
    c \in {<<>>, <<"3">>, <<"9">>, <<"a">>, <<".">>},
    d \in {<<>>, <<"7">>, <<"e", "9">>, <<"e", "-">>, <<"x">>, <<"semi", "6">>}}

\* Line breaks between tokens, in comments, and the tokens they matter for.
Lines == Texts0({<<"nl">>, <<"/", "*">>, <<"*", "/">>, <<"-", "-">>, <<">">>, <<"+", "+">>,
                 <<"return">>}, 4)
    \cup Texts0({<<"nl">>, <<"cr">>, <<"/", "/">>, <<"<", "!", "-", "-">>, <<"+", "+">>,
                 <<"return">>, <<" ">>}, 3)

\* Strings: escapes, line continuations, and every way they end too early.
Strings == {<<"'">> \o s : s \in Texts0({<<"'">>, <<"\\">>, <<"x">>, <<"u">>, <<"0", "0">>,
                                        <<"6">>, <<"3", "9">>, <<"n">>, <<"nl">>, <<"cr">>}, 3)}

\* Names with escapes in them: letters (i, f, n, g and one that is not ASCII),
\* the digit 9, an accent, a line break and a control character.
Escaped == {<<"0", "0", "6", "9">>, <<"0", "0", "6", "6">>, <<"0", "0", "6", "e">>,
            <<"0", "0", "6", "7">>, <<"0", "0", "a", "a">>, <<"0", "0", "3", "9">>,
            <<"0", "3", "0", "0">>, <<"0", "0", "0", "a">>, <<"0", "0", "0", "0">>}
Pieces == {<<"i">>, <<"f">>, <<"9">>, <<"\\">>, <<"u">>, <<" ">>}
Names == Texts0(Pieces \cup {<<"\\", "u">> \o code : code \in Escaped}, 2)
    \cup Texts0({<<"i">>, <<"9">>, <<" ">>, <<"\\", "u", "0", "0", "6", "6">>,
                <<"\\", "u", "0", "3", "0", "0">>}, 3)

\* Patterns and divisions.
Patterns == {<<"/">> \o s : s \in Texts0({<<"/">>, <<"=">>, <<"[">>, <<"]">>, <<"\\">>, <<"a">>,
                                          <<"ls">>}, 3)}

\* Every operator before every character that may belong to it.
Spellings == {op[1] \o <<c>> : op \in Operators,
                               c \in {"=", "<", ">", "+", "-", "&", "|", "/", "*", "!", "9", "#"}}

AllTexts == Numbers \cup Lines \cup Strings \cup Names \cup Patterns \cup Spellings
=============================================================================
