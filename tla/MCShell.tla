------------------------------- MODULE MCShell -------------------------------
(* Two names, one of them a script's, in two levels of directories.        *)
EXTENDS Shell

\* Trees with one level of entries, trees with two, and trees with nothing in
\* them.  A name that is missing at first others may create.
Tree(f) == [p \in Paths |-> IF p \in DOMAIN f THEN f[p] ELSE "none"]
Flat == {Tree([p \in {<<>>, <<"a">>, <<"b.js">>} |->
                  IF p = <<>> THEN "directory" ELSE k[p[1]]]) :
            k \in [Names -> Kinds \ {"none", "other"}]}
Deep == {Tree([p \in {<<>>, <<"a">>, <<"b.js">>, <<"a", "a">>, <<"a", "b.js">>, <<"b.js", "b.js">>} |->
                  CASE Len(p) < 2 -> "directory"
                    [] p = <<"a", "a">> -> "none"
                    [] OTHER -> k[p[1]]]) : k \in [Names -> {"none", "file", "directory"}]}
Bare == {Tree([p \in {<<>>} |-> k]) : k \in Kinds}
AllTrees == Flat \cup Deep \cup Bare

Lines == {<<"scandir.js", "directory">>, <<"--debug", "scandir.js">>}
    \cup {<<"scandir.js", "--syntax", "directory">>, <<"scandir.js", "--other">>, <<>>,
          <<"missing.js">>, <<"broken.js">>, <<"directory">>}
==============================================================================
