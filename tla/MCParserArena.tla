--------------------------- MODULE MCParserArena ---------------------------
(* Small arenas: pools of three words, objects that fill one word, two      *)
(* words or a whole pool, segments of two identifiers.                      *)
EXTENDS ParserArena, TLC

Symmetry == Permutations(Pools) \cup Permutations(Segments)
===========================================================================
