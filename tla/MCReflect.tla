------------------------------ MODULE MCReflect ------------------------------
(* Reflect for TLC.  The bounds are in the configurations.                 *)
EXTENDS Reflect
=============================================================================
