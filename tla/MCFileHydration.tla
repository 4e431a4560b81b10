---------------------------- MODULE MCFileHydration ----------------------------
(* A manifest with a script and a binary that have the same bytes.         *)
EXTENDS FileHydration

CONSTANTS c1, js, bin

TwoNames == [p \in {js, bin} |-> c1]
OneName == [p \in {js} |-> c1]
=============================================================================
