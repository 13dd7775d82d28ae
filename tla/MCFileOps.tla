------------------------------ MODULE MCFileOps ------------------------------
(* Instances of FileOps for TLC: tool calls and texts are model values. *)
EXTENDS FileOps

CONSTANTS o1, o2, a, b
=============================================================================
