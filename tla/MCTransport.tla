----------------------------- MODULE MCTransport -----------------------------
(* Instances of Transport for TLC.                                         *)
EXTENDS Transport, TLC

\* The tasks are interchangeable model values.
Symmetry == Permutations(Tasks)
=============================================================================
