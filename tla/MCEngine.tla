------------------------------ MODULE MCEngine ------------------------------
(* Engine on small instances, for TLC. *)
EXTENDS Engine, TLC

\* Connections are interchangeable: no definition picks one of them.
ConnSymmetry == Permutations(Conns)
=============================================================================
