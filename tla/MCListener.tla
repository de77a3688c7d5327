------------------------------ MODULE MCListener -----------------------------
(***************************************************************************)
(* The listener with its public functions called in any order, from any    *)
(* thread.                                                                 *)
(***************************************************************************)
EXTENDS Listener, TLC

\* Connections are interchangeable: sound for the safety properties only.
Symmetry == Permutations(Conns)
=============================================================================
