------------------------------- MODULE MCBoard -------------------------------
(***************************************************************************)
(* Board on a small instance: one post, two calls and a pool of one or     *)
(* three connections.                                                      *)
(***************************************************************************)
EXTENDS Board, TLC

\* Every property of the run is a safety property.
Symmetry == Permutations(Calls) \union Permutations(Objects) \union Permutations(Authors)
=============================================================================
