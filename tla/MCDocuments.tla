----------------------------- MODULE MCDocuments -----------------------------
(***************************************************************************)
(* Documents on a small instance: a work order and a PM record, each with  *)
(* an approval; the record's may be raised for nothing, too.               *)
(***************************************************************************)
EXTENDS Documents, TLC

CONSTANTS wo, pm, a1, a2, u1, u2

MCTargets == (a1 :> {wo}) @@ (a2 :> {pm, NoDoc})
MCLines == {<<u1>>, <<u1, u2>>}

\* Calls are interchangeable; every property of the run is a safety property.
CallSymmetry == Permutations(Calls)
=============================================================================
