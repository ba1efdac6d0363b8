---------------------------- MODULE MCPurchasing ----------------------------
(***************************************************************************)
(* Purchasing on small instances: one material requested by two purchase   *)
(* requests, two new orders and one of an earlier release.                 *)
(***************************************************************************)
EXTENDS Purchasing, TLC

CONSTANTS o1, o2, o3, m1, r1, r2, p1, p2

Q(a) == m1 :> a
S(a, b) == (p1 :> a) @@ (p2 :> b)
R(o, n) == [order |-> o, material |-> m1, qty |-> n]

MCRequestOf == (p1 :> r1) @@ (p2 :> r2)
MCMaterialOf == (p1 :> m1) @@ (p2 :> m1)
MCRequestedQty == S(1, 2)
MCLegacyQty == o3 :> Q(1)

\* Integrations compete for the first request's line; allocations are moved
\* to the second's.
MCIntegrations == {S(1, 1)}
MCDrafts == {Q(1), Q(2)}
MCReallocations == {S(0, 2)}
\* o1 is received alone, o2 and o3 in one document.
MCReceipts == {<<R(o1, 1)>>, <<R(o3, 1), R(o2, 1)>>}
\* A document whose first item names no order.
MCMixedReceipts == {<<R(NoOrder, 1), R(o1, 1)>>}

\* Calls are interchangeable; every property of the run is a safety property.
CallSymmetry == Permutations(Calls)
=============================================================================
