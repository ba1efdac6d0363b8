--------------------------- MODULE MCStockLedger ---------------------------
(***************************************************************************)
(* StockLedger on small instances.                                         *)
(***************************************************************************)
EXTENDS StockLedger, TLC

\* Key 1 has stock; 2 and 3 have no row yet.
MCKeys == 1..3
MCProvisioned == {1}
MCInitQty == (1 :> 2) @@ (2 :> 0) @@ (3 :> 0)

I(type, key, target, n, month) ==
  [type |-> type, key |-> key, target |-> target, qty |-> n, month |-> month]

\* Stock taken whole; a document dated in two months; first receipts of two
\* keys in either order; a bad second item; a MOVE and an IN whose document
\* numbers collide; one key twice.
MCRequests == {
  <<I("OUT", 1, 1, 2, 1)>>,
  <<I("ADJ", 1, 1, -1, 2), I("IN", 2, 2, 2, 1)>>,
  <<I("MOVE", 1, 2, 1, 2)>>,
  <<I("IN", 2, 2, 1, 1), I("IN", 3, 3, 1, 1)>>,
  <<I("IN", 3, 3, 1, 1), I("IN", 2, 2, 1, 1)>>,
  <<I("IN", 1, 1, 1, 1), I("OUT", 1, 1, 0, 1)>>,
  <<I("MOVE", 1, 2, 1, 1), I("IN", 1, 1, 1, 1)>>,
  <<I("IN", 1, 1, 1, 1), I("OUT", 1, 1, 2, 1)>>
}
=============================================================================
