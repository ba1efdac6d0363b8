---------------------------- MODULE AtomicStock ----------------------------
(***************************************************************************)
(* What the stock service promises about the rows of a set of keys: each   *)
(* accepted request is applied at one instant, whole and leg by leg, to    *)
(* the current quantities, without any of them ever going below zero, and  *)
(* its history is booked at that same instant; a refused one leaves        *)
(* nothing.                                                                *)
(***************************************************************************)
EXTENDS StockItems, Functions

CONSTANTS Txs, InitQty

VARIABLES qty, balance, state, request

avars == <<qty, balance, state, request>>

Init ==
  /\ qty = [k \in Keys |-> InitQty[k]]
  /\ balance = [k \in Keys |-> [m \in Months |-> InitQty[k]]]
  /\ state = [t \in Txs |-> "idle"]
  /\ request = [t \in Txs |-> <<>>]

\* The legs of a request, each the position of an item and a leg of it, in
\* the order they are applied in.
LegsOf(items) ==
  {s \in (DOMAIN items) \X (1..2) : s[2] \in Legs(items[s[1]])}

Upto(items, s) ==
  {r \in LegsOf(items) : r[1] < s[1] \/ (r[1] = s[1] /\ r[2] <= s[2])}

\* What leg s adds to key k, with an item dated after month m left out.
LegEffect(items, s, k, m) ==
  IF LegKey(items[s[1]], s[2]) = k /\ items[s[1]].month <= m
  THEN LegDelta(items[s[1]], s[2]) ELSE 0

Effect(items, S, k, m) ==
  SumFunctionOnSet([s \in S |-> LegEffect(items, s, k, m)], S)

Accept(t) ==
  /\ state[t] = "idle" /\ state' = [state EXCEPT ![t] = "open"]
  /\ request' = [request EXCEPT ![t] = request'[t]]
  /\ UNCHANGED <<qty, balance>>

Post(t) ==
  /\ state[t] = "open" /\ state' = [state EXCEPT ![t] = "posted"]
  /\ \A k \in Keys : \A s \in LegsOf(request[t]) :
       qty[k] + Effect(request[t], Upto(request[t], s), k, LastMonth) >= 0
  /\ LET all == LegsOf(request[t])
     IN  /\ qty' = [k \in Keys |->
                      qty[k] + Effect(request[t], all, k, LastMonth)]
         /\ balance' = [k \in Keys |-> [m \in Months |->
                          balance[k][m] + Effect(request[t], all, k, m)]]
  /\ UNCHANGED request

Refuse(t) ==
  /\ state[t] = "open" /\ state' = [state EXCEPT ![t] = "idle"]
  /\ request' = [request EXCEPT ![t] = <<>>]
  /\ UNCHANGED <<qty, balance>>

Next == \E t \in Txs : Accept(t) \/ Post(t) \/ Refuse(t)

Spec == Init /\ [][Next]_avars
=============================================================================
