--------------------------- MODULE LoyaltyPromise ---------------------------
(***************************************************************************)
(* What the loyalty ledger of core-app promises its customers, without     *)
(* threads, documents or crashes:                                          *)
(*   - an order is recorded before its points are credited, and they are   *)
(*     credited at most once;                                              *)
(*   - a coupon code is handed out against a payment made before, one code *)
(*     per payment;                                                        *)
(*   - a code leaves the shelf only after it was handed out.               *)
(* The promise is deliberately weak where the code is: a payment may stay  *)
(* without a code, a recorded order without its points, and a code that    *)
(* was handed out may be back on the shelf.                                *)
(***************************************************************************)
EXTENDS Naturals

CONSTANTS Orders, Codes

VARIABLES
  recorded,  \* orders on record
  credits,   \* [Orders -> Nat]: times an order was credited
  paid,      \* payments made, by number
  receipts,  \* set of <<payment, code>>: the codes handed out
  shelf      \* codes on sale

promised == <<recorded, credits, paid, receipts, shelf>>

HandedOut == {r[2] : r \in receipts}

Init ==
  /\ recorded = {}
  /\ credits = [o \in Orders |-> 0]
  /\ paid = {}
  /\ receipts = {}
  /\ shelf = Codes

Record(o) ==
  /\ o \notin recorded
  /\ recorded' = recorded \cup {o}
  /\ UNCHANGED <<credits, paid, receipts, shelf>>

Credit(o) ==
  /\ o \in recorded
  /\ credits[o] = 0
  /\ credits' = [credits EXCEPT ![o] = 1]
  /\ UNCHANGED <<recorded, paid, receipts, shelf>>

Pay(p) ==
  /\ paid' = paid \cup {p}
  /\ UNCHANGED <<recorded, credits, receipts, shelf>>

HandOut(p, x) ==
  /\ p \in paid
  /\ \A r \in receipts : r[1] # p
  /\ receipts' = receipts \cup {<<p, x>>}
  /\ UNCHANGED <<recorded, credits, paid, shelf>>

Restock ==
  /\ shelf' \subseteq Codes
  /\ Codes \ shelf' \subseteq HandedOut
  /\ UNCHANGED <<recorded, credits, paid, receipts>>

Next ==
  \/ \E o \in Orders : Record(o) \/ Credit(o)
  \/ \E p \in paid' : Pay(p)
  \/ \E p \in paid, x \in Codes : HandOut(p, x)
  \/ Restock

Spec == Init /\ [][Next]_promised
=============================================================================
