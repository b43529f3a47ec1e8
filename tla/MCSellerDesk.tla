---------------------------- MODULE MCSellerDesk ----------------------------
(* Small instances of SellerDesk for TLC. *)
EXTENDS SellerDesk, TLC

CONSTANTS t1, t2, t3, x1, x2, k1

\* One campaign; the first cart reaches its minimum at listed values only.
MCCampaignOf == [x \in Codes |-> k1]
MCMinimum == [k \in Campaigns |-> 2]
MCListed == [t \in Transactions |-> 3]
MCActual == [t \in Transactions |-> IF t = t2 THEN 1 ELSE 3]

Symmetry == Permutations(Codes)
=============================================================================
