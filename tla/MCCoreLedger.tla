---------------------------- MODULE MCCoreLedger ----------------------------
(* Small instances of CoreLedger for TLC. *)
EXTENDS CoreLedger, TLC

CONSTANTS u1, u2, c1, x1, x2, r1, o1, o2, n1

\* One campaign whose coupon costs the points of two orders.
MCCouponOf == [x \in Codes |-> c1]
MCPrice == [c \in Coupons |-> 2]
MCRewardPoints == [r \in Rewards |-> 3]
MCOrderNumber == [o \in Orders |-> n1]
MCOrderPoints == [o \in Orders |-> 1]
MCOrderCode == [o \in Orders |-> IF o = o1 THEN x1 ELSE None]
MCStartPoints == [u \in Users |-> 2]

Symmetry == Permutations(Threads)
=============================================================================
