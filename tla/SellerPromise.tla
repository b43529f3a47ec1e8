--------------------------- MODULE SellerPromise ---------------------------
(***************************************************************************)
(* What the seller promises its buyers: a transaction is sold once, and    *)
(* every confirmation of it, however often it is asked for, names that one *)
(* sale.  A confirmation that carries an offer comes after the coupon was  *)
(* spent on the sale it names.                                             *)
(***************************************************************************)
CONSTANTS Transactions, Codes

VARIABLES
  sold,      \* set of <<transaction, order>>
  spent,     \* set of <<code, order>>: coupons marked as used
  confirmed, \* set of <<transaction, order>> that were told to buyers
  honoured   \* set of <<code, order>>: the offers of those confirmations

vars == <<sold, spent, confirmed, honoured>>

Init == sold = {} /\ spent = {} /\ confirmed = {} /\ honoured = {}

\* A transaction that was not sold before is sold as a new order.
Sell ==
  /\ \E s \in sold' :
       /\ s[1] \in Transactions
       /\ \A r \in sold : r[1] # s[1] /\ r[2] # s[2]
       /\ sold' = sold \cup {s}
  /\ UNCHANGED <<spent, confirmed, honoured>>

\* A coupon is marked as used, for good, by an order that was sold and that no
\* other coupon has discounted.
Spend ==
  /\ \E s \in spent' :
       /\ s[1] \in Codes
       /\ \A r \in spent : r[1] # s[1] /\ r[2] # s[2]
       /\ \E r \in sold : r[2] = s[2]
       /\ spent' = spent \cup {s}
  /\ UNCHANGED <<sold, confirmed, honoured>>

\* A buyer is told of a sale, once or repeatedly, with the coupon it used or
\* without.
Confirm ==
  /\ \E s \in sold :
       /\ confirmed' = confirmed \cup {s}
       /\ \/ UNCHANGED honoured
          \/ \E r \in spent : r[2] = s[2] /\ honoured' = honoured \cup {r}
  /\ UNCHANGED <<sold, spent>>

Next == Sell \/ Spend \/ Confirm

Spec == Init /\ [][Next]_vars
=============================================================================
