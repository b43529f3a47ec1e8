------------------------- MODULE MembershipPromise -------------------------
(***************************************************************************)
(* What joining the loyalty programme promises, without threads, tasks,    *)
(* wallets or an nft-service:                                              *)
(*   - whoever is a member has an account, and is a member for good;       *)
(*   - points rise and fall, and only of who has an account;               *)
(*   - only a member's card is rewritten, and it shows points that the     *)
(*     member has, or had;                                                 *)
(*   - the card of a member to whom nothing has happened never goes back   *)
(*     to points that the member had before those that it shows.           *)
(* The promise is weak where the code is: a card may be late, and after    *)
(* harm it may return to what was true once.                               *)
(***************************************************************************)
EXTENDS Integers, Sequences

CONSTANTS Users

VARIABLES
  joined,  \* users with an account
  members, \* users with the member badge
  had,     \* [Users -> Seq(Int)]: the points a user has had; the last are the user's
  card,    \* [Users -> [points : Int, turn : Nat]]: those it shows, and their place
  harmed   \* users to whom something has happened

vars == <<joined, members, had, card, harmed>>

Init ==
  /\ joined = {} /\ members = {} /\ harmed = {}
  /\ had = [u \in Users |-> <<0>>]
  /\ card = [u \in Users |-> [points |-> 0, turn |-> 1]]

Join(u) ==
  /\ joined' = joined \cup {u}
  /\ UNCHANGED <<members, had, card, harmed>>

Enrol(u) ==
  /\ u \in joined
  /\ members' = members \cup {u}
  /\ UNCHANGED <<joined, had, card, harmed>>

Harm == harmed \subseteq harmed'

\* The points become any others; what writes them may do harm.
Change(u) ==
  /\ u \in joined
  /\ LET now == had'[u][Len(had'[u])] IN had' = [had EXCEPT ![u] = Append(@, now)]
  /\ Harm
  /\ UNCHANGED <<joined, members, card>>

\* The card catches up, or is left with what it once had to show.
Show(u) ==
  /\ u \in members
  /\ \E n \in DOMAIN had[u] :
       /\ n < card[u].turn => u \in harmed
       /\ card' = [card EXCEPT ![u] = [points |-> had[u][n], turn |-> n]]
  /\ UNCHANGED <<joined, members, had, harmed>>

Hurt == Harm /\ UNCHANGED <<joined, members, had, card>>

Next ==
  \/ \E u \in Users : Join(u) \/ Enrol(u) \/ Change(u) \/ Show(u)
  \/ Hurt

Spec == Init /\ [][Next]_vars
=============================================================================
