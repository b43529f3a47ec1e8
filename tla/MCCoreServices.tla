--------------------------- MODULE MCCoreServices ---------------------------
(***************************************************************************)
(* The parts of core-app beside the ledger: two requests to log in with one *)
(* email and the points of an account, and the shop.  They share no         *)
(* variable: a behaviour follows one of them, and of the shop the           *)
(* catalogue, a checkout or the web sockets.                                *)
(***************************************************************************)
EXTENDS Onboarding, Storefront, TLC

CONSTANTS l1, l2, i1, i2, p1, p2, c1, s1

VARIABLE part

MCEmailOf    == [l \in Logins |-> "email"]
MCProviderOf == (i1 :> p1) @@ (i2 :> p2)
MCCoupon     == [kind |-> "percent", value |-> 15, cap |-> 400, minimum |-> 2000]

MCInit ==
  /\ OnboardingInit /\ StoreInit
  /\ price = [i \in Items |-> [listed |-> 2050, value |-> 2050]]
  /\ part \in {"accounts", "points", "faults", "catalogue", "checkout", "sockets"}
  /\ active = IF part = "catalogue" THEN Items ELSE {i1}
  /\ trading = Providers

Resync == Catalogue \/ HandleSearch

\* The catalogue fails, and its items and providers are taken off.
Catalogues ==
  /\ part = "catalogue"
  /\ \/ Resync \/ CrashShop
     \/ \E i \in Items : AddItem(i)
     \/ \E p \in Providers : AddProvider(p)

\* A customer with an open socket, who uses a coupon first, while the catalogue is
\* replaced.
Checkouts ==
  /\ part = "checkout"
  /\ \/ Connect(s1, c1) \/ Register(s1)
     \/ /\ sock[s1].state = "open"
        /\ Resync \/ Checkout \/ AddItem(i1)
        /\ faults' = faults /\ active' = active
        /\ issued' = 0 /\ cart'[c1].docs # {} => cart'[c1].offer

\* One transaction, told over any of the sockets.
Tellings ==
  /\ part = "sockets"
  /\ \/ batch < Cardinality(Providers) /\ Resync /\ faults' = faults
     \/ Checkout /\ issued' <= 1
     \/ WebSockets \/ CrashShop

Shops == (Catalogues \/ Checkouts \/ Tellings) /\ UNCHANGED <<part, onboardingVars>>

\* The second login is of the account that the first has made, to which only the first
\* adds a phone number; the calls of addPoints so far are at most n.
OneAccount(n) ==
  /\ thread[l2].step = "none" /\ thread'[l2].step # "none" => doc[l1].saved
  /\ thread'[l2].step # "checked"
  /\ \A k \in Additions : k > n => addition'[k].step = "none"

\* A member's points rise and fall while other requests save the document and the card
\* is rewritten: three calls of addPoints, or two and a login.
MembersPoints ==
  /\ failures' = failures
  /\ \E n \in {2, 3} : OneAccount(n) /\ (n = 3 => thread'[l2].step = "none")
  /\ \A k \in Additions :
       addition[k].step = "none" /\ addition'[k].step # "none" =>
         badge[addition'[k].user] # None

\* Two logins with one email; points; or one call of addPoints, at any time, and a failure.
Onboards ==
  /\ OnboardingNext
  /\ \/ part = "accounts" /\ UNCHANGED addition
     \/ part = "points" /\ MembersPoints
     \/ part = "faults" /\ OneAccount(1)
  /\ UNCHANGED <<part, storeVars>>

MCSpec == MCInit /\ [][Shops \/ Onboards]_<<part, onboardingVars, storeVars>>
          /\ OnboardingFairness

=============================================================================
