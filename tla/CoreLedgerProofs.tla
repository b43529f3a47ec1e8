-------------------------- MODULE CoreLedgerProofs --------------------------
(***************************************************************************)
(* Proofs about CoreLedger for every set of users, coupons, codes, orders, *)
(* rewards and request threads, and every bound.                           *)
(*                                                                         *)
(* Each invariant is strengthened by what the threads hold in their local  *)
(* variables between a find and a save; the strengthenings are the         *)
(* definitions of the first part.                                          *)
(***************************************************************************)
EXTENDS CoreLedger, FiniteSetTheorems, TLAPS

\* What a thread runs is told by which argument its job carries.
Buys(j)     == j.coupon \in Coupons /\ j.reward = None /\ j.order = None
Claims(j)   == j.reward \in Rewards /\ j.coupon = None /\ j.order = None
Confirms(j) == j.order \in Orders /\ j.coupon = None /\ j.reward = None

\* Which job an actor has at each of its steps.
JobsFit ==
  /\ \A a \in Actors :
       /\ pc[a] # "idle" => job[a].user \in Users
       /\ pc[a] = "readCoupon" => Buys(job[a])
       /\ pc[a] \in {"grant", "saveCoupon"} => Buys(job[a]) /\ job[a].code \in Codes
       /\ pc[a] = "saveReward" => Claims(job[a])
  /\ \A t \in Threads :
       pc[t] \in {"readPoints", "writePoints", "sendTask"} =>
         (Buys(job[t]) /\ job[t].code \in Codes) \/ Claims(job[t])
  /\ pc[Listener] # "idle" => Confirms(job[Listener])

TypeInv == TypeOK /\ JobsFit

\* Every user document a thread has read keeps the order of its two counters.
DocsWithinLifetime == \A a \in Actors : doc[a].available <= doc[a].lifetime

LifetimeInv == AvailableWithinLifetime /\ DocsWithinLifetime

\* While the consumer is about to write points, the order is recorded and its
\* points are not written; an executor task belongs to a recorded order.
CreditPending ==
  pc[Listener] \in {"readPoints", "writePoints"} =>
    /\ saves[job[Listener].order] = 1
    /\ credits[job[Listener].order] = 0

TimersRecorded == \A o \in timers : orderStatus[o] # "none"

CreditInv == CreditedOnce /\ CreditPending /\ TimersRecorded

\* The coupon object in a buyer's memory lacks only codes that are sold, and
\* the one it is about to grant.
LeftAccounted ==
  \A t \in Threads :
    /\ job[t].coupon # None
         /\ pc[t] \in {"readPoints", "writePoints", "sendTask", "grant"} =>
            CodesOf(job[t].coupon) \ left[t] \subseteq SoldCodes \cup {job[t].code}
    /\ pc[t] = "saveCoupon" => CodesOf(job[t].coupon) \ left[t] \subseteq SoldCodes

CodesInv == NoCodeLost /\ LeftAccounted

AddPointsSteps == {"readPoints", "writePoints", "sendTask"}

\* Requests are numbered by serial: two at work have different numbers, and
\* what bears a number was made by the request of that number.
NumbersFresh ==
  /\ \A t \in Threads : pc[t] # "idle" => job[t].id <= serial
  /\ \A t, s \in Threads :
       t # s /\ pc[t] # "idle" /\ pc[s] # "idle" => job[t].id # job[s].id
  /\ \A g \in granted : g.id <= serial
  /\ \A t \in Threads, g \in granted :
       pc[t] \in AddPointsSteps \cup {"readCoupon", "grant", "saveReward"} =>
         g.id # job[t].id

\* A buyer past WritePoints has paid; a claimant past SaveReward is on record.
DebtsKept ==
  \A t \in Threads :
    /\ pc[t] \in {"sendTask", "grant"} /\ job[t].coupon # None =>
         job[t].id \in debited
    /\ pc[t] \in AddPointsSteps /\ job[t].reward # None =>
         \E d \in rewards : d.id = job[t].id

PaidInv == PaidBeforeGranted /\ NumbersFresh /\ DebtsKept

\* An on_confirm message names the code of its order or none; the consumer
\* comes to the coupon only once the order is on record.
ConfirmsMatch ==
  /\ \A m \in inbox : m.code \in {OrderCode[m.order], None}
  /\ pc[Listener] # "idle" =>
       job[Listener].code \in {OrderCode[job[Listener].order], None}
  /\ pc[Listener] \in AddPointsSteps \cup {"mark"} =>
       orderStatus[job[Listener].order] # "none"

UsedInv == UsedCouponNamesItsOrder /\ ConfirmsMatch

\* What an actor has read of a user whose points nobody lowered under a check:
\* no document in its hands is overdrawn, a purchase between its two reads has
\* compared a document that shows no more than the stored one, and past the
\* second read it holds the points it pays with.
HoldsBackedDoc(a) ==
  /\ pc[a] \in {"checkPhone", "saveProfile", "writePoints"} => doc[a].available >= 0
  /\ job[a].coupon # None =>
       /\ pc[a] \in {"readPoints", "writePoints"} => Affords(a)
       /\ pc[a] \in {"readCoupon", "readPoints"} =>
            doc[a].available <= users[job[a].user].available

BackedInv ==
  /\ OverdrawnOnlyIfUndercut
  /\ \A a \in Actors :
       pc[a] # "idle" /\ job[a].user \notin undercut => HoldsBackedDoc(a)

\* The orders without their points that no exception explains can be counted.
Unexplained == Missed \ failed

MissedInv == IsFiniteSet(Unexplained) /\ Cardinality(Unexplained) <= crashes

\* A campaign's stored document, and the copies that buyers hold, list codes of
\* this campaign only; a buyer holds one of them.
CodesAtHome ==
  \A c \in Coupons :
    /\ pool[c] \subseteq CodesOf(c)
    /\ \A t \in Buyers(c) :
         left[t] \subseteq CodesOf(c) /\ job[t].code \in CodesOf(c)

\* While no purchase ended half saved and no two had a campaign in memory at once:
\* its only buyer holds a code that is still on the shelf, and that code alone
\* may be both on the shelf and sold, between the buyer's two saves.
InOrder(c) ==
  /\ \A s, t \in Buyers(c) : s = t
  /\ \A t \in Buyers(c) :
       /\ job[t].code \in pool[c]
       /\ left[t] = pool[c] \ {job[t].code}
       /\ job[t].code \in SoldCodes => pc[t] = "saveCoupon"
  /\ \A x \in pool[c] \cap SoldCodes : \E t \in Buyers(c) : job[t].code = x

\* A request has a code in its hands only from its find of the campaign on.
EmptyHanded == {"idle", "readCoupon", "saveReward", "checkPhone", "saveProfile"}

CodesInHand ==
  \A t \in Threads :
    /\ pc[t] \in EmptyHanded => job[t].code = None
    /\ pc[t] = "saveCoupon" => job[t].code \in SoldCodes

ResaleInv ==
  /\ ResoldOnlyByRace
  /\ CodesAtHome
  /\ CodesInHand
  /\ \A c \in Coupons \ (crowded \cup torn) : InOrder(c)

-----------------------------------------------------------------------------
(***************************************************************************)
(* Type correctness                                                        *)
(***************************************************************************)

\* The points an actor adds are an integer.
LEMMA AmountType ==
  ASSUME NEW j \in Job, Buys(j) \/ Claims(j) \/ Confirms(j)
  PROVE  Amount(j) \in Int
BY DataAssumption, SetsAssumption DEF Amount, Buys, Claims, Confirms, Job

\* Adding points to a document gives a document.
LEMMA WithPointsType ==
  ASSUME NEW d \in UserDoc, NEW n \in Int
  PROVE  WithPoints(d, n) \in UserDoc
BY DEF WithPoints, UserDoc

\* A numbered job is a job.
LEMMA NumberedJobType ==
  ASSUME NEW j \in Job, NEW n \in Nat
  PROVE  [j EXCEPT !.id = n] \in Job
BY DEF Job

\* The jobs requests and the consumer begin with, before they are numbered.
LEMMA NewJobType ==
  /\ NoJob \in Job
  /\ \A u \in Users :
       /\ [NoJob EXCEPT !.user = u] \in Job
       /\ \A c \in Coupons : [NoJob EXCEPT !.user = u, !.coupon = c] \in Job
       /\ \A r \in Rewards : [NoJob EXCEPT !.user = u, !.reward = r] \in Job
       /\ \A o \in Orders, x \in Codes \cup {None} :
            [NoJob EXCEPT !.user = u, !.order = o, !.code = x] \in Job
BY DEF NoJob, Job

\* Accepting a request keeps the types of the variables it assigns.
LEMMA AcceptType ==
  ASSUME TypeInv, NEW t \in Threads, NEW j \in Job, NEW s \in RequestSteps,
         Accept(t, j, s)
  PROVE  /\ pc' \in [Actors -> Steps]
         /\ pc'[Listener] \in ListenerSteps
         /\ \A i \in Threads : pc'[i] \in RequestSteps
         /\ job' \in [Actors -> Job]
         /\ serial' \in Nat
<1>1. serial + 1 \in Nat
  BY DEF TypeInv, TypeOK
<1>2. [j EXCEPT !.id = serial + 1] \in Job
  BY <1>1, NumberedJobType
<1>3. job' \in [Actors -> Job]
  BY <1>2 DEF Accept, TypeInv, TypeOK
<1>4. /\ pc' \in [Actors -> Steps]
      /\ pc'[Listener] \in ListenerSteps
      /\ \A i \in Threads : pc'[i] \in RequestSteps
  BY SetsAssumption DEF Accept, Goto, TypeInv, TypeOK, Actors, RequestSteps
<1> QED
  BY <1>1, <1>3, <1>4 DEF Accept

\* In the initial state every variable has its type and every thread is idle.
LEMMA InitTypeInv == Init => TypeInv
<1> SUFFICES ASSUME Init PROVE TypeInv
  OBVIOUS
<1>1. NoJob \in Job /\ NoDoc \in UserDoc
  BY DEF NoJob, Job, NoDoc, UserDoc, UserWith
<1>2. users \in [Users -> UserDoc]
  BY DataAssumption DEF Init, UserWith, UserDoc
<1>3. TypeOK
  BY <1>1, <1>2 DEF Init, TypeOK, CodesOf, Steps, RequestSteps, ListenerSteps,
                    OrderStatus, Actors
<1>4. JobsFit
  BY DEF Init, JobsFit, Actors
<1> QED
  BY <1>3, <1>4 DEF TypeInv

\* The races on record are those of users and campaigns.
LEMMA RacesType ==
  ASSUME TypeInv
  PROVE  /\ \A u \in Users : NoteUndercut(u) => undercut' \subseteq Users
         /\ \A t \in Threads, c \in Coupons : NoteCrowd(t, c) => crowded' \subseteq Coupons
BY DEF NoteUndercut, NoteCrowd, TypeInv, TypeOK

\* Every step keeps the types, given that jobs fit their steps.
LEMMA NextTypeOK == TypeInv /\ [Next]_vars => TypeOK'
<1> SUFFICES ASSUME TypeInv, [Next]_vars PROVE TypeOK'
  OBVIOUS
<1> USE SetsAssumption, DataAssumption, BoundsAssumption
    DEF TypeInv, TypeOK, Actors, Goto, Steps, RequestSteps, ListenerSteps,
        db, broker, memory, history, races, faults, CallThrows
<1>0. NoJob \in Job /\ NoDoc \in UserDoc
  BY DEF NoJob, Job, NoDoc, UserDoc, UserWith
<1>1. CASE UNCHANGED vars
  BY <1>1 DEF vars
<1>2. ASSUME NEW a \in Actors, ReadPoints(a) PROVE TypeOK'
  BY <1>2 DEF ReadPoints, JobsFit
<1>3. ASSUME NEW a \in Actors, WritePoints(a) PROVE TypeOK'
  <2>1. job[a].user \in Users /\ (Buys(job[a]) \/ Claims(job[a]) \/ Confirms(job[a]))
    BY <1>3 DEF WritePoints, JobsFit
  <2>2. WithPoints(doc[a], Amount(job[a])) \in UserDoc
    BY <2>1, AmountType, WithPointsType
  <2>3. job[a].id \in Nat /\ job[a].order \in Orders \cup {None}
    BY DEF Job
  <2>4. users' \in [Users -> UserDoc]
    BY <1>3, <2>1, <2>2 DEF WritePoints
  <2>5. credits' \in [Orders -> Nat] /\ debited' \subseteq Nat /\ rewarded' \subseteq Nat
    <3>1. \/ credits' = credits
          \/ /\ job[a].order \in Orders
             /\ credits' = [credits EXCEPT ![job[a].order] = credits[job[a].order] + 1]
      BY <1>3, <2>3 DEF WritePoints
    <3>2. \A o \in Orders : credits[o] + 1 \in Nat
      OBVIOUS
    <3>3. credits' \in [Orders -> Nat]
      BY <3>1, <3>2
    <3>4. debited' \subseteq Nat /\ rewarded' \subseteq Nat
      BY <1>3, <2>3 DEF WritePoints
    <3> QED BY <3>3, <3>4
  <2>6. undercut' \subseteq Users
    BY <1>3, <2>1, RacesType DEF WritePoints
  <2> QED BY <1>3, <2>4, <2>5, <2>6 DEF WritePoints
<1>4. ASSUME NEW a \in Actors, SendTask(a) PROVE TypeOK'
  <2>1. a \in Threads => job[a].order = None
    BY <1>4 DEF SendTask, JobsFit, Buys, Claims
  <2>2. a = Listener => job[a].coupon = None /\ job[a].reward = None
    BY <1>4 DEF SendTask, JobsFit, Confirms
  <2> QED BY <1>0, <1>4, <2>1, <2>2 DEF SendTask, AfterPoints, Finish
<1>5. ASSUME NEW t \in Threads, NEW u \in Users, NEW c \in Coupons,
             BeginPurchase(t, u, c)
      PROVE TypeOK'
  BY <1>5, NewJobType, AcceptType DEF BeginPurchase
<1>6. ASSUME NEW t \in Threads, RefusePurchase(t) PROVE TypeOK'
  BY <1>0, <1>6 DEF RefusePurchase, Finish
<1>7. ASSUME NEW t \in Threads, PickCode(t) PROVE TypeOK'
  <2>1. crowded' \subseteq Coupons
    BY <1>7, RacesType DEF PickCode, JobsFit, Buys
  <2> QED BY <1>7, <2>1 DEF PickCode, JobsFit, Buys, Job
<1>8. ASSUME NEW t \in Threads, GrantCoupon(t) PROVE TypeOK'
  BY <1>8 DEF GrantCoupon, JobsFit, UserCoupon, Job
<1>9. ASSUME NEW t \in Threads, SaveCoupon(t) PROVE TypeOK'
  BY <1>0, <1>9 DEF SaveCoupon, Finish
<1>10. ASSUME NEW t \in Threads, NEW u \in Users, NEW r \in Rewards, BeginRetro(t, u, r)
       PROVE TypeOK'
  BY <1>10, NewJobType, AcceptType DEF BeginRetro
<1>11. ASSUME NEW t \in Threads, SaveReward(t) PROVE TypeOK'
  BY <1>11 DEF SaveReward, JobsFit, Claims, RetroReward, Job
<1>12. ASSUME NEW t \in Threads, NEW u \in Users, BeginProfileSave(t, u) PROVE TypeOK'
  BY <1>12, NewJobType, AcceptType DEF BeginProfileSave
<1>13. ASSUME NEW t \in Threads, SaveProfile(t) PROVE TypeOK'
  <2>1. undercut' \subseteq Users
    BY <1>13, RacesType DEF SaveProfile, JobsFit
  <2> QED BY <1>0, <1>13, <2>1 DEF SaveProfile, Finish
<1>14. ASSUME NEW t \in Threads, NEW u \in Users, BeginAddPhone(t, u) PROVE TypeOK'
  BY <1>14, NewJobType, AcceptType DEF BeginAddPhone
<1>15. ASSUME NEW t \in Threads, CheckPhone(t) PROVE TypeOK'
  <2>1. CASE Finish(t)
    BY <1>0, <1>15, <2>1 DEF CheckPhone, Finish
  <2>2. ASSUME NEW n \in Numbers, doc' = [doc EXCEPT ![t].phone = n],
               Goto(t, "saveProfile"), UNCHANGED <<job, left>>
        PROVE TypeOK'
    <3>0. doc[t] \in UserDoc
      OBVIOUS
    <3>1. [doc[t] EXCEPT !.phone = n] \in UserDoc
      <4> HIDE DEF TypeInv, TypeOK
      <4> QED BY <3>0 DEF UserDoc
    <3>2. doc' \in [Actors -> UserDoc]
      BY <2>2, <3>1
    <3> QED BY <1>15, <2>2, <3>2 DEF CheckPhone
  <2> QED BY <1>15, <2>1, <2>2 DEF CheckPhone
<1>16. ASSUME NEW m \in inbox, TakeConfirm(m) PROVE TypeOK'
  <2>1. m.order \in Orders /\ m.code \in Codes \cup {None}
    BY DEF OnConfirm
  <2>2. \A u \in Users :
          [NoJob EXCEPT !.user = u, !.order = m.order, !.code = m.code] \in Job
    BY <2>1, NewJobType
  <2>3. ASSUME NEW u \in Holders(OrderNumber[m.order]),
               job' = [job EXCEPT ![Listener] =
                         [NoJob EXCEPT !.user = u, !.order = m.order, !.code = m.code]],
               Goto(Listener, "saveOrder")
        PROVE TypeOK'
    <3>1. u \in Users
      BY DEF Holders
    <3> QED BY <1>16, <2>2, <2>3, <3>1 DEF TakeConfirm
  <2>4. CASE UNCHANGED <<job, pc>>
    BY <1>16, <2>4 DEF TakeConfirm
  <2> QED BY <1>16, <2>3, <2>4 DEF TakeConfirm
<1>17. CASE SaveOrder
  <2>1. job[Listener].order \in Orders /\ job[Listener].user \in Users
    BY <1>17 DEF SaveOrder, JobsFit, Confirms
  <2>2. /\ orderStatus' \in [Orders -> OrderStatus] /\ owner' \in [Orders -> Users \cup {None}]
        /\ saves' \in [Orders -> Nat] /\ timers' \subseteq Orders
    BY <1>17, <2>1 DEF SaveOrder, OrderStatus
  <2>3. pc' \in [Actors -> Steps]
    BY <1>17 DEF SaveOrder
  <2> QED BY <1>17, <2>2, <2>3 DEF SaveOrder
<1>18. CASE MarkCoupon
  BY <1>18 DEF MarkCoupon, JobsFit, Confirms, UserCoupon
<1>19. CASE TellCustomer
  BY <1>19 DEF TellCustomer, JobsFit, Confirms
<1>20. CASE AwardBadge
  BY <1>20 DEF AwardBadge
<1>21. CASE Acknowledge
  BY <1>0, <1>21 DEF Acknowledge, Finish
<1>22. ASSUME NEW o \in Orders, Deliver(o) PROVE TypeOK'
  BY <1>22 DEF Deliver, OnConfirm
<1>23. ASSUME NEW o \in Orders, CompleteOrder(o) PROVE TypeOK'
  BY <1>23 DEF CompleteOrder, OrderStatus
<1>24. CASE Crash
  <2>1. HalfSaved \subseteq Coupons
    BY DEF HalfSaved, JobsFit, Buys
  <2> QED BY <1>0, <1>24, <2>1 DEF Crash, JobsFit, Confirms, OnConfirm, Job
<1>25. ASSUME NEW t \in Threads, RequestThrows(t) PROVE TypeOK'
  <2>1. torn' \subseteq Coupons
    BY <1>25 DEF RequestThrows, JobsFit, Buys
  <2> QED BY <1>0, <1>25, <2>1 DEF RequestThrows, Finish
<1>26. ASSUME NEW m \in inbox, LookupThrows(m) PROVE TypeOK'
  BY <1>26 DEF LookupThrows, OnConfirm
<1>27. CASE HandlerThrows
  BY <1>27 DEF HandlerThrows, JobsFit, Confirms
<1> QED
  BY <1>1, <1>2, <1>3, <1>4, <1>5, <1>6, <1>7, <1>8, <1>9, <1>10, <1>11, <1>12,
     <1>13, <1>14, <1>15, <1>16, <1>17, <1>18, <1>19, <1>20, <1>21, <1>22, <1>23, <1>24,
     <1>25, <1>26, <1>27
     DEF Next, AddPoints, Purchase, Retro, Profile, Consume, Throws

\* Every step leaves each actor with the job its next step needs.
LEMMA NextJobsFit == TypeInv /\ [Next]_vars => JobsFit'
<1> SUFFICES ASSUME TypeInv, [Next]_vars PROVE JobsFit'
  OBVIOUS
<1> USE SetsAssumption
    DEF TypeInv, TypeOK, JobsFit, Actors, Goto, Buys, Claims, Confirms,
        RequestSteps, ListenerSteps, Steps, db, broker, memory, history
<1>1. CASE UNCHANGED vars
  BY <1>1 DEF vars
<1>2. ASSUME NEW a \in Actors, ReadPoints(a) PROVE JobsFit'
  BY <1>2 DEF ReadPoints
<1>3. ASSUME NEW a \in Actors, WritePoints(a) PROVE JobsFit'
  BY <1>3 DEF WritePoints
<1>4. ASSUME NEW a \in Actors, SendTask(a) PROVE JobsFit'
  BY <1>4 DEF SendTask, AfterPoints, Finish
<1>5. ASSUME NEW t \in Threads, NEW u \in Users, NEW c \in Coupons,
             BeginPurchase(t, u, c)
      PROVE JobsFit'
  BY <1>5 DEF BeginPurchase, Accept, NoJob, Job
<1>6. ASSUME NEW t \in Threads, RefusePurchase(t) PROVE JobsFit'
  BY <1>6 DEF RefusePurchase, Finish
<1>7. ASSUME NEW t \in Threads, PickCode(t) PROVE JobsFit'
  BY <1>7 DEF PickCode, Job
<1>8. ASSUME NEW t \in Threads, GrantCoupon(t) PROVE JobsFit'
  BY <1>8 DEF GrantCoupon
<1>9. ASSUME NEW t \in Threads, SaveCoupon(t) PROVE JobsFit'
  BY <1>9 DEF SaveCoupon, Finish
<1>10. ASSUME NEW t \in Threads, NEW u \in Users, NEW r \in Rewards, BeginRetro(t, u, r)
       PROVE JobsFit'
  BY <1>10 DEF BeginRetro, Accept, NoJob, Job
<1>11. ASSUME NEW t \in Threads, SaveReward(t) PROVE JobsFit'
  BY <1>11 DEF SaveReward
<1>12. ASSUME NEW t \in Threads, NEW u \in Users, BeginProfileSave(t, u) PROVE JobsFit'
  BY <1>12 DEF BeginProfileSave, Accept, NoJob, Job
<1>13. ASSUME NEW t \in Threads, SaveProfile(t) PROVE JobsFit'
  BY <1>13 DEF SaveProfile, Finish
<1>14. ASSUME NEW t \in Threads, NEW u \in Users, BeginAddPhone(t, u) PROVE JobsFit'
  BY <1>14 DEF BeginAddPhone, Accept, NoJob, Job
<1>15. ASSUME NEW t \in Threads, CheckPhone(t) PROVE JobsFit'
  BY <1>15 DEF CheckPhone, Finish
<1>16. ASSUME NEW m \in inbox, TakeConfirm(m) PROVE JobsFit'
  <2>1. m.order \in Orders
    BY DEF OnConfirm
  <2>2. ASSUME NEW u \in Users,
               job' = [job EXCEPT ![Listener] =
                        [NoJob EXCEPT !.user = u, !.order = m.order, !.code = m.code]],
               Goto(Listener, "saveOrder")
        PROVE JobsFit'
    <3>1. job'[Listener].user \in Users /\ Confirms(job'[Listener])
      BY <2>1, <2>2 DEF NoJob
    <3>2. /\ pc'[Listener] = "saveOrder"
          /\ \A t \in Threads : pc'[t] = pc[t] /\ job'[t] = job[t]
      BY <2>2
    <3> QED BY <3>1, <3>2
  <2>3. CASE UNCHANGED <<job, pc>>
    BY <2>3
  <2> QED BY <1>16, <2>2, <2>3 DEF TakeConfirm, Holders
<1>17. CASE SaveOrder
  BY <1>17 DEF SaveOrder
<1>18. CASE MarkCoupon
  BY <1>18 DEF MarkCoupon
<1>19. CASE TellCustomer
  BY <1>19 DEF TellCustomer
<1>20. CASE AwardBadge
  BY <1>20 DEF AwardBadge
<1>21. CASE Acknowledge
  BY <1>21 DEF Acknowledge, Finish
<1>22. ASSUME NEW o \in Orders, Deliver(o) PROVE JobsFit'
  BY <1>22 DEF Deliver
<1>23. ASSUME NEW o \in Orders, CompleteOrder(o) PROVE JobsFit'
  BY <1>23 DEF CompleteOrder
<1>24. CASE Crash
  BY <1>24 DEF Crash
<1>25. ASSUME NEW t \in Threads, RequestThrows(t) PROVE JobsFit'
  BY <1>25 DEF RequestThrows, Finish
<1>26. ASSUME NEW m \in inbox, LookupThrows(m) PROVE JobsFit'
  BY <1>26 DEF LookupThrows
<1>27. CASE HandlerThrows
  BY <1>27 DEF HandlerThrows
<1> QED
  BY <1>1, <1>2, <1>3, <1>4, <1>5, <1>6, <1>7, <1>8, <1>9, <1>10, <1>11, <1>12,
     <1>13, <1>14, <1>15, <1>16, <1>17, <1>18, <1>19, <1>20, <1>21, <1>22, <1>23, <1>24,
     <1>25, <1>26, <1>27
     DEF Next, AddPoints, Purchase, Retro, Profile, Consume, Throws

\* The types, with the jobs that fit their steps, hold in every reachable state.
LEMMA TypeInvariance == Spec => []TypeInv
<1>1. TypeInv /\ [Next]_vars => TypeInv'
  BY NextTypeOK, NextJobsFit DEF TypeInv
<1> QED
  BY InitTypeInv, <1>1, PTL DEF Spec

\* Every variable has its type, and no thread runs on into the code of another
\* handler, whatever the interleaving and however often calls fail or the process crashes.
THEOREM TypeCorrect == Spec => []TypeOK
BY TypeInvariance, PTL DEF TypeInv

-----------------------------------------------------------------------------
(***************************************************************************)
(* The two counters of a user document                                     *)
(***************************************************************************)

\* Users start with their points available and earned, and nothing read.
LEMMA InitLifetime == Init => LifetimeInv
BY DataAssumption DEF Init, LifetimeInv, AvailableWithinLifetime,
                      DocsWithinLifetime, UserWith, NoDoc

\* addPoints keeps available below lifetime: it raises both or lowers the first.
LEMMA WithPointsOrdered ==
  ASSUME NEW d \in UserDoc, NEW n \in Int, d.available <= d.lifetime
  PROVE  WithPoints(d, n).available <= WithPoints(d, n).lifetime
BY DEF WithPoints, UserDoc

\* Every step keeps available below lifetime, in the stored and the read documents.
LEMMA NextLifetime == TypeInv /\ LifetimeInv /\ [Next]_vars => LifetimeInv'
<1> SUFFICES ASSUME TypeInv, LifetimeInv, [Next]_vars PROVE LifetimeInv'
  OBVIOUS
<1> USE DEF LifetimeInv, AvailableWithinLifetime, DocsWithinLifetime
<1>0. /\ users \in [Users -> UserDoc]
      /\ doc \in [Actors -> UserDoc]
      /\ \A t \in Threads : t \in Actors
      /\ Listener \in Actors
      /\ \A a \in Actors : pc[a] # "idle" => job[a].user \in Users
  BY DEF TypeInv, TypeOK, JobsFit, Actors
\* What the actions do to users and doc, by kind.
<1>1. ASSUME UNCHANGED <<users, doc>> PROVE LifetimeInv'
  BY <1>1
<1>2. ASSUME NEW a \in Actors, NEW u \in Users,
             doc' = [doc EXCEPT ![a] = users[u]], users' = users
      PROVE LifetimeInv'
  BY <1>0, <1>2
<1>3. ASSUME NEW a \in Actors, doc' = [doc EXCEPT ![a] = NoDoc],
             users' = users \/ \E u \in Users : users' = [users EXCEPT ![u] = doc[a]]
      PROVE LifetimeInv'
  BY <1>0, <1>3 DEF NoDoc, UserWith
<1>4. CASE UNCHANGED vars
  BY <1>1, <1>4 DEF vars, db, memory
<1>5. ASSUME NEW a \in Actors, ReadPoints(a) PROVE LifetimeInv'
  BY <1>0, <1>2, <1>5 DEF ReadPoints, db
<1>6. ASSUME NEW a \in Actors, WritePoints(a) PROVE LifetimeInv'
  <2>1. job[a] \in Job /\ (Buys(job[a]) \/ Claims(job[a]) \/ Confirms(job[a]))
    BY <1>6, SetsAssumption DEF WritePoints, TypeInv, TypeOK, JobsFit, Actors
  <2>2. WithPoints(doc[a], Amount(job[a])).available
          <= WithPoints(doc[a], Amount(job[a])).lifetime
    BY <1>0, <2>1, AmountType, WithPointsOrdered
  <2>3. doc' = doc /\ users' = [users EXCEPT ![job[a].user] =
                                  WithPoints(doc[a], Amount(job[a]))]
    BY <1>6 DEF WritePoints
  <2> QED BY <1>0, <2>2, <2>3
<1>7. ASSUME NEW a \in Actors, SendTask(a) PROVE LifetimeInv'
  BY <1>1, <1>3, <1>7 DEF SendTask, AfterPoints, Finish, db
<1>8. ASSUME NEW t \in Threads, NEW u \in Users, NEW c \in Coupons,
             BeginPurchase(t, u, c)
      PROVE LifetimeInv'
  BY <1>0, <1>2, <1>8 DEF BeginPurchase, db
<1>9. ASSUME NEW t \in Threads, NEW u \in Users,
             BeginProfileSave(t, u) \/ BeginAddPhone(t, u)
      PROVE LifetimeInv'
  BY <1>0, <1>2, <1>9 DEF BeginProfileSave, BeginAddPhone, db
<1>10. ASSUME NEW t \in Threads, RefusePurchase(t) \/ SaveCoupon(t) \/ RequestThrows(t)
       PROVE LifetimeInv'
  BY <1>0, <1>3, <1>10 DEF RefusePurchase, SaveCoupon, RequestThrows, Finish, db
<1>11. ASSUME NEW t \in Threads, SaveProfile(t) PROVE LifetimeInv'
  BY <1>0, <1>3, <1>11 DEF SaveProfile, Finish
<1>12. ASSUME NEW t \in Threads, CheckPhone(t) PROVE LifetimeInv'
  <2>1. users' = users
    BY <1>12 DEF CheckPhone, db
  <2>2. ASSUME NEW n \in Numbers, doc' = [doc EXCEPT ![t].phone = n] PROVE LifetimeInv'
    BY <1>0, <2>1, <2>2 DEF UserDoc
  <2>3. CASE Finish(t)
    BY <1>0, <1>3, <2>1, <2>3 DEF Finish
  <2> QED BY <1>12, <2>2, <2>3 DEF CheckPhone
<1>13. ASSUME NEW t \in Threads, PickCode(t) \/ GrantCoupon(t) \/ SaveReward(t)
       PROVE LifetimeInv'
  BY <1>1, <1>13 DEF PickCode, GrantCoupon, SaveReward, db
<1>14. ASSUME NEW t \in Threads, NEW u \in Users, NEW r \in Rewards, BeginRetro(t, u, r)
       PROVE LifetimeInv'
  BY <1>1, <1>14 DEF BeginRetro, db
<1>15. ASSUME \/ \E m \in inbox : TakeConfirm(m) \/ LookupThrows(m)
              \/ SaveOrder \/ MarkCoupon \/ TellCustomer \/ AwardBadge \/ HandlerThrows
       PROVE LifetimeInv'
  BY <1>1, <1>15 DEF TakeConfirm, LookupThrows, SaveOrder, MarkCoupon, TellCustomer,
     AwardBadge, HandlerThrows, db, memory
<1>16. CASE Acknowledge
  BY <1>0, <1>3, <1>16 DEF Acknowledge, Finish, db
<1>17. ASSUME NEW o \in Orders, Deliver(o) \/ CompleteOrder(o) PROVE LifetimeInv'
  BY <1>1, <1>17 DEF Deliver, CompleteOrder, db, memory
<1>18. CASE Crash
  BY <1>18 DEF Crash, NoDoc, UserWith, db
<1> QED
  BY <1>4, <1>5, <1>6, <1>7, <1>8, <1>9, <1>10, <1>11, <1>12, <1>13, <1>14, <1>15,
     <1>16, <1>17, <1>18 DEF Next, AddPoints, Purchase, Retro, Profile, Consume, Throws

\* No interleaving of stale saves makes a stored document show more points
\* available than were ever earned.
THEOREM AvailableStaysWithinLifetime == Spec => []AvailableWithinLifetime
BY InitLifetime, NextLifetime, TypeInvariance, PTL DEF Spec, LifetimeInv

-----------------------------------------------------------------------------
(***************************************************************************)
(* Points below zero                                                       *)
(***************************************************************************)

\* At the start no points are owed and no document is read.
LEMMA InitBacked == Init => BackedInv
BY DataAssumption DEF Init, BackedInv, OverdrawnOnlyIfUndercut, UserWith

\* A save of the document of u, with points that are not below zero unless they
\* were undercut, harms nobody: who has compared more points than it leaves is
\* the reason why u is on record as undercut.
LEMMA SaveKeepsBacked ==
  ASSUME TypeInv, TypeInv', BackedInv,
         NEW a \in Actors, NEW u \in Users, NEW d \in UserDoc,
         users' = [users EXCEPT ![u] = d], NoteUndercut(u),
         u \notin undercut => d.available >= 0,
         \A b \in Actors : b # a => pc'[b] = pc[b] /\ job'[b] = job[b] /\ doc'[b] = doc[b],
         pc'[a] \in {"idle", "sendTask"}
  PROVE  BackedInv'
<1>0. /\ users \in [Users -> UserDoc] /\ doc \in [Actors -> UserDoc]
      /\ undercut \subseteq undercut'
      /\ \A b \in Actors : pc[b] # "idle" => job[b].user \in Users
      /\ \A b \in Actors : job[b].coupon # None /\ pc[b] # "idle" => b \in Threads
  BY DEF TypeInv, TypeOK, JobsFit, Confirms, NoteUndercut, Actors
<1>1. OverdrawnOnlyIfUndercut'
  <2> SUFFICES ASSUME NEW v \in Users, users'[v].available < 0, v \notin undercut'
               PROVE  FALSE
    BY DEF OverdrawnOnlyIfUndercut
  <2>1. v \notin undercut
    BY <1>0
  <2>2. CASE v = u
    <3>1. users'[v] = d /\ d.available >= 0 /\ d.available \in Int
      BY <1>0, <2>1, <2>2 DEF UserDoc
    <3> QED  BY <3>1
  <2>3. CASE v # u
    BY <1>0, <2>1, <2>3 DEF BackedInv, OverdrawnOnlyIfUndercut
  <2> QED  BY <2>2, <2>3
<1>2. ASSUME NEW b \in Actors, pc'[b] # "idle", job'[b].user \notin undercut'
      PROVE  HoldsBackedDoc(b)'
  <2>1. CASE b = a
    BY <2>1 DEF HoldsBackedDoc
  <2>2. CASE b # a
    <3>1. pc'[b] = pc[b] /\ job'[b] = job[b] /\ doc'[b] = doc[b]
      BY <2>2
    <3>2. HoldsBackedDoc(b) /\ job[b].user \in Users
      BY <1>0, <1>2, <3>1 DEF BackedInv
    <3>3. ASSUME job[b].coupon # None, pc[b] \in {"readCoupon", "readPoints"}
          PROVE  doc[b].available <= users'[job[b].user].available
      <4>1. doc[b].available <= users[job[b].user].available
        BY <3>2, <3>3 DEF HoldsBackedDoc
      <4>2. CASE job[b].user = u
        <5>1. Checked(b, u) /\ b \in Threads
          BY <1>0, <3>3, <4>2 DEF Checked
        <5>2. ~ (users'[u].available < users[u].available)
          BY <1>2, <3>1, <4>2, <5>1 DEF NoteUndercut
        <5>3. /\ users'[u].available \in Int /\ users[u].available \in Int
              /\ doc[b].available \in Int
          BY <1>0 DEF UserDoc
        <5> QED  BY <4>1, <4>2, <5>2, <5>3
      <4>3. CASE job[b].user # u
        BY <1>0, <3>2, <4>1, <4>3
      <4> QED  BY <4>2, <4>3
    <3> QED  BY <3>1, <3>2, <3>3 DEF HoldsBackedDoc, Affords
  <2> QED  BY <2>1, <2>2
<1> QED  BY <1>1, <1>2 DEF BackedInv

\* What addPoints saves is not below zero: points are only added, or the price
\* is taken from a document that has it.
LEMMA PointsPaid ==
  ASSUME TypeInv, BackedInv, NEW a \in Actors, WritePoints(a),
         job[a].user \notin undercut
  PROVE  WithPoints(doc[a], Amount(job[a])).available >= 0
<1>1. doc[a].available \in Int /\ doc[a].available >= 0 /\ job[a] \in Job
  BY DEF WritePoints, BackedInv, HoldsBackedDoc, TypeInv, TypeOK, UserDoc
<1>2. WithPoints(doc[a], Amount(job[a])).available = doc[a].available + Amount(job[a])
  BY DEF WithPoints
<1>3. CASE job[a].coupon # None
  <2>1. Affords(a)
    BY <1>3 DEF WritePoints, BackedInv, HoldsBackedDoc
  <2>3. Buys(job[a])
    BY <1>3 DEF WritePoints, TypeInv, JobsFit, Claims, Confirms, Actors
  <2>4. Amount(job[a]) = - Price[job[a].coupon]
    BY <1>3, <2>3, SetsAssumption DEF Buys, Amount
  <2>2. Price[job[a].coupon] \in Nat
    BY <1>1, <1>3, DataAssumption DEF Job
  <2> QED  BY <1>1, <1>2, <2>1, <2>2, <2>4 DEF Affords
<1>4. CASE job[a].coupon = None
  <2>1. Claims(job[a]) \/ Confirms(job[a])
    BY <1>4, SetsAssumption DEF WritePoints, TypeInv, JobsFit, Buys, Actors
  <2>2. Amount(job[a]) \in Nat
    BY <1>4, <2>1, DataAssumption, SetsAssumption DEF Claims, Confirms, Amount
  <2> QED  BY <1>1, <1>2, <2>2
<1> QED  BY <1>3, <1>4

\* Every step keeps documents backed: only a save that undercuts a check lets a
\* purchase take more than there is.
LEMMA NextBacked == TypeInv /\ TypeInv' /\ BackedInv /\ [Next]_vars => BackedInv'
<1> SUFFICES ASSUME TypeInv, TypeInv', BackedInv, [Next]_vars PROVE BackedInv'
  OBVIOUS
<1>0. /\ users \in [Users -> UserDoc] /\ doc \in [Actors -> UserDoc]
      /\ pc \in [Actors -> Steps] /\ job \in [Actors -> Job]
      /\ Listener \in Actors /\ Listener \notin Threads
      /\ \A t \in Threads : t \in Actors
      /\ \A a \in Actors : pc[a] # "idle" => job[a].user \in Users
  BY SetsAssumption DEF TypeInv, TypeOK, JobsFit, Actors
\* A step of one actor that saves no user: what the actor then holds is backed.
<1>1. ASSUME NEW a \in Actors, UNCHANGED <<users, undercut>>,
             \A b \in Actors : b # a =>
               pc'[b] = pc[b] /\ job'[b] = job[b] /\ doc'[b] = doc[b],
             pc'[a] # "idle" /\ job'[a].user \notin undercut => HoldsBackedDoc(a)'
      PROVE  BackedInv'
  <2>1. ASSUME NEW b \in Actors, pc'[b] # "idle", job'[b].user \notin undercut'
        PROVE  HoldsBackedDoc(b)'
    BY <1>1, <2>1 DEF BackedInv, HoldsBackedDoc, Affords
  <2> QED  BY <1>1, <2>1 DEF BackedInv, OverdrawnOnlyIfUndercut
<1>2. CASE UNCHANGED vars
  BY <1>0, <1>1, <1>2
     DEF vars, db, memory, history, races, BackedInv, HoldsBackedDoc, Affords
<1>3. ASSUME NEW a \in Actors, ReadPoints(a) PROVE BackedInv'
  <2>1. /\ pc[a] = "readPoints" /\ pc'[a] = "writePoints"
        /\ doc'[a] = users[job[a].user] /\ job' = job
        /\ UNCHANGED <<users, undercut>>
        /\ \A b \in Actors : b # a => pc'[b] = pc[b] /\ doc'[b] = doc[b]
    BY <1>0, <1>3 DEF ReadPoints, Goto, db, history, races
  <2>2. ASSUME job[a].user \notin undercut
        PROVE  HoldsBackedDoc(a)'
    <3>1. job[a].user \in Users /\ users[job[a].user].available \in Int
      BY <1>0, <2>1 DEF UserDoc
    <3>2. users[job[a].user].available >= 0
      BY <2>2, <3>1 DEF BackedInv, OverdrawnOnlyIfUndercut
    <3>3. ASSUME job[a].coupon # None
          PROVE  users[job[a].user].available >= Price[job[a].coupon]
      <4>1. Affords(a) /\ doc[a].available <= users[job[a].user].available
        BY <2>1, <2>2, <3>3 DEF BackedInv, HoldsBackedDoc
      <4>2. Price[job[a].coupon] \in Nat /\ doc[a].available \in Int
        BY <1>0, <3>3, DataAssumption DEF UserDoc, Job
      <4> QED  BY <3>1, <4>1, <4>2 DEF Affords
    <3> QED  BY <2>1, <3>2, <3>3 DEF HoldsBackedDoc, Affords
  <2> QED  BY <1>1, <2>1, <2>2
<1>4. ASSUME NEW a \in Actors, WritePoints(a) PROVE BackedInv'
  <2> DEFINE d == WithPoints(doc[a], Amount(job[a]))
  <2>1. /\ users' = [users EXCEPT ![job[a].user] = d]
        /\ NoteUndercut(job[a].user)
        /\ UNCHANGED <<job, doc>> /\ pc'[a] = "sendTask"
        /\ \A b \in Actors : b # a => pc'[b] = pc[b]
    BY <1>0, <1>4 DEF WritePoints, Goto
  <2>2. job[a].user \in Users /\ (Buys(job[a]) \/ Claims(job[a]) \/ Confirms(job[a]))
    BY <1>4 DEF WritePoints, TypeInv, JobsFit, Actors
  <2>3. d \in UserDoc
    BY <1>0, <2>2, AmountType, WithPointsType
  <2>4. job[a].user \notin undercut => d.available >= 0
    BY <1>4, PointsPaid
  <2> HIDE DEF d
  <2> QED  BY <2>1, <2>2, <2>3, <2>4, SaveKeepsBacked
<1>5. ASSUME NEW a \in Actors, SendTask(a) PROVE BackedInv'
  <2>1. /\ UNCHANGED <<users, undercut>> /\ pc'[a] \in {"grant", "mark", "idle"}
        /\ \A b \in Actors : b # a =>
             pc'[b] = pc[b] /\ job'[b] = job[b] /\ doc'[b] = doc[b]
    BY <1>0, <1>5 DEF SendTask, AfterPoints, Goto, Finish, db, history, races
  <2> QED  BY <1>1, <2>1 DEF HoldsBackedDoc
\* A request begins and reads the document, or a past order.
<1>6. ASSUME NEW t \in Threads, NEW u \in Users, NEW c \in Coupons,
             BeginPurchase(t, u, c)
      PROVE  BackedInv'
  <2>1. /\ UNCHANGED <<users, undercut>> /\ doc'[t] = users[u]
        /\ pc'[t] = "readCoupon" /\ job'[t].user = u
        /\ \A b \in Actors : b # t =>
             pc'[b] = pc[b] /\ job'[b] = job[b] /\ doc'[b] = doc[b]
    BY <1>0, <1>6 DEF BeginPurchase, Accept, Goto, NoJob, db, races
  <2>2. users[u].available \in Int
    BY <1>0 DEF UserDoc
  <2> QED  BY <1>0, <1>1, <2>1, <2>2 DEF HoldsBackedDoc
<1>7. ASSUME NEW t \in Threads, NEW u \in Users,
             BeginProfileSave(t, u) \/ BeginAddPhone(t, u)
      PROVE  BackedInv'
  <2>1. /\ UNCHANGED <<users, undercut>> /\ doc'[t] = users[u]
        /\ pc'[t] \in {"checkPhone", "saveProfile"}
        /\ job'[t].user = u /\ job'[t].coupon = None
        /\ \A b \in Actors : b # t =>
             pc'[b] = pc[b] /\ job'[b] = job[b] /\ doc'[b] = doc[b]
    <3>1. CASE BeginProfileSave(t, u)
      BY <1>0, <3>1 DEF BeginProfileSave, Accept, Goto, NoJob, db, races
    <3>2. CASE BeginAddPhone(t, u)
      BY <1>0, <3>2 DEF BeginAddPhone, Accept, Goto, NoJob, db, races
    <3> QED BY <1>7, <3>1, <3>2
  <2>2. users[u].available \in Int
    BY <1>0 DEF UserDoc
  <2>3. u \notin undercut => users[u].available >= 0
    BY <2>2 DEF BackedInv, OverdrawnOnlyIfUndercut
  <2> QED  BY <1>0, <1>1, <2>1, <2>3 DEF HoldsBackedDoc
<1>8. ASSUME NEW t \in Threads, NEW u \in Users, NEW r \in Rewards,
             BeginRetro(t, u, r)
      PROVE  BackedInv'
  <2>1. /\ UNCHANGED <<users, undercut, doc>>
        /\ pc'[t] = "saveReward" /\ job'[t].coupon = None
        /\ \A b \in Actors : b # t => pc'[b] = pc[b] /\ job'[b] = job[b]
    BY <1>0, <1>8 DEF BeginRetro, Accept, Goto, NoJob, db, races
  <2> QED  BY <1>0, <1>1, <2>1 DEF HoldsBackedDoc
<1>9. ASSUME NEW t \in Threads, RefusePurchase(t) \/ SaveCoupon(t) \/ RequestThrows(t)
      PROVE BackedInv'
  <2>1. /\ UNCHANGED <<users, undercut>> /\ pc'[t] = "idle"
        /\ \A b \in Actors : b # t =>
             pc'[b] = pc[b] /\ job'[b] = job[b] /\ doc'[b] = doc[b]
    BY <1>0, <1>9 DEF RefusePurchase, SaveCoupon, RequestThrows, Finish, db, history,
       races
  <2> QED  BY <1>0, <1>1, <2>1
<1>10. ASSUME NEW t \in Threads, PickCode(t) PROVE BackedInv'
  <2>1. PICK x \in pool[job[t].coupon] : job' = [job EXCEPT ![t].code = x]
    BY <1>10 DEF PickCode
  <2>2. /\ job'[t].user = job[t].user /\ job'[t].coupon = job[t].coupon
        /\ \A b \in Actors : b # t => job'[b] = job[b]
    BY <1>0, <2>1 DEF Job
  <2>3. /\ UNCHANGED <<users, undercut, doc>> /\ Affords(t)
        /\ pc[t] = "readCoupon" /\ pc'[t] = "readPoints"
        /\ \A b \in Actors : b # t => pc'[b] = pc[b]
    BY <1>0, <1>10 DEF PickCode, Goto, db
  <2> QED  BY <1>0, <1>1, <2>2, <2>3 DEF BackedInv, HoldsBackedDoc, Affords
<1>11. ASSUME NEW t \in Threads, GrantCoupon(t) PROVE BackedInv'
  <2>1. /\ UNCHANGED <<users, undercut, doc, job>> /\ pc'[t] = "saveCoupon"
        /\ \A b \in Actors : b # t => pc'[b] = pc[b]
    BY <1>0, <1>11 DEF GrantCoupon, Goto, history, races
  <2> QED  BY <1>0, <1>1, <2>1 DEF HoldsBackedDoc
<1>12. ASSUME NEW t \in Threads, SaveReward(t) PROVE BackedInv'
  <2>1. /\ UNCHANGED <<users, undercut, doc, job>> /\ pc'[t] = "readPoints"
        /\ job[t].coupon = None
        /\ \A b \in Actors : b # t => pc'[b] = pc[b]
    BY <1>0, <1>12 DEF SaveReward, Goto, history, races, TypeInv, JobsFit, Claims
  <2> QED  BY <1>0, <1>1, <2>1 DEF HoldsBackedDoc
<1>13. ASSUME NEW t \in Threads, SaveProfile(t) PROVE BackedInv'
  <2>1. /\ users' = [users EXCEPT ![job[t].user] = doc[t]]
        /\ NoteUndercut(job[t].user) /\ pc'[t] = "idle" /\ job[t].user \in Users
        /\ pc[t] = "saveProfile" /\ doc[t] \in UserDoc
        /\ \A b \in Actors : b # t =>
             pc'[b] = pc[b] /\ job'[b] = job[b] /\ doc'[b] = doc[b]
    BY <1>0, <1>13 DEF SaveProfile, Finish
  <2>2. job[t].user \notin undercut => doc[t].available >= 0
    BY <1>0, <2>1 DEF BackedInv, HoldsBackedDoc
  <2> QED  BY <1>0, <2>1, <2>2, SaveKeepsBacked
<1>17. ASSUME NEW t \in Threads, CheckPhone(t) PROVE BackedInv'
  <2>1. /\ UNCHANGED <<users, undercut>> /\ pc[t] = "checkPhone"
        /\ \A b \in Actors : b # t =>
             pc'[b] = pc[b] /\ job'[b] = job[b] /\ doc'[b] = doc[b]
    BY <1>0, <1>17 DEF CheckPhone, Goto, Finish, db, history, races
  <2>2. CASE Finish(t)
    BY <1>0, <1>1, <2>1, <2>2 DEF Finish
  <2>3. ASSUME NEW n \in Numbers, doc' = [doc EXCEPT ![t].phone = n],
               Goto(t, "saveProfile"), UNCHANGED <<job, left>>
        PROVE  BackedInv'
    <3>1. doc'[t].available = doc[t].available /\ pc'[t] = "saveProfile" /\ job' = job
      BY <1>0, <2>3 DEF UserDoc, Goto
    <3>2. pc'[t] # "idle" /\ job'[t].user \notin undercut => HoldsBackedDoc(t)'
      BY <1>0, <2>1, <3>1 DEF BackedInv, HoldsBackedDoc
    <3> QED  BY <1>0, <1>1, <2>1, <3>2
  <2> QED  BY <1>17, <2>2, <2>3 DEF CheckPhone
\* The consumer's steps away from the points, and the world around it.
<1>14. ASSUME \/ \E m \in inbox : TakeConfirm(m) \/ LookupThrows(m)
              \/ SaveOrder \/ MarkCoupon \/ TellCustomer \/ AwardBadge \/ Acknowledge
              \/ HandlerThrows
       PROVE  BackedInv'
  <2>1. /\ UNCHANGED <<users, undercut>>
        /\ \A b \in Actors : b # Listener =>
             pc'[b] = pc[b] /\ job'[b] = job[b] /\ doc'[b] = doc[b]
    BY <1>0, <1>14 DEF TakeConfirm, LookupThrows, SaveOrder, MarkCoupon, TellCustomer,
       AwardBadge, Acknowledge, HandlerThrows, Goto, Finish, db, memory, history, races
  <2>2. /\ pc'[Listener] \notin {"checkPhone", "saveProfile", "writePoints"}
        /\ pc'[Listener] # "idle" => job'[Listener].coupon = None
    <3>1. pc'[Listener] \notin {"checkPhone", "saveProfile", "writePoints"}
      BY <1>0, <1>14 DEF TakeConfirm, LookupThrows, SaveOrder, MarkCoupon, TellCustomer,
         AwardBadge, Acknowledge, HandlerThrows, Goto, Finish, memory
    <3>2. pc'[Listener] # "idle" => job'[Listener].coupon = None
      BY DEF TypeInv, JobsFit, Confirms
    <3> QED  BY <3>1, <3>2
  <2> QED  BY <1>0, <1>1, <2>1, <2>2 DEF HoldsBackedDoc
<1>15. ASSUME NEW o \in Orders, Deliver(o) \/ CompleteOrder(o) PROVE BackedInv'
  <2>1. UNCHANGED <<users, undercut, pc, job, doc>>
    BY <1>15 DEF Deliver, CompleteOrder, db, memory, history, races
  <2> QED  BY <2>1 DEF BackedInv, OverdrawnOnlyIfUndercut, HoldsBackedDoc, Affords
<1>16. CASE Crash
  BY <1>0, <1>16 DEF Crash, BackedInv, OverdrawnOnlyIfUndercut, db, races
<1> QED
  BY <1>2, <1>3, <1>4, <1>5, <1>6, <1>7, <1>8, <1>9, <1>10, <1>11, <1>12, <1>13,
     <1>14, <1>15, <1>16, <1>17 DEF Next, AddPoints, Purchase, Retro, Profile, Consume, Throws

\* Points below zero have one cause: a save of another actor lowered them between
\* the check of a purchase and its second read.
LEMMA BackedInvariance == Spec => []BackedInv
BY InitBacked, NextBacked, TypeInvariance, PTL DEF Spec

\* Stale saves never make available points exceed those earned, and the points
\* fall below zero only where a save undercut the check of a purchase.
THEOREM PointsStayBacked == Spec => []PointsAreBacked
<1>1. BackedInv => OverdrawnOnlyIfUndercut
  BY DEF BackedInv
<1> QED
  BY <1>1, BackedInvariance, AvailableStaysWithinLifetime, PTL DEF PointsAreBacked

-----------------------------------------------------------------------------
(***************************************************************************)
(* Orders and credits                                                      *)
(***************************************************************************)

\* At the start no order is saved, credited or being handled.
LEMMA InitCredit == Init => CreditInv
BY DEF Init, CreditInv, CreditedOnce, CreditPending, TimersRecorded, Actors

\* Every step keeps one document and one credit per order, and the pending credit.
LEMMA NextCredit == TypeInv /\ CreditInv /\ [Next]_vars => CreditInv'
<1> SUFFICES ASSUME TypeInv, CreditInv, [Next]_vars PROVE CreditInv'
  OBVIOUS
<1> USE DEF CreditInv, CreditedOnce, CreditPending, TimersRecorded
<1> DEFINE o == job[Listener].order
<1>0. /\ orderStatus \in [Orders -> OrderStatus]
      /\ saves \in [Orders -> Nat]
      /\ credits \in [Orders -> Nat]
      /\ timers \subseteq Orders
      /\ pc \in [Actors -> Steps] /\ job \in [Actors -> Job]
      /\ Listener \in Actors /\ Listener \notin Threads
      /\ \A t \in Threads : t \in Actors
      /\ pc[Listener] # "idle" => o \in Orders
  BY SetsAssumption DEF TypeInv, TypeOK, JobsFit, Confirms, Actors
\* A step that leaves the orders alone and where the consumer is.
<1>1. ASSUME UNCHANGED <<orderStatus, saves, credits, timers>>,
             pc'[Listener] = pc[Listener], job'[Listener] = job[Listener]
      PROVE CreditInv'
  BY <1>1
\* A step of the consumer away from the points.
<1>2. ASSUME UNCHANGED <<orderStatus, saves, credits, timers>>,
             pc'[Listener] \notin {"readPoints", "writePoints"}
      PROVE CreditInv'
  BY <1>2
<1>3. CASE UNCHANGED vars
  BY <1>1, <1>3 DEF vars, db, memory, history
<1>4. ASSUME NEW a \in Actors, ReadPoints(a) PROVE CreditInv'
  <2>1. CASE a = Listener
    BY <1>0, <1>4, <2>1 DEF ReadPoints, Goto, db, history
  <2>2. CASE a # Listener
    BY <1>0, <1>1, <1>4, <2>2 DEF ReadPoints, Goto, db, history
  <2> QED BY <2>1, <2>2
<1>5. ASSUME NEW a \in Actors, WritePoints(a) PROVE CreditInv'
  <2>1. CASE a = Listener
    <3>1. o \in Orders /\ o # None /\ job[a].coupon = None /\ job[a].reward = None
      BY <1>5, <2>1, SetsAssumption DEF WritePoints, TypeInv, JobsFit, Confirms
    <3>2. credits' = [credits EXCEPT ![o] = credits[o] + 1]
      BY <1>5, <2>1, <3>1 DEF WritePoints
    <3>3. saves[o] = 1 /\ credits[o] = 0
      BY <1>5, <2>1 DEF WritePoints
    <3>4. pc'[Listener] = "sendTask" /\ UNCHANGED <<orderStatus, saves, timers>>
      BY <1>0, <1>5, <2>1 DEF WritePoints, Goto
    <3> QED BY <1>0, <3>1, <3>2, <3>3, <3>4
  <2>2. CASE a # Listener
    <3>1. job[a].order = None
      BY <1>5, <2>2 DEF WritePoints, TypeInv, JobsFit, Actors, Buys, Claims
    <3> QED BY <1>0, <1>1, <1>5, <2>2, <3>1 DEF WritePoints, Goto
  <2> QED BY <2>1, <2>2
<1>6. ASSUME NEW a \in Actors, SendTask(a) PROVE CreditInv'
  <2>1. CASE a = Listener
    BY <1>0, <1>2, <1>6, <2>1 DEF SendTask, AfterPoints, Finish, Goto, db, history
  <2>2. CASE a # Listener
    BY <1>0, <1>1, <1>6, <2>2 DEF SendTask, AfterPoints, Finish, Goto, db, history
  <2> QED BY <2>1, <2>2
<1>7. ASSUME NEW t \in Threads, NEW u \in Users,
             \/ \E c \in Coupons : BeginPurchase(t, u, c)
             \/ \E r \in Rewards : BeginRetro(t, u, r)
             \/ BeginProfileSave(t, u) \/ BeginAddPhone(t, u)
      PROVE CreditInv'
  BY <1>0, <1>1, <1>7
     DEF BeginPurchase, BeginRetro, BeginProfileSave, BeginAddPhone, Accept, Goto, db
<1>8. ASSUME NEW t \in Threads, PickCode(t) \/ GrantCoupon(t) \/ SaveReward(t)
      PROVE CreditInv'
  BY <1>0, <1>1, <1>8 DEF PickCode, GrantCoupon, SaveReward, Goto, db, history
<1>9. ASSUME NEW t \in Threads,
             \/ RefusePurchase(t) \/ SaveCoupon(t) \/ SaveProfile(t)
             \/ CheckPhone(t) \/ RequestThrows(t)
      PROVE CreditInv'
  BY <1>0, <1>1, <1>9
     DEF RefusePurchase, SaveCoupon, SaveProfile, CheckPhone, RequestThrows, Finish,
         Goto, db, history
<1>10. ASSUME NEW m \in inbox, TakeConfirm(m) PROVE CreditInv'
  BY <1>0, <1>2, <1>10 DEF TakeConfirm, Goto, db, history
<1>18. ASSUME NEW m \in inbox, LookupThrows(m) PROVE CreditInv'
  BY <1>1, <1>18 DEF LookupThrows, db, memory
<1>19. CASE HandlerThrows
  BY <1>0, <1>2, <1>19 DEF HandlerThrows, Goto, db
<1>11. CASE SaveOrder
  <2>1. CASE IsKnown(o)
    BY <1>0, <1>2, <1>11, <2>1 DEF SaveOrder, Goto
  <2>2. CASE ~ IsKnown(o)
    <3>1. /\ o \in Orders /\ saves[o] = 0 /\ credits[o] = 0
      BY <1>0, <1>11, <2>2 DEF SaveOrder, IsKnown
    <3>2. /\ orderStatus' = [orderStatus EXCEPT ![o] = "ACITVE"]
          /\ saves' = [saves EXCEPT ![o] = saves[o] + 1]
          /\ timers' = timers \cup {o}
          /\ credits' = credits /\ job' = job
      BY <1>11, <2>2 DEF SaveOrder
    <3> QED BY <1>0, <3>1, <3>2
  <2> QED BY <2>1, <2>2
<1>12. CASE MarkCoupon
  BY <1>0, <1>2, <1>12 DEF MarkCoupon, Goto, history
<1>13. CASE TellCustomer \/ AwardBadge
  BY <1>0, <1>2, <1>13 DEF TellCustomer, AwardBadge, Goto, db, history
<1>14. CASE Acknowledge
  BY <1>0, <1>2, <1>14 DEF Acknowledge, Finish, db, history
<1>15. ASSUME NEW p \in Orders, Deliver(p) PROVE CreditInv'
  BY <1>1, <1>15 DEF Deliver, db, memory
<1>16. ASSUME NEW p \in Orders, CompleteOrder(p) PROVE CreditInv'
  BY <1>0, <1>16 DEF CompleteOrder, history
<1>17. CASE Crash
  BY <1>0, <1>17 DEF Crash, db
<1> QED
  BY <1>3, <1>4, <1>5, <1>6, <1>7, <1>8, <1>9, <1>10, <1>11, <1>12, <1>13, <1>14,
     <1>15, <1>16, <1>17, <1>18, <1>19 DEF Next, AddPoints, Purchase, Retro, Profile, Consume, Throws

\* However often an on_confirm message is repeated or redelivered after a crash,
\* one document is inserted for its order and its points are written at most once.
THEOREM OrdersCreditedOnce == Spec => []CreditedOnce
BY InitCredit, NextCredit, TypeInvariance, PTL DEF Spec, CreditInv

\* At the start no order is on record.
LEMMA InitMissed == Init => MissedInv
<1> SUFFICES ASSUME Init PROVE MissedInv
  OBVIOUS
<1>1. Unexplained = {}
  BY DEF Init, Missed, Unexplained
<1> QED  BY <1>1, FS_EmptySet DEF Init, MissedInv

\* No step but a crash or an exception of the consumer adds to the orders without
\* points: a new order is being credited, and the consumer leaves the points only
\* when they are written.
LEMMA OnlyFaultsMiss ==
  ASSUME TypeInv, CreditInv, [Next]_vars, ~ Crash, ~ HandlerThrows
  PROVE  Missed' \subseteq Missed
<1> SUFFICES ASSUME NEW o \in Orders, orderStatus'[o] # "none", credits'[o] = 0,
                    ~ Crediting(o)'
             PROVE  orderStatus[o] # "none" /\ credits[o] = 0 /\ ~ Crediting(o)
  BY DEF Missed
<1>0. /\ orderStatus \in [Orders -> OrderStatus] /\ credits \in [Orders -> Nat]
      /\ pc \in [Actors -> Steps] /\ job \in [Actors -> Job]
      /\ Listener \in Actors /\ Listener \notin Threads
      /\ \A t \in Threads : t \in Actors
  BY SetsAssumption DEF TypeInv, TypeOK, Actors
\* A step that leaves orders and credits alone and the consumer where it is, or
\* where it is not about to write points.
<1>1. ASSUME UNCHANGED <<orderStatus, credits>>,
             \/ pc[Listener] \notin {"readPoints", "writePoints"}
             \/ /\ pc'[Listener] \in {"readPoints", "writePoints"}
                /\ job'[Listener] = job[Listener]
      PROVE  orderStatus[o] # "none" /\ credits[o] = 0 /\ ~ Crediting(o)
  BY <1>1 DEF Crediting
<1>2. CASE UNCHANGED vars
  BY <1>1, <1>2 DEF vars, db, memory, history
<1>3. ASSUME NEW a \in Actors, ReadPoints(a)
      PROVE  orderStatus[o] # "none" /\ credits[o] = 0 /\ ~ Crediting(o)
  BY <1>0, <1>1, <1>3 DEF ReadPoints, Goto, db, history
<1>4. ASSUME NEW a \in Actors, WritePoints(a)
      PROVE  orderStatus[o] # "none" /\ credits[o] = 0 /\ ~ Crediting(o)
  <2>1. CASE a = Listener
    <3> DEFINE p == job[Listener].order
    <3>1. /\ p \in Orders /\ p # None
          /\ job[a].coupon = None /\ job[a].reward = None
      BY <1>4, <2>1, SetsAssumption DEF WritePoints, TypeInv, JobsFit, Confirms
    <3>2. credits' = [credits EXCEPT ![p] = credits[p] + 1] /\ orderStatus' = orderStatus
      BY <1>4, <2>1, <3>1 DEF WritePoints
    <3>3. o # p /\ credits[o] = 0
      BY <1>0, <3>1, <3>2
    <3> QED  BY <3>2, <3>3 DEF Crediting
  <2>2. CASE a # Listener
    <3>1. job[a].order = None
      BY <1>4, <2>2 DEF WritePoints, TypeInv, JobsFit, Actors, Buys, Claims
    <3> QED  BY <1>0, <1>1, <1>4, <2>2, <3>1 DEF WritePoints, Goto
  <2> QED  BY <2>1, <2>2
<1>5. ASSUME NEW a \in Actors, SendTask(a)
      PROVE  orderStatus[o] # "none" /\ credits[o] = 0 /\ ~ Crediting(o)
  BY <1>0, <1>1, <1>5 DEF SendTask, AfterPoints, Finish, Goto, db, history
<1>6. ASSUME NEW t \in Threads, NEW u \in Users,
             \/ \E c \in Coupons : BeginPurchase(t, u, c)
             \/ \E r \in Rewards : BeginRetro(t, u, r)
             \/ BeginProfileSave(t, u) \/ BeginAddPhone(t, u)
      PROVE  orderStatus[o] # "none" /\ credits[o] = 0 /\ ~ Crediting(o)
  BY <1>0, <1>1, <1>6
     DEF BeginPurchase, BeginRetro, BeginProfileSave, BeginAddPhone, Accept, Goto, db
<1>7. ASSUME NEW t \in Threads,
             \/ PickCode(t) \/ GrantCoupon(t) \/ SaveReward(t) \/ RefusePurchase(t)
             \/ SaveCoupon(t) \/ SaveProfile(t) \/ CheckPhone(t) \/ RequestThrows(t)
      PROVE  orderStatus[o] # "none" /\ credits[o] = 0 /\ ~ Crediting(o)
  BY <1>0, <1>1, <1>7
     DEF PickCode, GrantCoupon, SaveReward, RefusePurchase, SaveCoupon, SaveProfile,
         CheckPhone, RequestThrows, Goto, Finish, db, history
<1>8. ASSUME \/ \E m \in inbox : TakeConfirm(m) \/ LookupThrows(m)
             \/ MarkCoupon \/ TellCustomer \/ AwardBadge \/ Acknowledge
      PROVE  orderStatus[o] # "none" /\ credits[o] = 0 /\ ~ Crediting(o)
  BY <1>0, <1>1, <1>8
     DEF TakeConfirm, LookupThrows, MarkCoupon, TellCustomer, AwardBadge, Acknowledge,
         Goto, Finish, db, memory, history
<1>9. CASE SaveOrder
  <2> DEFINE p == job[Listener].order
  <2>1. CASE IsKnown(p)
    BY <1>0, <1>1, <1>9, <2>1 DEF SaveOrder
  <2>2. CASE ~ IsKnown(p)
    <3>1. /\ orderStatus' = [orderStatus EXCEPT ![p] = "ACITVE"]
          /\ credits' = credits /\ job' = job
          /\ pc[Listener] = "saveOrder" /\ pc'[Listener] = "readPoints"
      BY <1>0, <1>9, <2>2 DEF SaveOrder, Goto
    <3>2. o # p
      BY <3>1 DEF Crediting
    <3> QED  BY <1>0, <3>1, <3>2 DEF Crediting
  <2> QED  BY <2>1, <2>2
<1>10. ASSUME NEW p \in Orders, Deliver(p)
       PROVE  orderStatus[o] # "none" /\ credits[o] = 0 /\ ~ Crediting(o)
  BY <1>10 DEF Deliver, db, memory, Crediting
<1>11. ASSUME NEW p \in Orders, CompleteOrder(p)
       PROVE  orderStatus[o] # "none" /\ credits[o] = 0 /\ ~ Crediting(o)
  <2>1. orderStatus[p] # "none"
    BY <1>11 DEF CompleteOrder, CreditInv, TimersRecorded
  <2> QED  BY <1>0, <1>11, <2>1 DEF CompleteOrder, Crediting, history
<1> QED
  BY <1>2, <1>3, <1>4, <1>5, <1>6, <1>7, <1>8, <1>9, <1>10, <1>11
     DEF Next, AddPoints, Purchase, Retro, Profile, Consume, Throws

\* A crash leaves at most the order being credited without its points, an exception
\* at most the order that it is put down to.
LEMMA FaultsMissOne ==
  ASSUME TypeInv
  PROVE  /\ Crash => Unexplained' \subseteq Unexplained \cup {job[Listener].order}
         /\ HandlerThrows => Unexplained' \subseteq Unexplained
BY DEF Crash, HandlerThrows, Unexplained, Missed, Crediting, db

\* Nothing but a crash counts as one, and no exception is taken off the record.
LEMMA OnlyCrashCounts ==
  ASSUME [Next]_vars
  PROVE  failed \subseteq failed' /\ (~ Crash => crashes' = crashes)
BY DEF Next, AddPoints, Purchase, Retro, Profile, Consume, Throws, ReadPoints,
   WritePoints, SendTask, BeginPurchase, RefusePurchase, PickCode, GrantCoupon,
   SaveCoupon, BeginRetro, SaveReward, BeginProfileSave, SaveProfile, BeginAddPhone,
   CheckPhone, TakeConfirm, SaveOrder, MarkCoupon, TellCustomer, AwardBadge,
   Acknowledge, Deliver, CompleteOrder, RequestThrows, LookupThrows, HandlerThrows,
   Crash, vars, history, faults

\* Every step keeps the orders without points counted by the crashes.
LEMMA NextMissed == TypeInv /\ CreditInv /\ MissedInv /\ [Next]_vars => MissedInv'
<1> SUFFICES ASSUME TypeInv, CreditInv, MissedInv, [Next]_vars PROVE MissedInv'
  OBVIOUS
<1>0. IsFiniteSet(Unexplained) /\ Cardinality(Unexplained) \in Nat /\ crashes \in Nat
      /\ Cardinality(Unexplained) <= crashes
  BY FS_CardinalityType DEF MissedInv, TypeInv, TypeOK
<1>1. CASE ~ Crash
  <2>1. Unexplained' \subseteq Unexplained
    BY <1>1, OnlyFaultsMiss, FaultsMissOne, OnlyCrashCounts DEF Unexplained
  <2>2. IsFiniteSet(Unexplained') /\ Cardinality(Unexplained') <= Cardinality(Unexplained)
    BY <1>0, <2>1, FS_Subset
  <2>4. Cardinality(Unexplained') \in Nat
    BY <2>2, FS_CardinalityType
  <2>3. crashes' = crashes
    BY <1>1, OnlyCrashCounts
  <2> QED  BY <1>0, <2>2, <2>3, <2>4 DEF MissedInv
<1>2. CASE Crash
  <2> DEFINE S == Unexplained \cup {job[Listener].order}
  <2>1. IsFiniteSet(S) /\ Cardinality(S) <= Cardinality(Unexplained) + 1
    <3>1. \/ Cardinality(S) = Cardinality(Unexplained)
          \/ Cardinality(S) = Cardinality(Unexplained) + 1
      BY <1>0, FS_AddElement
    <3>2. IsFiniteSet(S)
      BY <1>0, FS_AddElement
    <3> QED  BY <1>0, <3>1, <3>2
  <2>6. Cardinality(S) \in Nat
    BY <2>1, FS_CardinalityType
  <2>2. Unexplained' \subseteq S
    BY <1>2, FaultsMissOne
  <2> HIDE DEF S
  <2>3. IsFiniteSet(Unexplained') /\ Cardinality(Unexplained') <= Cardinality(S)
    BY <2>1, <2>2, FS_Subset
  <2>5. Cardinality(Unexplained') \in Nat
    BY <2>3, FS_CardinalityType
  <2>4. crashes' = crashes + 1
    BY <1>2 DEF Crash
  <2> QED  BY <1>0, <2>1, <2>3, <2>4, <2>5, <2>6 DEF MissedInv
<1> QED  BY <1>1, <1>2

\* Orders are saved and credited once; one without its points was given up by the
\* listener's catch block, or is one of as many as there were crashes.
THEOREM OrdersMissedOnlyByFaults == Spec => []EveryOrderCredited
<1>1. Spec => []CreditInv
  BY InitCredit, NextCredit, TypeInvariance, PTL DEF Spec
<1>2. Spec => []MissedInv
  BY <1>1, InitMissed, NextMissed, TypeInvariance, PTL DEF Spec
<1>3. CreditInv /\ MissedInv => EveryOrderCredited
  BY DEF CreditInv, MissedInv, EveryOrderCredited, Unexplained
<1> QED  BY <1>1, <1>2, <1>3, PTL

-----------------------------------------------------------------------------
(***************************************************************************)
(* Coupon codes                                                            *)
(***************************************************************************)

\* At the start every code is in its campaign.
LEMMA InitCodes == Init => CodesInv
BY DEF Init, CodesInv, NoCodeLost, LeftAccounted, CodesOf, Actors

\* Every step keeps the codes that left a campaign in the hands of users.
LEMMA NextCodes == TypeInv /\ CodesInv /\ [Next]_vars => CodesInv'
<1> SUFFICES ASSUME TypeInv, CodesInv, [Next]_vars PROVE CodesInv'
  OBVIOUS
<1> USE DEF CodesInv, NoCodeLost, LeftAccounted
<1>0. /\ pool \in [Coupons -> SUBSET Codes]
      /\ granted \subseteq UserCoupon
      /\ pc \in [Actors -> Steps] /\ job \in [Actors -> Job]
      /\ left \in [Actors -> SUBSET Codes]
      /\ Listener \in Actors /\ Listener \notin Threads
      /\ \A t \in Threads : t \in Actors
  BY SetsAssumption DEF TypeInv, TypeOK, Actors
\* A step that leaves the codes alone and no thread nearer to a grant.
<1>1. ASSUME UNCHANGED <<pool, granted>>,
             \A t \in Threads :
               \/ pc'[t] \notin {"readPoints", "writePoints", "sendTask", "grant", "saveCoupon"}
               \/ pc'[t] = pc[t] /\ job'[t] = job[t] /\ left'[t] = left[t]
      PROVE CodesInv'
  BY <1>1 DEF SoldCodes, CodesOf
<1>2. CASE UNCHANGED vars
  BY <1>1, <1>2 DEF vars, db, memory
<1>3. ASSUME NEW a \in Actors, ReadPoints(a) \/ WritePoints(a) PROVE CodesInv'
  <2>1. UNCHANGED <<pool, granted, job, left>>
    BY <1>3 DEF ReadPoints, WritePoints, db
  <2>2. /\ pc[a] \in {"readPoints", "writePoints"}
        /\ pc'[a] \in {"writePoints", "sendTask"}
        /\ \A t \in Threads : t # a => pc'[t] = pc[t]
    BY <1>0, <1>3 DEF ReadPoints, WritePoints, Goto
  <2> QED BY <2>1, <2>2 DEF SoldCodes, CodesOf
<1>4. ASSUME NEW a \in Actors, SendTask(a) PROVE CodesInv'
  <2>1. CASE a = Listener
    BY <1>0, <1>1, <1>4, <2>1 DEF SendTask, AfterPoints, Finish, Goto, db
  <2>2. CASE a \in Threads /\ job[a].coupon # None
    <3>1. job[a].reward = None /\ job[a].order = None
      BY <1>4, <2>2 DEF SendTask, TypeInv, JobsFit, Buys, Claims
    <3>2. UNCHANGED <<pool, granted, job, left>> /\ pc' = [pc EXCEPT ![a] = "grant"]
      BY <1>4, <3>1 DEF SendTask, AfterPoints, Goto, db
    <3> QED BY <1>0, <1>4, <2>2, <3>2 DEF SendTask, SoldCodes, CodesOf
  <2>3. CASE a \in Threads /\ job[a].coupon = None
    <3>1. job[a].order = None
      BY <1>4, <2>3 DEF SendTask, TypeInv, JobsFit, Buys, Claims
    <3> QED BY <1>0, <1>1, <1>4, <2>3, <3>1 DEF SendTask, AfterPoints, Finish, db
  <2> QED BY <2>1, <2>2, <2>3 DEF Actors
<1>5. ASSUME NEW t \in Threads, NEW u \in Users,
             \/ \E c \in Coupons : BeginPurchase(t, u, c)
             \/ \E r \in Rewards : BeginRetro(t, u, r)
             \/ BeginProfileSave(t, u) \/ BeginAddPhone(t, u)
      PROVE CodesInv'
  BY <1>0, <1>1, <1>5
     DEF BeginPurchase, BeginRetro, BeginProfileSave, BeginAddPhone, Accept, Goto, db
<1>6. ASSUME NEW t \in Threads,
             RefusePurchase(t) \/ SaveProfile(t) \/ CheckPhone(t) \/ RequestThrows(t)
      PROVE CodesInv'
  BY <1>0, <1>1, <1>6
     DEF RefusePurchase, SaveProfile, CheckPhone, RequestThrows, Goto, Finish, db
<1>7. ASSUME NEW t \in Threads, PickCode(t) PROVE CodesInv'
  <2> DEFINE c == job[t].coupon
  <2>1. c \in Coupons
    BY <1>7 DEF PickCode, TypeInv, JobsFit, Buys, Actors
  <2>2. PICK x \in pool[c] : /\ job'  = [job EXCEPT ![t].code = x]
                             /\ left' = [left EXCEPT ![t] = pool[c] \ {x}]
    BY <1>7 DEF PickCode
  <2>3. job'[t].coupon = c /\ job'[t].code = x
    BY <1>0, <2>2 DEF Job
  <2>4. /\ UNCHANGED <<pool, granted>> /\ pc' = [pc EXCEPT ![t] = "readPoints"]
        /\ \A s \in Threads : s # t => job'[s] = job[s] /\ left'[s] = left[s]
    BY <1>0, <1>7, <2>2 DEF PickCode, Goto, db
  <2>5. CodesOf(c) \ left'[t] \subseteq SoldCodes \cup {x}
    BY <1>0, <2>1, <2>2
  <2> QED BY <1>0, <2>3, <2>4, <2>5 DEF SoldCodes, CodesOf
<1>8. ASSUME NEW t \in Threads, GrantCoupon(t) PROVE CodesInv'
  <2>1. SoldCodes' = SoldCodes \cup {job[t].code}
    <3> DEFINE new == [id |-> job[t].id, user |-> job[t].user, code |-> job[t].code,
                       order |-> None]
    <3>1. new.code = job[t].code
      OBVIOUS
    <3>2. granted' = granted \cup {new}
      BY <1>8 DEF GrantCoupon
    <3> HIDE DEF new
    <3> QED BY <3>1, <3>2 DEF SoldCodes
  <2>2. UNCHANGED <<pool, job, left>> /\ pc' = [pc EXCEPT ![t] = "saveCoupon"]
    BY <1>8 DEF GrantCoupon, Goto
  <2>3. CodesOf(job[t].coupon) \ left[t] \subseteq SoldCodes'
    <3>1. job[t].coupon # None
      BY <1>8, SetsAssumption DEF GrantCoupon, TypeInv, JobsFit, Buys, Actors
    <3> QED BY <1>8, <2>1, <3>1 DEF GrantCoupon
  <2> QED BY <1>0, <2>1, <2>2, <2>3 DEF CodesOf
<1>9. ASSUME NEW t \in Threads, SaveCoupon(t) PROVE CodesInv'
  <2>1. /\ pool' = [pool EXCEPT ![job[t].coupon] = left[t]]
        /\ granted' = granted
        /\ pc' = [pc EXCEPT ![t] = "idle"]
        /\ \A s \in Threads : s # t => job'[s] = job[s] /\ left'[s] = left[s]
    BY <1>0, <1>9 DEF SaveCoupon, Finish
  <2>2. CodesOf(job[t].coupon) \ left[t] \subseteq SoldCodes
    BY <1>9 DEF SaveCoupon
  <2> QED BY <1>0, <2>1, <2>2 DEF SoldCodes, CodesOf
<1>10. ASSUME NEW t \in Threads, SaveReward(t) PROVE CodesInv'
  <2>1. job[t].coupon = None
    BY <1>10 DEF SaveReward, TypeInv, JobsFit, Claims, Actors
  <2>2. /\ UNCHANGED <<pool, granted, job, left>>
        /\ pc' = [pc EXCEPT ![t] = "readPoints"]
    BY <1>10 DEF SaveReward, Goto
  <2> QED BY <1>0, <2>1, <2>2 DEF SoldCodes, CodesOf
<1>11. ASSUME \/ \E m \in inbox : TakeConfirm(m) \/ LookupThrows(m)
              \/ SaveOrder \/ TellCustomer \/ AwardBadge \/ Acknowledge
              \/ HandlerThrows
       PROVE CodesInv'
  BY <1>0, <1>1, <1>11
     DEF TakeConfirm, LookupThrows, SaveOrder, TellCustomer, AwardBadge, Acknowledge,
         HandlerThrows, Goto, Finish, db, memory
<1>12. CASE MarkCoupon
  <2>1. SoldCodes' = SoldCodes
    <3>1. CASE granted' = granted
      BY <3>1 DEF SoldCodes
    <3>2. ASSUME NEW g \in granted,
                 granted' = (granted \ {g}) \cup {[g EXCEPT !.order = job[Listener].order]}
          PROVE SoldCodes' = SoldCodes
      <4>1. [g EXCEPT !.order = job[Listener].order].code = g.code
        BY <1>0 DEF UserCoupon
      <4> QED BY <3>2, <4>1 DEF SoldCodes
    <3> QED BY <1>12, <3>1, <3>2 DEF MarkCoupon
  <2>2. /\ UNCHANGED <<pool, job, left>>
        /\ \A t \in Threads : pc'[t] = pc[t]
    BY <1>0, <1>12 DEF MarkCoupon, Goto
  <2> QED BY <2>1, <2>2 DEF CodesOf
<1>13. ASSUME NEW o \in Orders, Deliver(o) \/ CompleteOrder(o) PROVE CodesInv'
  BY <1>1, <1>13 DEF Deliver, CompleteOrder, db, memory
<1>14. CASE Crash
  BY <1>0, <1>1, <1>14 DEF Crash, db
<1> QED
  BY <1>2, <1>3, <1>4, <1>5, <1>6, <1>7, <1>8, <1>9, <1>10, <1>11, <1>12, <1>13,
     <1>14 DEF Next, AddPoints, Purchase, Retro, Profile, Consume, Throws

\* Whatever crashes and whatever stale coupon documents are saved back, a code
\* that has left its campaign is in a user's hands.
THEOREM CodesAreNeverLost == Spec => []NoCodeLost
BY InitCodes, NextCodes, TypeInvariance, PTL DEF Spec, CodesInv

-----------------------------------------------------------------------------
(***************************************************************************)
(* Codes sold twice                                                        *)
(***************************************************************************)

\* At the start every code is on its own campaign's shelf and none is sold.
LEMMA InitResale == Init => ResaleInv
<1> SUFFICES ASSUME Init PROVE ResaleInv
  OBVIOUS
<1>1. \A c \in Coupons : Buyers(c) = {}
  BY SetsAssumption DEF Init, Buyers, NoJob, Actors
<1>2. SoldCodes = {} /\ granted = {}
  BY DEF Init, SoldCodes
<1>3. \A t \in Threads : pc[t] = "idle" /\ job[t].code = None
  BY DEF Init, NoJob, Actors
<1>4. \A c \in Coupons : pool[c] = CodesOf(c)
  BY DEF Init
<1> QED
  BY <1>1, <1>2, <1>3, <1>4
     DEF ResaleInv, ResoldOnlyByRace, CodesAtHome, CodesInHand, InOrder, EmptyHanded

\* A step that moves no code, and leaves every buyer a buyer with what it holds.
LEMMA HandsStill ==
  ASSUME TypeInv, ResaleInv, UNCHANGED <<pool, crowded, torn>>,
         SoldCodes' = SoldCodes, ResoldOnlyByRace', CodesInHand',
         \A c \in Coupons : Buyers(c)' = Buyers(c),
         \A c \in Coupons : \A t \in Buyers(c) :
           /\ job'[t].code = job[t].code /\ left'[t] = left[t]
           /\ pc'[t] = "saveCoupon" <=> pc[t] = "saveCoupon"
  PROVE  ResaleInv'
<1>1. CodesAtHome'
  BY DEF ResaleInv, CodesAtHome, CodesOf
<1>2. \A c \in Coupons : InOrder(c) => InOrder(c)'
  BY DEF InOrder
<1> QED  BY <1>1, <1>2 DEF ResaleInv

\* A thread that had no code and has none after the step is no buyer.
LEMMA NoBuyer ==
  ASSUME NEW t \in Threads,
         \A s \in Threads : s # t => job'[s] = job[s],
         job[t].code = None \/ job[t].coupon \notin Coupons,
         job'[t].code = None \/ job'[t].coupon \notin Coupons
  PROVE  \A c \in Coupons : Buyers(c)' = Buyers(c) /\ t \notin Buyers(c)
<1> SUFFICES ASSUME NEW c \in Coupons
             PROVE  Buyers(c)' = Buyers(c) /\ t \notin Buyers(c)
  OBVIOUS
<1>1. \A s \in Threads : s \in Buyers(c)' <=> s \in Buyers(c)
  BY DEF Buyers
<1>2. t \notin Buyers(c)
  BY DEF Buyers
<1> QED  BY <1>1, <1>2 DEF Buyers

\* A purchase finds its campaign.  If no other has it in memory, the code it
\* picks is not sold yet: the only sold code still on the shelf would be that
\* of another buyer.
LEMMA PickKeepsResale ==
  ASSUME TypeInv, ResaleInv, NEW t \in Threads, PickCode(t)
  PROVE  ResaleInv'
<1> DEFINE c == job[t].coupon
<1>0. /\ c \in Coupons /\ pc[t] = "readCoupon" /\ t \in Actors
      /\ pc \in [Actors -> Steps] /\ job \in [Actors -> Job]
      /\ left \in [Actors -> SUBSET Codes] /\ pool \in [Coupons -> SUBSET Codes]
      /\ \A s \in Threads : s \in Actors
  BY DEF PickCode, TypeInv, TypeOK, JobsFit, Buys, Actors
<1>1. PICK x \in pool[c] : /\ job'  = [job EXCEPT ![t].code = x]
                           /\ left' = [left EXCEPT ![t] = pool[c] \ {x}]
  BY DEF PickCode
<1>2. /\ job'[t].coupon = c /\ job'[t].code = x /\ left'[t] = pool[c] \ {x}
      /\ pc'[t] = "readPoints"
      /\ \A s \in Threads : s # t =>
           job'[s] = job[s] /\ left'[s] = left[s] /\ pc'[s] = pc[s]
  BY <1>0, <1>1 DEF PickCode, Goto, Job
<1>3. /\ UNCHANGED <<pool, granted, torn>> /\ SoldCodes' = SoldCodes
      /\ NoteCrowd(t, c)
  BY DEF PickCode, db, faults, SoldCodes
<1>4. x # None /\ x \in Codes
  BY <1>0, <1>1, SetsAssumption
<1>5. Buyers(c)' = Buyers(c) \cup {t}
  <2>1. \A s \in Threads : s \in Buyers(c)' <=> s \in Buyers(c) \/ s = t
    BY <1>2, <1>4 DEF Buyers
  <2>2. Buyers(c) \subseteq Threads /\ Buyers(c)' \subseteq Threads
    BY DEF Buyers
  <2> QED  BY <2>1, <2>2
<1>6. \A d \in Coupons : d # c => Buyers(d)' = Buyers(d) /\ t \notin Buyers(d)
  <2> SUFFICES ASSUME NEW d \in Coupons, d # c
               PROVE  Buyers(d)' = Buyers(d) /\ t \notin Buyers(d)
    OBVIOUS
  <2>1. \A s \in Threads : s \in Buyers(d)' <=> s \in Buyers(d)
    BY <1>2 DEF Buyers
  <2>2. Buyers(d) \subseteq Threads /\ Buyers(d)' \subseteq Threads
    BY DEF Buyers
  <2> QED  BY <2>1, <2>2 DEF Buyers
<1>7. CodesAtHome'
  <2>1. x \in CodesOf(c) /\ pool[c] \subseteq CodesOf(c)
    BY <1>0, <1>1 DEF ResaleInv, CodesAtHome
  <2>2. ASSUME NEW d \in Coupons, NEW s \in Buyers(d)'
        PROVE  left'[s] \subseteq CodesOf(d) /\ job'[s].code \in CodesOf(d)
    <3>1. CASE s = t
      <4>1. d = c
        BY <1>2, <3>1, <2>2 DEF Buyers
      <4> QED  BY <1>2, <2>1, <3>1, <4>1
    <3>2. CASE s # t
      <4>1. s \in Buyers(d) /\ s \in Threads
        BY <1>2, <3>2, <2>2 DEF Buyers
      <4> QED  BY <1>2, <3>2, <4>1 DEF ResaleInv, CodesAtHome
    <3> QED  BY <3>1, <3>2
  <2>3. \A d : CodesOf(d)' = CodesOf(d)
    BY DEF CodesOf
  <2> QED  BY <1>3, <2>2, <2>3 DEF ResaleInv, CodesAtHome
<1>8. CodesInHand' /\ ResoldOnlyByRace'
  <2>1. CodesInHand'
    BY <1>2, <1>3 DEF ResaleInv, CodesInHand, EmptyHanded
  <2>2. crowded \subseteq crowded'
    BY <1>3 DEF NoteCrowd
  <2> QED  BY <1>3, <2>1, <2>2 DEF ResaleInv, ResoldOnlyByRace
<1>9. ASSUME NEW d \in Coupons \ (crowded' \cup torn)
      PROVE  InOrder(d)'
  <2>1. d \notin crowded /\ InOrder(d)
    BY <1>3, <1>9 DEF NoteCrowd, ResaleInv
  <2>2. CASE d = c
    <3>1. Buyers(c) \subseteq {t}
      BY <1>3, <1>9, <2>2 DEF NoteCrowd
    <3>2. t \notin Buyers(c)
      BY <1>0 DEF ResaleInv, CodesInHand, EmptyHanded, Buyers
    <3>3. Buyers(c) = {} /\ Buyers(c)' = {t}
      BY <1>5, <3>1, <3>2
    <3>4. pool[c] \cap SoldCodes = {}
      BY <2>1, <2>2, <3>3 DEF InOrder
    <3>5. x \in pool'[c] /\ x \notin SoldCodes'
      BY <1>1, <1>3, <3>4
    <3> QED  BY <1>2, <1>3, <2>2, <3>3, <3>4, <3>5 DEF InOrder
  <2>3. CASE d # c
    <3>1. \A s \in Buyers(d) : s # t /\ s \in Threads
      BY <1>6, <2>3 DEF Buyers
    <3>2. \A s \in Buyers(d) :
            job'[s] = job[s] /\ left'[s] = left[s] /\ pc'[s] = pc[s]
      BY <1>2, <3>1
    <3> QED  BY <1>3, <1>6, <2>1, <2>3, <3>2 DEF InOrder
  <2> QED  BY <2>2, <2>3
<1> QED  BY <1>3, <1>7, <1>8, <1>9 DEF ResaleInv

\* A purchase grants its code: one more is sold, and it was not sold before
\* unless the campaign was crowded or a purchase of it ended half saved.
LEMMA GrantKeepsResale ==
  ASSUME TypeInv, ResaleInv, NEW t \in Threads, GrantCoupon(t)
  PROVE  ResaleInv'
<1> DEFINE c == job[t].coupon
           x == job[t].code
           new == [id |-> job[t].id, user |-> job[t].user, code |-> x, order |-> None]
<1>0. /\ c \in Coupons /\ x \in Codes /\ pc[t] = "grant" /\ t \in Actors
      /\ pc \in [Actors -> Steps]
      /\ \A s \in Threads : s \in Actors
  BY DEF GrantCoupon, TypeInv, TypeOK, JobsFit, Buys, Actors
<1>1. new.code = x
  OBVIOUS
<1>2. /\ granted' = granted \cup {new}
      /\ UNCHANGED <<pool, job, left, crowded, torn>>
      /\ pc' = [pc EXCEPT ![t] = "saveCoupon"]
  BY DEF GrantCoupon, Goto, history, races, faults
<1> HIDE DEF new
<1>3. SoldCodes' = SoldCodes \cup {x}
  BY <1>1, <1>2 DEF SoldCodes
<1>4. t \in Buyers(c) /\ \A d : Buyers(d)' = Buyers(d)
  BY <1>0, <1>2, SetsAssumption DEF Buyers
<1>5. CouponOf[x] = c
  BY <1>0, <1>4 DEF ResaleInv, CodesAtHome, CodesOf
<1>6. CodesAtHome'
  BY <1>2, <1>4 DEF ResaleInv, CodesAtHome, CodesOf
<1>7. CodesInHand'
  BY <1>0, <1>2, <1>3 DEF ResaleInv, CodesInHand, EmptyHanded
<1>8. ResoldOnlyByRace'
  <2> SUFFICES ASSUME NEW g \in granted', NEW h \in granted',
                      g.code = h.code, g # h,
                      CouponOf[g.code] \notin torn \cup crowded
               PROVE  FALSE
    BY <1>2 DEF ResoldOnlyByRace, TypeInv, TypeOK
  <2>1. CASE g.code = x
    <3>1. InOrder(c)
      BY <1>0, <1>5, <2>1 DEF ResaleInv
    <3>2. x \notin SoldCodes
      BY <1>0, <1>4, <3>1 DEF InOrder
    <3>3. \A k \in granted : k.code # x
      BY <3>2 DEF SoldCodes
    <3> QED  BY <1>1, <1>2, <2>1, <3>3
  <2>2. CASE g.code # x
    BY <1>1, <1>2, <2>2 DEF ResaleInv, ResoldOnlyByRace
  <2> QED  BY <2>1, <2>2
<1>9. ASSUME NEW d \in Coupons \ (crowded \cup torn)
      PROVE  InOrder(d)'
  <2>1. InOrder(d)
    BY <1>9 DEF ResaleInv
  <2>2. \A s \in Buyers(d) : job[s].code = x => s = t /\ d = c
    <3> SUFFICES ASSUME NEW s \in Buyers(d), job[s].code = x PROVE s = t /\ d = c
      OBVIOUS
    <3>1. d = c
      BY <1>5 DEF ResaleInv, CodesAtHome, CodesOf
    <3> QED  BY <1>4, <2>1, <3>1 DEF InOrder
  <2>3. \A s \in Buyers(d) : s \in Threads
    BY DEF Buyers
  <2>4. \A s \in Buyers(d) : job[s].code \in SoldCodes' => pc'[s] = "saveCoupon"
    BY <1>0, <1>2, <1>3, <2>1, <2>2, <2>3 DEF InOrder
  <2>5. \A y \in pool[d] \cap SoldCodes' : \E s \in Buyers(d) : job[s].code = y
    <3> SUFFICES ASSUME NEW y \in pool[d], y \in SoldCodes'
                 PROVE  \E s \in Buyers(d) : job[s].code = y
      OBVIOUS
    <3>1. CASE y = x
      <4>1. d = c
        BY <1>5, <1>9, <3>1 DEF ResaleInv, CodesAtHome, CodesOf
      <4> QED  BY <1>4, <3>1, <4>1
    <3>2. CASE y # x
      BY <1>3, <2>1, <3>2 DEF InOrder
    <3> QED  BY <3>1, <3>2
  <2> QED  BY <1>2, <1>4, <2>1, <2>4, <2>5 DEF InOrder
<1> QED  BY <1>2, <1>6, <1>7, <1>8, <1>9 DEF ResaleInv

\* A purchase saves its campaign: the code it sold leaves the shelf.
LEMMA SaveKeepsResale ==
  ASSUME TypeInv, ResaleInv, NEW t \in Threads, SaveCoupon(t)
  PROVE  ResaleInv'
<1> DEFINE c == job[t].coupon
           x == job[t].code
<1>0. /\ c \in Coupons /\ x \in Codes /\ pc[t] = "saveCoupon" /\ t \in Actors
      /\ pc \in [Actors -> Steps] /\ job \in [Actors -> Job]
      /\ left \in [Actors -> SUBSET Codes] /\ pool \in [Coupons -> SUBSET Codes]
      /\ \A s \in Threads : s \in Actors
  BY DEF SaveCoupon, TypeInv, TypeOK, JobsFit, Buys, Actors
<1>1. /\ pool' = [pool EXCEPT ![c] = left[t]]
      /\ UNCHANGED <<granted, crowded, torn>>
      /\ pc'[t] = "idle" /\ job'[t] = NoJob
      /\ \A s \in Threads : s # t =>
           job'[s] = job[s] /\ left'[s] = left[s] /\ pc'[s] = pc[s]
  BY <1>0 DEF SaveCoupon, Finish, history, races, faults
<1>2. SoldCodes' = SoldCodes
  BY <1>1 DEF SoldCodes
<1>3. t \in Buyers(c)
  BY <1>0, SetsAssumption DEF Buyers
<1>4. \A d \in Coupons : Buyers(d)' = Buyers(d) \ {t}
  <2> SUFFICES ASSUME NEW d \in Coupons PROVE Buyers(d)' = Buyers(d) \ {t}
    OBVIOUS
  <2>1. \A s \in Threads : s \in Buyers(d)' <=> s \in Buyers(d) /\ s # t
    BY <1>1 DEF Buyers, NoJob
  <2>2. Buyers(d) \subseteq Threads /\ Buyers(d)' \subseteq Threads
    BY DEF Buyers
  <2> QED  BY <2>1, <2>2
<1>5. \A d \in Coupons : \A s \in Buyers(d)' :
        /\ s \in Buyers(d) /\ s # t
        /\ job'[s] = job[s] /\ left'[s] = left[s] /\ pc'[s] = pc[s]
  <2>1. \A d \in Coupons : \A s \in Buyers(d)' : s \in Threads
    BY DEF Buyers
  <2> QED  BY <1>1, <1>4, <2>1
<1>6. CodesAtHome'
  <2>1. left[t] \subseteq CodesOf(c)
    BY <1>0, <1>3 DEF ResaleInv, CodesAtHome
  <2>2. \A d \in Coupons : pool'[d] \subseteq CodesOf(d)
    BY <1>0, <1>1, <2>1 DEF ResaleInv, CodesAtHome
  <2>3. \A d : CodesOf(d)' = CodesOf(d)
    BY DEF CodesOf
  <2> QED  BY <1>5, <2>2, <2>3 DEF ResaleInv, CodesAtHome
<1>7. CodesInHand'
  BY <1>1, <1>2 DEF ResaleInv, CodesInHand, EmptyHanded, NoJob
<1>8. ResoldOnlyByRace'
  BY <1>1 DEF ResaleInv, ResoldOnlyByRace
<1>9. ASSUME NEW d \in Coupons \ (crowded \cup torn)
      PROVE  InOrder(d)'
  <2>1. InOrder(d)
    BY <1>9 DEF ResaleInv
  <2>2. CASE d = c
    <3>1. Buyers(d)' = {}
      BY <1>3, <1>4, <2>1, <2>2 DEF InOrder
    <3>2. pool'[d] = pool[d] \ {x}
      BY <1>0, <1>1, <1>3, <2>1, <2>2 DEF InOrder
    <3>3. pool[d] \cap SoldCodes \subseteq {x}
      BY <1>3, <2>1, <2>2 DEF InOrder
    <3> QED  BY <1>2, <3>1, <3>2, <3>3 DEF InOrder
  <2>3. CASE d # c
    <3>1. t \notin Buyers(d) /\ pool'[d] = pool[d]
      BY <1>0, <1>1, <2>3 DEF Buyers
    <3>2. Buyers(d)' = Buyers(d)
      BY <1>4, <3>1
    <3> QED  BY <1>2, <1>5, <2>1, <3>1, <3>2 DEF InOrder
  <2> QED  BY <2>2, <2>3
<1> QED  BY <1>1, <1>6, <1>7, <1>8, <1>9 DEF ResaleInv

\* A purchase that ends by an exception either has sold nothing, or is put down to
\* its campaign as half saved.
LEMMA ThrowKeepsResale ==
  ASSUME TypeInv, ResaleInv, NEW t \in Threads, RequestThrows(t)
  PROVE  ResaleInv'
<1> DEFINE c == job[t].coupon
<1>0. /\ t \in Actors /\ pc[t] # "idle"
      /\ pc \in [Actors -> Steps] /\ job \in [Actors -> Job]
      /\ left \in [Actors -> SUBSET Codes]
      /\ \A s \in Threads : s \in Actors
      /\ torn \subseteq Coupons
      /\ pc[t] = "saveCoupon" => c \in Coupons
  BY DEF RequestThrows, TypeInv, TypeOK, JobsFit, Buys, Actors
<1>1. /\ UNCHANGED <<pool, granted, crowded>> /\ SoldCodes' = SoldCodes
      /\ torn \subseteq torn' /\ (pc[t] = "saveCoupon" => c \in torn')
      /\ pc'[t] = "idle" /\ job'[t] = NoJob
      /\ \A s \in Threads : s # t =>
           job'[s] = job[s] /\ left'[s] = left[s] /\ pc'[s] = pc[s]
  BY <1>0 DEF RequestThrows, Finish, db, races, SoldCodes
<1>2. \A d \in Coupons : Buyers(d)' = Buyers(d) \ {t}
  <2> SUFFICES ASSUME NEW d \in Coupons PROVE Buyers(d)' = Buyers(d) \ {t}
    OBVIOUS
  <2>1. \A s \in Threads : s \in Buyers(d)' <=> s \in Buyers(d) /\ s # t
    BY <1>1 DEF Buyers, NoJob
  <2>2. Buyers(d) \subseteq Threads /\ Buyers(d)' \subseteq Threads
    BY DEF Buyers
  <2> QED  BY <2>1, <2>2
<1>3. \A d \in Coupons : \A s \in Buyers(d)' :
        /\ s \in Buyers(d) /\ s # t
        /\ job'[s] = job[s] /\ left'[s] = left[s] /\ pc'[s] = pc[s]
  <2>1. \A d \in Coupons : \A s \in Buyers(d)' : s \in Threads
    BY DEF Buyers
  <2> QED  BY <1>1, <1>2, <2>1
<1>4. CodesAtHome'
  BY <1>1, <1>3 DEF ResaleInv, CodesAtHome, CodesOf
<1>5. CodesInHand'
  BY <1>1 DEF ResaleInv, CodesInHand, EmptyHanded, NoJob
<1>6. ResoldOnlyByRace'
  BY <1>1 DEF ResaleInv, ResoldOnlyByRace
<1>7. ASSUME NEW d \in Coupons \ (crowded' \cup torn')
      PROVE  InOrder(d)'
  <2>1. InOrder(d)
    BY <1>1, <1>7 DEF ResaleInv
  <2>2. ASSUME t \in Buyers(d) PROVE job[t].code \notin SoldCodes
    <3>1. d = c /\ pc[t] # "saveCoupon"
      BY <1>1, <1>7, <2>2 DEF Buyers
    <3> QED  BY <2>1, <2>2, <3>1 DEF InOrder
  <2>3. \A x \in pool[d] \cap SoldCodes : \E s \in Buyers(d)' : job'[s].code = x
    <3> SUFFICES ASSUME NEW x \in pool[d] \cap SoldCodes
                 PROVE  \E s \in Buyers(d)' : job'[s].code = x
      OBVIOUS
    <3>1. PICK s \in Buyers(d) : job[s].code = x
      BY <2>1 DEF InOrder
    <3>2. s # t
      BY <2>2, <3>1
    <3> QED  BY <1>2, <1>3, <3>1, <3>2
  <2>4. /\ \A s, r \in Buyers(d)' : s = r
        /\ \A s \in Buyers(d)' :
             /\ job'[s].code \in pool'[d]
             /\ left'[s] = pool'[d] \ {job'[s].code}
             /\ job'[s].code \in SoldCodes' => pc'[s] = "saveCoupon"
    BY <1>1, <1>3, <2>1 DEF InOrder
  <2> QED  BY <1>1, <2>3, <2>4 DEF InOrder
<1> QED  BY <1>4, <1>5, <1>6, <1>7 DEF ResaleInv

\* So does a crash, with every purchase in memory.
LEMMA CrashKeepsResale ==
  ASSUME TypeInv, ResaleInv, Crash
  PROVE  ResaleInv'
<1>1. /\ UNCHANGED <<pool, granted, crowded>> /\ SoldCodes' = SoldCodes
      /\ torn' = torn \cup HalfSaved
      /\ \A t \in Threads : pc'[t] = "idle" /\ job'[t] = NoJob
  BY DEF Crash, db, races, SoldCodes, Actors
<1>2. \A c \in Coupons : Buyers(c)' = {}
  BY <1>1, SetsAssumption DEF Buyers, NoJob
<1>3. CodesAtHome'
  BY <1>1, <1>2 DEF ResaleInv, CodesAtHome, CodesOf
<1>4. CodesInHand' /\ ResoldOnlyByRace'
  BY <1>1 DEF ResaleInv, CodesInHand, ResoldOnlyByRace, NoJob
<1>5. ASSUME NEW d \in Coupons \ (crowded' \cup torn')
      PROVE  InOrder(d)'
  <2>1. InOrder(d) /\ d \notin HalfSaved
    BY <1>1, <1>5 DEF ResaleInv
  <2>2. \A t \in Buyers(d) : pc[t] # "saveCoupon"
    BY <2>1 DEF Buyers, HalfSaved
  <2>3. pool[d] \cap SoldCodes = {}
    BY <2>1, <2>2 DEF InOrder
  <2> QED  BY <1>1, <1>2, <2>3 DEF InOrder
<1> QED  BY <1>3, <1>4, <1>5 DEF ResaleInv

\* Every step keeps a code from being sold twice, unless two purchases had its
\* campaign in memory at once or one of them ended half saved.
LEMMA NextResale == TypeInv /\ ResaleInv /\ [Next]_vars => ResaleInv'
<1> SUFFICES ASSUME TypeInv, ResaleInv, [Next]_vars PROVE ResaleInv'
  OBVIOUS
<1>0. /\ granted \subseteq UserCoupon
      /\ pc \in [Actors -> Steps] /\ job \in [Actors -> Job]
      /\ left \in [Actors -> SUBSET Codes]
      /\ Listener \in Actors /\ Listener \notin Threads
      /\ \A t \in Threads : t \in Actors
      /\ None \notin Coupons /\ CodesInHand /\ ResoldOnlyByRace
  BY SetsAssumption DEF TypeInv, TypeOK, Actors, ResaleInv
\* A step that moves no code and leaves the jobs alone.
<1>1. ASSUME UNCHANGED <<pool, granted, crowded, torn>>,
             \A t \in Threads :
               /\ job'[t] = job[t] /\ left'[t] = left[t]
               /\ pc'[t] = "saveCoupon" <=> pc[t] = "saveCoupon"
               /\ pc'[t] \in EmptyHanded => pc[t] \in EmptyHanded
      PROVE  ResaleInv'
  <2>1. \A c \in Coupons : Buyers(c)' = Buyers(c) /\ Buyers(c) \subseteq Threads
    BY <1>1 DEF Buyers
  <2>2. SoldCodes' = SoldCodes /\ ResoldOnlyByRace'
    BY <1>0, <1>1 DEF SoldCodes, ResoldOnlyByRace
  <2>3. CodesInHand'
    BY <1>0, <1>1, <2>2 DEF CodesInHand
  <2> QED  BY <1>1, <2>1, <2>2, <2>3, HandsStill
\* A step of a thread that has no code before nor after.
<1>2. ASSUME NEW t \in Threads, UNCHANGED <<pool, granted, crowded, torn>>,
             \A s \in Threads : s # t =>
               job'[s] = job[s] /\ left'[s] = left[s] /\ pc'[s] = pc[s],
             job[t].code = None \/ job[t].coupon \notin Coupons,
             job'[t].code = None, pc'[t] # "saveCoupon"
      PROVE  ResaleInv'
  <2>1. \A c \in Coupons : Buyers(c)' = Buyers(c) /\ t \notin Buyers(c)
    BY <1>2, NoBuyer
  <2>2. \A c \in Coupons : \A s \in Buyers(c) : s \in Threads /\ s # t
    BY <2>1 DEF Buyers
  <2>3. SoldCodes' = SoldCodes /\ ResoldOnlyByRace'
    BY <1>0, <1>2 DEF SoldCodes, ResoldOnlyByRace
  <2>4. CodesInHand'
    BY <1>0, <1>2, <2>3 DEF CodesInHand
  <2> QED  BY <1>2, <2>1, <2>2, <2>3, <2>4, HandsStill
<1>3. CASE UNCHANGED vars
  BY <1>1, <1>3 DEF vars, db, memory, history, races, faults
<1>4. ASSUME NEW a \in Actors, ReadPoints(a) \/ WritePoints(a) PROVE ResaleInv'
  BY <1>0, <1>1, <1>4 DEF ReadPoints, WritePoints, Goto, db, history, races, faults, EmptyHanded
<1>5. ASSUME NEW a \in Actors, SendTask(a) PROVE ResaleInv'
  <2>1. /\ UNCHANGED <<pool, granted, crowded, torn>> /\ pc[a] = "sendTask"
        /\ AfterPoints(a)
    BY <1>5 DEF SendTask, db, history, races, faults
  <2>2. CASE a = Listener
    BY <1>0, <1>1, <2>1, <2>2 DEF AfterPoints, Finish, Goto
  <2>3. CASE a \in Threads /\ job[a].coupon # None
    <3>1. job[a].reward = None /\ job[a].order = None
      BY <2>1, <2>3 DEF TypeInv, JobsFit, Buys, Claims
    <3>2. UNCHANGED <<job, left>> /\ pc' = [pc EXCEPT ![a] = "grant"]
      BY <2>1, <3>1 DEF AfterPoints, Goto
    <3> QED  BY <1>0, <1>1, <2>1, <3>2 DEF EmptyHanded
  <2>4. CASE a \in Threads /\ job[a].coupon = None
    <3>1. job[a].order = None
      BY <2>1, <2>4 DEF TypeInv, JobsFit, Buys, Claims
    <3>2. Finish(a)
      BY <2>1, <2>4, <3>1 DEF AfterPoints
    <3>3. job'[a].code = None /\ pc'[a] = "idle"
      BY <1>0, <3>2 DEF Finish, NoJob
    <3> QED  BY <1>0, <1>2, <2>1, <2>4, <3>2, <3>3 DEF Finish
  <2> QED  BY <2>2, <2>3, <2>4 DEF Actors
<1>6. ASSUME NEW t \in Threads, NEW u \in Users,
             \/ \E c \in Coupons : BeginPurchase(t, u, c)
             \/ \E r \in Rewards : BeginRetro(t, u, r)
             \/ BeginProfileSave(t, u) \/ BeginAddPhone(t, u)
      PROVE  ResaleInv'
  <2>1. /\ UNCHANGED <<pool, granted, crowded, torn, left>> /\ pc[t] = "idle"
        /\ \E step \in EmptyHanded : pc' = [pc EXCEPT ![t] = step]
    BY <1>6
       DEF BeginPurchase, BeginRetro, BeginProfileSave, BeginAddPhone, Accept, Goto,
           db, races, faults, EmptyHanded
  <2>2. \E j : j.code = None /\ job' = [job EXCEPT ![t] = j]
    <3>1. CASE \E c \in Coupons : BeginPurchase(t, u, c)
      BY <3>1 DEF BeginPurchase, Accept, NoJob
    <3>2. CASE \E r \in Rewards : BeginRetro(t, u, r)
      BY <3>2 DEF BeginRetro, Accept, NoJob
    <3>3. CASE BeginProfileSave(t, u) \/ BeginAddPhone(t, u)
      BY <3>3 DEF BeginProfileSave, BeginAddPhone, Accept, NoJob
    <3> QED  BY <1>6, <3>1, <3>2, <3>3
  <2>3. /\ pc'[t] # "saveCoupon" /\ job'[t].code = None /\ job[t].code = None
        /\ \A s \in Threads : s # t => job'[s] = job[s] /\ pc'[s] = pc[s]
    BY <1>0, <2>1, <2>2 DEF EmptyHanded, CodesInHand
  <2> QED  BY <1>2, <2>1, <2>3
<1>7. ASSUME NEW t \in Threads,
             RefusePurchase(t) \/ SaveProfile(t) \/ CheckPhone(t)
      PROVE  ResaleInv'
  <2>1. /\ UNCHANGED <<pool, granted, crowded, torn>>
        /\ pc[t] \in EmptyHanded /\ pc'[t] # "saveCoupon"
        /\ job'[t] = job[t] \/ job'[t].code = None
        /\ \A s \in Threads : s # t =>
             job'[s] = job[s] /\ left'[s] = left[s] /\ pc'[s] = pc[s]
    BY <1>0, <1>7
       DEF RefusePurchase, SaveProfile, CheckPhone, Finish, Goto, NoJob, db, history,
           races, faults, EmptyHanded
  <2> QED  BY <1>0, <1>2, <2>1 DEF CodesInHand
<1>8. ASSUME NEW t \in Threads, PickCode(t) \/ GrantCoupon(t) \/ SaveCoupon(t)
      PROVE  ResaleInv'
  BY <1>8, PickKeepsResale, GrantKeepsResale, SaveKeepsResale
<1>9. ASSUME NEW t \in Threads, SaveReward(t) PROVE ResaleInv'
  BY <1>0, <1>1, <1>9 DEF SaveReward, Goto, history, races, faults, EmptyHanded
<1>10. ASSUME \/ \E m \in inbox : TakeConfirm(m) \/ LookupThrows(m)
              \/ SaveOrder \/ TellCustomer \/ AwardBadge \/ Acknowledge
              \/ HandlerThrows
       PROVE  ResaleInv'
  <2>1. /\ UNCHANGED <<pool, granted, crowded, torn>>
        /\ \A t \in Threads : job'[t] = job[t] /\ left'[t] = left[t] /\ pc'[t] = pc[t]
    BY <1>0, <1>10
       DEF TakeConfirm, LookupThrows, SaveOrder, TellCustomer, AwardBadge, Acknowledge,
           HandlerThrows, Goto, Finish, db, memory, history, races, faults
  <2> QED  BY <1>1, <2>1
\* The only holder of a code is marked: its code stays sold, to it alone.
<1>11. CASE MarkCoupon
  <2>1. /\ UNCHANGED <<pool, crowded, torn, job, left>>
        /\ \A t \in Threads : pc'[t] = pc[t]
    BY <1>0, <1>11 DEF MarkCoupon, Goto, history, races, faults
  <2>2. CASE granted' = granted
    BY <1>1, <2>1, <2>2
  <2>3. ASSUME NEW g \in granted,
               \A h \in granted : h.code = g.code => h = g,
               granted' = (granted \ {g}) \cup {[g EXCEPT !.order = job[Listener].order]}
        PROVE  ResaleInv'
    <3> DEFINE new == [g EXCEPT !.order = job[Listener].order]
    <3>1. new.code = g.code /\ granted' = (granted \ {g}) \cup {new}
      BY <1>0, <2>3 DEF UserCoupon
    <3> HIDE DEF new
    <3>2. SoldCodes' = SoldCodes
      BY <3>1 DEF SoldCodes
    <3>3. ResoldOnlyByRace'
      BY <1>0, <2>1, <2>3, <3>1 DEF ResoldOnlyByRace
    <3>4. CodesInHand'
      BY <1>0, <2>1, <3>2 DEF CodesInHand
    <3>5. \A c \in Coupons : Buyers(c)' = Buyers(c) /\ Buyers(c) \subseteq Threads
      BY <2>1 DEF Buyers
    <3> QED  BY <2>1, <3>2, <3>3, <3>4, <3>5, HandsStill
  <2>4. \/ granted' = granted
        \/ \E g \in granted :
             /\ \A h \in granted : h.code = g.code => h = g
             /\ granted' = (granted \ {g}) \cup {[g EXCEPT !.order = job[Listener].order]}
    <3> DEFINE holders == {g \in granted : g.code = job[Listener].code}
    <3>1. \/ granted' = granted
          \/ \E g \in holders :
               /\ holders = {g}
               /\ granted' = (granted \ {g}) \cup {[g EXCEPT !.order = job[Listener].order]}
      BY <1>11 DEF MarkCoupon
    <3>2. ASSUME NEW g \in holders, holders = {g}
          PROVE  g \in granted /\ \A h \in granted : h.code = g.code => h = g
      BY <3>2
    <3> QED  BY <3>1, <3>2
  <2> QED  BY <2>2, <2>3, <2>4
<1>12. ASSUME NEW o \in Orders, Deliver(o) \/ CompleteOrder(o) PROVE ResaleInv'
  BY <1>1, <1>12 DEF Deliver, CompleteOrder, db, memory, history, races, faults
<1>13. ASSUME NEW t \in Threads, RequestThrows(t) PROVE ResaleInv'
  BY <1>13, ThrowKeepsResale
<1>14. CASE Crash
  BY <1>14, CrashKeepsResale
<1> QED
  BY <1>3, <1>4, <1>5, <1>6, <1>7, <1>8, <1>9, <1>10, <1>11, <1>12, <1>13, <1>14
     DEF Next, AddPoints, Purchase, Retro, Profile, Consume, Throws

\* A code that left its campaign is in a user's hands, and in one user's only,
\* unless a purchase of its campaign ended between its two saves, or two overlapped.
THEOREM CodesResoldOnlyForACause == Spec => []CodesAccountedFor
<1>1. Spec => []ResaleInv
  BY InitResale, NextResale, TypeInvariance, PTL DEF Spec
<1>2. ResaleInv => ResoldOnlyByRace
  BY DEF ResaleInv
<1> QED  BY <1>1, <1>2, CodesAreNeverLost, PTL DEF CodesAccountedFor

-----------------------------------------------------------------------------
(***************************************************************************)
(* Payments                                                                *)
(***************************************************************************)

\* At the start nothing is granted, claimed or numbered.
LEMMA InitPaid == Init => PaidInv
BY DEF Init, PaidInv, PaidBeforeGranted, NumbersFresh, DebtsKept, Actors, AddPointsSteps

\* Every step keeps grants behind their debit and claims behind their record.
LEMMA NextPaid == TypeInv /\ PaidInv /\ [Next]_vars => PaidInv'
<1> SUFFICES ASSUME TypeInv, PaidInv, [Next]_vars PROVE PaidInv'
  OBVIOUS
<1> USE DEF PaidInv, PaidBeforeGranted, NumbersFresh, DebtsKept, AddPointsSteps
<1>0. /\ granted \subseteq UserCoupon /\ rewards \subseteq RetroReward
      /\ pc \in [Actors -> Steps] /\ job \in [Actors -> Job]
      /\ debited \subseteq Nat /\ rewarded \subseteq Nat /\ serial \in Nat
      /\ Listener \in Actors /\ Listener \notin Threads
      /\ \A t \in Threads : t \in Actors
      /\ \A t \in Threads : job[t].id \in Nat
  BY SetsAssumption DEF TypeInv, TypeOK, Actors, Job
\* A step that makes no document and brings no thread to a new duty.
<1>1. ASSUME UNCHANGED <<granted, rewards, debited, rewarded, serial>>,
             \A t \in Threads :
               \/ pc'[t] = "idle"
               \/ pc'[t] = pc[t] /\ job'[t] = job[t]
      PROVE PaidInv'
  BY <1>1
\* A step of one thread within its job that makes no document.
<1>2. ASSUME NEW t \in Threads,
             UNCHANGED <<granted, rewards, debited, rewarded, serial>>,
             pc[t] # "idle",
             \A s \in Threads : s # t => pc'[s] = pc[s] /\ job'[s] = job[s],
             job'[t].id = job[t].id, job'[t].coupon = job[t].coupon,
             job'[t].reward = job[t].reward,
             pc[t] \in AddPointsSteps \cup {"readCoupon"},
             pc'[t] \in {"sendTask", "grant"} /\ job[t].coupon # None =>
               job[t].id \in debited,
             pc'[t] \in AddPointsSteps /\ job[t].reward # None =>
               \E d \in rewards : d.id = job[t].id
      PROVE PaidInv'
  BY <1>2
\* A request begins: its number is new.
<1>3. ASSUME NEW t \in Threads, NEW j \in Job, NEW step \in {"readCoupon", "saveReward",
             "checkPhone", "saveProfile"}, Accept(t, j, step),
             UNCHANGED <<granted, rewards, debited, rewarded>>
      PROVE PaidInv'
  <2>1. /\ pc' = [pc EXCEPT ![t] = step] /\ serial' = serial + 1
        /\ \A s \in Threads : s # t => job'[s] = job[s]
        /\ job'[t] = [j EXCEPT !.id = serial + 1]
    BY <1>0, <1>3 DEF Accept, Goto
  <2>2. job'[t].id = serial + 1
    BY <1>0, <2>1 DEF Job
  <2>3. \A g \in granted : g.id \in Nat
    BY <1>0 DEF UserCoupon
  <2>4. PaidBeforeGranted'
    BY <1>3
  <2>5. NumbersFresh'
    <3>1. \A s \in Threads : s # t /\ pc'[s] # "idle" =>
            /\ pc'[s] = pc[s] /\ job'[s].id = job[s].id
            /\ job'[s].id \in Nat
            /\ job'[s].id <= serial /\ job'[s].id # job'[t].id
      BY <1>0, <2>1, <2>2
    <3>2. \A g \in granted' : g.id <= serial /\ g.id # job'[t].id
      BY <1>0, <1>3, <2>2, <2>3
    <3>3. serial <= serial' /\ job'[t].id <= serial'
      BY <1>0, <2>1, <2>2
    <3>4. \A s \in Threads : pc'[s] # "idle" => job'[s].id <= serial'
      <4> SUFFICES ASSUME NEW s \in Threads, pc'[s] # "idle"
                   PROVE  job'[s].id <= serial'
        OBVIOUS
      <4>1. CASE s = t
        BY <3>3, <4>1
      <4>2. CASE s # t
        <5>1. job'[s].id \in Nat /\ job'[s].id <= serial
          BY <3>1, <4>2
        <5>2. serial' = serial + 1
          BY <2>1
        <5> QED BY <1>0, <5>1, <5>2
      <4> QED BY <4>1, <4>2
    <3>5. \A g \in granted' : g.id <= serial'
      BY <1>0, <2>1, <2>3, <3>2, <1>3
    <3>6. \A s, r \in Threads : s # r /\ pc'[s] # "idle" /\ pc'[r] # "idle" =>
            job'[s].id # job'[r].id
      BY <3>1
    <3>7. \A s \in Threads, g \in granted' :
            pc'[s] \in AddPointsSteps \cup {"readCoupon", "grant", "saveReward"} =>
              g.id # job'[s].id
      BY <1>3, <3>1, <3>2
    <3> QED BY <3>4, <3>5, <3>6, <3>7
  <2>6. DebtsKept'
    BY <1>0, <1>3, <2>1
  <2> QED BY <2>4, <2>5, <2>6
<1>4. CASE UNCHANGED vars
  BY <1>1, <1>4 DEF vars, db, memory, history
<1>5. ASSUME NEW a \in Actors, ReadPoints(a) PROVE PaidInv'
  <2>1. CASE a = Listener
    BY <1>0, <1>1, <1>5, <2>1 DEF ReadPoints, Goto, db, history
  <2>2. CASE a \in Threads
    BY <1>0, <1>2, <1>5, <2>2 DEF ReadPoints, Goto, db, history
  <2> QED BY <2>1, <2>2 DEF Actors
<1>6. ASSUME NEW a \in Actors, WritePoints(a) PROVE PaidInv'
  <2>1. CASE a = Listener
    <3>1. job[a].coupon = None /\ job[a].reward = None
      BY <1>6, <2>1 DEF WritePoints, TypeInv, JobsFit, Confirms
    <3> QED BY <1>0, <1>1, <1>6, <2>1, <3>1 DEF WritePoints, Goto
  <2>2. CASE a \in Threads
    <3>1. /\ pc[a] = "writePoints" /\ pc' = [pc EXCEPT ![a] = "sendTask"]
          /\ UNCHANGED <<granted, rewards, job, serial>>
      BY <1>6 DEF WritePoints, Goto
    <3>2. /\ debited \subseteq debited' /\ rewarded' \subseteq rewarded \cup {job[a].id}
          /\ job[a].coupon # None => job[a].id \in debited'
          /\ job[a].reward = None => rewarded' = rewarded
      BY <1>6, <2>2, SetsAssumption
         DEF WritePoints, TypeInv, JobsFit, Buys, Claims
    <3>3. PaidBeforeGranted'
      BY <1>0, <2>2, <3>1, <3>2
    <3>4. NumbersFresh'
      BY <1>0, <2>2, <3>1
    <3>5. DebtsKept'
      BY <1>0, <2>2, <3>1, <3>2
    <3> QED BY <3>3, <3>4, <3>5
  <2> QED BY <2>1, <2>2 DEF Actors
<1>7. ASSUME NEW a \in Actors, SendTask(a) PROVE PaidInv'
  <2>1. CASE a = Listener
    BY <1>0, <1>1, <1>7, <2>1 DEF SendTask, AfterPoints, Finish, Goto, db, history
  <2>2. CASE a \in Threads /\ job[a].coupon # None
    <3>1. job[a].reward = None /\ job[a].order = None
      BY <1>7, <2>2 DEF SendTask, TypeInv, JobsFit, Buys, Claims
    <3>2. /\ UNCHANGED <<granted, rewards, debited, rewarded, serial, job>>
          /\ pc[a] = "sendTask" /\ pc' = [pc EXCEPT ![a] = "grant"]
      BY <1>7, <3>1 DEF SendTask, AfterPoints, Goto, db, history
    <3> QED BY <1>0, <1>2, <2>2, <3>2
  <2>3. CASE a \in Threads /\ job[a].coupon = None
    <3>1. job[a].order = None
      BY <1>7, <2>3 DEF SendTask, TypeInv, JobsFit, Buys, Claims
    <3> QED BY <1>0, <1>1, <1>7, <2>3, <3>1 DEF SendTask, AfterPoints, Finish, db, history
  <2> QED BY <2>1, <2>2, <2>3 DEF Actors
<1>8. ASSUME NEW t \in Threads, NEW u \in Users, NEW c \in Coupons,
             BeginPurchase(t, u, c)
      PROVE PaidInv'
  BY <1>3, <1>8, NewJobType DEF BeginPurchase, db
<1>9. ASSUME NEW t \in Threads, NEW u \in Users, NEW r \in Rewards, BeginRetro(t, u, r)
      PROVE PaidInv'
  BY <1>3, <1>9, NewJobType DEF BeginRetro, db
<1>10. ASSUME NEW t \in Threads, NEW u \in Users,
              BeginProfileSave(t, u) \/ BeginAddPhone(t, u)
       PROVE PaidInv'
  BY <1>3, <1>10, NewJobType DEF BeginProfileSave, BeginAddPhone, db
<1>11. ASSUME NEW t \in Threads,
              RefusePurchase(t) \/ SaveCoupon(t) \/ SaveProfile(t) \/ RequestThrows(t)
       PROVE PaidInv'
  BY <1>0, <1>1, <1>11
     DEF RefusePurchase, SaveCoupon, SaveProfile, RequestThrows, Finish, db, history
<1>19. ASSUME NEW t \in Threads, CheckPhone(t) PROVE PaidInv'
  <2>1. UNCHANGED <<granted, rewards, debited, rewarded, serial>>
    BY <1>19 DEF CheckPhone, db, history
  <2>2. CASE Finish(t)
    BY <1>0, <1>1, <2>1, <2>2 DEF Finish
  <2>3. CASE Goto(t, "saveProfile") /\ job' = job
    BY <1>0, <1>19, <2>1, <2>3 DEF Goto, CheckPhone
  <2> QED BY <1>19, <2>2, <2>3 DEF CheckPhone
<1>12. ASSUME NEW t \in Threads, PickCode(t) PROVE PaidInv'
  <2>1. job[t].reward = None
    BY <1>12 DEF PickCode, TypeInv, JobsFit, Buys, Actors
  <2>2. PICK x \in Codes : job' = [job EXCEPT ![t].code = x]
    BY <1>12 DEF PickCode, TypeInv, TypeOK, JobsFit, Buys, Actors
  <2>3. /\ job'[t].id = job[t].id /\ job'[t].coupon = job[t].coupon
        /\ job'[t].reward = job[t].reward
    BY <1>0, <2>2 DEF Job
  <2> QED BY <1>0, <1>2, <1>12, <2>1, <2>2, <2>3 DEF PickCode, Goto, db, history
<1>13. ASSUME NEW t \in Threads, GrantCoupon(t) PROVE PaidInv'
  <2> DEFINE new == [id |-> job[t].id, user |-> job[t].user, code |-> job[t].code,
                     order |-> None]
  <2>1. new.id = job[t].id
    OBVIOUS
  <2>2. /\ granted' = granted \cup {new}
        /\ pc[t] = "grant" /\ pc' = [pc EXCEPT ![t] = "saveCoupon"]
        /\ UNCHANGED <<rewards, debited, rewarded, serial, job>>
    BY <1>13 DEF GrantCoupon, Goto, history
  <2>3. job[t].id \in debited
    BY <1>13, SetsAssumption DEF GrantCoupon, TypeInv, JobsFit, Buys, Actors
  <2> HIDE DEF new
  <2>4. PaidBeforeGranted'
    BY <1>0, <2>1, <2>2, <2>3
  <2>5. NumbersFresh'
    BY <1>0, <2>1, <2>2
  <2>6. DebtsKept'
    BY <1>0, <2>2
  <2> QED BY <2>4, <2>5, <2>6
<1>14. ASSUME NEW t \in Threads, SaveReward(t) PROVE PaidInv'
  <2> DEFINE new == [id |-> job[t].id, reward |-> job[t].reward, user |-> job[t].user]
  <2>1. new.id = job[t].id
    OBVIOUS
  <2>2. /\ rewards' = rewards \cup {new}
        /\ pc[t] = "saveReward" /\ pc' = [pc EXCEPT ![t] = "readPoints"]
        /\ UNCHANGED <<granted, debited, rewarded, serial, job>>
    BY <1>14 DEF SaveReward, Goto, history
  <2> HIDE DEF new
  <2>4. PaidBeforeGranted'
    BY <1>0, <2>1, <2>2
  <2>5. NumbersFresh'
    BY <1>0, <2>2
  <2>6. DebtsKept'
    BY <1>0, <2>1, <2>2
  <2> QED BY <2>4, <2>5, <2>6
<1>15. ASSUME \/ \E m \in inbox : TakeConfirm(m) \/ LookupThrows(m)
              \/ SaveOrder \/ TellCustomer \/ AwardBadge \/ Acknowledge
              \/ HandlerThrows
       PROVE PaidInv'
  <2>1. ASSUME NEW m \in inbox, TakeConfirm(m) PROVE PaidInv'
    BY <1>0, <1>1, <2>1 DEF TakeConfirm, Goto, db, memory, history
  <2>2. ASSUME NEW m \in inbox, LookupThrows(m) PROVE PaidInv'
    BY <1>0, <1>1, <2>2 DEF LookupThrows, db, memory, history
  <2>3. CASE SaveOrder
    BY <1>0, <1>1, <2>3 DEF SaveOrder, Goto, history
  <2>4. CASE TellCustomer
    BY <1>0, <1>1, <2>4 DEF TellCustomer, Goto, db, history
  <2>5. CASE AwardBadge
    BY <1>0, <1>1, <2>5 DEF AwardBadge, Goto, db, history
  <2>6. CASE Acknowledge
    BY <1>0, <1>1, <2>6 DEF Acknowledge, Finish, db, history
  <2>7. CASE HandlerThrows
    BY <1>0, <1>1, <2>7 DEF HandlerThrows, Goto, Finish, db, memory, history
  <2> QED BY <1>15, <2>1, <2>2, <2>3, <2>4, <2>5, <2>6, <2>7
<1>16. CASE MarkCoupon
  <2>1. /\ UNCHANGED <<rewards, debited, rewarded, serial, job>>
        /\ \A t \in Threads : pc'[t] = pc[t]
    BY <1>0, <1>16 DEF MarkCoupon, Goto, history
  <2>2. CASE granted' = granted
    BY <1>1, <2>1, <2>2
  <2>3. ASSUME NEW g \in granted,
               granted' = (granted \ {g}) \cup {[g EXCEPT !.order = job[Listener].order]}
        PROVE PaidInv'
    <3> DEFINE new == [g EXCEPT !.order = job[Listener].order]
    <3>1. new.id = g.id
      BY <1>0 DEF UserCoupon
    <3>2. granted' = (granted \ {g}) \cup {new}
      BY <2>3
    <3> HIDE DEF new
    <3>3. PaidBeforeGranted'
      BY <2>1, <3>1, <3>2
    <3>4. NumbersFresh' /\ DebtsKept'
      BY <2>1, <3>1, <3>2
    <3> QED BY <3>3, <3>4
  <2> QED BY <1>16, <2>2, <2>3 DEF MarkCoupon
<1>17. ASSUME NEW o \in Orders, Deliver(o) \/ CompleteOrder(o) PROVE PaidInv'
  BY <1>1, <1>17 DEF Deliver, CompleteOrder, db, memory, history
<1>18. CASE Crash
  BY <1>0, <1>1, <1>18 DEF Crash, db
<1> QED
  BY <1>4, <1>5, <1>6, <1>7, <1>8, <1>9, <1>10, <1>11, <1>12, <1>13, <1>14, <1>15,
     <1>16, <1>17, <1>18, <1>19
     DEF Next, AddPoints, Purchase, Retro, Profile, Consume, Throws

\* A coupon is never granted without its price having been written by the same
\* request, nor twice by one request, nor a retro reward credited off record.
THEOREM GrantsArePaidFor == Spec => []PaidBeforeGranted
BY InitPaid, NextPaid, TypeInvariance, PTL DEF Spec, PaidInv

-----------------------------------------------------------------------------
(***************************************************************************)
(* Used coupons                                                            *)
(***************************************************************************)

\* At the start no coupon is granted and no message waits.
LEMMA InitUsed == Init => UsedInv
BY DEF Init, UsedInv, UsedCouponNamesItsOrder, ConfirmsMatch, Actors, AddPointsSteps

\* Every step keeps the orders of used coupons on record and their own.
LEMMA NextUsed == TypeInv /\ CreditInv /\ UsedInv /\ [Next]_vars => UsedInv'
<1> SUFFICES ASSUME TypeInv, CreditInv, UsedInv, [Next]_vars PROVE UsedInv'
  OBVIOUS
<1> USE DEF UsedInv, UsedCouponNamesItsOrder, ConfirmsMatch, AddPointsSteps
<1> DEFINE o == job[Listener].order
<1>0. /\ granted \subseteq UserCoupon /\ inbox \subseteq OnConfirm
      /\ orderStatus \in [Orders -> OrderStatus]
      /\ pc \in [Actors -> Steps] /\ job \in [Actors -> Job]
      /\ Listener \in Actors /\ Listener \notin Threads
      /\ \A t \in Threads : t \in Actors
      /\ pc[Listener] # "idle" => o \in Orders
      /\ \A g \in granted : g.order \in Orders \cup {None} /\ g.code \in Codes
  BY SetsAssumption DEF TypeInv, TypeOK, JobsFit, Confirms, Actors, UserCoupon
\* A step of a request that marks no coupon.
<1>1. ASSUME UNCHANGED <<granted, inbox, orderStatus>>,
             pc'[Listener] = pc[Listener], job'[Listener] = job[Listener]
      PROVE UsedInv'
  BY <1>1
\* A step of the consumer that marks no coupon.
<1>2. ASSUME UNCHANGED <<granted, inbox, orderStatus, job>>,
             pc[Listener] # "idle",
             \/ pc[Listener] \in AddPointsSteps \cup {"mark"}
             \/ pc'[Listener] \notin AddPointsSteps \cup {"mark"}
      PROVE UsedInv'
  BY <1>2
<1>3. CASE UNCHANGED vars
  BY <1>1, <1>3 DEF vars, db, broker, memory
<1>4. ASSUME NEW a \in Actors, ReadPoints(a) \/ WritePoints(a) PROVE UsedInv'
  <2>1. CASE a = Listener
    BY <1>0, <1>2, <1>4, <2>1 DEF ReadPoints, WritePoints, db, broker
  <2>2. CASE a # Listener
    BY <1>0, <1>1, <1>4, <2>2 DEF ReadPoints, WritePoints, Goto, db, broker
  <2> QED BY <2>1, <2>2
<1>5. ASSUME NEW a \in Actors, SendTask(a) PROVE UsedInv'
  <2>1. CASE a = Listener
    <3>1. job[a].coupon = None /\ job[a].reward = None
      BY <1>5, <2>1 DEF SendTask, TypeInv, JobsFit, Confirms
    <3> QED BY <1>0, <1>2, <1>5, <2>1, <3>1 DEF SendTask, AfterPoints, Goto, db
  <2>2. CASE a # Listener
    BY <1>0, <1>1, <1>5, <2>2 DEF SendTask, AfterPoints, Finish, Goto, db
  <2> QED BY <2>1, <2>2
<1>6. ASSUME NEW t \in Threads, NEW u \in Users,
             \/ \E c \in Coupons : BeginPurchase(t, u, c)
             \/ \E r \in Rewards : BeginRetro(t, u, r)
             \/ BeginProfileSave(t, u) \/ BeginAddPhone(t, u)
      PROVE UsedInv'
  BY <1>0, <1>1, <1>6
     DEF BeginPurchase, BeginRetro, BeginProfileSave, BeginAddPhone, Accept, Goto,
         db, broker
<1>7. ASSUME NEW t \in Threads, PickCode(t) \/ SaveReward(t) PROVE UsedInv'
  BY <1>0, <1>1, <1>7 DEF PickCode, SaveReward, Goto, db, broker
<1>8. ASSUME NEW t \in Threads,
             \/ RefusePurchase(t) \/ SaveCoupon(t) \/ SaveProfile(t)
             \/ CheckPhone(t) \/ RequestThrows(t)
      PROVE UsedInv'
  BY <1>0, <1>1, <1>8
     DEF RefusePurchase, SaveCoupon, SaveProfile, CheckPhone, RequestThrows, Goto,
         Finish, db, broker
<1>9. ASSUME NEW t \in Threads, GrantCoupon(t) PROVE UsedInv'
  <2> DEFINE new == [id |-> job[t].id, user |-> job[t].user, code |-> job[t].code,
                     order |-> None]
  <2>1. new.order = None
    OBVIOUS
  <2>2. /\ granted' = granted \cup {new}
        /\ UNCHANGED <<inbox, orderStatus, job>> /\ pc'[Listener] = pc[Listener]
    BY <1>0, <1>9 DEF GrantCoupon, Goto, broker
  <2> HIDE DEF new
  <2> QED BY <2>1, <2>2
<1>10. ASSUME NEW m \in inbox, TakeConfirm(m) PROVE UsedInv'
  <2>1. /\ UNCHANGED <<granted, orderStatus>> /\ inbox' \subseteq inbox
        /\ pc[Listener] = "idle"
    BY <1>10 DEF TakeConfirm, db
  <2>2. \/ pc'[Listener] = "idle"
        \/ /\ pc'[Listener] = "saveOrder"
           /\ job'[Listener].order = m.order /\ job'[Listener].code = m.code
    <3> DEFINE new(u) == [NoJob EXCEPT !.user = u, !.order = m.order, !.code = m.code]
    <3>1. \A u : new(u).order = m.order /\ new(u).code = m.code
      BY DEF NoJob
    <3>2. \/ pc' = pc
          \/ /\ pc' = [pc EXCEPT ![Listener] = "saveOrder"]
             /\ \E u : job' = [job EXCEPT ![Listener] = new(u)]
      BY <1>10 DEF TakeConfirm, Goto
    <3> HIDE DEF new
    <3> QED BY <1>0, <2>1, <3>1, <3>2
  <2> QED BY <2>1, <2>2
<1>11. CASE SaveOrder
  <2>1. CASE IsKnown(o)
    BY <1>0, <1>11, <2>1 DEF SaveOrder, Goto, broker, IsKnown
  <2>2. CASE ~ IsKnown(o)
    <3>1. /\ orderStatus' = [orderStatus EXCEPT ![o] = "ACITVE"]
          /\ UNCHANGED <<granted, inbox, job>>
      BY <1>11, <2>2 DEF SaveOrder, broker
    <3>2. o \in Orders /\ orderStatus'[o] # "none" /\ pc[Listener] # "idle"
      BY <1>0, <1>11, <3>1 DEF SaveOrder
    <3> QED BY <1>0, <3>1, <3>2
  <2> QED BY <2>1, <2>2
<1>12. CASE MarkCoupon
  <2>1. CASE granted' = granted
    BY <1>0, <1>2, <1>12, <2>1 DEF MarkCoupon, Goto, broker
  <2>2. ASSUME NEW g \in granted, g.code = job[Listener].code,
               granted' = (granted \ {g}) \cup {[g EXCEPT !.order = o]}
        PROVE UsedInv'
    <3> DEFINE new == [g EXCEPT !.order = o]
    <3>1. new.order = o /\ new.code = g.code
      BY <1>0 DEF UserCoupon
    <3>2. /\ granted' = (granted \ {g}) \cup {new}
          /\ UNCHANGED <<inbox, orderStatus, job>>
          /\ pc[Listener] = "mark"
      BY <1>12, <2>2 DEF MarkCoupon, broker
    <3>3. g.code # None
      BY <1>0, SetsAssumption
    <3>4. orderStatus[o] # "none" /\ OrderCode[o] = g.code
      BY <2>2, <3>2, <3>3
    <3> HIDE DEF new
    <3>5. UsedCouponNamesItsOrder'
      BY <3>1, <3>2, <3>4
    <3>6. ConfirmsMatch'
      BY <3>2
    <3> QED BY <3>5, <3>6
  <2> QED BY <1>12, <2>1, <2>2 DEF MarkCoupon
<1>13. CASE TellCustomer \/ AwardBadge \/ HandlerThrows
  BY <1>0, <1>2, <1>13 DEF TellCustomer, AwardBadge, HandlerThrows, Goto, db, broker
<1>18. ASSUME NEW m \in inbox, LookupThrows(m) PROVE UsedInv'
  <2>1. UNCHANGED <<granted, orderStatus, pc, job>> /\ inbox' \subseteq inbox
    BY <1>18 DEF LookupThrows, db, memory
  <2> QED BY <2>1
<1>14. CASE Acknowledge
  BY <1>0, <1>14 DEF Acknowledge, Finish, db, broker
<1>15. ASSUME NEW p \in Orders, Deliver(p) PROVE UsedInv'
  <2>1. /\ UNCHANGED <<granted, orderStatus, pc, job>>
        /\ \A m \in inbox' : m \in inbox \/ m.code \in {OrderCode[m.order], None}
    BY <1>15 DEF Deliver, db, memory
  <2> QED BY <2>1
<1>16. ASSUME NEW p \in Orders, CompleteOrder(p) PROVE UsedInv'
  BY <1>0, <1>16 DEF CompleteOrder, broker
<1>17. CASE Crash
  <2>1. /\ UNCHANGED <<granted, orderStatus>> /\ pc'[Listener] = "idle"
        /\ \A m \in inbox' : m.code \in {OrderCode[m.order], None}
    BY <1>0, <1>17 DEF Crash, db
  <2> QED BY <2>1
<1> QED
  BY <1>3, <1>4, <1>5, <1>6, <1>7, <1>8, <1>9, <1>10, <1>11, <1>12, <1>13, <1>14,
     <1>15, <1>16, <1>17, <1>18
     DEF Next, AddPoints, Purchase, Retro, Profile, Consume, Throws

\* A coupon marked as used names a recorded order it was applied to, in whatever
\* number and order the on_confirm messages with and without offers come.
THEOREM UsedCouponsNameTheirOrder == Spec => []UsedCouponNamesItsOrder
<1>1. Spec => []CreditInv
  BY InitCredit, NextCredit, TypeInvariance, PTL DEF Spec
<1> QED
  BY <1>1, InitUsed, NextUsed, TypeInvariance, PTL DEF Spec, UsedInv

-----------------------------------------------------------------------------
(***************************************************************************)
(* The ledger implements LoyaltyPromise                                    *)
(***************************************************************************)

\* The promise's variables in terms of the ledger's.
Recorded == {o \in Orders : orderStatus[o] # "none"}
Receipts == {<<g.id, g.code>> : g \in granted}
Shelf    == UNION {pool[c] : c \in Coupons}

\* The initial states of the ledger map to those of the promise.
LEMMA InitKeepsPromise == Init => Promise!Init
BY DataAssumption DEF Init, Promise!Init, CodesOf

\* The codes of the receipts are the codes sold.
LEMMA ReceiptCodes == Promise!HandedOut = SoldCodes
<1>1. \A g \in granted : <<g.id, g.code>>[2] = g.code
  OBVIOUS
<1>2. Promise!HandedOut = {r[2] : r \in Receipts}
  BY DEF Promise!HandedOut, Receipts
<1> QED BY <1>1, <1>2 DEF Receipts, SoldCodes

\* Every code that is not on the shelf is sold.
ShelfInv == Shelf \subseteq Codes /\ Codes \ Shelf \subseteq SoldCodes

\* Every code is on the shelf or in the hands of a user.
LEMMA ShelfAccounted == TypeInv /\ CodesInv => ShelfInv
<1> SUFFICES ASSUME TypeInv, CodesInv PROVE ShelfInv
  OBVIOUS
<1>1. Shelf \subseteq Codes
  BY DEF Shelf, TypeInv, TypeOK
<1>2. ASSUME NEW x \in Codes, x \notin Shelf PROVE x \in SoldCodes
  <2>1. CouponOf[x] \in Coupons /\ x \in CodesOf(CouponOf[x])
    BY DataAssumption DEF CodesOf
  <2>2. x \notin pool[CouponOf[x]]
    BY <1>2, <2>1 DEF Shelf
  <2> QED BY <2>1, <2>2 DEF CodesInv, NoCodeLost
<1> QED BY <1>1, <1>2 DEF ShelfInv

\* Every step of the ledger maps to a step of the promise or to a stutter.
LEMMA NextKeepsPromise ==
  TypeInv /\ CreditInv /\ PaidInv /\ TypeInv' /\ CodesInv' /\ [Next]_vars
    => [Promise!Next]_(Promise!promised)
<1> SUFFICES ASSUME TypeInv, CreditInv, PaidInv, TypeInv', CodesInv', [Next]_vars
             PROVE  Promise!Next \/ UNCHANGED <<Recorded, credits, debited, Receipts, Shelf>>
  BY DEF Promise!promised, Recorded, Receipts, Shelf
<1>0. /\ orderStatus \in [Orders -> OrderStatus]
      /\ credits \in [Orders -> Nat]
      /\ granted \subseteq UserCoupon
      /\ pc[Listener] # "idle" => job[Listener].order \in Orders
      /\ \A t \in Threads : t \in Actors
  BY DEF TypeInv, TypeOK, JobsFit, Confirms, Actors
<1> DEFINE same == UNCHANGED <<Recorded, credits, debited, Receipts, Shelf>>
\* A step the promise does not see.
<1>1. ASSUME UNCHANGED <<orderStatus, credits, debited, granted, pool>> PROVE same
  BY <1>1 DEF Recorded, Receipts, Shelf
<1>2. CASE UNCHANGED vars
  BY <1>1, <1>2 DEF vars, db, history
<1>3. ASSUME NEW a \in Actors, ReadPoints(a) \/ SendTask(a) PROVE same
  BY <1>1, <1>3 DEF ReadPoints, SendTask, db, history
<1>4. ASSUME NEW a \in Actors, WritePoints(a) PROVE Promise!Next \/ same
  <2>0. UNCHANGED <<orderStatus, granted, pool>>
    BY <1>4 DEF WritePoints
  <2>1. CASE job[a].order # None /\ credits' = [credits EXCEPT ![job[a].order] = @ + 1]
                                 /\ debited' = debited
    <3> DEFINE o == job[a].order
    <3>1. a = Listener
      BY <1>4, <2>1 DEF WritePoints, TypeInv, JobsFit, Actors, Buys, Claims
    <3>2. o \in Orders /\ pc[Listener] = "writePoints"
      BY <1>0, <1>4, <3>1 DEF WritePoints
    <3>3. saves[o] = 1 /\ credits[o] = 0
      BY <3>1, <3>2 DEF CreditInv, CreditPending
    <3>4. o \in Recorded
      BY <3>2, <3>3 DEF CreditInv, CreditedOnce, Recorded
    <3>5. credits' = [credits EXCEPT ![o] = 1]
      BY <1>0, <2>1, <3>2, <3>3
    <3>6. Promise!Credit(o)
      BY <2>0, <2>1, <3>3, <3>4, <3>5 DEF Promise!Credit, Recorded, Receipts, Shelf
    <3> QED BY <3>2, <3>6 DEF Promise!Next
  <2>2. CASE debited' = debited \cup {job[a].id} /\ credits' = credits
    <3>1. Promise!Pay(job[a].id) /\ job[a].id \in debited'
      BY <2>0, <2>2 DEF Promise!Pay
    <3> QED BY <3>1 DEF Promise!Next
  <2>3. CASE UNCHANGED <<credits, debited>>
    BY <1>1, <2>0, <2>3
  <2> QED BY <1>4, <2>1, <2>2, <2>3 DEF WritePoints
<1>5. ASSUME NEW t \in Threads, NEW u \in Users,
             \/ \E c \in Coupons : BeginPurchase(t, u, c)
             \/ \E r \in Rewards : BeginRetro(t, u, r)
             \/ BeginProfileSave(t, u) \/ BeginAddPhone(t, u)
      PROVE same
  BY <1>1, <1>5 DEF BeginPurchase, BeginRetro, BeginProfileSave, BeginAddPhone, db
<1>6. ASSUME NEW t \in Threads,
             \/ RefusePurchase(t) \/ PickCode(t)
             \/ SaveReward(t) \/ SaveProfile(t) \/ CheckPhone(t) \/ RequestThrows(t)
      PROVE same
  BY <1>1, <1>6
     DEF RefusePurchase, PickCode, SaveReward, SaveProfile, CheckPhone, RequestThrows,
         db, history
<1>7. ASSUME NEW t \in Threads, GrantCoupon(t) PROVE Promise!Next
  <2> DEFINE p == job[t].id  x == job[t].code
             new == [id |-> p, user |-> job[t].user, code |-> x, order |-> None]
  <2>1. pc[t] = "grant" /\ granted' = granted \cup {new}
        /\ UNCHANGED <<orderStatus, credits, debited, pool>>
    BY <1>7 DEF GrantCoupon, history
  <2>2. p \in debited
    BY <1>0, <2>1, SetsAssumption DEF PaidInv, DebtsKept, TypeInv, JobsFit, Buys
  <2>3. x \in Codes
    BY <1>0, <2>1 DEF TypeInv, JobsFit
  <2>4. \A g \in granted : g.id # p
    BY <2>1 DEF PaidInv, NumbersFresh
  <2>5. new.id = p /\ new.code = x
    OBVIOUS
  <2> HIDE DEF new
  <2>6. Receipts' = Receipts \cup {<<p, x>>}
    BY <2>1, <2>5 DEF Receipts
  <2>7. \A r \in Receipts : r[1] # p
    BY <2>4 DEF Receipts
  <2>8. Promise!HandOut(p, x)
    BY <2>1, <2>2, <2>6, <2>7 DEF Promise!HandOut, Receipts
  <2> QED BY <2>2, <2>3, <2>8 DEF Promise!Next, Promise!HandOut
<1>8. ASSUME NEW t \in Threads, SaveCoupon(t) PROVE Promise!Next
  <2>1. UNCHANGED <<orderStatus, credits, debited, granted>>
    BY <1>8 DEF SaveCoupon, history
  <2>2. Shelf' \subseteq Codes /\ Codes \ Shelf' \subseteq SoldCodes'
    <3>1. ShelfInv'
      BY ShelfAccounted, PTL
    <3> QED BY <3>1 DEF ShelfInv
  <2>3. SoldCodes' = SoldCodes
    BY <2>1 DEF SoldCodes
  <2>4. Promise!Restock
    BY <2>1, <2>2, <2>3, ReceiptCodes DEF Promise!Restock, Shelf
  <2> QED BY <2>4 DEF Promise!Next
<1>9. ASSUME \/ \E m \in inbox : TakeConfirm(m) \/ LookupThrows(m)
             \/ TellCustomer \/ AwardBadge \/ Acknowledge \/ HandlerThrows
      PROVE same
  BY <1>1, <1>9 DEF TakeConfirm, LookupThrows, TellCustomer, AwardBadge, Acknowledge,
     HandlerThrows, db, history
<1>10. CASE SaveOrder
  <2> DEFINE o == job[Listener].order
  <2>1. CASE IsKnown(o)
    BY <1>1, <1>10, <2>1 DEF SaveOrder
  <2>2. CASE ~ IsKnown(o)
    <3>1. o \in Orders
      BY <1>0, <1>10 DEF SaveOrder
    <3>2. orderStatus' = [orderStatus EXCEPT ![o] = "ACITVE"]
          /\ UNCHANGED <<credits, debited, granted, pool>>
      BY <1>10, <2>2 DEF SaveOrder
    <3>3. o \notin Recorded /\ Recorded' = Recorded \cup {o}
      BY <1>0, <2>2, <3>1, <3>2 DEF Recorded, IsKnown
    <3>4. Promise!Record(o)
      BY <3>2, <3>3 DEF Promise!Record, Recorded
    <3> QED BY <3>1, <3>4 DEF Promise!Next, Promise!Record
  <2> QED BY <2>1, <2>2
<1>11. CASE MarkCoupon
  <2>1. UNCHANGED <<orderStatus, credits, debited, pool>>
    BY <1>11 DEF MarkCoupon, history
  <2>2. Receipts' = Receipts
    <3>1. CASE granted' = granted
      BY <3>1 DEF Receipts
    <3>2. ASSUME NEW g \in granted,
                 granted' = (granted \ {g}) \cup {[g EXCEPT !.order = job[Listener].order]}
          PROVE Receipts' = Receipts
      <4> DEFINE new == [g EXCEPT !.order = job[Listener].order]
      <4>1. new.id = g.id /\ new.code = g.code
        BY <1>0 DEF UserCoupon
      <4>2. granted' = (granted \ {g}) \cup {new}
        BY <3>2
      <4> HIDE DEF new
      <4> QED BY <4>1, <4>2 DEF Receipts
    <3> QED BY <1>11, <3>1, <3>2 DEF MarkCoupon
  <2> QED BY <2>1, <2>2 DEF Recorded, Shelf
<1>12. ASSUME NEW o \in Orders, Deliver(o) PROVE same
  BY <1>1, <1>12 DEF Deliver, db
<1>13. ASSUME NEW o \in Orders, CompleteOrder(o) PROVE same
  <2>1. orderStatus[o] # "none"
    BY <1>13 DEF CompleteOrder, CreditInv, TimersRecorded
  <2>2. orderStatus' = [orderStatus EXCEPT ![o] = "COMPLETED"]
        /\ UNCHANGED <<credits, debited, granted, pool>>
    BY <1>13 DEF CompleteOrder, history
  <2>3. Recorded' = Recorded
    BY <1>0, <2>1, <2>2 DEF Recorded
  <2> QED BY <2>2, <2>3 DEF Receipts, Shelf
<1>14. CASE Crash
  BY <1>1, <1>14 DEF Crash, db
<1> QED
  BY <1>2, <1>3, <1>4, <1>5, <1>6, <1>7, <1>8, <1>9, <1>10, <1>11, <1>12, <1>13,
     <1>14 DEF Next, AddPoints, Purchase, Retro, Profile, Consume, Throws

\* The threads, documents and crashes of core-app implement LoyaltyPromise: orders
\* are recorded before they are credited, codes are handed out against payments,
\* and leave the shelf only once handed out.
THEOREM LedgerKeepsPromise == Spec => KeepsPromise
<1>1. Spec => []CreditInv
  BY InitCredit, NextCredit, TypeInvariance, PTL DEF Spec
<1>2. Spec => []CodesInv
  BY InitCodes, NextCodes, TypeInvariance, PTL DEF Spec
<1>3. Spec => []PaidInv
  BY InitPaid, NextPaid, TypeInvariance, PTL DEF Spec
<1> QED
  BY <1>1, <1>2, <1>3, TypeInvariance, InitKeepsPromise, NextKeepsPromise, PTL
     DEF Spec, KeepsPromise, Promise!Spec

=============================================================================
