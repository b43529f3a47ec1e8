-------------------------- MODULE SellerDeskProofs --------------------------
(***************************************************************************)
(* Proofs about SellerDesk, for every number of transactions, codes and    *)
(* campaigns, and however many requests, crashes and failures come.        *)
(***************************************************************************)
EXTENDS SellerDesk, FiniteSetTheorems, TLAPS

-----------------------------------------------------------------------------
(***************************************************************************)
(* The inductive invariants                                                *)
(***************************************************************************)

\* Orders are finite, so that they can be counted; an order's discount is being
\* recorded only for a confirm that has a code.
TypeInv ==
  /\ TypeOK
  /\ IsFiniteSet(orders)
  /\ pc = "saveUsage" => Taken.code \in Codes
  /\ pc \in {"saveUsage", "publish"} => Taken.action = "confirm"

\* Orders are numbered by their count, so the next number is a new one.
OrdersNumbered == \A o \in orders : o.id \in 1..Cardinality(orders)

OrdersInv == OneOrderPerTransaction /\ OrdersNumbered

\* Between the save of the order and the answer the thread works on an order
\* of the request's own transaction, and its coupon is free until it is marked.
WorkRecorded ==
  /\ pc \in {"saveUsage", "publish"} =>
       \E o \in orders : o.id = order /\ o.txn = Taken.txn
  /\ pc = "saveUsage" => usage[Taken.code] = 0
  /\ pc = "publish" /\ Taken.code # None => usage[Taken.code] = order

\* Usages and confirmations name orders on record.
UsagesRecorded == \A c \in Codes : usage[c] # 0 => \E o \in orders : o.id = usage[c]

ConfirmationsRecorded ==
  \A a \in answers :
    a.kind = "on_confirm" => \E o \in orders : o.id = a.order /\ o.txn = a.txn

AnswersInv ==
  OffersNameUsedCoupons /\ WorkRecorded /\ UsagesRecorded /\ ConfirmationsRecorded

\* No two coupons are marked as used by the same order, and none is marked yet
\* by an order that is still about to mark its own.
CouponsOfOrders ==
  /\ \A c, d \in Codes : usage[c] = usage[d] /\ usage[c] # 0 => c = d
  /\ pc = "saveUsage" => \A c \in Codes : usage[c] # order

DeskInv == TypeInv /\ OrdersInv /\ AnswersInv /\ CouponsOfOrders

\* Nothing is left to do about a request.
Handled(r) ==
  \/ r.action = "other"
  \/ r.id \in failed
  \/ \E a \in answers : a.to = r.id

\* A request is handled or waits, and it is handled before it is acknowledged.
RequestsInv ==
  /\ \A r \in sent : Handled(r) \/ \E i \in 1..Len(inbox) : inbox[i] = r
  /\ pc = "ack" => Handled(Taken)

\* The orders a code has discounted.
Uses(c) == {x \in applied : x[1] = c}

\* A code whose use is on record, or is about to be.
Marked(c) == usage[c] # 0 \/ (pc = "saveUsage" /\ Taken.code = c)

\* Every use but the marked one was hidden by a fault.
UsesCounted ==
  \A c \in Codes :
    /\ IsFiniteSet(Uses(c))
    /\ Cardinality(Uses(c)) <= faults + 1
    /\ ~ Marked(c) => Cardinality(Uses(c)) <= faults

-----------------------------------------------------------------------------
(***************************************************************************)
(* Type correctness                                                        *)
(***************************************************************************)

\* At the start the queue is empty and the thread is idle.
LEMMA InitTypeInv == Init => TypeInv
BY FS_EmptySet, DeskAssumption DEF Init, TypeInv, TypeOK, Steps

\* A request that arrives behind others is not the one being handled.
LEMMA HeadStays ==
  ASSUME NEW s \in Seq(Request), s # << >>, NEW r \in Request
  PROVE  Append(s, r) # << >> /\ Head(Append(s, r)) = Head(s)
OBVIOUS

\* The request being handled is a request.
LEMMA TakenType ==
  ASSUME TypeOK, inbox # << >>
  PROVE  Taken \in Request
BY DEF TypeOK, Taken

\* Every step keeps the types and leaves the thread with a confirm to work on.
LEMMA NextTypeInv == TypeInv /\ [Next]_vars => TypeInv'
<1> SUFFICES ASSUME TypeInv, [Next]_vars PROVE TypeInv'
  OBVIOUS
<1> USE DEF TypeInv, TypeOK, Steps, Taken
<1>1. CASE Arrive
  <2> USE <1>1 DEF Arrive, store, thread
  <2>1. PICK r \in Request : /\ inbox' = Append(inbox, r)
                             /\ sent' = sent \cup {r}
    BY DEF Request
  <2>2. inbox' \in Seq(Request) /\ inbox' # << >>
    BY <2>1
  <2>3. pc # "idle" => Taken' = Taken
    BY <2>1, HeadStays
  <2> QED  BY <2>1, <2>2, <2>3
<1>2. CASE Administer
  BY <1>2 DEF Administer, CreateCampaign, AddCouponToUsage, Expire, thread, history
<1>3. CASE Take
  BY <1>3 DEF Take, store, history
<1>4. ASSUME NEW kind \in {"on_search", "on_init", "on_confirm", "error"},
             NEW o \in Nat, NEW c \in Codes \cup {None},
             pc # "idle", Answered(kind, o, c)
      PROVE  TypeInv'
  <2>1. Taken \in Request
    BY <1>4, TakenType
  <2>2. answers' \subseteq Answer
    BY <1>4, <2>1 DEF Answered, Publish, Answer, Request
  <2> QED  BY <1>4, <2>2 DEF Answered, store, history
<1>5. CASE Ignore
  BY <1>5 DEF Ignore, store, history
<1>6. CASE HandleSearch
  BY <1>4, <1>6 DEF HandleSearch
<1>7. CASE HandleInit
  <2>1. Taken.code \in Codes \cup {None}
    BY <1>7, TakenType DEF HandleInit, Request
  <2> QED  BY <1>4, <1>7, <2>1 DEF HandleInit
<1>8. CASE ConfirmKnown
  <2>1. PICK o \in Existing(Taken.txn) : Answered("on_confirm", o.id, None)
    BY <1>8 DEF ConfirmKnown
  <2>2. o.id \in Nat
    BY <2>1 DEF Existing, Order
  <2> QED  BY <1>4, <1>8, <2>1, <2>2 DEF ConfirmKnown
<1>9. CASE RefuseCoupon
  BY <1>4, <1>9 DEF RefuseCoupon
<1>10. CASE SaveOrder
  <2> DEFINE new == [id |-> order', txn |-> Taken.txn,
                     campaign |-> IF Taken.code = None THEN None
                                  ELSE CampaignOf[Taken.code]]
  <2>1. orders' = orders \cup {new}
    BY <1>10 DEF SaveOrder
  <2>2. order' \in Nat
    BY <1>10, FS_CardinalityType DEF SaveOrder
  <2>3. Taken.txn \in Transactions /\ Taken.code \in Codes \cup {None}
    BY <1>10, TakenType DEF SaveOrder, Request
  <2>4. new \in Order
    BY <2>2, <2>3, DeskAssumption DEF Order
  <2> HIDE DEF new
  <2>5. IsFiniteSet(orders')
    BY <2>1, FS_AddElement
  <2>6. orders' \subseteq Order
    BY <2>1, <2>4
  <2>7. applied' \subseteq Codes \X Nat
    BY <1>10, <2>2, <2>3 DEF SaveOrder
  <2> QED
    BY <1>10, <2>2, <2>3, <2>5, <2>6, <2>7 DEF SaveOrder
<1>11. CASE SaveUsage
  BY <1>11 DEF SaveUsage, history
<1>12. CASE PublishNew
  <2>1. Taken.code \in Codes \cup {None}
    BY <1>12, TakenType DEF PublishNew, Request
  <2> QED  BY <1>4, <1>12, <2>1 DEF PublishNew
<1>13. CASE Acknowledge
  <2>1. inbox # << >>
    BY <1>13 DEF Acknowledge
  <2>2. inbox' \in Seq(Request)
    BY <1>13, <2>1 DEF Acknowledge
  <2> QED  BY <1>13, <2>2 DEF Acknowledge, store, history
<1>14. CASE Crash
  BY <1>14 DEF Crash, store
<1>16. CASE Fail
  <2>1. Taken.id \in Nat
    BY <1>16, TakenType DEF Fail, Request
  <2>2. failed' \subseteq Nat
    BY <1>16, <2>1 DEF Fail
  <2>3. inbox # << >> /\ inbox' = inbox
    BY <1>16 DEF Fail
  <2>4. pc' = "ack" /\ order' = 0 /\ faults' \in Nat
    BY <1>16 DEF Fail
  <2> QED  BY <1>16, <2>2, <2>3, <2>4 DEF Fail, store
<1>15. CASE UNCHANGED vars
  BY <1>15 DEF vars, store, thread, history
<1> QED
  BY <1>1, <1>2, <1>3, <1>5, <1>6, <1>7, <1>8, <1>9, <1>10, <1>11, <1>12,
     <1>13, <1>14, <1>15, <1>16 DEF Next, Consume

\* The types, and a finite number of orders, hold in every reachable state.
LEMMA TypeInvariance == Spec => []TypeInv
BY InitTypeInv, NextTypeInv, PTL DEF Spec

\* Type correctness, however requests are repeated and the service crashes.
THEOREM TypeCorrect == Spec => []TypeOK
<1>1. TypeInv => TypeOK
  BY DEF TypeInv
<1> QED  BY <1>1, TypeInvariance, PTL

-----------------------------------------------------------------------------
(***************************************************************************)
(* One order per transaction                                               *)
(***************************************************************************)

\* Only the save of an order changes the orders.
LEMMA OrdersChange ==
  ASSUME [Next]_vars, ~ SaveOrder
  PROVE  orders' = orders
BY DEF Next, Consume, Administer, Arrive, CreateCampaign, Expire, AddCouponToUsage,
       Take, Ignore, HandleSearch, HandleInit, ConfirmKnown, RefuseCoupon, SaveUsage,
       PublishNew, Acknowledge, Crash, Fail, Answered, vars, store

\* The order that SaveOrder adds, its number and transaction, and how the
\* orders' count grows.
LEMMA OrderSaved ==
  ASSUME TypeInv, OrdersInv, SaveOrder
  PROVE  \E new : /\ orders' = orders \cup {new}
                  /\ new \notin orders
                  /\ new.id = order' /\ new.txn = Taken.txn
                  /\ order' = Cardinality(orders) + 1
                  /\ Cardinality(orders) \in Nat
                  /\ Cardinality(orders') = Cardinality(orders) + 1
<1> DEFINE new == [id |-> order', txn |-> Taken.txn,
                   campaign |-> IF Taken.code = None THEN None
                                ELSE CampaignOf[Taken.code]]
<1>1. orders' = orders \cup {new} /\ order' = Cardinality(orders) + 1
  BY DEF SaveOrder
<1>2. Cardinality(orders) \in Nat
  BY FS_CardinalityType DEF TypeInv
<1>3. new.id = order' /\ new.txn = Taken.txn
  OBVIOUS
<1> HIDE DEF new
<1>4. new \notin orders
  BY <1>1, <1>2, <1>3 DEF OrdersInv, OrdersNumbered
<1>5. Cardinality(orders') = Cardinality(orders) + 1
  BY <1>1, <1>4, FS_AddElement DEF TypeInv
<1> QED  BY <1>1, <1>2, <1>3, <1>4, <1>5

\* Every step keeps orders unique and numbered.
LEMMA NextOrdersInv == TypeInv /\ OrdersInv /\ [Next]_vars => OrdersInv'
<1> SUFFICES ASSUME TypeInv, OrdersInv, [Next]_vars PROVE OrdersInv'
  OBVIOUS
<1>1. CASE ~ SaveOrder
  BY <1>1, OrdersChange DEF OrdersInv, OneOrderPerTransaction, OrdersNumbered
<1>2. CASE SaveOrder
  <2>1. PICK new : /\ orders' = orders \cup {new}
                   /\ new \notin orders
                   /\ new.id = order' /\ new.txn = Taken.txn
                   /\ order' = Cardinality(orders) + 1
                   /\ Cardinality(orders) \in Nat
                   /\ Cardinality(orders') = Cardinality(orders) + 1
    BY <1>2, OrderSaved
  <2>2. OrdersNumbered'
    BY <2>1 DEF OrdersInv, OrdersNumbered
  <2>3. \A o \in orders : o.txn # new.txn
    BY <1>2, <2>1 DEF SaveOrder, Existing
  <2>4. \A o \in orders : o.id # new.id
    BY <2>1 DEF OrdersInv, OrdersNumbered
  <2>5. OneOrderPerTransaction'
    BY <2>1, <2>3, <2>4 DEF OrdersInv, OneOrderPerTransaction
  <2> QED  BY <2>2, <2>5 DEF OrdersInv
<1> QED  BY <1>1, <1>2

\* A transaction never gets a second order, whoever confirms it how often and
\* wherever the service crashes.
THEOREM TransactionsSoldOnce == Spec => []OneOrderPerTransaction
<1>1. Init => OrdersInv
  BY FS_EmptySet DEF Init, OrdersInv, OneOrderPerTransaction, OrdersNumbered
<1>2. OrdersInv => OneOrderPerTransaction
  BY DEF OrdersInv
<1> QED  BY <1>1, <1>2, NextOrdersInv, TypeInvariance, PTL DEF Spec

-----------------------------------------------------------------------------
(***************************************************************************)
(* Offers name used coupons                                                *)
(***************************************************************************)

\* Publishing an answer that is no confirmation, or a confirmation of an order
\* on record with the coupon it used, keeps what answers say true.
LEMMA AnswerKeepsAnswersInv ==
  ASSUME TypeInv, AnswersInv, pc # "idle",
         NEW kind, NEW o \in Nat, NEW c \in Codes \cup {None},
         Answered(kind, o, c),
         kind = "on_confirm" =>
           /\ \E d \in orders : d.id = o /\ d.txn = Taken.txn
           /\ c # None => usage[c] = o
  PROVE  AnswersInv'
<1> DEFINE new == [to |-> Taken.id, kind |-> kind, txn |-> Taken.txn,
                   order |-> o, code |-> c]
<1>1. answers' = answers \cup {new}
  BY DEF Answered, Publish
<1>2. /\ new.kind = kind /\ new.txn = Taken.txn
      /\ new.order = o /\ new.code = c
  OBVIOUS
<1> HIDE DEF new
<1>3. UNCHANGED <<orders, usage, inbox, order>> /\ pc' = "ack"
  BY DEF Answered, store
<1>4. OffersNameUsedCoupons' /\ ConfirmationsRecorded'
  BY <1>1, <1>2, <1>3
     DEF AnswersInv, OffersNameUsedCoupons, ConfirmationsRecorded
<1>5. WorkRecorded' /\ UsagesRecorded'
  BY <1>3 DEF AnswersInv, WorkRecorded, UsagesRecorded
<1> QED  BY <1>4, <1>5 DEF AnswersInv

\* Every step keeps what answers and usages say true.
LEMMA NextAnswersInv ==
  TypeInv /\ OrdersInv /\ AnswersInv /\ [Next]_vars => AnswersInv'
<1> SUFFICES ASSUME TypeInv, OrdersInv, AnswersInv, [Next]_vars
             PROVE  AnswersInv'
  OBVIOUS
<1> USE DEF AnswersInv, OffersNameUsedCoupons, WorkRecorded, UsagesRecorded,
            ConfirmationsRecorded
<1>0. pc \in Steps /\ inbox \in Seq(Request) /\ usage \in [Codes -> Nat]
      /\ (pc # "idle" => inbox # << >>) /\ TypeOK
  BY DEF TypeInv, TypeOK
<1>1. CASE Arrive
  <2>1. PICK r \in Request : inbox' = Append(inbox, r)
    BY <1>1, <1>0 DEF Arrive, Request, TypeOK
  <2>2. pc # "idle" => Taken' = Taken
    BY <1>0, <2>1, HeadStays DEF Taken
  <2> QED  BY <1>1, <2>2 DEF Arrive, store, thread
<1>2. CASE Administer
  BY <1>2 DEF Administer, CreateCampaign, AddCouponToUsage, Expire, thread, Taken
<1>3. CASE Take
  BY <1>3 DEF Take, store
<1>4. CASE Ignore
  BY <1>4 DEF Ignore, store
<1>5. CASE HandleSearch
  BY <1>5, AnswerKeepsAnswersInv DEF HandleSearch
<1>6. CASE HandleInit
  <2>1. Taken.code \in Codes \cup {None} /\ pc # "idle"
    BY <1>0, <1>6, TakenType DEF HandleInit, Request
  <2> QED  BY <1>6, <2>1, AnswerKeepsAnswersInv DEF HandleInit
<1>7. CASE ConfirmKnown
  <2>1. PICK o \in orders : o.txn = Taken.txn /\ Answered("on_confirm", o.id, None)
    BY <1>7 DEF ConfirmKnown, Existing
  <2>2. o.id \in Nat /\ pc # "idle"
    BY <1>0, <1>7 DEF TypeOK, Order, ConfirmKnown
  <2> QED  BY <2>1, <2>2, AnswerKeepsAnswersInv
<1>8. CASE RefuseCoupon
  BY <1>8, AnswerKeepsAnswersInv DEF RefuseCoupon
<1>9. CASE SaveOrder
  <2>1. PICK new : /\ orders' = orders \cup {new}
                   /\ new.id = order' /\ new.txn = Taken.txn
    BY <1>9, OrderSaved
  <2>2. UNCHANGED <<usage, inbox, answers>> /\ Taken' = Taken
    BY <1>9 DEF SaveOrder, Taken
  <2>3. pc' = "saveUsage" => usage[Taken.code] = 0
    BY <1>9 DEF SaveOrder, Acceptable
  <2>4. pc' = "publish" => Taken.code = None
    BY <1>9 DEF SaveOrder
  <2>5. WorkRecorded'
    BY <2>1, <2>2, <2>3, <2>4
  <2> QED  BY <2>1, <2>2, <2>5
<1>10. CASE SaveUsage
  <2>1. /\ UNCHANGED <<orders, inbox, answers, order>>
        /\ pc' = "publish"
        /\ usage' = [usage EXCEPT ![Taken.code] = order]
        /\ Taken' = Taken
        /\ Taken.code \in Codes /\ usage[Taken.code] = 0
    BY <1>10 DEF SaveUsage, TypeInv, Taken
  <2>2. PICK o \in orders : o.id = order /\ o.txn = Taken.txn
    BY <1>10 DEF SaveUsage
  <2>3. \A a \in answers :
          a.kind = "on_confirm" /\ a.code # None => a.code # Taken.code
    <3> SUFFICES ASSUME NEW a \in answers, a.kind = "on_confirm",
                        a.code = Taken.code, a.code # None
                 PROVE  FALSE
      OBVIOUS
    <3>1. a.order = 0
      BY <2>1
    <3>2. PICK d \in orders : d.id = 0
      BY <3>1
    <3> QED  BY <3>2, FS_CardinalityType DEF OrdersInv, OrdersNumbered, TypeInv
  <2>4. OffersNameUsedCoupons'
    <3> SUFFICES ASSUME NEW a \in answers, a.kind = "on_confirm", a.code # None
                 PROVE  usage'[a.code] = a.order
      BY <2>1
    <3>1. a.code \in Codes
      BY <1>0 DEF TypeOK, Answer
    <3> QED  BY <1>0, <2>1, <2>3, <3>1
  <2>5. UsagesRecorded' /\ ConfirmationsRecorded'
    BY <1>0, <2>1, <2>2
  <2>6. WorkRecorded'
    BY <1>0, <2>1, <2>2
  <2> QED  BY <2>4, <2>5, <2>6
<1>11. CASE PublishNew
  <2>1. Taken.code \in Codes \cup {None} /\ order \in Nat /\ pc # "idle"
    BY <1>0, <1>11, TakenType DEF PublishNew, Request, TypeOK
  <2> QED  BY <1>11, <2>1, AnswerKeepsAnswersInv DEF PublishNew
<1>12. CASE Acknowledge
  BY <1>12 DEF Acknowledge, store
<1>13. CASE Crash \/ Fail
  BY <1>13 DEF Crash, Fail, store
<1>14. CASE UNCHANGED vars
  BY <1>14 DEF vars, store, thread, Taken
<1> QED
  BY <1>1, <1>2, <1>3, <1>4, <1>5, <1>6, <1>7, <1>8, <1>9, <1>10, <1>11, <1>12,
     <1>13, <1>14 DEF Next, Consume

\* Every step keeps the usages of different orders apart: the number of a new
\* order is on no usage yet.
LEMMA NextCouponsOfOrders ==
  TypeInv /\ OrdersInv /\ AnswersInv /\ CouponsOfOrders /\ [Next]_vars
    => CouponsOfOrders'
<1> SUFFICES ASSUME TypeInv, OrdersInv, AnswersInv, CouponsOfOrders, [Next]_vars
             PROVE  CouponsOfOrders'
  OBVIOUS
<1> USE DEF CouponsOfOrders
<1>1. CASE SaveOrder
  <2>1. /\ order' = Cardinality(orders) + 1 /\ usage' = usage
        /\ Cardinality(orders) \in Nat
    BY <1>1, FS_CardinalityType DEF SaveOrder, TypeInv
  <2>2. \A c \in Codes : usage[c] # 0 => usage[c] \in 1..Cardinality(orders)
    BY DEF AnswersInv, UsagesRecorded, OrdersInv, OrdersNumbered
  <2>3. \A c \in Codes : usage[c] # order'
    BY <2>1, <2>2
  <2> QED  BY <2>1, <2>3
<1>2. CASE SaveUsage
  <2>1. /\ pc = "saveUsage" /\ pc' = "publish"
        /\ Taken.code \in Codes /\ usage \in [Codes -> Nat]
        /\ usage' = [usage EXCEPT ![Taken.code] = order]
    BY <1>2 DEF SaveUsage, TypeInv, TypeOK, Taken
  <2>2. \A c \in Codes \ {Taken.code} : usage'[c] = usage[c] /\ usage'[c] # order
    BY <2>1
  <2>3. usage'[Taken.code] = order
    BY <2>1
  <2> QED  BY <2>1, <2>2, <2>3
<1>3. CASE ~ SaveOrder /\ ~ SaveUsage
  <2>1. usage' = usage /\ (pc' = "saveUsage" => pc = "saveUsage" /\ order' = order)
    BY <1>3 DEF Next, Consume, Administer, Arrive, CreateCampaign, Expire,
       AddCouponToUsage, Take, Ignore, HandleSearch, HandleInit, ConfirmKnown,
       RefuseCoupon, PublishNew, Acknowledge, Answered, Crash, Fail, vars, store,
       thread
  <2> QED  BY <2>1
<1> QED  BY <1>1, <1>2, <1>3

\* At the start nothing is sold, used or said.
LEMMA InitDeskInv == Init => DeskInv
<1> SUFFICES ASSUME Init PROVE OrdersInv /\ AnswersInv /\ CouponsOfOrders
  BY InitTypeInv DEF DeskInv
<1> QED
  BY DEF Init, OrdersInv, OneOrderPerTransaction, OrdersNumbered, AnswersInv,
         OffersNameUsedCoupons, WorkRecorded, UsagesRecorded, ConfirmationsRecorded,
         CouponsOfOrders

\* The invariant of the desk holds in every reachable state.
LEMMA DeskInvariance == Spec => []DeskInv
<1>1. DeskInv /\ [Next]_vars => DeskInv'
  BY NextTypeInv, NextOrdersInv, NextAnswersInv, NextCouponsOfOrders DEF DeskInv
<1> QED  BY <1>1, InitDeskInv, PTL DEF Spec

\* A confirmation that carries an offer names the order that has used the
\* coupon, wherever the service crashed before it was published.
THEOREM OffersAreUsed == Spec => []OffersNameUsedCoupons
<1>1. DeskInv => OffersNameUsedCoupons
  BY DEF DeskInv, AnswersInv
<1> QED  BY <1>1, DeskInvariance, PTL

\* A transaction has one order, and its confirmations name that order and no
\* two coupons: what the buyer's side counts on when an answer arrives twice.
THEOREM ConfirmationsNeverDisagree == Spec => []ConfirmationsAgree
<1>1. DeskInv => ConfirmationsAgree
  <2> SUFFICES ASSUME DeskInv,
                      NEW a \in Confirmations, NEW b \in Confirmations, a.txn = b.txn
               PROVE  /\ a.order = b.order
                      /\ None \in {a.code, b.code} \/ a.code = b.code
    BY DEF ConfirmationsAgree, DeskInv, OrdersInv
  <2>1. a.order = b.order
    <3>1. PICK o \in orders : o.id = a.order /\ o.txn = a.txn
      BY DEF Confirmations, DeskInv, AnswersInv, ConfirmationsRecorded
    <3>2. PICK p \in orders : p.id = b.order /\ p.txn = b.txn
      BY DEF Confirmations, DeskInv, AnswersInv, ConfirmationsRecorded
    <3>3. o = p
      BY <3>1, <3>2 DEF DeskInv, OrdersInv, OneOrderPerTransaction
    <3> QED  BY <3>1, <3>2, <3>3
  <2>2. a.order # 0
    BY FS_CardinalityType DEF Confirmations, DeskInv, AnswersInv, TypeInv,
       ConfirmationsRecorded, OrdersInv, OrdersNumbered
  <2>3. ASSUME a.code # None, b.code # None
        PROVE  a.code = b.code
    <3>1. usage[a.code] = a.order /\ usage[b.code] = b.order
      BY <2>3 DEF Confirmations, DeskInv, AnswersInv, OffersNameUsedCoupons
    <3>2. a.code \in Codes /\ b.code \in Codes
      BY <2>3 DEF Confirmations, DeskInv, TypeInv, TypeOK, Answer
    <3> QED  BY <2>1, <2>2, <3>1, <3>2 DEF DeskInv, CouponsOfOrders
  <2> QED  BY <2>1, <2>3
<1> QED  BY <1>1, DeskInvariance, PTL

-----------------------------------------------------------------------------
(***************************************************************************)
(* No request is lost                                                      *)
(***************************************************************************)

\* A place in a queue outlasts an arrival, and one behind the head outlasts
\* the removal of the head.
LEMMA PlacesStay ==
  ASSUME NEW s \in Seq(Request), NEW i \in 1..Len(s)
  PROVE  /\ \A x \in Request : i \in 1..Len(Append(s, x)) /\ Append(s, x)[i] = s[i]
         /\ i # 1 => i - 1 \in 1..Len(Tail(s)) /\ Tail(s)[i - 1] = s[i]
OBVIOUS

\* What has been handled stays handled: answers and failures are kept.
LEMMA HandledStays ==
  ASSUME [Next]_vars, NEW r, Handled(r)
  PROVE  Handled(r)'
<1>1. answers \subseteq answers' /\ failed \subseteq failed'
  BY DEF Next, Consume, Administer, Arrive, CreateCampaign, Expire, AddCouponToUsage,
     Take, Ignore, HandleSearch, HandleInit, ConfirmKnown, RefuseCoupon, SaveOrder,
     SaveUsage, PublishNew, Acknowledge, Answered, Publish, Crash, Fail, vars, history
<1> QED  BY <1>1 DEF Handled

\* Every step keeps requests waiting until they are handled.
LEMMA NextRequestsInv == TypeInv /\ RequestsInv /\ [Next]_vars => RequestsInv'
<1> SUFFICES ASSUME TypeInv, RequestsInv, [Next]_vars PROVE RequestsInv'
  OBVIOUS
<1> USE DEF RequestsInv
<1>0. /\ TypeOK /\ inbox \in Seq(Request) /\ (pc # "idle" => inbox # << >>)
      /\ \A r : Handled(r) => Handled(r)'
  BY HandledStays DEF TypeInv, TypeOK
<1>1. CASE Arrive
  <2>1. PICK x \in Request : /\ inbox' = Append(inbox, x)
                             /\ sent' = sent \cup {x}
    BY <1>1, <1>0 DEF Arrive, Request, TypeOK
  <2>2. Len(inbox') \in 1..Len(inbox') /\ inbox'[Len(inbox')] = x
    BY <1>0, <2>1
  <2>3. ASSUME NEW r \in sent, NEW i \in 1..Len(inbox), inbox[i] = r
        PROVE  \E j \in 1..Len(inbox') : inbox'[j] = r
    BY <1>0, <2>1, <2>3, PlacesStay
  <2>4. pc' = "ack" => Handled(Taken)'
    <3>1. pc' = pc
      BY <1>1 DEF Arrive, thread
    <3>2. pc = "ack" => Taken' = Taken
      BY <1>0, <2>1, HeadStays DEF Taken
    <3> QED  BY <1>1, <3>1, <3>2 DEF Arrive, Handled
  <2> QED  BY <1>0, <2>1, <2>2, <2>3, <2>4
<1>2. CASE Acknowledge
  <2>1. /\ inbox' = Tail(inbox) /\ sent' = sent /\ pc = "ack" /\ pc' = "idle"
        /\ inbox # << >>
    BY <1>0, <1>2 DEF Acknowledge, history
  <2>2. ASSUME NEW r \in sent, ~ Handled(r)
        PROVE  \E j \in 1..Len(inbox') : inbox'[j] = r
    <3>1. PICK i \in 1..Len(inbox) : inbox[i] = r
      BY <2>2
    <3>2. i # 1
      BY <1>0, <2>1, <2>2, <3>1 DEF Taken
    <3>3. i - 1 \in 1..Len(inbox') /\ inbox'[i - 1] = r
      BY <1>0, <2>1, <3>1, <3>2, PlacesStay
    <3> QED  BY <3>3
  <2> QED  BY <1>0, <2>1, <2>2
<1>3. CASE ~ Arrive /\ ~ Acknowledge
  <2>1. inbox' = inbox /\ sent' = sent
    BY <1>3 DEF Next, Consume, Administer, CreateCampaign, Expire, AddCouponToUsage,
       Take, Ignore, HandleSearch, HandleInit, ConfirmKnown, RefuseCoupon, SaveOrder,
       SaveUsage, PublishNew, Answered, Crash, Fail, vars, history
  <2>2. Taken' = Taken
    BY <2>1 DEF Taken
  <2>3. ASSUME NEW kind, NEW o, NEW c, Answered(kind, o, c)
        PROVE  Handled(Taken)'
    <3> DEFINE new == [to |-> Taken.id, kind |-> kind, txn |-> Taken.txn,
                       order |-> o, code |-> c]
    <3>1. new \in answers' /\ new.to = Taken.id
      BY <2>3 DEF Answered, Publish
    <3> QED  BY <2>2, <3>1 DEF Handled
  <2>4. pc' = "ack" => Handled(Taken)'
    <3>1. CASE Ignore
      BY <2>2, <3>1 DEF Ignore, Handled
    <3>2. CASE HandleSearch \/ HandleInit \/ ConfirmKnown \/ RefuseCoupon \/ PublishNew
      BY <2>3, <3>2
         DEF HandleSearch, HandleInit, ConfirmKnown, RefuseCoupon, PublishNew
    <3>3. CASE Fail
      BY <2>2, <3>3 DEF Fail, Handled
    <3>4. CASE Take \/ SaveOrder \/ SaveUsage \/ Crash
      BY <3>4 DEF Take, SaveOrder, SaveUsage, Crash
    <3>5. CASE Administer \/ UNCHANGED vars
      <4>1. UNCHANGED <<pc, inbox, answers, failed>>
        BY <3>5 DEF Administer, CreateCampaign, Expire, AddCouponToUsage, vars,
           thread, history
      <4> QED  BY <2>2, <4>1 DEF Handled
    <3> QED  BY <1>3, <3>1, <3>2, <3>3, <3>4, <3>5 DEF Next, Consume
  <2> QED  BY <1>0, <2>1, <2>4
<1> QED  BY <1>1, <1>2, <1>3

\* Wherever the service crashes and whatever fails, every request it was sent
\* still waits, or was answered, or ended in the catch block.
THEOREM RequestsStayUntilHandled == Spec => []NoRequestLost
<1>1. Init => RequestsInv
  BY DEF Init, RequestsInv
<1>2. RequestsInv => NoRequestLost
  <2> SUFFICES ASSUME RequestsInv, NEW r \in sent, ~ Handled(r)
               PROVE  \E i \in 1..Len(inbox) : inbox[i] = r /\ (i = 1 => pc # "ack")
    BY DEF NoRequestLost, Handled
  <2>1. PICK i \in 1..Len(inbox) : inbox[i] = r
    BY DEF RequestsInv
  <2>2. i = 1 => Taken = r
    BY <2>1 DEF Taken
  <2> QED  BY <2>1, <2>2 DEF RequestsInv
<1> QED  BY <1>1, <1>2, NextRequestsInv, TypeInvariance, PTL DEF Spec

-----------------------------------------------------------------------------
(***************************************************************************)
(* A coupon is used again only where a fault hid its use                   *)
(***************************************************************************)

\* At the start no coupon has been used.
LEMMA InitUses == Init => UsesCounted
<1> SUFFICES ASSUME Init, NEW c \in Codes
             PROVE  IsFiniteSet(Uses(c)) /\ Cardinality(Uses(c)) = 0
  BY DEF Init, UsesCounted
<1>1. Uses(c) = {}
  BY DEF Init, Uses
<1> QED  BY <1>1, FS_EmptySet

\* One more use counts for one at most.
LEMMA AtMostOneMore ==
  ASSUME NEW S, IsFiniteSet(S), NEW x
  PROVE  /\ IsFiniteSet(S \cup {x})
         /\ Cardinality(S \cup {x}) \in Nat
         /\ Cardinality(S \cup {x}) <= Cardinality(S) + 1
<1>1. IsFiniteSet(S \cup {x}) /\ Cardinality(S) \in Nat
  BY FS_AddElement, FS_CardinalityType
<1>2. \/ Cardinality(S \cup {x}) = Cardinality(S)
      \/ Cardinality(S \cup {x}) = Cardinality(S) + 1
  BY FS_AddElement
<1> QED  BY <1>1, <1>2

\* Every step counts the uses of a code: a use that a fault hides is paid for
\* by the fault, any other is marked before the code can be used again.
LEMMA NextUses == DeskInv /\ UsesCounted /\ [Next]_vars => UsesCounted'
<1> SUFFICES ASSUME DeskInv, UsesCounted, [Next]_vars, NEW c \in Codes
             PROVE  /\ IsFiniteSet(Uses(c))'
                    /\ Cardinality(Uses(c))' <= faults' + 1
                    /\ ~ Marked(c)' => Cardinality(Uses(c))' <= faults'
  BY DEF UsesCounted
<1> DEFINE n == Cardinality(Uses(c))
<1>0. /\ IsFiniteSet(Uses(c)) /\ n \in Nat /\ faults \in Nat
      /\ n <= faults + 1
      /\ ~ Marked(c) => n <= faults
      /\ usage \in [Codes -> Nat]
      /\ pc # "idle" => inbox # << >>
      /\ inbox \in Seq(Request)
      /\ TypeOK
  BY FS_CardinalityType DEF UsesCounted, DeskInv, TypeInv, TypeOK
<1>1. CASE SaveOrder
  <2>1. CASE Taken.code = c
    <3>1. usage[c] = 0 /\ ~ Marked(c) /\ Marked(c)' /\ faults' = faults
      BY <1>1, <2>1, DeskAssumption DEF SaveOrder, Acceptable, Marked, Taken
    <3>2. Uses(c)' = Uses(c) \cup {<<c, order'>>}
      BY <1>1, <2>1, DeskAssumption DEF SaveOrder, Uses
    <3>3. IsFiniteSet(Uses(c)') /\ Cardinality(Uses(c)') <= n + 1
          /\ Cardinality(Uses(c)') \in Nat
      BY <1>0, <3>2, AtMostOneMore
    <3> QED  BY <1>0, <3>1, <3>3
  <2>2. CASE Taken.code # c
    <3>1. Uses(c)' = Uses(c)
      BY <1>1, <2>2 DEF SaveOrder, Uses
    <3>2. faults' = faults /\ (Marked(c) <=> Marked(c)')
      BY <1>1, <2>2 DEF SaveOrder, Marked, Taken
    <3> QED  BY <1>0, <3>1, <3>2
  <2> QED  BY <2>1, <2>2
<1>2. CASE Crash \/ Fail
  <2>1. Uses(c)' = Uses(c) /\ faults' = faults + 1
    BY <1>2 DEF Crash, Fail, Uses
  <2> QED  BY <1>0, <2>1
<1>3. CASE SaveUsage
  <2>1. Uses(c)' = Uses(c) /\ faults' = faults
    BY <1>3 DEF SaveUsage, Uses, history
  <2>2. PICK o \in orders : o.id = order
    BY <1>3 DEF SaveUsage, DeskInv, AnswersInv, WorkRecorded
  <2>3. order # 0
    BY <2>2, FS_CardinalityType DEF DeskInv, OrdersInv, OrdersNumbered, TypeInv
  <2>4. Marked(c) => Marked(c)'
    BY <1>0, <1>3, <2>3 DEF SaveUsage, Marked, Taken
  <2> QED  BY <1>0, <2>1, <2>4
<1>4. CASE ~ SaveOrder /\ ~ Crash /\ ~ Fail /\ ~ SaveUsage
  <2>1. Uses(c)' = Uses(c) /\ faults' = faults /\ usage' = usage
    BY <1>4 DEF Next, Consume, Administer, Arrive, CreateCampaign, Expire,
       AddCouponToUsage, Take, Ignore, HandleSearch, HandleInit, ConfirmKnown,
       RefuseCoupon, PublishNew, Acknowledge, Answered, vars, store, history, Uses
  <2>2. CASE Arrive
    <3>1. PICK r \in Request : inbox' = Append(inbox, r)
      BY <1>0, <2>2 DEF Arrive, Request, TypeOK
    <3>2. pc # "idle" => Taken' = Taken
      BY <1>0, <3>1, HeadStays DEF Taken
    <3>3. Marked(c) => Marked(c)'
      BY <2>1, <2>2, <3>2 DEF Arrive, Marked, thread
    <3> QED  BY <1>0, <2>1, <3>3
  <2>3. CASE ~ Arrive
    <3>1. pc = "saveUsage" => pc' = "saveUsage" /\ inbox' = inbox
      BY <1>4, <2>3 DEF Next, Consume, Administer, CreateCampaign, Expire,
         AddCouponToUsage, Take, Ignore, HandleSearch, HandleInit, ConfirmKnown,
         RefuseCoupon, PublishNew, Acknowledge, vars, thread
    <3>2. Marked(c) => Marked(c)'
      BY <2>1, <3>1 DEF Marked, Taken
    <3> QED  BY <1>0, <2>1, <3>2
  <2> QED  BY <2>2, <2>3
<1> QED  BY <1>1, <1>2, <1>3, <1>4

\* A code discounts at most one order more than there were crashes and failures.
THEOREM ReuseIsPaidForByFaults == Spec => []ReuseNeedsFault
<1>1. UsesCounted => ReuseNeedsFault
  BY DEF UsesCounted, ReuseNeedsFault, Uses
<1> QED  BY <1>1, InitUses, NextUses, DeskInvariance, PTL DEF Spec

-----------------------------------------------------------------------------
(***************************************************************************)
(* The desk keeps the promise of SellerPromise                             *)
(***************************************************************************)

Sold == {<<o.txn, o.id>> : o \in orders}
Spent == {<<c, usage[c]>> : c \in {x \in Codes : usage[x] # 0}}
Confirmed == {<<a.txn, a.order>> : a \in Confirmations}
Honoured == {<<a.code, a.order>> : a \in {b \in Confirmations : b.code # None}}

\* The promise starts with nothing sold and nothing said.
LEMMA InitKeepsPromise == Init => Promise!Init
BY DEF Init, Promise!Init, Confirmations

\* Answering changes none of the promise's state unless it is a confirmation,
\* and then it is one the promise allows.
LEMMA AnswerKeepsPromise ==
  ASSUME TypeInv, pc # "idle",
         NEW kind, NEW o \in Nat, NEW c \in Codes \cup {None},
         Answered(kind, o, c),
         kind = "on_confirm" =>
           /\ \E d \in orders : d.id = o /\ d.txn = Taken.txn
           /\ c # None => usage[c] = o /\ o # 0
  PROVE  [Promise!Next]_(Promise!vars)
<1> DEFINE new == [to |-> Taken.id, kind |-> kind, txn |-> Taken.txn,
                   order |-> o, code |-> c]
<1>1. answers' = answers \cup {new} /\ UNCHANGED <<orders, usage>>
  BY DEF Answered, Publish, store
<1>2. /\ new.kind = kind /\ new.txn = Taken.txn
      /\ new.order = o /\ new.code = c
  OBVIOUS
<1> HIDE DEF new
<1>3. Sold' = Sold /\ Spent' = Spent
  BY <1>1 DEF Sold, Spent
<1>4. CASE kind # "on_confirm"
  <2>1. Confirmed' = Confirmed /\ Honoured' = Honoured
    BY <1>1, <1>2, <1>4 DEF Confirmed, Honoured, Confirmations
  <2> QED  BY <1>3, <2>1 DEF Promise!vars, Sold, Spent, Confirmed, Honoured
<1>5. CASE kind = "on_confirm"
  <2>1. Confirmed' = Confirmed \cup {<<Taken.txn, o>>}
    BY <1>1, <1>2, <1>5 DEF Confirmed, Confirmations
  <2>2. <<Taken.txn, o>> \in Sold
    BY <1>5 DEF Sold
  <2>3. CASE c = None
    <3>1. Honoured' = Honoured
      BY <1>1, <1>2, <2>3 DEF Honoured, Confirmations
    <3> QED
      BY <1>3, <2>1, <2>2, <3>1
         DEF Promise!Next, Promise!Confirm, Sold, Spent, Confirmed, Honoured
  <2>4. CASE c # None
    <3>1. Honoured' = Honoured \cup {<<c, o>>}
      BY <1>1, <1>2, <1>5, <2>4 DEF Honoured, Confirmations
    <3>2. <<c, o>> \in Spent
      BY <1>5, <2>4 DEF Spent
    <3>3. <<Taken.txn, o>>[2] = <<c, o>>[2]
      OBVIOUS
    <3> QED
      BY <1>3, <2>1, <2>2, <3>1, <3>2, <3>3
         DEF Promise!Next, Promise!Confirm, Sold, Spent, Confirmed, Honoured
  <2> QED  BY <2>3, <2>4
<1> QED  BY <1>4, <1>5

\* Every step of the desk is a step of the promise or a stutter.
LEMMA NextKeepsPromise == DeskInv /\ [Next]_vars => [Promise!Next]_(Promise!vars)
<1> SUFFICES ASSUME DeskInv, [Next]_vars
             PROVE  [Promise!Next]_(Promise!vars)
  OBVIOUS
<1>0. TypeInv /\ OrdersInv /\ AnswersInv /\ CouponsOfOrders /\ TypeOK
  BY DEF DeskInv, TypeInv
<1>1. ASSUME orders' = orders, usage' = usage, answers' = answers
      PROVE  [Promise!Next]_(Promise!vars)
  BY <1>1 DEF Promise!vars, Confirmations
<1>2. CASE Arrive \/ Administer \/ Take \/ Ignore \/ Acknowledge \/ Crash \/ Fail
          \/ UNCHANGED vars
  BY <1>1, <1>2 DEF Arrive, Administer, CreateCampaign, AddCouponToUsage, Expire,
     Take, Ignore, Acknowledge, Crash, Fail, vars, store
<1>3. CASE HandleSearch
  BY <1>0, <1>3, AnswerKeepsPromise DEF HandleSearch
<1>4. CASE HandleInit
  <2>1. Taken.code \in Codes \cup {None} /\ pc # "idle"
    BY <1>0, <1>4, TakenType DEF HandleInit, Request, TypeOK
  <2> QED  BY <1>0, <1>4, <2>1, AnswerKeepsPromise DEF HandleInit
<1>5. CASE ConfirmKnown
  <2>1. PICK o \in orders : o.txn = Taken.txn /\ Answered("on_confirm", o.id, None)
    BY <1>5 DEF ConfirmKnown, Existing
  <2>2. o.id \in Nat /\ pc # "idle"
    BY <1>0, <1>5, <2>1 DEF TypeOK, Order, ConfirmKnown
  <2> QED  BY <1>0, <2>1, <2>2, AnswerKeepsPromise
<1>6. CASE RefuseCoupon
  BY <1>0, <1>6, AnswerKeepsPromise DEF RefuseCoupon
<1>7. CASE SaveOrder
  <2>1. PICK new : /\ orders' = orders \cup {new}
                   /\ new.id = order' /\ new.txn = Taken.txn
                   /\ order' = Cardinality(orders) + 1
                   /\ Cardinality(orders) \in Nat
    BY <1>0, <1>7, OrderSaved
  <2>2. UNCHANGED <<usage, answers>>
    BY <1>7 DEF SaveOrder
  <2>3. Taken.txn \in Transactions
    BY <1>0, <1>7, TakenType DEF SaveOrder, Request, TypeOK
  <2>4. Sold' = Sold \cup {<<Taken.txn, order'>>}
    BY <2>1 DEF Sold
  <2>5. \A r \in Sold : r[1] # Taken.txn /\ r[2] # order'
    BY <1>0, <1>7, <2>1 DEF Sold, SaveOrder, Existing, OrdersInv, OrdersNumbered
  <2>6. Spent' = Spent /\ Confirmed' = Confirmed /\ Honoured' = Honoured
    BY <2>2 DEF Spent, Confirmed, Honoured, Confirmations
  <2>7. \E s \in Sold' :
          /\ s[1] \in Transactions
          /\ \A r \in Sold : r[1] # s[1] /\ r[2] # s[2]
          /\ Sold' = Sold \cup {s}
    <3>1. /\ <<Taken.txn, order'>>[1] = Taken.txn
          /\ <<Taken.txn, order'>>[2] = order'
      OBVIOUS
    <3> QED  BY <2>3, <2>4, <2>5, <3>1
  <2>8. Promise!Sell
    BY <2>6, <2>7 DEF Promise!Sell, Sold, Spent, Confirmed, Honoured
  <2> QED  BY <2>8 DEF Promise!Next
<1>8. CASE SaveUsage
  <2> DEFINE c == Taken.code
  <2>1. /\ c \in Codes /\ usage[c] = 0
        /\ usage' = [usage EXCEPT ![c] = order]
        /\ usage \in [Codes -> Nat]
        /\ UNCHANGED <<orders, answers>>
    BY <1>0, <1>8 DEF SaveUsage, TypeInv, TypeOK, AnswersInv, WorkRecorded
  <2>2. PICK o \in orders : o.id = order
    BY <1>0, <1>8 DEF SaveUsage, AnswersInv, WorkRecorded
  <2>3. order # 0
    BY <1>0, <2>2, FS_CardinalityType DEF OrdersInv, OrdersNumbered, TypeInv
  <2> HIDE DEF c
  <2>4. Spent' = Spent \cup {<<c, order>>}
    <3>1. usage'[c] = order /\ \A x \in Codes \ {c} : usage'[x] = usage[x]
      BY <2>1
    <3>2. {x \in Codes : usage'[x] # 0} = {x \in Codes : usage[x] # 0} \cup {c}
      BY <2>1, <2>3, <3>1
    <3>3. Spent' = {<<x, usage'[x]>> : x \in {y \in Codes : usage'[y] # 0}}
      BY DEF Spent
    <3> QED  BY <2>1, <3>1, <3>2, <3>3 DEF Spent
  <2>5. \A r \in Spent : r[1] # c /\ r[2] # order
    BY <1>0, <1>8, <2>1 DEF Spent, SaveUsage, CouponsOfOrders
  <2>6. \E r \in Sold : r[2] = order
    <3>1. <<o.txn, o.id>> \in Sold /\ <<o.txn, o.id>>[2] = order
      BY <2>2 DEF Sold
    <3> QED  BY <3>1
  <2>7. Sold' = Sold /\ Confirmed' = Confirmed /\ Honoured' = Honoured
    BY <2>1 DEF Sold, Confirmed, Honoured, Confirmations
  <2>8. \E s \in Spent' :
          /\ s[1] \in Codes
          /\ \A r \in Spent : r[1] # s[1] /\ r[2] # s[2]
          /\ \E r \in Sold : r[2] = s[2]
          /\ Spent' = Spent \cup {s}
    <3>1. <<c, order>>[1] = c /\ <<c, order>>[2] = order
      OBVIOUS
    <3> QED  BY <2>1, <2>4, <2>5, <2>6, <3>1
  <2>9. Promise!Spend
    BY <2>7, <2>8 DEF Promise!Spend, Sold, Spent, Confirmed, Honoured
  <2> QED  BY <2>9 DEF Promise!Next
<1>9. CASE PublishNew
  <2>1. Taken.code \in Codes \cup {None} /\ order \in Nat /\ pc # "idle"
    BY <1>0, <1>9, TakenType DEF PublishNew, Request, TypeOK
  <2>2. PICK o \in orders : o.id = order /\ o.txn = Taken.txn
    BY <1>0, <1>9 DEF PublishNew, AnswersInv, WorkRecorded
  <2>3. order # 0
    BY <1>0, <2>2, FS_CardinalityType DEF OrdersInv, OrdersNumbered, TypeInv
  <2>4. Taken.code # None => usage[Taken.code] = order
    BY <1>0, <1>9 DEF PublishNew, AnswersInv, WorkRecorded
  <2> QED
    BY <1>0, <1>9, <2>1, <2>2, <2>3, <2>4, AnswerKeepsPromise DEF PublishNew
<1> QED
  BY <1>2, <1>3, <1>4, <1>5, <1>6, <1>7, <1>8, <1>9 DEF Next, Consume

\* The desk implements SellerPromise: transactions are sold once, coupons are
\* marked once and for good, and buyers are told only of what was recorded.
THEOREM DeskKeepsPromise == Spec => KeepsPromise
<1>1. Spec => Promise!Init /\ [][Promise!Next]_(Promise!vars)
  BY InitKeepsPromise, NextKeepsPromise, DeskInvariance, PTL DEF Spec
<1> QED  BY <1>1 DEF KeepsPromise, Promise!Spec
=============================================================================
