----------------------------- MODULE SellerDesk -----------------------------
(***************************************************************************)
(* The seller-service: one consumer thread takes search, init and confirm  *)
(* requests from its queue, keeps orders and coupon usages in MongoDB and  *)
(* publishes the answers.  A confirm saves the order, then the usage of    *)
(* the coupon, then publishes; a call may fail, or the process crash,       *)
(* between any two of these.  The broker delivers an unacknowledged request *)
(* again; a request whose handling failed is acknowledged all the same.     *)
(*                                                                         *)
(* The relay repeats a request whose acknowledgement is late, so the same  *)
(* request may wait in the queue more than once, and a customer may        *)
(* confirm one transaction twice with different coupons.                   *)
(***************************************************************************)
EXTENDS Integers, FiniteSets, Sequences

CONSTANTS
  Transactions, \* ONDC transactions, one per checkout of a customer
  Codes,        \* the codes (UUIDs) of user coupons
  Campaigns,    \* seller coupons (documents of the coupon collection)
  CampaignOf,   \* [Codes -> Campaigns]: couponId of a usage document
  Minimum,      \* [Campaigns -> Nat]: the "qualifier" tag, least order amount
  Listed,       \* [Transactions -> Nat]: total of the cart at listed values
  Actual,       \* [Transactions -> Nat]: total of the cart at values
  None,         \* null
  MaxArrivals,  \* bound: messages that arrive in the queue
  MaxFaults     \* bound: crashes of the process and failed calls

ASSUME DeskAssumption ==
  /\ CampaignOf \in [Codes -> Campaigns]
  /\ Minimum \in [Campaigns -> Nat]
  /\ Listed \in [Transactions -> Nat]
  /\ Actual \in [Transactions -> Nat]
  /\ None \notin Codes \cup Transactions \cup Campaigns
  /\ MaxArrivals \in Nat
  /\ MaxFaults \in Nat

VARIABLES
  \* MongoDB
  orders,    \* set of Order documents
  campaigns, \* coupon documents that exist
  expired,   \* campaigns whose time range has ended
  issued,    \* codes that have a CouponUsage document
  usage,     \* [Codes -> Nat]: orderId of the usage document, 0 for null
  \* RabbitMQ
  inbox,     \* the queue of requests; its head is being handled or is next
  answers,   \* messages published to the outbox
  \* the consumer thread
  pc,        \* its step
  order,     \* id of the order it has saved
  \* history and bounds
  sent,      \* distinct requests so far
  arrivals,  \* messages so far
  faults,    \* crashes and failures so far
  failed,    \* ids of requests whose handling ended in the catch block
  applied    \* set of <<code, order id>>: orders saved at a discount

store   == <<orders, campaigns, expired, issued, usage>>
thread  == <<pc, order>>
history == <<sent, arrivals, faults, failed, applied>>
vars    == <<store, inbox, answers, thread, history>>

-----------------------------------------------------------------------------

\* "other" stands for a request of another BAP or with an unknown action.
Request == [id   : Nat,
            action : {"search", "init", "confirm", "other"},
            txn  : Transactions,
            code : Codes \cup {None}]

\* The order document keeps the campaign of its coupon, not the code.
Order == [id : Nat, txn : Transactions, campaign : Campaigns \cup {None}]

Answer == [to    : Nat,
           kind  : {"on_search", "on_init", "on_confirm", "error"},
           txn   : Transactions,
           order : Nat,
           code  : Codes \cup {None}]

Steps == {"idle", "decide", "saveUsage", "publish", "ack"}

Taken == Head(inbox)

\* Mutant: no order is ever found.
NoExisting(t) == {}

\* getByOndcTransactionId
Existing(t) == {o \in orders : o.txn = t}

\* Mutant: a coupon that an order has used passes.
AcceptableUsedOrNot(c, total) ==
  /\ c \in issued
  /\ CampaignOf[c] \in campaigns \ expired
  /\ total >= Minimum[CampaignOf[c]]

\* getDiscountFromCoupon: the usage document exists and names no order, the
\* campaign exists, has not ended, and the total reaches its minimum.
Acceptable(c, total) ==
  /\ c \in issued
  /\ usage[c] = 0
  /\ CampaignOf[c] \in campaigns \ expired
  /\ total >= Minimum[CampaignOf[c]]

Init ==
  /\ orders = {}
  /\ campaigns \in SUBSET Campaigns
  /\ expired = {}
  /\ issued \in SUBSET Codes
  /\ usage = [c \in Codes |-> 0]
  /\ inbox = << >>
  /\ answers = {}
  /\ pc = "idle"
  /\ order = 0
  /\ sent = {}
  /\ arrivals = 0
  /\ faults = 0
  /\ failed = {}
  /\ applied = {}

-----------------------------------------------------------------------------
(***************************************************************************)
(* The world around the consumer                                           *)
(***************************************************************************)

\* bpp-network publishes a request: a new one, or a copy of an earlier one.
Arrive ==
  /\ arrivals < MaxArrivals
  /\ arrivals' = arrivals + 1
  /\ \E r \in sent \cup
              {q \in [id : {arrivals + 1}, action : {"search", "init", "confirm", "other"},
                      txn : Transactions, code : Codes \cup {None}] :
                 q.code # None => q.action \in {"init", "confirm"}} :
       /\ inbox' = Append(inbox, r)
       /\ sent' = sent \cup {r}
  /\ UNCHANGED <<store, answers, thread, faults, failed, applied>>

\* POST /admin/coupon and /admin/coupon-usage; neither looks at the other's
\* documents.
CreateCampaign(k) ==
  /\ k \notin campaigns
  /\ campaigns' = campaigns \cup {k}
  /\ UNCHANGED <<orders, expired, issued, usage, inbox, answers, thread, history>>

AddCouponToUsage(c) ==
  /\ c \notin issued
  /\ issued' = issued \cup {c}
  /\ UNCHANGED <<orders, campaigns, expired, usage, inbox, answers, thread, history>>

Expire(k) ==
  /\ k \in campaigns \ expired
  /\ expired' = expired \cup {k}
  /\ UNCHANGED <<orders, campaigns, issued, usage, inbox, answers, thread, history>>

-----------------------------------------------------------------------------
(***************************************************************************)
(* RabbitMessageConsumer.consumeInputMessage and RequestHandlerService     *)
(***************************************************************************)

\* The request at the head is delivered; it stays there until acknowledged.
Take ==
  /\ pc = "idle"
  /\ inbox # << >>
  /\ pc' = "decide"
  /\ UNCHANGED <<store, inbox, answers, order, history>>

Publish(kind, o, c) ==
  answers' = answers \cup
    {[to |-> Taken.id, kind |-> kind, txn |-> Taken.txn, order |-> o, code |-> c]}

\* A request that is answered, or ignored, without a change to the documents.
Answered(kind, o, c) ==
  /\ Publish(kind, o, c)
  /\ pc' = "ack"
  /\ UNCHANGED <<store, inbox, order, history>>

Ignore ==
  /\ pc = "decide"
  /\ Taken.action = "other"
  /\ pc' = "ack"
  /\ UNCHANGED <<store, inbox, answers, order, history>>

HandleSearch ==
  /\ pc = "decide"
  /\ Taken.action = "search"
  /\ Answered("on_search", 0, None)

\* handleInit quotes at listed values; it reserves nothing.
HandleInit ==
  /\ pc = "decide"
  /\ Taken.action = "init"
  /\ \/ /\ Taken.code = None \/ Acceptable(Taken.code, Listed[Taken.txn])
        /\ Answered("on_init", 0, Taken.code)
     \/ /\ Taken.code # None
        /\ ~ Acceptable(Taken.code, Listed[Taken.txn])
        /\ Answered("error", 0, None)

\* A known transaction is answered from its order, without offers.
ConfirmKnown ==
  /\ pc = "decide"
  /\ Taken.action = "confirm"
  /\ \E o \in Existing(Taken.txn) : Answered("on_confirm", o.id, None)

\* Mutant: the refusal returns without the error response.
RefuseSilently ==
  /\ pc = "decide"
  /\ Taken.action = "confirm"
  /\ Existing(Taken.txn) = {}
  /\ Taken.code # None
  /\ ~ Acceptable(Taken.code, Actual[Taken.txn])
  /\ pc' = "ack"
  /\ UNCHANGED <<store, inbox, answers, order, history>>

\* sendErrorResponse: the coupon cannot be used for this order.
RefuseCoupon ==
  /\ pc = "decide"
  /\ Taken.action = "confirm"
  /\ Existing(Taken.txn) = {}
  /\ Taken.code # None
  /\ ~ Acceptable(Taken.code, Actual[Taken.txn])
  /\ Answered("error", 0, None)

\* ordersService.save, which gives the order its id.
SaveOrder ==
  /\ pc = "decide"
  /\ Taken.action = "confirm"
  /\ Existing(Taken.txn) = {}
  /\ Taken.code = None \/ Acceptable(Taken.code, Actual[Taken.txn])
  /\ order' = Cardinality(orders) + 1
  /\ orders' = orders \cup
       {[id |-> order', txn |-> Taken.txn,
         campaign |-> IF Taken.code = None THEN None ELSE CampaignOf[Taken.code]]}
  /\ \/ /\ Taken.code = None
        /\ pc' = "publish"
        /\ UNCHANGED applied
     \/ /\ Taken.code # None
        /\ pc' = "saveUsage"
        /\ applied' = applied \cup {<<Taken.code, order'>>}
  /\ UNCHANGED <<campaigns, expired, issued, usage, inbox, answers, sent,
                 arrivals, faults, failed>>

\* Mutant: the answer goes out before the usage is saved.
SaveUsageLate ==
  /\ pc = "saveUsage"
  /\ Publish("on_confirm", order, Taken.code)
  /\ pc' = "ack"
  /\ UNCHANGED <<store, inbox, order, history>>

\* couponService.saveCouponUsage
SaveUsage ==
  /\ pc = "saveUsage"
  /\ usage' = [usage EXCEPT ![Taken.code] = order]
  /\ pc' = "publish"
  /\ UNCHANGED <<orders, campaigns, expired, issued, inbox, answers, order, history>>

\* The answer to a new order carries the request's offers.
PublishNew ==
  /\ pc = "publish"
  /\ Answered("on_confirm", order, Taken.code)

\* Mutant: a request is acknowledged and its thread goes on to do so again.
AcknowledgeTwice ==
  /\ pc = "ack"
  /\ inbox' = Tail(inbox)
  /\ order' = 0
  /\ UNCHANGED <<store, answers, pc, history>>

Acknowledge ==
  /\ pc = "ack"
  /\ inbox' = Tail(inbox)
  /\ pc' = "idle"
  /\ order' = 0
  /\ UNCHANGED <<store, answers, history>>

\* The thread is gone; the unacknowledged request is still in the queue.
Crash ==
  /\ faults < MaxFaults
  /\ faults' = faults + 1
  /\ pc' = "idle"
  /\ order' = 0
  /\ UNCHANGED <<store, inbox, answers, sent, arrivals, failed, applied>>

\* The catch block: MongoDB or RabbitMQ failed, or the request lacks a part.
\* The listener returns, so the request counts as handled.
Fail ==
  /\ pc \in {"decide", "saveUsage", "publish"}
  /\ faults < MaxFaults
  /\ faults' = faults + 1
  /\ failed' = failed \cup {Taken.id}
  /\ pc' = "ack"
  /\ order' = 0
  /\ UNCHANGED <<store, inbox, answers, sent, arrivals, applied>>

Consume ==
  \/ Take \/ Ignore \/ HandleSearch \/ HandleInit
  \/ ConfirmKnown \/ RefuseCoupon \/ SaveOrder \/ SaveUsage \/ PublishNew
  \/ Acknowledge

Administer ==
  \/ \E k \in Campaigns : CreateCampaign(k) \/ Expire(k)
  \/ \E c \in Codes : AddCouponToUsage(c)

Next == Arrive \/ Administer \/ Consume \/ Crash \/ Fail

Spec == Init /\ [][Next]_vars

-----------------------------------------------------------------------------
(***************************************************************************)
(* Properties                                                              *)
(***************************************************************************)

\* Every variable has its type; order ids are the numbers given so far.
TypeOK ==
  /\ orders \subseteq Order
  /\ campaigns \subseteq Campaigns
  /\ expired \subseteq Campaigns
  /\ issued \subseteq Codes
  /\ usage \in [Codes -> Nat]
  /\ inbox \in Seq(Request)
  /\ answers \subseteq Answer
  /\ pc \in Steps
  /\ pc # "idle" => inbox # << >>
  /\ order \in Nat
  /\ sent \subseteq Request
  /\ arrivals \in Nat
  /\ faults \in Nat
  /\ failed \subseteq Nat
  /\ applied \subseteq Codes \X Nat

\* A transaction has one order however often it is confirmed, repeated or
\* redelivered: the lookup and the save are the consumer's own.
OneOrderPerTransaction ==
  \A o, p \in orders : o.txn = p.txn \/ o.id = p.id => o = p

Confirmations == {a \in answers : a.kind = "on_confirm"}

\* Whatever is confirmed, repeated or redelivered, a transaction has one order
\* and its confirmations agree: all of them name that order, and those that
\* carry an offer carry the same coupon.  A later answer may leave the offer
\* out, it never names another.
ConfirmationsAgree ==
  /\ OneOrderPerTransaction
  /\ \A a, b \in Confirmations :
       a.txn = b.txn =>
         /\ a.order = b.order
         /\ None \in {a.code, b.code} \/ a.code = b.code

\* No request gets lost: until it is answered, or its handling has ended in
\* the catch block, it waits in the queue, and it is not acknowledged before.
NoRequestLost ==
  \A r \in sent :
    \/ r.action = "other"
    \/ r.id \in failed
    \/ \E a \in answers : a.to = r.id
    \/ \E i \in 1..Len(inbox) : inbox[i] = r /\ (i = 1 => pc # "ack")

\* An answer that carries an offer tells the truth about the coupon: it is
\* marked as used by the order the answer names, now and ever after.
OffersNameUsedCoupons ==
  \A a \in answers :
    a.kind = "on_confirm" /\ a.code # None => usage[a.code] = a.order

\* A coupon is used again only where a crash, or a failed save, hid the first
\* use: one order more than there were faults can have its discount, no other.
ReuseNeedsFault ==
  \A c \in Codes :
    Cardinality({x \in applied : x[1] = c}) <= faults + 1

\* "This coupon has already been used.": a coupon discounts one order.
CouponUsedOnce ==
  \A x, y \in applied : x[1] = y[1] => x = y

\* The service keeps the promise of SellerPromise.
Promise == INSTANCE SellerPromise WITH
  sold      <- {<<o.txn, o.id>> : o \in orders},
  spent     <- {<<c, usage[c]>> : c \in {x \in Codes : usage[x] # 0}},
  confirmed <- {<<a.txn, a.order>> : a \in Confirmations},
  honoured  <- {<<a.code, a.order>> : a \in {b \in Confirmations : b.code # None}}

KeepsPromise == Promise!Spec

-----------------------------------------------------------------------------
(***************************************************************************)
(* Liveness: the consumer thread is the broker's and keeps running.        *)
(***************************************************************************)

FairSpec == Spec /\ WF_vars(Consume)

\* Every request that the service knows is answered, whatever crashes come and
\* whatever is wrong with its coupon, unless its handling ended in the catch
\* block.
RequestsAreAnswered ==
  \A i \in 1..MaxArrivals :
    (\E r \in sent : r.id = i /\ r.action # "other")
      ~> (i \in failed \/ \E a \in answers : a.to = i)

=============================================================================
