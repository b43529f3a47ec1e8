----------------------------- MODULE CoreLedger -----------------------------
(***************************************************************************)
(* The loyalty ledger of core-app: the points of a user, the coupons they  *)
(* buy, the retro rewards they claim and the orders they are credited for. *)
(*                                                                         *)
(* Actors are the HTTP request threads of the servlet container and the    *)
(* single consumer thread of the `inbox` queue.  They share MongoDB, where *)
(* every update is "find the document, change the object, save the whole   *)
(* document back": no version field, no transaction, no lock.  Each find   *)
(* and each save is one step here, so every interleaving of two requests,  *)
(* or of a request and the consumer, is a behaviour.  Any find, save or    *)
(* call may throw: the request then ends in an error, and the consumer     *)
(* logs the exception and acknowledges the message.  The process may crash *)
(* between any two steps; RabbitMQ then delivers the unacknowledged        *)
(* on_confirm message again.                                               *)
(***************************************************************************)
EXTENDS Integers, FiniteSets

CONSTANTS
  Users,        \* registered users (documents of the users collection)
  Members,      \* the users who hold the ALOY_MEMBER badge and a wallet
  Coupons,      \* coupon campaigns (documents of the coupons collection)
  Codes,        \* seller coupon codes, the availableCouponIds of all coupons
  CouponOf,     \* [Codes -> Coupons]: the campaign a code belongs to
  Price,        \* [Coupons -> Nat]: points a coupon costs
  Rewards,      \* past Swiggy orders a retro reward can be claimed for
  RewardPoints, \* [Rewards -> Nat]: their transaction amounts
  Orders,       \* orders of the seller, by seller order id
  Numbers,      \* phone numbers
  OrderNumber,  \* [Orders -> Numbers]: the phone the billing details carry
  OrderPoints,  \* [Orders -> Nat]: 10% of the quoted price
  OrderCode,    \* [Orders -> Codes \cup {None}]: the coupon applied, if any
  StartPoints,  \* [Users -> Nat]: points earned before the behaviour begins
  Threads,      \* HTTP request threads
  Listener,     \* the consumer thread of the inbox queue
  None,         \* "no such value": Java's null and empty Optional
  MaxRequests,  \* bound: HTTP requests in a behaviour
  MaxCopies,    \* bound: on_confirm messages that arrive for one order
  MaxCrashes,   \* bound: crashes of the process
  MaxFailures,  \* bound: finds, saves and calls that throw
  MaxFaults     \* bound: crashes and failures together

ASSUME SetsAssumption ==
  /\ Members \subseteq Users
  /\ Listener \notin Threads
  /\ None \notin Users \cup Coupons \cup Codes \cup Rewards \cup Orders \cup Numbers

ASSUME DataAssumption ==
  /\ CouponOf \in [Codes -> Coupons]
  /\ Price \in [Coupons -> Nat]
  /\ RewardPoints \in [Rewards -> Nat]
  /\ OrderNumber \in [Orders -> Numbers]
  /\ OrderPoints \in [Orders -> Nat]
  /\ OrderCode \in [Orders -> Codes \cup {None}]
  /\ StartPoints \in [Users -> Nat]

ASSUME BoundsAssumption ==
  /\ MaxRequests \in Nat
  /\ MaxCopies \in Nat
  /\ MaxCrashes \in Nat
  /\ MaxFailures \in Nat
  /\ MaxFaults \in Nat

VARIABLES
  \* MongoDB: survives a crash
  users,        \* [Users -> UserDoc]
  pool,         \* [Coupons -> SUBSET Codes]: availableCouponIds
  granted,      \* set of UserCoupon documents
  rewards,      \* set of RetroReward documents
  orderStatus,  \* [Orders -> "none" | "ACITVE" | "COMPLETED"]
  owner,        \* [Orders -> Users \cup {None}]: userId of the stored order
  explorer,     \* [Users -> Nat]: EXPLORER badge documents
  \* RabbitMQ: survives a crash
  inbox,        \* on_confirm messages waiting in the inbox queue
  tasks,        \* [Users -> Nat]: UPDATE_PROFILE_NFT messages published
  \* memory of the process: lost in a crash
  pc,           \* [Actors -> step]: where each thread is
  job,          \* [Actors -> Job]: its arguments and local results
  doc,          \* [Actors -> UserDoc]: the user document it has read
  left,         \* [Actors -> SUBSET Codes]: the codes of the coupon it has read
  timers,       \* orders with an OrderStatusHandler in the executor
  \* history and bounds
  serial,       \* HTTP requests so far; numbers them
  arrived,      \* [Orders -> Nat]: on_confirm messages so far
  crashes,      \* crashes so far
  failures,     \* finds, saves and calls that threw so far
  failed,       \* orders whose on_confirm message the listener gave up for one
  torn,         \* campaigns of purchases that ended between their two saves
  saves,        \* [Orders -> Nat]: documents inserted for the order
  credits,      \* [Orders -> Nat]: times the points of the order were written
  debited,      \* purchase requests whose price has been written
  rewarded,     \* retro reward requests whose points have been written
  told,         \* orders whose points the customer was told of
  crowded,      \* campaigns that two purchases had in memory at once
  undercut      \* users whose points went down under a purchase's check

db      == <<users, pool, granted, rewards, orderStatus, owner, explorer>>
broker  == <<inbox, tasks>>
memory  == <<pc, job, doc, left, timers>>
races   == <<crowded, undercut>>
faults  == <<crashes, failures, failed, torn>>
history == <<serial, arrived, faults, saves, credits, debited,
             rewarded, told, races>>
vars    == <<db, broker, memory, history>>

-----------------------------------------------------------------------------
(***************************************************************************)
(* Documents, messages and thread state                                    *)
(***************************************************************************)

Actors == Threads \cup {Listener}

UserDoc    == [available : Int, lifetime : Int, phone : Numbers \cup {None}]
UserCoupon == [id : Nat, user : Users, code : Codes, order : Orders \cup {None}]
RetroReward == [id : Nat, reward : Rewards, user : Users]
OrderStatus == {"none", "ACITVE", "COMPLETED"}
OnConfirm  == [order : Orders, code : Codes \cup {None}]

\* A user with some points; the empty document stands for "nothing read".
UserWith(points, phone) ==
  [available |-> points, lifetime |-> points, phone |-> phone]
NoDoc == UserWith(0, None)

Job == [id     : Nat,
        user   : Users \cup {None},
        coupon : Coupons \cup {None},
        code   : Codes \cup {None},
        reward : Rewards \cup {None},
        order  : Orders \cup {None}]

NoJob == [id |-> 0, user |-> None, coupon |-> None, code |-> None,
          reward |-> None, order |-> None]

Steps == {"idle",
          "readCoupon", "grant", "saveCoupon",       \* purchaseCoupon
          "saveReward",                              \* addRetroReward
          "checkPhone", "saveProfile",               \* addPhoneNumber, login
          "saveOrder", "mark", "tell", "badge",      \* handleConfirmResponse
          "ack",                                     \* consumeInputMessage
          "readPoints", "writePoints", "sendTask"}   \* addPoints

CodesOf(c) == {x \in Codes : CouponOf[x] = c}

SoldCodes == {g.code : g \in granted}

OrdersOf(u) == {o \in Orders : owner[o] = u}

\* findByPhoneNumberAndActiveIsTrue throws when more than one document is found.
Holders(n) == {u \in Users : users[u].phone = n}

\* The points an actor's addPoints call adds: the negated price of a purchase,
\* the amount of a past order, or the reward of a confirmed order.
Amount(j) ==
  CASE j.coupon # None -> - Price[j.coupon]
    [] j.reward # None -> RewardPoints[j.reward]
    [] OTHER           -> OrderPoints[j.order]

\* Mutant: the lifetime counter is forgotten.
WithPointsAvailableOnly(u, points) == [u EXCEPT !.available = @ + points]

\* What addPoints does to the document: lifetime points only ever grow.
WithPoints(u, points) ==
  [available |-> u.available + points,
   lifetime  |-> IF points > 0 THEN u.lifetime + points ELSE u.lifetime,
   phone     |-> u.phone]

Init ==
  /\ \E phone \in [Users -> Numbers \cup {None}] :
       /\ \A u, v \in Users : phone[u] = phone[v] => u = v \/ phone[u] = None
       /\ users = [u \in Users |-> UserWith(StartPoints[u], phone[u])]
  /\ pool = [c \in Coupons |-> CodesOf(c)]
  /\ granted = {}
  /\ rewards = {}
  /\ orderStatus = [o \in Orders |-> "none"]
  /\ owner = [o \in Orders |-> None]
  /\ explorer = [u \in Users |-> 0]
  /\ inbox = {}
  /\ tasks = [u \in Users |-> 0]
  /\ pc = [a \in Actors |-> "idle"]
  /\ job = [a \in Actors |-> NoJob]
  /\ doc = [a \in Actors |-> NoDoc]
  /\ left = [a \in Actors |-> {}]
  /\ timers = {}
  /\ serial = 0
  /\ arrived = [o \in Orders |-> 0]
  /\ crashes = 0
  /\ failures = 0
  /\ failed = {}
  /\ torn = {}
  /\ saves = [o \in Orders |-> 0]
  /\ credits = [o \in Orders |-> 0]
  /\ debited = {}
  /\ rewarded = {}
  /\ told = {}
  /\ crowded = {}
  /\ undercut = {}

-----------------------------------------------------------------------------
(***************************************************************************)
(* Threads                                                                 *)
(***************************************************************************)

Goto(a, step) == pc' = [pc EXCEPT ![a] = step]

\* The request has been answered, or the message is acknowledged.
Finish(a) ==
  /\ pc'   = [pc   EXCEPT ![a] = "idle"]
  /\ job'  = [job  EXCEPT ![a] = NoJob]
  /\ doc'  = [doc  EXCEPT ![a] = NoDoc]
  /\ left' = [left EXCEPT ![a] = {}]

\* A request of user u reaches an idle HTTP thread.
Accept(t, j, step) ==
  /\ pc[t] = "idle"
  /\ serial < MaxRequests
  /\ serial' = serial + 1
  /\ job' = [job EXCEPT ![t] = [j EXCEPT !.id = serial + 1]]
  /\ Goto(t, step)

\* The purchases of c between the find of its document and the save.
Buyers(c) == {t \in Threads : job[t].coupon = c /\ job[t].code # None}

\* History: thread t finds the document of c while another buyer has it.
NoteCrowd(t, c) ==
  crowded' = IF Buyers(c) \ {t} # {} THEN crowded \cup {c} ELSE crowded

\* A purchase of u has compared the points and not yet read them again.
Checked(t, u) ==
  /\ pc[t] \in {"readCoupon", "readPoints"}
  /\ job[t].coupon # None
  /\ job[t].user = u

\* History: a save of u's document lowers the points that were compared.
NoteUndercut(u) ==
  undercut' = IF /\ users'[u].available < users[u].available
                 /\ \E t \in Threads : Checked(t, u)
              THEN undercut \cup {u} ELSE undercut

-----------------------------------------------------------------------------
(***************************************************************************)
(* RewardServiceImpl.addPoints, run by whichever actor calls it:           *)
(* find the user, save the changed document, then look up the member badge *)
(* and publish a task that refreshes the profile NFT.                      *)
(***************************************************************************)

ReadPoints(a) ==
  /\ pc[a] = "readPoints"
  /\ doc' = [doc EXCEPT ![a] = users[job[a].user]]
  /\ Goto(a, "writePoints")
  /\ UNCHANGED <<db, broker, job, left, timers, history>>

WritePoints(a) ==
  /\ pc[a] = "writePoints"
  /\ users' = [users EXCEPT ![job[a].user] = WithPoints(doc[a], Amount(job[a]))]
  /\ NoteUndercut(job[a].user)
  /\ \/ /\ job[a].order # None
        /\ credits' = [credits EXCEPT ![job[a].order] = @ + 1]
        /\ UNCHANGED <<debited, rewarded>>
     \/ /\ job[a].coupon # None
        /\ debited' = debited \cup {job[a].id}
        /\ UNCHANGED <<credits, rewarded>>
     \/ /\ job[a].reward # None
        /\ rewarded' = rewarded \cup {job[a].id}
        /\ UNCHANGED <<credits, debited>>
  /\ Goto(a, "sendTask")
  /\ UNCHANGED <<pool, granted, rewards, orderStatus, owner, explorer, broker, job, doc,
                 left, timers, serial, arrived, faults, saves, told, crowded>>

\* Mutant: a retro reward runs on into the code that marks the order's coupon.
AfterPointsFallingThrough(a) ==
  IF job[a].coupon # None THEN Goto(a, "grant") /\ UNCHANGED <<job, doc, left>>
                          ELSE Goto(a, "mark") /\ UNCHANGED <<job, doc, left>>

\* Mutant: a purchase saves the coupon first and never comes to the grant.
AfterPointsSaveFirst(a) ==
  \/ job[a].coupon # None /\ Goto(a, "saveCoupon") /\ UNCHANGED <<job, doc, left>>
  \/ job[a].reward # None /\ Finish(a)
  \/ job[a].order  # None /\ Goto(a, "mark") /\ UNCHANGED <<job, doc, left>>

\* What the caller does after addPoints returns.
AfterPoints(a) ==
  \/ job[a].coupon # None /\ Goto(a, "grant") /\ UNCHANGED <<job, doc, left>>
  \/ job[a].reward # None /\ Finish(a)
  \/ job[a].order  # None /\ Goto(a, "mark") /\ UNCHANGED <<job, doc, left>>

SendTask(a) ==
  /\ pc[a] = "sendTask"
  /\ tasks' = IF job[a].user \in Members
                 THEN [tasks EXCEPT ![job[a].user] = @ + 1]
                 ELSE tasks
  /\ AfterPoints(a)
  /\ UNCHANGED <<db, inbox, timers, history>>

-----------------------------------------------------------------------------
(***************************************************************************)
(* POST /coupons/{couponId}/purchase: RewardServiceImpl.purchaseCoupon     *)
(***************************************************************************)

BeginPurchase(t, u, c) ==
  /\ Accept(t, [NoJob EXCEPT !.user = u, !.coupon = c], "readCoupon")
  /\ doc' = [doc EXCEPT ![t] = users[u]]
  /\ UNCHANGED <<db, broker, left, timers, arrived, faults, saves, credits,
                 debited, rewarded, told, races>>

\* Mutant: the points ever earned are compared, not those left.
AffordedOnce(t) == doc[t].lifetime >= Price[job[t].coupon]

Affords(t) == doc[t].available >= Price[job[t].coupon]

\* "Insufficient points" or "Coupon sold out.": nothing was changed yet.
RefusePurchase(t) ==
  /\ pc[t] = "readCoupon"
  /\ \/ ~ Affords(t)
     \/ pool[job[t].coupon] = {}
  /\ Finish(t)
  /\ UNCHANGED <<db, broker, timers, history>>

\* Mutant: the coupon is granted without the debit.
PickCodeForFree(t) ==
  /\ pc[t] = "readCoupon"
  /\ Affords(t)
  /\ \E x \in pool[job[t].coupon] :
       /\ job'  = [job EXCEPT ![t].code = x]
       /\ left' = [left EXCEPT ![t] = pool[job[t].coupon] \ {x}]
  /\ NoteCrowd(t, job[t].coupon)
  /\ Goto(t, "grant")
  /\ UNCHANGED <<db, broker, doc, timers, serial, arrived, faults, saves, credits,
                 debited, rewarded, told, undercut>>

\* The first code of the document's set is the buyer's; it leaves the object
\* in memory here and the stored document only in SaveCoupon.
PickCode(t) ==
  /\ pc[t] = "readCoupon"
  /\ Affords(t)
  /\ \E x \in pool[job[t].coupon] :
       /\ job'  = [job EXCEPT ![t].code = x]
       /\ left' = [left EXCEPT ![t] = pool[job[t].coupon] \ {x}]
  /\ NoteCrowd(t, job[t].coupon)
  /\ Goto(t, "readPoints")
  /\ UNCHANGED <<db, broker, doc, timers, serial, arrived, faults, saves, credits,
                 debited, rewarded, told, undercut>>

GrantCoupon(t) ==
  /\ pc[t] = "grant"
  /\ granted' = granted \cup
       {[id |-> job[t].id, user |-> job[t].user, code |-> job[t].code,
         order |-> None]}
  /\ Goto(t, "saveCoupon")
  /\ UNCHANGED <<users, pool, rewards, orderStatus, owner, explorer, broker, job, doc,
                 left, timers, history>>

\* Mutant: the campaign is not saved after the grant.
SaveCouponForgotten(t) ==
  /\ pc[t] = "saveCoupon"
  /\ Finish(t)
  /\ UNCHANGED <<db, broker, timers, history>>

SaveCoupon(t) ==
  /\ pc[t] = "saveCoupon"
  /\ pool' = [pool EXCEPT ![job[t].coupon] = left[t]]
  /\ Finish(t)
  /\ UNCHANGED <<users, granted, rewards, orderStatus, owner, explorer, broker, timers,
                 history>>

-----------------------------------------------------------------------------
(***************************************************************************)
(* POST /user/retroReward: RewardServiceImpl.addRetroReward                *)
(***************************************************************************)

\* The claim is looked up by its Swiggy order; a known one is answered from
\* the stored document, an unknown one is saved and then credited.
BeginRetro(t, u, r) ==
  /\ ~ \E d \in rewards : d.reward = r
  /\ Accept(t, [NoJob EXCEPT !.user = u, !.reward = r], "saveReward")
  /\ UNCHANGED <<db, broker, doc, left, timers, arrived, faults, saves, credits,
                 debited, rewarded, told, races>>

SaveReward(t) ==
  /\ pc[t] = "saveReward"
  /\ rewards' = rewards \cup
       {[id |-> job[t].id, reward |-> job[t].reward, user |-> job[t].user]}
  /\ Goto(t, "readPoints")
  /\ UNCHANGED <<users, pool, granted, orderStatus, owner, explorer, broker, job, doc,
                 left, timers, history>>

-----------------------------------------------------------------------------
(***************************************************************************)
(* Requests that save the user document for another reason than points     *)
(***************************************************************************)

\* POST /user/login of an existing user: read, replace the tokens, save.
\* POST /user/address reads and saves the document in the same way.
BeginProfileSave(t, u) ==
  /\ Accept(t, [NoJob EXCEPT !.user = u], "saveProfile")
  /\ doc' = [doc EXCEPT ![t] = users[u]]
  /\ UNCHANGED <<db, broker, left, timers, arrived, faults, saves, credits,
                 debited, rewarded, told, races>>

SaveProfile(t) ==
  /\ pc[t] = "saveProfile"
  /\ users' = [users EXCEPT ![job[t].user] = doc[t]]
  /\ NoteUndercut(job[t].user)
  /\ Finish(t)
  /\ UNCHANGED <<pool, granted, rewards, orderStatus, owner, explorer, broker, timers,
                 serial, arrived, faults, saves, credits, debited, rewarded, told,
                 crowded>>

\* POST /user/confirmPhoneNumber with the right OTP: refused when the document
\* read already has a number ("Phone number already added").
BeginAddPhone(t, u) ==
  /\ users[u].phone = None
  /\ Accept(t, [NoJob EXCEPT !.user = u], "checkPhone")
  /\ doc' = [doc EXCEPT ![t] = users[u]]
  /\ UNCHANGED <<db, broker, left, timers, arrived, faults, saves, credits,
                 debited, rewarded, told, races>>

\* Refused as well when a document has the number ("already in use"); otherwise
\* it is put into the object in memory, and SaveProfile saves that.
CheckPhone(t) ==
  /\ pc[t] = "checkPhone"
  /\ \E n \in Numbers :
       \/ /\ Holders(n) = {}
          /\ doc' = [doc EXCEPT ![t].phone = n]
          /\ Goto(t, "saveProfile")
          /\ UNCHANGED <<job, left>>
       \/ /\ Holders(n) # {}
          /\ Finish(t)
  /\ UNCHANGED <<db, broker, timers, history>>

-----------------------------------------------------------------------------
(***************************************************************************)
(* The inbox consumer: RequestHandlerService.handleConfirmResponse         *)
(***************************************************************************)

\* An on_confirm message is published to the inbox.  The relay repeats a
\* request whose answer is late, and the seller's repeated answer carries no
\* offers, so either form may arrive, in any order and number.
Deliver(o) ==
  /\ arrived[o] < MaxCopies
  /\ Holders(OrderNumber[o]) # {} \/ arrived[o] > 0
  /\ \E x \in {OrderCode[o], None} :
       /\ [order |-> o, code |-> x] \notin inbox
       /\ inbox' = inbox \cup {[order |-> o, code |-> x]}
  /\ arrived' = [arrived EXCEPT ![o] = @ + 1]
  /\ UNCHANGED <<db, tasks, memory, serial, faults, saves, credits,
                 debited, rewarded, told, races>>

\* getByPhoneNumber throws when no user has the number any more, or when two
\* users have it: the message is logged and acknowledged.
TakeConfirm(m) ==
  /\ pc[Listener] = "idle"
  /\ inbox' = inbox \ {m}
  /\ LET holders == Holders(OrderNumber[m.order]) IN
       \/ \E u \in holders :
            /\ holders = {u}
            /\ job' = [job EXCEPT ![Listener] =
                         [NoJob EXCEPT !.user = u, !.order = m.order, !.code = m.code]]
            /\ Goto(Listener, "saveOrder")
       \/ /\ \A u \in holders : holders # {u}
          /\ UNCHANGED <<job, pc>>
  /\ UNCHANGED <<db, tasks, doc, left, timers, history>>

\* Mutants: the lookup never finds the order; it takes every order for known.
NeverKnown(o) == FALSE
AlwaysKnown(o) == TRUE

\* findBySellerOrderId
IsKnown(o) == orderStatus[o] # "none"

\* OrderServiceImpl.saveOrder: only this thread inserts orders, so the lookup
\* and the insert are one step.  A known order skips the credit.
SaveOrder ==
  LET o == job[Listener].order IN
  /\ pc[Listener] = "saveOrder"
  /\ \/ /\ IsKnown(o)
        /\ Goto(Listener, "mark")
        /\ UNCHANGED <<orderStatus, owner, saves, timers>>
     \/ /\ ~ IsKnown(o)
        /\ orderStatus' = [orderStatus EXCEPT ![o] = "ACITVE"]
        /\ owner' = [owner EXCEPT ![o] = job[Listener].user]
        /\ saves' = [saves EXCEPT ![o] = @ + 1]
        /\ timers' = timers \cup {o}
        /\ Goto(Listener, "readPoints")
  /\ UNCHANGED <<users, pool, granted, rewards, explorer, broker, job, doc, left,
                 serial, arrived, faults, credits, debited, rewarded, told, races>>

Ambiguous(documents) == \E g, h \in documents : g # h

\* markCouponUsage: findBySellerCouponId returns at most one document, throws
\* on two, and the exception ends the handler: the listener catches it, and the
\* message will be acknowledged like any other.
MarkCoupon ==
  LET o == job[Listener].order
      x == job[Listener].code
      holders == {g \in granted : g.code = x}
  IN
  /\ pc[Listener] = "mark"
  /\ \/ /\ holders = {}
        /\ Goto(Listener, "tell")
        /\ UNCHANGED granted
     \/ \E g \in holders :
          /\ holders = {g}
          /\ granted' = (granted \ {g}) \cup {[g EXCEPT !.order = o]}
          /\ Goto(Listener, "tell")
     \/ /\ Ambiguous(holders)
        /\ Goto(Listener, "ack")
        /\ UNCHANGED granted
  /\ UNCHANGED <<users, pool, rewards, orderStatus, owner, explorer, broker, job, doc,
                 left, timers, history>>

\* The socket message names the points of the order; it is dropped when the
\* customer has no open socket.
TellCustomer ==
  /\ pc[Listener] = "tell"
  /\ told' \in {told, told \cup {job[Listener].order}}
  /\ Goto(Listener, "badge")
  /\ UNCHANGED <<db, broker, job, doc, left, timers, serial, arrived, faults,
                 saves, credits, debited, rewarded, races>>

\* checkIfUserEligibleForBadge: the first order earns an EXPLORER badge, unless
\* the user has no wallet or a call fails; it is the last thing the handler does.
AwardBadge ==
  LET u == job[Listener].user IN
  /\ pc[Listener] = "badge"
  /\ \/ UNCHANGED explorer
     \/ /\ Cardinality(OrdersOf(u)) = 1
        /\ u \in Members
        /\ explorer' = [explorer EXCEPT ![u] = @ + 1]
  /\ Goto(Listener, "ack")
  /\ UNCHANGED <<users, pool, granted, rewards, orderStatus, owner, broker, job, doc,
                 left, timers, history>>

\* The container acknowledges the message once consumeInputMessage returned.
Acknowledge ==
  /\ pc[Listener] = "ack"
  /\ Finish(Listener)
  /\ UNCHANGED <<db, broker, timers, history>>

\* OrderStatusHandler: 30 seconds after the order was saved.
CompleteOrder(o) ==
  /\ o \in timers
  /\ orderStatus' = [orderStatus EXCEPT ![o] = "COMPLETED"]
  /\ timers' = timers \ {o}
  /\ UNCHANGED <<users, pool, granted, rewards, owner, explorer, broker, pc, job,
                 doc, left, history>>

\* A find, a save, the executor or the producer throws.  One that threw although
\* it took effect is the failure of the call after it.
CallThrows ==
  /\ failures < MaxFailures
  /\ crashes + failures < MaxFaults
  /\ failures' = failures + 1

\* Of a request: it is answered with an error, and what it has saved stays.
RequestThrows(t) ==
  /\ pc[t] # "idle"
  /\ CallThrows
  /\ torn' = IF pc[t] = "saveCoupon" THEN torn \cup {job[t].coupon} ELSE torn
  /\ Finish(t)
  /\ UNCHANGED <<db, broker, timers, serial, arrived, crashes, failed, saves,
                 credits, debited, rewarded, told, races>>

\* Of the consumer: consumeInputMessage catches every exception and returns.  A
\* message that is not sent to the customer's socket is TellCustomer's.
HandlerThrows ==
  /\ pc[Listener] \in {"saveOrder", "readPoints", "writePoints", "sendTask", "mark"}
  /\ CallThrows
  /\ failed' = failed \cup {job[Listener].order}
  /\ Goto(Listener, "ack")
  /\ UNCHANGED <<db, broker, job, doc, left, timers, serial, arrived, crashes, torn,
                 saves, credits, debited, rewarded, told, races>>

\* The message cannot be read, or the lookup of its user throws.
LookupThrows(m) ==
  /\ pc[Listener] = "idle"
  /\ CallThrows
  /\ inbox' = inbox \ {m}
  /\ failed' = failed \cup {m.order}
  /\ UNCHANGED <<db, tasks, memory, serial, arrived, crashes, torn, saves, credits,
                 debited, rewarded, told, races>>

\* The campaigns of the purchases between the grant and the save.
HalfSaved == {job[t].coupon : t \in {s \in Threads : pc[s] = "saveCoupon"}}

\* The process dies: threads and executor are gone, the message being handled
\* was not acknowledged and is queued again.
Crash ==
  /\ crashes < MaxCrashes
  /\ crashes + failures < MaxFaults
  /\ crashes' = crashes + 1
  /\ torn' = torn \cup HalfSaved
  /\ inbox' = IF pc[Listener] = "idle" THEN inbox
               ELSE inbox \cup {[order |-> job[Listener].order,
                                 code  |-> job[Listener].code]}
  /\ pc'   = [a \in Actors |-> "idle"]
  /\ job'  = [a \in Actors |-> NoJob]
  /\ doc'  = [a \in Actors |-> NoDoc]
  /\ left' = [a \in Actors |-> {}]
  /\ timers' = {}
  /\ UNCHANGED <<db, tasks, serial, arrived, failures, failed, saves, credits,
                 debited, rewarded, told, races>>

-----------------------------------------------------------------------------

AddPoints(a) == ReadPoints(a) \/ WritePoints(a) \/ SendTask(a)

Purchase(t) ==
  \/ \E u \in Users, c \in Coupons : BeginPurchase(t, u, c)
  \/ RefusePurchase(t) \/ PickCode(t) \/ GrantCoupon(t) \/ SaveCoupon(t)

Retro(t) ==
  \/ \E u \in Users, r \in Rewards : BeginRetro(t, u, r)
  \/ SaveReward(t)

Profile(t) ==
  \/ \E u \in Users : BeginProfileSave(t, u) \/ BeginAddPhone(t, u)
  \/ CheckPhone(t) \/ SaveProfile(t)

Consume ==
  \/ \E m \in inbox : TakeConfirm(m)
  \/ SaveOrder \/ MarkCoupon \/ TellCustomer \/ AwardBadge \/ Acknowledge

Throws ==
  \/ \E t \in Threads : RequestThrows(t)
  \/ \E m \in inbox : LookupThrows(m)
  \/ HandlerThrows

Next ==
  \/ \E a \in Actors : AddPoints(a)
  \/ \E t \in Threads : Purchase(t) \/ Retro(t) \/ Profile(t)
  \/ Consume
  \/ \E o \in Orders : Deliver(o) \/ CompleteOrder(o)
  \/ Throws
  \/ Crash

Spec == Init /\ [][Next]_vars

-----------------------------------------------------------------------------
(***************************************************************************)
(* Properties                                                              *)
(***************************************************************************)

RequestSteps  == Steps \ {"saveOrder", "mark", "tell", "badge", "ack"}
ListenerSteps == {"idle", "saveOrder", "readPoints", "writePoints", "sendTask",
                  "mark", "tell", "badge", "ack"}

\* Every variable has its type, and the steps of a request and of the consumer
\* stay apart: no request runs on into the code of another handler.
TypeOK ==
  /\ users \in [Users -> UserDoc]
  /\ pool \in [Coupons -> SUBSET Codes]
  /\ granted \subseteq UserCoupon
  /\ rewards \subseteq RetroReward
  /\ orderStatus \in [Orders -> OrderStatus]
  /\ owner \in [Orders -> Users \cup {None}]
  /\ explorer \in [Users -> Nat]
  /\ inbox \subseteq OnConfirm
  /\ tasks \in [Users -> Nat]
  /\ pc \in [Actors -> Steps]
  /\ pc[Listener] \in ListenerSteps
  /\ \A t \in Threads : pc[t] \in RequestSteps
  /\ job \in [Actors -> Job]
  /\ doc \in [Actors -> UserDoc]
  /\ left \in [Actors -> SUBSET Codes]
  /\ timers \subseteq Orders
  /\ serial \in Nat
  /\ arrived \in [Orders -> Nat]
  /\ crashes \in Nat
  /\ failures \in Nat
  /\ failed \subseteq Orders
  /\ torn \subseteq Coupons
  /\ saves \in [Orders -> Nat]
  /\ credits \in [Orders -> Nat]
  /\ debited \subseteq Nat
  /\ rewarded \subseteq Nat
  /\ told \subseteq Orders
  /\ crowded \subseteq Coupons
  /\ undercut \subseteq Users

\* However requests and the consumer overwrite each other's user document, the
\* stored one never shows more points available than were ever earned:
\* addPoints raises both numbers from one document and saves them together.
AvailableWithinLifetime ==
  \A u \in Users : users[u].available <= users[u].lifetime

\* A user's points fall below zero in one way only: between the comparison of
\* a purchase and its second read of the document, a save of another actor
\* lowered them.  A stale save alone, or a purchase on its own, never does.
OverdrawnOnlyIfUndercut ==
  \A u \in Users : users[u].available < 0 => u \in undercut

\* The points of a user are backed by points earned, and lower than none only after
\* a purchase was undercut.
PointsAreBacked == AvailableWithinLifetime /\ OverdrawnOnlyIfUndercut

\* Repeated and redelivered on_confirm messages insert one document per order
\* and write its points at most once, never without the order on record.
CreditedOnce ==
  \A o \in Orders :
    /\ saves[o] <= 1
    /\ credits[o] <= saves[o]
    /\ saves[o] = 1 <=> orderStatus[o] # "none"

\* The recorded orders whose points are neither written nor about to be.
Crediting(o) ==
  job[Listener].order = o /\ pc[Listener] \in {"readPoints", "writePoints"}

Missed == {o \in Orders : orderStatus[o] # "none" /\ credits[o] = 0 /\ ~ Crediting(o)}

\* A recorded order without its points was given up by the listener's catch block
\* on one of its messages, or is one for which the process crashed: one order per
\* crash at most.  Repeated messages cannot make up for it, nor can they, an unknown
\* coupon, a stale save or the failures of other requests lose an order's points.
EveryOrderCredited == CreditedOnce /\ Cardinality(Missed \ failed) <= crashes

\* A code that is gone from its coupon's document is in some user's hands: the
\* UserCoupon is saved before the coupon, so no crash or overwrite loses one.
NoCodeLost ==
  \A c \in Coupons : CodesOf(c) \ pool[c] \subseteq SoldCodes

\* A code goes to a second user only after a purchase of its campaign ended, by a
\* crash or an exception, between its two saves, or after two purchases had the
\* campaign's document in memory at once: not always those of the two users, the
\* later save of one puts back the code of the other for anyone to buy.  A crash
\* or a failure anywhere else never sells a code again.
ResoldOnlyByRace ==
  \A g, h \in granted :
    g.code = h.code /\ g # h => CouponOf[g.code] \in torn \cup crowded

\* A coupon code is on the shelf or in somebody's hands, and in two users' hands only
\* after a half saved purchase or a crowd.
CodesAccountedFor == NoCodeLost /\ ResoldOnlyByRace

\* A coupon is granted only by a request that has written its price, a request
\* grants one at most, and a retro reward is credited only once it is on record.
PaidBeforeGranted ==
  /\ \A g \in granted : g.id \in debited
  /\ \A g, h \in granted : g.id = h.id => g = h
  /\ \A i \in rewarded : \E d \in rewards : d.id = i

\* A coupon marked as used names an order on record to which it was applied,
\* although on_confirm messages come without offers, twice or out of order.
UsedCouponNamesItsOrder ==
  \A g \in granted :
    g.order # None =>
      /\ orderStatus[g.order] # "none"
      /\ OrderCode[g.order] = g.code

\* "Insufficient points": purchaseCoupon means to spend only points the user
\* has.  It compares them with the price of a document read earlier.
OverdraftFree ==
  \A u \in Users : users[u].available >= 0

\* findBySellerCouponId returns an Optional: a seller's code is in the hands of
\* one user coupon at most.
CodeSoldOnce ==
  \A g, h \in granted : g.code = h.code => g = h

\* "Update user points" comes before the socket message that names the points:
\* a customer is told only of points that were credited.
ToldPointsAreCredited ==
  \A o \in told : credits[o] >= 1

\* The detailed ledger keeps the promise of LoyaltyPromise.
Promise == INSTANCE LoyaltyPromise WITH
  recorded <- {o \in Orders : orderStatus[o] # "none"},
  paid     <- debited,
  receipts <- {<<g.id, g.code>> : g \in granted},
  shelf    <- UNION {pool[c] : c \in Coupons}

KeepsPromise == Promise!Spec

-----------------------------------------------------------------------------
(***************************************************************************)
(* Fairness and liveness.  The consumer thread and the executor are driven *)
(* by the broker and the JVM and never stop for good; HTTP requests are    *)
(* the customers' and may not come.                                        *)
(***************************************************************************)

ConsumeStep ==
  \/ \E m \in inbox : TakeConfirm(m)
  \/ SaveOrder \/ AddPoints(Listener)
  \/ MarkCoupon \/ TellCustomer \/ AwardBadge \/ Acknowledge

FairSpec == Spec /\ WF_vars(ConsumeStep)

Waiting(o)  == \E m \in inbox : m.order = o
Handling(o) == job[Listener].order = o

\* An on_confirm message is handled to its end whatever the handler meets: an
\* order already known, a code of two users, a dead socket, an exception or a crash
\* in the middle.  Then the order is on record, unless no user has its number any
\* more (a stale save erased it), two users have confirmed it at once, or a call
\* failed on this very order.
ConfirmationsAreHandled ==
  \A o \in Orders :
    Waiting(o) ~> /\ ~ Waiting(o) /\ ~ Handling(o)
                  /\ \/ orderStatus[o] # "none"
                     \/ o \in failed
                     \/ Cardinality(Holders(OrderNumber[o])) # 1

=============================================================================
