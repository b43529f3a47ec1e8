-------------------------- MODULE BecknRelayProofs --------------------------
(***************************************************************************)
(* Proofs about BecknRelay, for any messages, subscribers, retries,        *)
(* replies and crashes.                                                    *)
(***************************************************************************)
EXTENDS BecknRelay, TLAPS

ReqHop == INSTANCE BecknPostProofs WITH
            Items <- Messages, Retries <- BapRetries, post <- reqPost
RepHop == INSTANCE BecknPostProofs WITH
            Items <- Replies, Subscribers <- 1, Retries <- BppRetries, post <- repPost

-----------------------------------------------------------------------------
(***************************************************************************)
(* The hops of the relay are the hops of BecknPostProofs.                  *)
(***************************************************************************)

\* What BecknPostProofs shows of the hop from bap-network to bpp-network.
LEMMA ReqFacts ==
  ASSUME reqPost \in [Messages -> Req!Posting], Req!PostInv
  PROVE  /\ Req!ArrivalsBounded
         /\ Req!Next => (reqPost \in [Messages -> Req!Posting])' /\ Req!PostInv'
         /\ \A i \in Messages :
              /\ Req!Start(i) \/ Req!StartFails(i) \/ Req!Skip(i) =>
                   /\ \A j \in Messages \ {i} : reqPost'[j] = reqPost[j]
                   /\ reqPost'[i].arrivals = reqPost[i].arrivals
                   /\ reqPost'[i].phase # "idle"
              /\ Req!Arrive(i) \/ Req!ArriveLate(i) =>
                   /\ \A j \in Messages \ {i} : reqPost'[j] = reqPost[j]
                   /\ reqPost'[i].arrivals = reqPost[i].arrivals + 1
                   /\ reqPost[i].phase # "idle"
                   /\ reqPost'[i].phase # "idle"
              /\ (\E j \in Messages : Req!Succeed(j) \/ Req!Retry(j)) \/ Req!Abort =>
                   /\ reqPost'[i].arrivals = reqPost[i].arrivals
                   /\ reqPost'[i].phase = "idle" <=> reqPost[i].phase = "idle"
<1> USE DEF ReqHop!Start, ReqHop!StartFails, ReqHop!Skip, ReqHop!Arrive, ReqHop!ArriveLate,
           ReqHop!Succeed, ReqHop!Retry, ReqHop!Resend, ReqHop!CallAgain,
           ReqHop!GiveUp, ReqHop!Abort, ReqHop!Change, ReqHop!Waiting,
           ReqHop!StrayAfter, ReqHop!Calls, Req!Start, Req!StartFails, Req!Skip, Req!Arrive,
           Req!ArriveLate, Req!Succeed, Req!Retry, Req!Resend,
           Req!CallAgain, Req!GiveUp, Req!Abort, Req!Change, Req!Waiting,
           Req!StrayAfter, Req!Calls
<1>1. ReqHop!Sizes
  BY RelayAssumption DEF ReqHop!Sizes
<1>2. ReqHop!Typed /\ ReqHop!PostInv
  BY DEF ReqHop!Typed, ReqHop!Posting, Req!Posting, ReqHop!PostInv, Req!PostInv,
         ReqHop!Idle, Req!Idle, ReqHop!Paid, Req!Paid
<1>3. Req!ArrivalsBounded
  BY <1>1, <1>2, ReqHop!PostBound DEF ReqHop!ArrivalsBounded, Req!ArrivalsBounded
<1>4. ASSUME Req!Next
      PROVE  (reqPost \in [Messages -> Req!Posting])' /\ Req!PostInv'
  <2>1. ReqHop!Next
    BY <1>4 DEF ReqHop!Next, Req!Next
  <2>2. ReqHop!Typed' /\ ReqHop!PostInv'
    BY <1>1, <1>2, <2>1, ReqHop!PostStep
  <2> QED BY <2>2 DEF ReqHop!Typed, ReqHop!Posting, Req!Posting, ReqHop!PostInv, Req!PostInv,
                      ReqHop!Idle, Req!Idle, ReqHop!Paid, Req!Paid
<1>5. ASSUME NEW i \in Messages, Req!Start(i) \/ Req!StartFails(i) \/ Req!Skip(i)
      PROVE  /\ \A j \in Messages \ {i} : reqPost'[j] = reqPost[j]
             /\ reqPost'[i].arrivals = reqPost[i].arrivals
             /\ reqPost'[i].phase # "idle"
  <2>1. ReqHop!Start(i) \/ ReqHop!StartFails(i) \/ ReqHop!Skip(i)
    BY <1>5
  <2> QED BY <1>2, <2>1, ReqHop!BeginIsNoArrival
<1>6. ASSUME NEW i \in Messages, Req!Arrive(i) \/ Req!ArriveLate(i)
      PROVE  /\ \A j \in Messages \ {i} : reqPost'[j] = reqPost[j]
             /\ reqPost'[i].arrivals = reqPost[i].arrivals + 1
             /\ reqPost[i].phase # "idle"
             /\ reqPost'[i].phase # "idle"
  <2>1. ReqHop!Arrive(i) \/ ReqHop!ArriveLate(i)
    BY <1>6
  <2> QED BY <1>2, <2>1, ReqHop!ArrivalCounts
<1>7. ASSUME NEW i \in Messages,
             (\E j \in Messages : Req!Succeed(j) \/ Req!Retry(j)) \/ Req!Abort
      PROVE  /\ reqPost'[i].arrivals = reqPost[i].arrivals
             /\ reqPost'[i].phase = "idle" <=> reqPost[i].phase = "idle"
  <2>1. (\E j \in Messages : ReqHop!Succeed(j) \/ ReqHop!Retry(j)) \/ ReqHop!Abort
    BY <1>7
  <2> QED BY <1>2, <2>1, ReqHop!SettlingBeginsNothing
<1> QED BY <1>3, <1>4, <1>5, <1>6, <1>7

\* The same of the hop back.
LEMMA RepFacts ==
  ASSUME repPost \in [Replies -> Rep!Posting], Rep!PostInv
  PROVE  /\ Rep!ArrivalsBounded
         /\ Rep!Next => (repPost \in [Replies -> Rep!Posting])' /\ Rep!PostInv'
         /\ \A i \in Replies :
              /\ Rep!Start(i) \/ Rep!StartFails(i) \/ Rep!Skip(i) =>
                   /\ \A j \in Replies \ {i} : repPost'[j] = repPost[j]
                   /\ repPost'[i].arrivals = repPost[i].arrivals
                   /\ repPost'[i].phase # "idle"
              /\ Rep!Arrive(i) \/ Rep!ArriveLate(i) =>
                   /\ \A j \in Replies \ {i} : repPost'[j] = repPost[j]
                   /\ repPost'[i].arrivals = repPost[i].arrivals + 1
                   /\ repPost[i].phase # "idle"
                   /\ repPost'[i].phase # "idle"
              /\ (\E j \in Replies : Rep!Succeed(j) \/ Rep!Retry(j)) \/ Rep!Abort =>
                   /\ repPost'[i].arrivals = repPost[i].arrivals
                   /\ repPost'[i].phase = "idle" <=> repPost[i].phase = "idle"
<1> USE DEF RepHop!Start, RepHop!StartFails, RepHop!Skip, RepHop!Arrive, RepHop!ArriveLate,
           RepHop!Succeed, RepHop!Retry, RepHop!Resend, RepHop!CallAgain,
           RepHop!GiveUp, RepHop!Abort, RepHop!Change, RepHop!Waiting,
           RepHop!StrayAfter, RepHop!Calls, Rep!Start, Rep!StartFails, Rep!Skip, Rep!Arrive,
           Rep!ArriveLate, Rep!Succeed, Rep!Retry, Rep!Resend,
           Rep!CallAgain, Rep!GiveUp, Rep!Abort, Rep!Change, Rep!Waiting,
           Rep!StrayAfter, Rep!Calls
<1>1. RepHop!Sizes
  BY RelayAssumption DEF RepHop!Sizes
<1>2. RepHop!Typed /\ RepHop!PostInv
  BY DEF RepHop!Typed, RepHop!Posting, Rep!Posting, RepHop!PostInv, Rep!PostInv,
         RepHop!Idle, Rep!Idle, RepHop!Paid, Rep!Paid
<1>3. Rep!ArrivalsBounded
  BY <1>1, <1>2, RepHop!PostBound DEF RepHop!ArrivalsBounded, Rep!ArrivalsBounded
<1>4. ASSUME Rep!Next
      PROVE  (repPost \in [Replies -> Rep!Posting])' /\ Rep!PostInv'
  <2>1. RepHop!Next
    BY <1>4 DEF RepHop!Next, Rep!Next
  <2>2. RepHop!Typed' /\ RepHop!PostInv'
    BY <1>1, <1>2, <2>1, RepHop!PostStep
  <2> QED BY <2>2 DEF RepHop!Typed, RepHop!Posting, Rep!Posting, RepHop!PostInv, Rep!PostInv,
                      RepHop!Idle, Rep!Idle, RepHop!Paid, Rep!Paid
<1>5. ASSUME NEW i \in Replies, Rep!Start(i) \/ Rep!StartFails(i) \/ Rep!Skip(i)
      PROVE  /\ \A j \in Replies \ {i} : repPost'[j] = repPost[j]
             /\ repPost'[i].arrivals = repPost[i].arrivals
             /\ repPost'[i].phase # "idle"
  <2>1. RepHop!Start(i) \/ RepHop!StartFails(i) \/ RepHop!Skip(i)
    BY <1>5
  <2> QED BY <1>2, <2>1, RepHop!BeginIsNoArrival
<1>6. ASSUME NEW i \in Replies, Rep!Arrive(i) \/ Rep!ArriveLate(i)
      PROVE  /\ \A j \in Replies \ {i} : repPost'[j] = repPost[j]
             /\ repPost'[i].arrivals = repPost[i].arrivals + 1
             /\ repPost[i].phase # "idle"
             /\ repPost'[i].phase # "idle"
  <2>1. RepHop!Arrive(i) \/ RepHop!ArriveLate(i)
    BY <1>6
  <2> QED BY <1>2, <2>1, RepHop!ArrivalCounts
<1>7. ASSUME NEW i \in Replies,
             (\E j \in Replies : Rep!Succeed(j) \/ Rep!Retry(j)) \/ Rep!Abort
      PROVE  /\ repPost'[i].arrivals = repPost[i].arrivals
             /\ repPost'[i].phase = "idle" <=> repPost[i].phase = "idle"
  <2>1. (\E j \in Replies : RepHop!Succeed(j) \/ RepHop!Retry(j)) \/ RepHop!Abort
    BY <1>7
  <2> QED BY <1>2, <2>1, RepHop!SettlingBeginsNothing
<1> QED BY <1>3, <1>4, <1>5, <1>6, <1>7

-----------------------------------------------------------------------------
(***************************************************************************)
(* The inductive invariant                                                 *)
(***************************************************************************)

HopsInv == Req!PostInv /\ Rep!PostInv

\* A copy is in one place at a time, and it has arrived there over the hop.
CopiesCounted ==
  /\ \A m \in Messages : caching[m] + queueing[m] + requests[m] <= reqPost[m].arrivals
  /\ \A r \in Replies : accepting[r] + inbox[r] <= repPost[r].arrivals

\* A request was cached by bap-proxy before it went anywhere, and by bpp-network
\* before the seller saw it; a reply is posted only after it was published.
KnownToBap(m) == m \in bapCache \cup bapExpired
KnownToBpp(m) == m \in bppCache \cup bppExpired

CachedFirst ==
  \A m \in Messages :
    /\ proxy[m] = "cached" \/ m \in outbox \/ reqPost[m].phase # "idle" => KnownToBap(m)
    /\ queueing[m] > 0 \/ requests[m] > 0 \/ replies[m] > 0 => KnownToBpp(m)
    /\ replies[m] > 0 => reqPost[m].phase # "idle"
    /\ \A k \in 1..MaxReplies : repPost[<<m, k>>].phase # "idle" => k <= replies[m]

RelayInv == TypeOK /\ HopsInv /\ CopiesCounted /\ CachedFirst /\ TimedOutOnlyIfExpired

\* The relay starts with empty queues, caches and hops.
LEMMA InitRelayInv == Init => RelayInv
<1> SUFFICES ASSUME Init PROVE RelayInv
  OBVIOUS
<1> USE RelayAssumption DEF Init, Req!Init, Rep!Init
<1>1. /\ Req!Idle \in Req!Posting /\ Rep!Idle \in Rep!Posting
      /\ Req!Idle.phase = "idle" /\ Req!Idle.arrivals = 0
      /\ Rep!Idle.phase = "idle" /\ Rep!Idle.arrivals = 0
  BY DEF Req!Idle, Req!Posting, Rep!Idle, Rep!Posting
<1>2. TypeOK
  BY <1>1 DEF TypeOK, Steps
<1>3. Req!Paid(Req!Idle) /\ Rep!Paid(Rep!Idle)
  <2>1. ReqHop!Sizes /\ RepHop!Sizes
    BY DEF ReqHop!Sizes, RepHop!Sizes
  <2>2. Req!Calls * (BapRetries + 1) \in Nat /\ Rep!Calls * (BppRetries + 1) \in Nat
    BY <2>1, ReqHop!CallsPay, RepHop!CallsPay DEF ReqHop!Calls, RepHop!Calls, Req!Calls, Rep!Calls
  <2> QED BY <2>2 DEF Req!Paid, Rep!Paid, Req!Idle, Rep!Idle
<1>4. HopsInv
  BY <1>3 DEF HopsInv, Req!PostInv, Rep!PostInv
<1>5. CopiesCounted /\ CachedFirst /\ TimedOutOnlyIfExpired
  BY <1>1 DEF CopiesCounted, CachedFirst, TimedOutOnlyIfExpired, Replies
<1> QED BY <1>2, <1>4, <1>5 DEF RelayInv

\* Every step of the relay is, for either hop, a step of BecknPost or none.
LEMMA StepsOfHops ==
  ASSUME [Next]_vars
  PROVE  (Req!Next \/ UNCHANGED reqPost) /\ (Rep!Next \/ UNCHANGED repPost)
<1>1. ASSUME NEW m \in Messages, Receive(m) \/ Forward(m) \/ Reply(m)
                                 \/ FailRequest(m) \/ FailAtSeller(m) \/ Expire(m)
      PROVE  (Req!Next \/ UNCHANGED reqPost) /\ UNCHANGED repPost
  BY <1>1 DEF Receive, Forward, Reply, FailRequest, FailAtSeller, Expire, CacheRequest,
              QueueRequest, TakeRequest, RequestArrives, RequestSettles, CacheAtSeller,
              QueueAtSeller, Req!Next
<1>2. ASSUME NEW m \in Messages, NEW k \in 1..MaxReplies,
             Backward(m, k) \/ FailReply(m, k)
      PROVE  UNCHANGED reqPost /\ (Rep!Next \/ UNCHANGED repPost)
  <2>1. <<m, k>> \in Replies
    BY DEF Replies
  <2> QED BY <1>2, <2>1 DEF Backward, TakeReply, DropReply, ReplyArrives, ReplySettles,
                            PublishReply, FailReply, Rep!Next
<1>3. CASE Crash
  BY <1>3 DEF Crash, CrashProxy, CrashBap, CrashBpp, Req!Next, Rep!Next
<1>4. CASE UNCHANGED vars
  BY <1>4 DEF vars
<1> QED BY <1>1, <1>2, <1>3, <1>4 DEF Next

\* So either hop keeps its type and its account.
LEMMA NextHopsInv ==
  ASSUME TypeOK, HopsInv, [Next]_vars
  PROVE  /\ (reqPost \in [Messages -> Req!Posting])'
         /\ (repPost \in [Replies -> Rep!Posting])'
         /\ HopsInv'
<1>1. (reqPost \in [Messages -> Req!Posting])' /\ Req!PostInv'
  <2>1. CASE Req!Next
    BY <2>1, ReqFacts DEF TypeOK, HopsInv
  <2>2. CASE UNCHANGED reqPost
    BY <2>2 DEF TypeOK, HopsInv, Req!PostInv
  <2> QED BY <2>1, <2>2, StepsOfHops
<1>2. (repPost \in [Replies -> Rep!Posting])' /\ Rep!PostInv'
  <2>1. CASE Rep!Next
    BY <2>1, RepFacts DEF TypeOK, HopsInv
  <2>2. CASE UNCHANGED repPost
    BY <2>2 DEF TypeOK, HopsInv, Rep!PostInv
  <2> QED BY <2>1, <2>2, StepsOfHops
<1> QED BY <1>1, <1>2 DEF HopsInv

\* The other variables keep their types.
LEMMA NextTypeOK ==
  ASSUME TypeOK, HopsInv, [Next]_vars
  PROVE  TypeOK'
<1>0. (reqPost \in [Messages -> Req!Posting])' /\ (repPost \in [Replies -> Rep!Posting])'
  BY NextHopsInv
<1> USE <1>0, RelayAssumption DEF TypeOK, caches, queues, handlers, history
<1>1. ASSUME NEW m \in Messages, Receive(m) \/ FailRequest(m) \/ Expire(m)
      PROVE  TypeOK'
  BY <1>1 DEF Receive, FailRequest, Expire, Steps
<1>2. ASSUME NEW m \in Messages, Reply(m)
      PROVE  TypeOK'
  BY <1>2 DEF Reply
<1>3. ASSUME NEW m \in Messages, FailAtSeller(m)
      PROVE  TypeOK'
  BY <1>3 DEF FailAtSeller
<1>4. ASSUME NEW m \in Messages, CacheRequest(m) \/ QueueRequest(m)
      PROVE  TypeOK'
  BY <1>4 DEF CacheRequest, QueueRequest, Steps
<1>5. ASSUME NEW m \in Messages, TakeRequest(m) \/ RequestArrives(m) \/ RequestSettles(m)
      PROVE  TypeOK'
  BY <1>5 DEF TakeRequest, RequestArrives, RequestSettles
<1>6. ASSUME NEW m \in Messages, CacheAtSeller(m) \/ QueueAtSeller(m)
      PROVE  TypeOK'
  BY <1>6 DEF CacheAtSeller, QueueAtSeller
<1>7. ASSUME NEW m \in Messages, NEW k \in 1..MaxReplies,
             TakeReply(m, k) \/ DropReply(m, k) \/ ReplySettles(m, k)
      PROVE  TypeOK'
  BY <1>7 DEF TakeReply, DropReply, ReplySettles
<1>8. ASSUME NEW m \in Messages, NEW k \in 1..MaxReplies,
             ReplyArrives(m, k) \/ PublishReply(m, k)
      PROVE  TypeOK'
  <2>1. <<m, k>> \in Replies
    BY DEF Replies
  <2> QED BY <1>8, <2>1 DEF ReplyArrives, PublishReply
<1>11. ASSUME NEW m \in Messages, NEW k \in 1..MaxReplies, FailReply(m, k)
       PROVE  TypeOK'
  <2>1. <<m, k>> \in Replies
    BY DEF Replies
  <2> QED BY <1>11, <2>1 DEF FailReply
<1>9. CASE Crash
  BY <1>9 DEF Crash, CrashProxy, CrashBap, CrashBpp, Steps
<1>10. CASE UNCHANGED vars
  BY <1>10 DEF vars
<1> QED BY <1>1, <1>2, <1>3, <1>4, <1>5, <1>6, <1>7, <1>8, <1>9, <1>10, <1>11
        DEF Next, Forward, Backward

\* A copy moves on from the hop to the handler, the queue and the reply; crashes
\* and failures only take copies away.
LEMMA NextCopiesCounted ==
  ASSUME TypeOK, HopsInv, CopiesCounted, [Next]_vars
  PROVE  CopiesCounted'
<1>0. TypeOK'
  BY NextTypeOK
<1>t. /\ \A m \in Messages : /\ caching[m] \in Nat /\ queueing[m] \in Nat /\ requests[m] \in Nat
                             /\ reqPost[m].arrivals \in Nat
      /\ \A r \in Replies : /\ accepting[r] \in Nat /\ inbox[r] \in Nat
                            /\ repPost[r].arrivals \in Nat
  BY DEF TypeOK, Req!Posting, Rep!Posting
<1>a. ASSUME UNCHANGED <<caching, queueing, requests>>,
             \A i \in Messages : reqPost'[i].arrivals = reqPost[i].arrivals,
             UNCHANGED <<accepting, inbox>>,
             \A r \in Replies : repPost'[r].arrivals = repPost[r].arrivals
      PROVE  CopiesCounted'
  BY <1>a DEF CopiesCounted
<1>b. ASSUME \A i \in Messages : reqPost'[i].arrivals = reqPost[i].arrivals,
             \A r \in Replies : repPost'[r].arrivals = repPost[r].arrivals,
             \A i \in Messages :
               caching'[i] + queueing'[i] + requests'[i] <= caching[i] + queueing[i] + requests[i],
             \A r \in Replies : accepting'[r] + inbox'[r] <= accepting[r] + inbox[r]
      PROVE  CopiesCounted'
  <2>1. /\ \A m \in Messages : caching'[m] \in Nat /\ queueing'[m] \in Nat /\ requests'[m] \in Nat
        /\ \A r \in Replies : accepting'[r] \in Nat /\ inbox'[r] \in Nat
    BY <1>0 DEF TypeOK
  <2> QED BY <1>b, <1>t, <2>1 DEF CopiesCounted
<1>1. ASSUME NEW m \in Messages,
             Receive(m) \/ FailRequest(m) \/ Expire(m) \/ CacheRequest(m) \/ QueueRequest(m)
      PROVE  CopiesCounted'
  BY <1>1, <1>a DEF Receive, FailRequest, Expire, CacheRequest, QueueRequest, queues, handlers
<1>2. ASSUME NEW m \in Messages, TakeRequest(m)
      PROVE  CopiesCounted'
  <2>1. \A i \in Messages : reqPost'[i].arrivals = reqPost[i].arrivals
    BY <1>2, ReqFacts DEF TakeRequest, TypeOK, HopsInv
  <2> QED BY <1>2, <1>a, <2>1 DEF TakeRequest, handlers
<1>3. ASSUME NEW m \in Messages, RequestArrives(m)
      PROVE  CopiesCounted'
  <2>1. /\ \A i \in Messages \ {m} : reqPost'[i] = reqPost[i]
        /\ reqPost'[m].arrivals = reqPost[m].arrivals + 1
    BY <1>3, ReqFacts DEF RequestArrives, TypeOK, HopsInv
  <2>2. /\ caching' = [caching EXCEPT ![m] = @ + 1]
        /\ UNCHANGED <<queueing, requests, accepting, inbox, repPost>>
    BY <1>3 DEF RequestArrives, queues
  <2> QED BY <1>t, <2>1, <2>2 DEF CopiesCounted, TypeOK
<1>4. ASSUME NEW m \in Messages, RequestSettles(m)
      PROVE  CopiesCounted'
  <2>1. \A i \in Messages : reqPost'[i].arrivals = reqPost[i].arrivals
    BY <1>4, ReqFacts DEF RequestSettles, TypeOK, HopsInv
  <2> QED BY <1>4, <1>a, <2>1 DEF RequestSettles, queues, handlers
<1>5. ASSUME NEW m \in Messages,
             CacheAtSeller(m) \/ QueueAtSeller(m) \/ FailAtSeller(m) \/ Reply(m)
      PROVE  CopiesCounted'
  <2>1. UNCHANGED <<reqPost, repPost, accepting, inbox>>
    BY <1>5 DEF CacheAtSeller, QueueAtSeller, FailAtSeller, Reply, queues, handlers
  <2>2. \A i \in Messages :
          caching'[i] + queueing'[i] + requests'[i] <= caching[i] + queueing[i] + requests[i]
    BY <1>5, <1>t DEF CacheAtSeller, QueueAtSeller, FailAtSeller, Reply, queues, handlers, TypeOK
  <2> QED BY <1>b, <1>t, <2>1, <2>2
<1>6. ASSUME NEW m \in Messages, NEW k \in 1..MaxReplies,
             TakeReply(m, k) \/ DropReply(m, k) \/ ReplySettles(m, k)
      PROVE  CopiesCounted'
  <2>0. <<m, k>> \in Replies
    BY DEF Replies
  <2>1. \A r \in Replies : repPost'[r].arrivals = repPost[r].arrivals
    BY <1>6, <2>0, RepFacts DEF TakeReply, DropReply, ReplySettles, TypeOK, HopsInv
  <2> QED BY <1>6, <1>a, <2>1 DEF TakeReply, DropReply, ReplySettles, queues, handlers
<1>7. ASSUME NEW m \in Messages, NEW k \in 1..MaxReplies, ReplyArrives(m, k)
      PROVE  CopiesCounted'
  <2>0. <<m, k>> \in Replies
    BY DEF Replies
  <2>1. /\ \A r \in Replies \ {<<m, k>>} : repPost'[r] = repPost[r]
        /\ repPost'[<<m, k>>].arrivals = repPost[<<m, k>>].arrivals + 1
    BY <1>7, <2>0, RepFacts DEF ReplyArrives, TypeOK, HopsInv
  <2>2. /\ \/ accepting' = [accepting EXCEPT ![<<m, k>>] = @ + 1]
           \/ UNCHANGED accepting
        /\ UNCHANGED <<caching, queueing, requests, inbox, reqPost>>
    BY <1>7 DEF ReplyArrives, queues
  <2>3. \A r \in Replies \ {<<m, k>>} : accepting'[r] = accepting[r]
    BY <2>2 DEF TypeOK
  <2>4. accepting'[<<m, k>>] <= accepting[<<m, k>>] + 1 /\ accepting'[<<m, k>>] \in Nat
    BY <1>t, <2>0, <2>2 DEF TypeOK
  <2>5. \A r \in Replies : accepting'[r] + inbox'[r] <= repPost'[r].arrivals
    <3> SUFFICES ASSUME NEW r \in Replies
                 PROVE  accepting'[r] + inbox'[r] <= repPost'[r].arrivals
      OBVIOUS
    <3>1. accepting[r] + inbox[r] <= repPost[r].arrivals
      BY DEF CopiesCounted
    <3>2. CASE r = <<m, k>>
      BY <1>t, <2>1, <2>2, <2>4, <3>1, <3>2
    <3>3. CASE r # <<m, k>>
      BY <2>1, <2>2, <2>3, <3>1, <3>3
    <3> QED BY <3>2, <3>3
  <2> QED BY <2>2, <2>5 DEF CopiesCounted
<1>8. ASSUME NEW m \in Messages, NEW k \in 1..MaxReplies,
             PublishReply(m, k) \/ FailReply(m, k)
      PROVE  CopiesCounted'
  <2>0. <<m, k>> \in Replies
    BY DEF Replies
  <2>1. UNCHANGED <<caching, queueing, requests, reqPost, repPost>>
    BY <1>8 DEF PublishReply, FailReply, queues
  <2>2. \A r \in Replies : accepting'[r] + inbox'[r] <= accepting[r] + inbox[r]
    <3>1. CASE PublishReply(m, k)
      BY <3>1, <1>t, <2>0 DEF PublishReply, TypeOK
    <3>2. CASE FailReply(m, k)
      <4>1. accepting' = [accepting EXCEPT ![<<m, k>>] = @ - 1] /\ inbox' = inbox
        BY <3>2 DEF FailReply, queues
      <4> QED BY <4>1, <1>t, <2>0 DEF TypeOK
    <3> QED BY <1>8, <3>1, <3>2
  <2> QED BY <1>b, <1>t, <2>1, <2>2
<1>9. CASE Crash
  <2>1. /\ \A i \in Messages : reqPost'[i].arrivals = reqPost[i].arrivals
        /\ \A r \in Replies : repPost'[r].arrivals = repPost[r].arrivals
    BY <1>9, ReqFacts, RepFacts DEF Crash, CrashProxy, CrashBap, CrashBpp, TypeOK, HopsInv
  <2>2. /\ \A i \in Messages : caching'[i] <= caching[i] /\ queueing'[i] <= queueing[i]
        /\ \A r \in Replies : accepting'[r] <= accepting[r]
        /\ UNCHANGED <<requests, inbox>>
    BY <1>9, <1>t DEF Crash, CrashProxy, CrashBap, CrashBpp, queues, handlers
  <2>3. /\ \A m \in Messages : caching'[m] \in Nat /\ queueing'[m] \in Nat
        /\ \A r \in Replies : accepting'[r] \in Nat
    BY <1>0 DEF TypeOK
  <2> QED BY <1>b, <1>t, <2>1, <2>2, <2>3
<1>10. CASE UNCHANGED vars
  BY <1>10, <1>a DEF vars, queues, handlers
<1> QED BY <1>1, <1>2, <1>3, <1>4, <1>5, <1>6, <1>7, <1>8, <1>9, <1>10
        DEF Next, Forward, Backward

\* Copies at the seller, and replies, come of requests that were posted.
LEMMA CopiesWerePosted ==
  ASSUME TypeOK, HopsInv, CopiesCounted, NEW m \in Messages,
         caching[m] > 0 \/ queueing[m] > 0 \/ requests[m] > 0
  PROVE  reqPost[m].phase # "idle"
<1>1. /\ caching[m] \in Nat /\ queueing[m] \in Nat /\ requests[m] \in Nat
      /\ reqPost[m].arrivals \in Nat
  BY DEF TypeOK, Req!Posting
<1>2. reqPost[m].arrivals > 0
  BY <1>1 DEF CopiesCounted
<1> QED BY <1>2 DEF HopsInv, Req!PostInv, Req!Idle

\* Nothing overtakes the caching of its request, on either side.
LEMMA NextCachedFirst ==
  ASSUME TypeOK, HopsInv, CopiesCounted, CachedFirst, [Next]_vars
  PROVE  CachedFirst'
<1>k. \A m \in Messages : /\ KnownToBap(m) => KnownToBap(m)'
                          /\ KnownToBpp(m) => KnownToBpp(m)'
  <2>1. \/ UNCHANGED caches
        \/ \E m \in Messages : CacheRequest(m) \/ CacheAtSeller(m) \/ Expire(m)
    BY DEF Next, Forward, Backward, Receive, QueueRequest, FailRequest, TakeRequest,
           RequestArrives, RequestSettles, QueueAtSeller, FailAtSeller, Reply, TakeReply,
           DropReply, ReplyArrives, ReplySettles, PublishReply, FailReply, Crash,
           vars
  <2> QED BY <2>1 DEF CacheRequest, CacheAtSeller, Expire, KnownToBap, KnownToBpp, caches
<1>t. /\ \A m \in Messages : /\ queueing[m] \in Nat /\ requests[m] \in Nat /\ replies[m] \in Nat
      /\ \A m \in Messages, k \in 1..MaxReplies : <<m, k>> \in Replies
  BY RelayAssumption DEF TypeOK, Replies
<1>a. ASSUME \A m \in Messages : proxy'[m] = "cached" => proxy[m] = "cached",
             outbox' \subseteq outbox,
             \A m \in Messages : reqPost'[m].phase = "idle" <=> reqPost[m].phase = "idle",
             \A m \in Messages : queueing'[m] > 0 => queueing[m] > 0,
             UNCHANGED <<requests, replies>>,
             \A r \in Replies : repPost'[r].phase = "idle" <=> repPost[r].phase = "idle"
      PROVE  CachedFirst'
  BY <1>a, <1>k, <1>t DEF CachedFirst
<1>1. ASSUME NEW m \in Messages, Receive(m) \/ FailRequest(m) \/ Expire(m)
      PROVE  CachedFirst'
  BY <1>1, <1>a DEF Receive, FailRequest, Expire, queues, handlers, TypeOK
<1>2. ASSUME NEW m \in Messages, CacheRequest(m)
      PROVE  CachedFirst'
  <2>1. KnownToBap(m)'
    BY <1>2 DEF CacheRequest, KnownToBap
  <2> QED BY <1>2, <1>k, <2>1 DEF CacheRequest, CachedFirst, queues, handlers, TypeOK
<1>3. ASSUME NEW m \in Messages, QueueRequest(m)
      PROVE  CachedFirst'
  <2>1. KnownToBap(m)'
    BY <1>3, <1>k DEF QueueRequest, CachedFirst
  <2> QED BY <1>3, <1>k, <2>1 DEF QueueRequest, CachedFirst, handlers, TypeOK
<1>4. ASSUME NEW m \in Messages, TakeRequest(m)
      PROVE  CachedFirst'
  <2>1. /\ \A i \in Messages \ {m} : reqPost'[i] = reqPost[i]
        /\ reqPost'[m].phase # "idle"
    BY <1>4, ReqFacts DEF TakeRequest, TypeOK, HopsInv
  <2>2. KnownToBap(m)'
    BY <1>4, <1>k DEF TakeRequest, CachedFirst
  <2> QED BY <1>4, <1>k, <2>1, <2>2 DEF TakeRequest, CachedFirst, handlers
<1>5. ASSUME NEW m \in Messages, RequestArrives(m)
      PROVE  CachedFirst'
  <2>1. \A i \in Messages : reqPost'[i].phase = "idle" <=> reqPost[i].phase = "idle"
    BY <1>5, ReqFacts DEF RequestArrives, TypeOK, HopsInv
  <2> QED BY <1>5, <1>a, <2>1 DEF RequestArrives, queues
<1>6. ASSUME NEW m \in Messages, RequestSettles(m)
      PROVE  CachedFirst'
  <2>1. \A i \in Messages : reqPost'[i].phase = "idle" <=> reqPost[i].phase = "idle"
    BY <1>6, ReqFacts DEF RequestSettles, TypeOK, HopsInv
  <2> QED BY <1>6, <1>a, <2>1 DEF RequestSettles, queues, handlers
<1>7. ASSUME NEW m \in Messages, CacheAtSeller(m)
      PROVE  CachedFirst'
  <2>1. KnownToBpp(m)'
    BY <1>7 DEF CacheAtSeller, KnownToBpp
  <2> QED BY <1>7, <1>k, <2>1 DEF CacheAtSeller, CachedFirst, queues, TypeOK
<1>8. ASSUME NEW m \in Messages, QueueAtSeller(m)
      PROVE  CachedFirst'
  <2>1. KnownToBpp(m)'
    BY <1>8, <1>k DEF QueueAtSeller, CachedFirst
  <2>2. \A i \in Messages : queueing'[i] > 0 => queueing[i] > 0
    BY <1>8, <1>t DEF QueueAtSeller, TypeOK
  <2> QED BY <1>8, <1>k, <2>1, <2>2 DEF QueueAtSeller, CachedFirst, TypeOK
<1>9. ASSUME NEW m \in Messages, FailAtSeller(m)
      PROVE  CachedFirst'
  <2>1. \A i \in Messages : queueing'[i] > 0 => queueing[i] > 0
    BY <1>9, <1>t DEF FailAtSeller, TypeOK
  <2> QED BY <1>9, <1>a, <2>1 DEF FailAtSeller, queues
<1>10. ASSUME NEW m \in Messages, Reply(m)
       PROVE  CachedFirst'
  <2>1. KnownToBpp(m)' /\ reqPost[m].phase # "idle"
    BY <1>10, <1>k, CopiesWerePosted DEF Reply, CachedFirst
  <2>2. \A i \in Messages : requests'[i] > 0 => requests[i] > 0
    BY <1>10, <1>t DEF Reply, TypeOK
  <2>3. /\ replies' = [replies EXCEPT ![m] = @ + 1]
        /\ UNCHANGED <<proxy, outbox, reqPost, repPost, queueing>>
    BY <1>10 DEF Reply, handlers
  <2>4. /\ \A i \in Messages : replies[i] <= replies'[i]
        /\ \A i \in Messages \ {m} : replies'[i] = replies[i]
    BY <1>t, <2>3 DEF TypeOK
  <2> QED BY <1>k, <1>t, <2>1, <2>2, <2>3, <2>4 DEF CachedFirst
<1>11. ASSUME NEW m \in Messages, NEW k \in 1..MaxReplies, TakeReply(m, k) \/ DropReply(m, k)
       PROVE  CachedFirst'
  <2>1. \A r \in Replies \ {<<m, k>>} : repPost'[r] = repPost[r]
    BY <1>11, <1>t, RepFacts DEF TakeReply, DropReply, TypeOK, HopsInv
  <2>2. k <= replies[m] /\ UNCHANGED <<proxy, outbox, reqPost, queueing, requests, replies>>
    BY <1>11 DEF TakeReply, DropReply, Published, queues, handlers
  <2>3. ASSUME NEW i \in Messages, NEW j \in 1..MaxReplies, repPost'[<<i, j>>].phase # "idle"
        PROVE  j <= replies[i]
    <3>1. CASE <<i, j>> = <<m, k>>
      BY <2>2, <3>1
    <3>2. CASE <<i, j>> # <<m, k>>
      BY <1>t, <2>1, <2>3, <3>2 DEF CachedFirst
    <3> QED BY <3>1, <3>2
  <2> QED BY <1>k, <2>2, <2>3 DEF CachedFirst
<1>12. ASSUME NEW m \in Messages, NEW k \in 1..MaxReplies,
              ReplyArrives(m, k) \/ ReplySettles(m, k) \/ PublishReply(m, k) \/ FailReply(m, k)
       PROVE  CachedFirst'
  <2>1. \A r \in Replies : repPost'[r].phase = "idle" <=> repPost[r].phase = "idle"
    <3>1. CASE ReplyArrives(m, k)
      BY <3>1, <1>t, RepFacts DEF ReplyArrives, TypeOK, HopsInv
    <3>2. CASE ReplySettles(m, k)
      BY <3>2, <1>t, RepFacts DEF ReplySettles, TypeOK, HopsInv
    <3>3. CASE PublishReply(m, k) \/ FailReply(m, k)
      BY <3>3 DEF PublishReply, FailReply
    <3> QED BY <1>12, <3>1, <3>2, <3>3
  <2> QED BY <1>12, <1>a, <2>1 DEF ReplyArrives, ReplySettles, PublishReply, FailReply,
                                    queues, handlers
<1>13. CASE Crash
  <2>1. /\ \A i \in Messages : reqPost'[i].phase = "idle" <=> reqPost[i].phase = "idle"
        /\ \A r \in Replies : repPost'[r].phase = "idle" <=> repPost[r].phase = "idle"
    BY <1>13, ReqFacts, RepFacts DEF Crash, CrashProxy, CrashBap, CrashBpp, TypeOK, HopsInv
  <2>2. /\ \A i \in Messages : proxy'[i] = "cached" => proxy[i] = "cached"
        /\ \A i \in Messages : queueing'[i] > 0 => queueing[i] > 0
        /\ UNCHANGED <<outbox, requests, replies>>
    BY <1>13, <1>t DEF Crash, CrashProxy, CrashBap, CrashBpp, queues, handlers
  <2> QED BY <1>a, <2>1, <2>2
<1>14. CASE UNCHANGED vars
  BY <1>14, <1>a DEF vars, queues, handlers
<1> QED BY <1>1, <1>2, <1>3, <1>4, <1>5, <1>6, <1>7, <1>8, <1>9, <1>10, <1>11, <1>12,
           <1>13, <1>14
        DEF Next, Forward, Backward

\* A reply without an entry had one before: it was not there too early.
LEMMA NextTimedOutOnlyIfExpired ==
  ASSUME TypeOK, HopsInv, CopiesCounted, CachedFirst, TimedOutOnlyIfExpired, [Next]_vars
  PROVE  TimedOutOnlyIfExpired'
<1>1. bapExpired \subseteq bapExpired' /\ bppExpired \subseteq bppExpired'
  BY DEF Next, Forward, Backward, Receive, CacheRequest, QueueRequest, FailRequest,
         TakeRequest, RequestArrives, RequestSettles, CacheAtSeller, QueueAtSeller,
         FailAtSeller, Reply, TakeReply, DropReply, ReplyArrives, ReplySettles,
         PublishReply, FailReply, Expire, Crash, caches, vars
<1>2. CASE UNCHANGED <<dropped, refused>>
  BY <1>1, <1>2 DEF TimedOutOnlyIfExpired
<1>3. ASSUME NEW m \in Messages, NEW k \in 1..MaxReplies, DropReply(m, k)
      PROVE  TimedOutOnlyIfExpired'
  <2>1. replies[m] > 0
    BY <1>3, RelayAssumption DEF DropReply, Published, TypeOK
  <2>2. m \in bppExpired
    BY <1>3, <2>1 DEF DropReply, CachedFirst, KnownToBpp
  <2> QED BY <1>1, <1>3, <2>2 DEF DropReply, TimedOutOnlyIfExpired
<1>4. ASSUME NEW m \in Messages, NEW k \in 1..MaxReplies, ReplyArrives(m, k)
      PROVE  TimedOutOnlyIfExpired'
  <2>0. <<m, k>> \in Replies
    BY DEF Replies
  <2>1. repPost[<<m, k>>].phase # "idle"
    BY <1>4, <2>0, RepFacts DEF ReplyArrives, TypeOK, HopsInv
  <2>2. replies[m] > 0
    BY <2>1, RelayAssumption DEF CachedFirst, TypeOK
  <2>3. m \in bapCache \cup bapExpired
    BY <2>2 DEF CachedFirst, KnownToBap
  <2> QED BY <1>1, <1>4, <2>3 DEF ReplyArrives, TimedOutOnlyIfExpired
<1>5. \/ UNCHANGED <<dropped, refused>>
      \/ \E m \in Messages, k \in 1..MaxReplies : DropReply(m, k) \/ ReplyArrives(m, k)
  BY DEF Next, Forward, Backward, Receive, CacheRequest, QueueRequest, FailRequest,
         TakeRequest, RequestArrives, RequestSettles, CacheAtSeller, QueueAtSeller,
         FailAtSeller, Reply, TakeReply, ReplySettles, PublishReply, FailReply, Expire, Crash,
         history, vars
<1> QED BY <1>2, <1>3, <1>4, <1>5

\* The invariant is inductive.
LEMMA RelayInvariance == Spec => []RelayInv
<1>1. RelayInv /\ [Next]_vars => RelayInv'
  BY NextTypeOK, NextHopsInv, NextCopiesCounted, NextCachedFirst, NextTimedOutOnlyIfExpired
     DEF RelayInv
<1> QED BY InitRelayInv, <1>1, PTL DEF Spec

\* Type correctness.
THEOREM RelayTypeCorrect == Spec => []TypeOK
<1>1. RelayInv => TypeOK
  BY DEF RelayInv
<1> QED BY <1>1, RelayInvariance, PTL

\* A reply is treated as timed out, by bpp-network or by bap-network, only where
\* the entry of its request was cached and has expired.
THEOREM RepliesAreNeverTooEarly == Spec => []TimedOutOnlyIfExpired
<1>1. RelayInv => TimedOutOnlyIfExpired
  BY DEF RelayInv
<1> QED BY <1>1, RelayInvariance, PTL

\* The retries of the two loops bound the copies either queue sees.
THEOREM RetriesBoundCopies == Spec => []CopiesBounded
<1>1. RelayInv => CopiesBounded
  <2> SUFFICES ASSUME RelayInv PROVE CopiesBounded
    OBVIOUS
  <2>1. ASSUME NEW m \in Messages
        PROVE  requests[m] <= Req!Calls * (BapRetries + 1)
    <3>1. reqPost[m].arrivals <= Req!Calls * (BapRetries + 1)
      BY ReqFacts DEF RelayInv, TypeOK, HopsInv, Req!ArrivalsBounded
    <3>2. /\ requests[m] \in Nat /\ caching[m] \in Nat /\ queueing[m] \in Nat
          /\ reqPost[m].arrivals \in Nat
          /\ caching[m] + queueing[m] + requests[m] <= reqPost[m].arrivals
      BY DEF RelayInv, TypeOK, CopiesCounted, Req!Posting
    <3>3. Req!Calls * (BapRetries + 1) \in Nat
      BY RelayAssumption, ReqHop!CallsPay DEF ReqHop!Sizes, ReqHop!Calls, Req!Calls
    <3> QED BY <3>1, <3>2, <3>3
  <2>2. ASSUME NEW r \in Replies
        PROVE  inbox[r] <= Rep!Calls * (BppRetries + 1)
    <3>1. repPost[r].arrivals <= Rep!Calls * (BppRetries + 1)
      BY RepFacts DEF RelayInv, TypeOK, HopsInv, Rep!ArrivalsBounded
    <3>2. /\ accepting[r] \in Nat /\ inbox[r] \in Nat /\ repPost[r].arrivals \in Nat
          /\ accepting[r] + inbox[r] <= repPost[r].arrivals
      BY DEF RelayInv, TypeOK, CopiesCounted, Rep!Posting
    <3>3. Rep!Calls * (BppRetries + 1) \in Nat
      BY RelayAssumption, RepHop!CallsPay DEF RepHop!Sizes, RepHop!Calls, Rep!Calls
    <3> QED BY <3>1, <3>2, <3>3
  <2> QED BY <2>1, <2>2 DEF CopiesBounded
<1> QED BY <1>1, RelayInvariance, PTL

-----------------------------------------------------------------------------
(***************************************************************************)
(* Nothing that was acknowledged gets out of hand                          *)
(***************************************************************************)

\* How a request moves over its hop: a post that may arrive stays one, arrives,
\* or fails for good, and the other posts stay where they are.
LEMMA ReqMoves ==
  ASSUME reqPost \in [Messages -> Req!Posting], NEW i \in Messages
  PROVE  /\ Req!Start(i) \/ Req!StartFails(i) \/ Req!Retry(i) =>
              reqPost[i].phase # "failed" /\ reqPost'[i].phase \in {"sent", "failed"}
         /\ Req!Succeed(i) => reqPost[i].phase = "arrived"
         /\ Req!Arrive(i) => reqPost[i].phase = "sent"
         /\ Req!ArriveLate(i) => reqPost'[i].phase = reqPost[i].phase
         /\ Req!Start(i) \/ Req!StartFails(i) \/ Req!Retry(i) \/ Req!Succeed(i)
              \/ Req!Arrive(i) \/ Req!ArriveLate(i) =>
              \A j \in Messages \ {i} : reqPost'[j] = reqPost[j]
BY DEF Req!Start, Req!StartFails, Req!Retry, Req!Resend, Req!CallAgain, Req!GiveUp,
       Req!Succeed, Req!Arrive, Req!ArriveLate, Req!Change, Req!Waiting, Req!Posting

\* The same of a reply, which may also be left out.
LEMMA RepMoves ==
  ASSUME repPost \in [Replies -> Rep!Posting], NEW i \in Replies
  PROVE  /\ Rep!Start(i) \/ Rep!StartFails(i) \/ Rep!Retry(i) =>
              repPost[i].phase # "failed" /\ repPost'[i].phase \in {"sent", "failed"}
         /\ Rep!Succeed(i) => repPost[i].phase = "arrived"
         /\ Rep!Skip(i) => repPost[i].phase = "idle"
         /\ Rep!Arrive(i) => repPost[i].phase = "sent"
         /\ Rep!ArriveLate(i) => repPost'[i].phase = repPost[i].phase
         /\ Rep!Start(i) \/ Rep!StartFails(i) \/ Rep!Retry(i) \/ Rep!Succeed(i)
              \/ Rep!Skip(i) \/ Rep!Arrive(i) \/ Rep!ArriveLate(i) =>
              \A j \in Replies \ {i} : repPost'[j] = repPost[j]
BY DEF Rep!Start, Rep!StartFails, Rep!Retry, Rep!Resend, Rep!CallAgain, Rep!GiveUp,
       Rep!Succeed, Rep!Skip, Rep!Arrive, Rep!ArriveLate, Rep!Change, Rep!Waiting, Rep!Posting

\* A post that was given up stays given up.
LEMMA FailedStays ==
  ASSUME TypeOK, [Next]_vars
  PROVE  /\ \A m \in Messages : reqPost[m].phase = "failed" => reqPost'[m].phase = "failed"
         /\ \A r \in Replies : repPost[r].phase = "failed" => repPost'[r].phase = "failed"
<1> USE DEF TypeOK
<1>1. ASSUME NEW m \in Messages, reqPost[m].phase = "failed"
      PROVE  reqPost'[m].phase = "failed"
  <2>1. ASSUME NEW i \in Messages,
               \/ Req!Start(i) \/ Req!StartFails(i) \/ Req!Retry(i)
               \/ Req!Succeed(i) \/ Req!Arrive(i) \/ Req!ArriveLate(i)
        PROVE  reqPost'[m].phase = "failed"
    BY <1>1, <2>1, ReqMoves
  <2>2. ASSUME NEW i \in Messages, Req!Skip(i)
        PROVE  reqPost'[m].phase = "failed"
    BY <1>1, <2>2 DEF Req!Skip, Req!Change
  <2>3. CASE Req!Abort
    BY <1>1, <2>3 DEF Req!Abort, Req!Waiting
  <2>4. CASE UNCHANGED reqPost
    BY <1>1, <2>4
  <2> QED  BY <2>1, <2>2, <2>3, <2>4, StepsOfHops DEF Req!Next
<1>2. ASSUME NEW r \in Replies, repPost[r].phase = "failed"
      PROVE  repPost'[r].phase = "failed"
  <2>1. ASSUME NEW i \in Replies,
               \/ Rep!Start(i) \/ Rep!StartFails(i) \/ Rep!Retry(i) \/ Rep!Skip(i)
               \/ Rep!Succeed(i) \/ Rep!Arrive(i) \/ Rep!ArriveLate(i)
        PROVE  repPost'[r].phase = "failed"
    BY <1>2, <2>1, RepMoves
  <2>2. CASE Rep!Abort
    BY <1>2, <2>2 DEF Rep!Abort, Rep!Waiting
  <2>3. CASE UNCHANGED repPost
    BY <1>2, <2>3
  <2> QED  BY <2>1, <2>2, <2>3, StepsOfHops DEF Rep!Next
<1> QED  BY <1>1, <1>2

\* An answer is not taken back and a harm not made good.
LEMMA EndStays ==
  ASSUME TypeOK, [Next]_vars, NEW m \in Messages, Answered(m) \/ Harmed(m)
  PROVE  Answered(m)' \/ Harmed(m)'
<1>0. \A k \in 1..MaxReplies : <<m, k>> \in Replies
  BY DEF Replies
<1>1. /\ errors \subseteq errors' /\ bapExpired \subseteq bapExpired'
      /\ bppExpired \subseteq bppExpired'
  BY DEF Next, Forward, Backward, Receive, CacheRequest, QueueRequest, FailRequest,
         TakeRequest, RequestArrives, RequestSettles, CacheAtSeller, QueueAtSeller,
         FailAtSeller, Reply, TakeReply, DropReply, ReplyArrives, ReplySettles,
         PublishReply, FailReply, Expire, Crash, caches, history, vars
<1>2. \A r \in Replies : inbox[r] > 0 => inbox'[r] > 0
  <2>1. \/ UNCHANGED inbox
        \/ \E r \in Replies : inbox' = [inbox EXCEPT ![r] = @ + 1]
    BY DEF Next, Forward, Backward, Receive, CacheRequest, QueueRequest, FailRequest,
           TakeRequest, RequestArrives, RequestSettles, CacheAtSeller, QueueAtSeller,
           FailAtSeller, Reply, TakeReply, DropReply, ReplyArrives, ReplySettles,
           PublishReply, FailReply, Expire, Crash, queues, vars, Replies
  <2> QED  BY <2>1 DEF TypeOK
<1>3. crashes > 0 => crashes' > 0
  <2>1. UNCHANGED crashes \/ crashes' = crashes + 1
    BY DEF Next, Forward, Backward, Receive, CacheRequest, QueueRequest, FailRequest,
           TakeRequest, RequestArrives, RequestSettles, CacheAtSeller, QueueAtSeller,
           FailAtSeller, Reply, TakeReply, DropReply, ReplyArrives, ReplySettles,
           PublishReply, FailReply, Expire, Crash, history, vars
  <2> QED  BY <2>1 DEF TypeOK
<1> QED  BY <1>0, <1>1, <1>2, <1>3, FailedStays DEF Answered, Harmed

\* Whoever keeps what it had in hand of m holds m.
LEMMA HoldersKeep ==
  ASSUME NEW m \in Messages, Held(m),
         proxy[m] \in {"acked", "cached"} => proxy'[m] \in {"acked", "cached"},
         m \in outbox => m \in outbox',
         reqPost[m].phase = "sent" => reqPost'[m].phase = "sent",
         caching[m] > 0 => caching'[m] > 0,
         queueing[m] > 0 => queueing'[m] > 0,
         requests[m] > 0 => requests'[m] > 0,
         \A k \in 1..MaxReplies :
           /\ k <= replies[m] => k <= replies'[m]
           /\ repPost[<<m, k>>].phase \in {"idle", "sent"} =>
                repPost'[<<m, k>>].phase \in {"idle", "sent"}
           /\ accepting[<<m, k>>] > 0 => accepting'[<<m, k>>] > 0
  PROVE  Held(m)'
BY DEF Held

\* Each hand passes an acknowledged message on before it lets go of it.
LEMMA NextAckedIsHeld ==
  ASSUME RelayInv, AckedIsHeld, [Next]_vars
  PROVE  AckedIsHeld'
<1> USE DEF RelayInv
<1>t. /\ caching \in [Messages -> Nat] /\ queueing \in [Messages -> Nat]
      /\ requests \in [Messages -> Nat] /\ replies \in [Messages -> Nat]
      /\ accepting \in [Replies -> Nat] /\ inbox \in [Replies -> Nat]
      /\ proxy \in [Messages -> Steps]
      /\ reqPost \in [Messages -> Req!Posting] /\ repPost \in [Replies -> Rep!Posting]
      /\ \A i \in Messages, k \in 1..MaxReplies : <<i, k>> \in Replies
  BY RelayAssumption DEF TypeOK, Replies
<1> SUFFICES ASSUME NEW m \in Messages, proxy'[m] \in {"acked", "cached", "queued"}
             PROVE  Held(m)' \/ Answered(m)' \/ Harmed(m)'
  BY DEF AckedIsHeld
\* The handler of bap-proxy has just acknowledged it.
<1>1. CASE proxy[m] \notin {"acked", "cached", "queued"}
  <2>1. proxy'[m] = "acked"
    BY <1>1, <1>t
       DEF Next, Forward, Backward, Receive, CacheRequest, QueueRequest, FailRequest,
           TakeRequest, RequestArrives, RequestSettles, CacheAtSeller, QueueAtSeller,
           FailAtSeller, Reply, TakeReply, DropReply, ReplyArrives, ReplySettles,
           PublishReply, FailReply, Expire, Crash, CrashProxy, CrashBap, CrashBpp, vars,
           Steps
  <2> QED  BY <2>1 DEF Held
<1>2. CASE Answered(m) \/ Harmed(m)
  BY <1>2, EndStays
<1>3. CASE Held(m) /\ proxy[m] \in {"acked", "cached", "queued"}
  <2>1. ASSUME NEW i \in Messages, Receive(i) \/ CacheRequest(i) \/ Expire(i)
        PROVE  Held(m)'
    BY <1>3, <1>t, <2>1, HoldersKeep
       DEF Receive, CacheRequest, Expire, queues, handlers
  <2>2. ASSUME NEW i \in Messages, QueueRequest(i) PROVE Held(m)'
    <3>1. CASE i = m
      BY <2>2, <3>1 DEF QueueRequest, Held
    <3>2. CASE i # m
      BY <1>3, <1>t, <2>2, <3>2, HoldersKeep DEF QueueRequest, handlers
    <3> QED  BY <3>1, <3>2
  <2>3. ASSUME NEW i \in Messages, FailRequest(i) \/ FailAtSeller(i)
        PROVE  Held(m)' \/ Harmed(m)'
    <3>1. CASE i = m
      BY <2>3, <3>1 DEF FailRequest, FailAtSeller, Harmed
    <3>2. CASE i # m
      BY <1>3, <1>t, <2>3, <3>2, HoldersKeep DEF FailRequest, FailAtSeller, queues, handlers
    <3> QED  BY <3>1, <3>2
  <2>4. ASSUME NEW i \in Messages, TakeRequest(i) PROVE Held(m)' \/ Harmed(m)'
    <3>1. CASE i = m
      <4>1. reqPost'[m].phase \in {"sent", "failed"}
        BY <1>t, <2>4, <3>1, ReqMoves DEF TakeRequest
      <4> QED  BY <4>1 DEF Held, Harmed
    <3>2. CASE i # m
      <4>1. reqPost'[m] = reqPost[m]
        BY <1>t, <2>4, <3>2, ReqMoves DEF TakeRequest
      <4> QED  BY <1>3, <2>4, <3>2, <4>1, HoldersKeep DEF TakeRequest, handlers
    <3> QED  BY <3>1, <3>2
  <2>5. ASSUME NEW i \in Messages, RequestArrives(i) PROVE Held(m)'
    <3>1. CASE i = m
      BY <1>t, <2>5, <3>1 DEF RequestArrives, Held
    <3>2. CASE i # m
      <4>1. reqPost'[m] = reqPost[m]
        BY <1>t, <2>5, <3>2, ReqMoves DEF RequestArrives
      <4> QED  BY <1>3, <1>t, <2>5, <3>2, <4>1, HoldersKeep DEF RequestArrives, queues
    <3> QED  BY <3>1, <3>2
  <2>6. ASSUME NEW i \in Messages, RequestSettles(i) PROVE Held(m)' \/ Harmed(m)'
    <3>1. reqPost[m].phase = "sent" => reqPost'[m].phase \in {"sent", "failed"}
      BY <1>t, <2>6, ReqMoves DEF RequestSettles
    <3>2. CASE reqPost'[m].phase = "failed"
      BY <3>2 DEF Harmed
    <3>3. CASE reqPost'[m].phase # "failed"
      BY <1>3, <2>6, <3>1, <3>3, HoldersKeep DEF RequestSettles, queues, handlers
    <3> QED  BY <3>2, <3>3
  <2>7. ASSUME NEW i \in Messages, CacheAtSeller(i) \/ QueueAtSeller(i) PROVE Held(m)'
    <3>1. CASE i = m
      BY <1>t, <2>7, <3>1 DEF CacheAtSeller, QueueAtSeller, Held
    <3>2. CASE i # m
      BY <1>3, <1>t, <2>7, <3>2, HoldersKeep DEF CacheAtSeller, QueueAtSeller, queues
    <3> QED  BY <3>1, <3>2
  <2>8. ASSUME NEW i \in Messages, Reply(i) PROVE Held(m)'
    <3>1. CASE i = m
      <4> DEFINE k == replies[m] + 1
      <4>1. k \in 1..MaxReplies /\ replies'[m] = k /\ repPost' = repPost
        BY <1>t, <2>8, <3>1, RelayAssumption DEF Reply
      <4>2. repPost[<<m, k>>].phase = "idle"
        BY <1>t, <4>1 DEF CachedFirst
      <4> QED  BY <4>1, <4>2 DEF Held
    <3>2. CASE i # m
      BY <1>3, <1>t, <2>8, <3>2, HoldersKeep DEF Reply, handlers
    <3> QED  BY <3>1, <3>2
  <2>9. ASSUME NEW i \in Messages, NEW k \in 1..MaxReplies, TakeReply(i, k)
        PROVE  Held(m)' \/ Harmed(m)'
    <3>1. /\ repPost'[<<i, k>>].phase \in {"sent", "failed"}
          /\ \A j \in 1..MaxReplies : <<m, j>> # <<i, k>> => repPost'[<<m, j>>] = repPost[<<m, j>>]
      BY <1>t, <2>9, RepMoves DEF TakeReply
    <3>2. CASE i = m /\ repPost'[<<i, k>>].phase = "failed"
      BY <3>2 DEF Harmed
    <3>3. CASE i # m \/ repPost'[<<i, k>>].phase = "sent"
      BY <1>3, <2>9, <3>1, <3>3, HoldersKeep DEF TakeReply, queues, handlers
    <3> QED  BY <3>1, <3>2, <3>3
  \* A reply without an entry: the entry of its request has expired.
  <2>10. ASSUME NEW i \in Messages, NEW k \in 1..MaxReplies, DropReply(i, k)
         PROVE  Held(m)' \/ Harmed(m)'
    <3>1. CASE i = m
      <4>1. replies[m] > 0 /\ m \notin bppCache /\ UNCHANGED bppExpired
        BY <1>t, <2>10, <3>1 DEF DropReply, Published, caches
      <4> QED  BY <4>1 DEF CachedFirst, KnownToBpp, Harmed
    <3>2. CASE i # m
      <4>1. \A j \in 1..MaxReplies : repPost'[<<m, j>>] = repPost[<<m, j>>]
        BY <1>t, <2>10, <3>2, RepMoves DEF DropReply
      <4> QED  BY <1>3, <2>10, <4>1, HoldersKeep DEF DropReply, queues, handlers
    <3> QED  BY <3>1, <3>2
  <2>11. ASSUME NEW i \in Messages, NEW k \in 1..MaxReplies, ReplyArrives(i, k)
         PROVE  Held(m)' \/ Harmed(m)'
    <3>0. \A j \in 1..MaxReplies : <<m, j>> # <<i, k>> =>
            /\ repPost'[<<m, j>>] = repPost[<<m, j>>]
            /\ accepting'[<<m, j>>] = accepting[<<m, j>>]
      BY <1>t, <2>11, RepMoves DEF ReplyArrives
    <3>1. CASE i = m
      <4>1. repPost[<<m, k>>].phase # "idle"
        BY <1>t, <2>11, <3>1, RepFacts DEF ReplyArrives, HopsInv
      <4>2. k <= replies[m] /\ replies[m] > 0
        BY <1>t, <4>1 DEF CachedFirst
      <4>3. CASE m \in bapCache
        <5>1. accepting' = [accepting EXCEPT ![<<m, k>>] = @ + 1] /\ replies' = replies
          BY <2>11, <3>1, <4>3 DEF ReplyArrives, queues
        <5>2. accepting'[<<m, k>>] > 0
          BY <1>t, <5>1
        <5> QED  BY <4>2, <5>1, <5>2 DEF Held
      <4>4. CASE m \notin bapCache
        <5>1. m \in bapExpired
          BY <4>2, <4>4 DEF CachedFirst, KnownToBap
        <5> QED  BY <2>11, <5>1 DEF ReplyArrives, Harmed, caches
      <4> QED  BY <4>3, <4>4
    <3>2. CASE i # m
      BY <1>3, <2>11, <3>0, <3>2, HoldersKeep DEF ReplyArrives, queues
    <3> QED  BY <3>1, <3>2
  <2>12. ASSUME NEW i \in Messages, NEW k \in 1..MaxReplies, ReplySettles(i, k)
         PROVE  Held(m)' \/ Harmed(m)'
    <3>1. \A j \in 1..MaxReplies :
            repPost[<<m, j>>].phase \in {"idle", "sent"} =>
              repPost'[<<m, j>>].phase \in {"idle", "sent", "failed"}
      BY <1>t, <2>12, RepMoves DEF ReplySettles
    <3>2. CASE \E j \in 1..MaxReplies : repPost'[<<m, j>>].phase = "failed"
      BY <3>2 DEF Harmed
    <3>3. CASE \A j \in 1..MaxReplies : repPost'[<<m, j>>].phase # "failed"
      BY <1>3, <2>12, <3>1, <3>3, HoldersKeep DEF ReplySettles, queues, handlers
    <3> QED  BY <3>2, <3>3
  <2>13. ASSUME NEW i \in Messages, NEW k \in 1..MaxReplies, PublishReply(i, k)
         PROVE  Held(m)' \/ Answered(m)'
    <3>1. CASE i = m
      BY <1>t, <2>13, <3>1 DEF PublishReply, Answered
    <3>2. CASE i # m
      BY <1>3, <1>t, <2>13, <3>2, HoldersKeep DEF PublishReply
    <3> QED  BY <3>1, <3>2
  <2>14. ASSUME NEW i \in Messages, NEW k \in 1..MaxReplies, FailReply(i, k)
         PROVE  Held(m)' \/ Harmed(m)'
    <3>1. CASE i = m
      BY <2>14, <3>1 DEF FailReply, Harmed
    <3>2. CASE i # m
      BY <1>3, <1>t, <2>14, <3>2, HoldersKeep DEF FailReply, queues
    <3> QED  BY <3>1, <3>2
  <2>15. CASE Crash
    BY <2>15 DEF Crash, Harmed, TypeOK
  <2>16. CASE UNCHANGED vars
    BY <1>3, <2>16, HoldersKeep DEF vars, queues, handlers
  <2> QED
    BY <2>1, <2>2, <2>3, <2>4, <2>5, <2>6, <2>7, <2>8, <2>9, <2>10, <2>11, <2>12, <2>13,
       <2>14, <2>15, <2>16
       DEF Next, Forward, Backward
<1> QED  BY <1>1, <1>2, <1>3 DEF AckedIsHeld

\* An acknowledged request is answered, in somebody's hands, or was harmed by
\* what the relay is known not to make up for.
THEOREM AckedRequestsAreHeld == Spec => []AckedIsHeld
<1>1. Init => AckedIsHeld
  BY DEF Init, AckedIsHeld
<1>2. RelayInv /\ AckedIsHeld /\ [Next]_vars => AckedIsHeld'
  BY NextAckedIsHeld
<1> QED  BY <1>1, <1>2, RelayInvariance, PTL DEF Spec

-----------------------------------------------------------------------------
(***************************************************************************)
(* The relay implements RelayPromise                                       *)
(***************************************************************************)

\* Only requests that bap-proxy has acknowledged were ever cached.
AcceptedFirst == \A m \in Messages : KnownToBap(m) => m \in Accepted

\* No step takes an acknowledgement back, and only Receive gives one.
LEMMA AcceptedStays ==
  ASSUME TypeOK, [Next]_vars
  PROVE  /\ Accepted' = Accepted
         \/ \E m \in Messages : Receive(m) /\ proxy'[m] = "acked"
<1> SUFFICES ASSUME \A m \in Messages : ~ (Receive(m) /\ proxy'[m] = "acked")
             PROVE  Accepted' = Accepted
  OBVIOUS
<1>1. ASSUME NEW m \in Messages
      PROVE  m \in Accepted' <=> m \in Accepted
  BY DEF TypeOK, Accepted, Next, Forward, Backward, Receive, CacheRequest, QueueRequest,
         FailRequest, TakeRequest, RequestArrives, RequestSettles, CacheAtSeller,
         QueueAtSeller, FailAtSeller, Reply, TakeReply, DropReply, ReplyArrives,
         ReplySettles, PublishReply, FailReply, Expire, Crash, CrashProxy, CrashBap,
         CrashBpp, vars
<1> QED  BY <1>1 DEF Accepted

\* Every step keeps it so: the cache is filled by the handler that acknowledged.
LEMMA NextAcceptedFirst ==
  ASSUME TypeOK, AcceptedFirst, [Next]_vars
  PROVE  AcceptedFirst'
<1>1. Accepted \subseteq Accepted'
  BY AcceptedStays DEF Accepted, Receive, TypeOK
<1>2. CASE \E m \in Messages : CacheRequest(m)
  <2> PICK m \in Messages : CacheRequest(m)
    BY <1>2
  <2>1. m \in Accepted
    BY DEF CacheRequest, Accepted
  <2>2. bapCache' = bapCache \cup {m} /\ UNCHANGED bapExpired
    BY DEF CacheRequest
  <2> QED  BY <1>1, <2>1, <2>2 DEF AcceptedFirst, KnownToBap
<1>3. CASE \E m \in Messages : Expire(m)
  BY <1>1, <1>3 DEF Expire, AcceptedFirst, KnownToBap
<1>4. CASE UNCHANGED <<bapCache, bapExpired>>
  BY <1>1, <1>4 DEF AcceptedFirst, KnownToBap
<1> QED
  BY <1>2, <1>3, <1>4
     DEF Next, Forward, Backward, Receive, QueueRequest, FailRequest, TakeRequest,
         RequestArrives, RequestSettles, CacheAtSeller, QueueAtSeller, FailAtSeller,
         Reply, TakeReply, DropReply, ReplyArrives, ReplySettles, PublishReply,
         FailReply, Crash, caches, vars

\* What is still to come covers the copies at work and never exceeds the loops.
WithinBudget ==
  /\ Req!Calls * (BapRetries + 1) \in Nat /\ Rep!Calls * (BppRetries + 1) \in Nat
  /\ RequestsToCome \in [Messages -> 0..(Req!Calls * (BapRetries + 1))]
  /\ RepliesToCome \in [Replies -> 0..(Rep!Calls * (BppRetries + 1))]
  /\ \A m \in Messages : RequestsToCome[m] >= caching[m] + queueing[m]
  /\ \A r \in Replies : RepliesToCome[r] >= accepting[r]

\* It follows of the counts of copies and of the bound of the hops.
LEMMA ToComeBounds == RelayInv => WithinBudget
<1> SUFFICES ASSUME RelayInv PROVE WithinBudget
  OBVIOUS
<1>1. Req!Calls * (BapRetries + 1) \in Nat /\ Rep!Calls * (BppRetries + 1) \in Nat
  BY RelayAssumption, ReqHop!CallsPay, RepHop!CallsPay
     DEF ReqHop!Sizes, RepHop!Sizes, ReqHop!Calls, RepHop!Calls, Req!Calls, Rep!Calls
<1>2. /\ \A m \in Messages : reqPost[m].arrivals <= Req!Calls * (BapRetries + 1)
      /\ \A r \in Replies : repPost[r].arrivals <= Rep!Calls * (BppRetries + 1)
  BY ReqFacts, RepFacts
     DEF RelayInv, TypeOK, HopsInv, Req!ArrivalsBounded, Rep!ArrivalsBounded
<1>3. /\ \A m \in Messages :
           /\ caching[m] \in Nat /\ queueing[m] \in Nat /\ requests[m] \in Nat
           /\ reqPost[m].arrivals \in Nat
           /\ caching[m] + queueing[m] + requests[m] <= reqPost[m].arrivals
      /\ \A r \in Replies :
           /\ accepting[r] \in Nat /\ inbox[r] \in Nat /\ repPost[r].arrivals \in Nat
           /\ accepting[r] + inbox[r] <= repPost[r].arrivals
  BY DEF RelayInv, TypeOK, CopiesCounted, Req!Posting, Rep!Posting
<1>4. ASSUME NEW m \in Messages
      PROVE  /\ RequestsToCome[m] \in 0..(Req!Calls * (BapRetries + 1))
             /\ RequestsToCome[m] >= caching[m] + queueing[m]
  BY <1>1, <1>2, <1>3 DEF RequestsToCome
<1>5. ASSUME NEW r \in Replies
      PROVE  /\ RepliesToCome[r] \in 0..(Rep!Calls * (BppRetries + 1))
             /\ RepliesToCome[r] >= accepting[r]
  BY <1>1, <1>2, <1>3 DEF RepliesToCome
<1> QED  BY <1>1, <1>4, <1>5 DEF WithinBudget, RequestsToCome, RepliesToCome

\* At the start nothing was accepted and everything may still come.
LEMMA InitPromise == Init => Promise!Init
<1> SUFFICES ASSUME Init PROVE Promise!Init
  OBVIOUS
<1>1. Req!Calls * (BapRetries + 1) \in Nat /\ Rep!Calls * (BppRetries + 1) \in Nat
  BY InitRelayInv, ToComeBounds DEF WithinBudget
<1>2. /\ Accepted = {} /\ Promise!Replies = Replies
      /\ RequestsToCome = [m \in Messages |-> Req!Calls * (BapRetries + 1)]
      /\ RepliesToCome = [r \in Replies |-> Rep!Calls * (BppRetries + 1)]
  BY <1>1 DEF Init, Req!Init, Rep!Init, Req!Idle, Rep!Idle, Accepted, RequestsToCome,
              RepliesToCome, Promise!Replies, Replies
<1> QED  BY <1>2 DEF Init, Promise!Init

\* A step that changes no account is a stutter of the promise.
LEMMA Stutters ==
  ASSUME Accepted' = Accepted, UNCHANGED <<requests, replies, inbox>>,
         \A m \in Messages : RequestsToCome'[m] = RequestsToCome[m],
         \A r \in Replies : RepliesToCome'[r] = RepliesToCome[r]
  PROVE  UNCHANGED Promise!vars
<1>1. RequestsToCome' = RequestsToCome /\ RepliesToCome' = RepliesToCome
  BY DEF RequestsToCome, RepliesToCome
<1> QED  BY <1>1 DEF Promise!vars

\* A step that brings nothing and only makes less to come loses copies.
LEMMA Losses ==
  ASSUME RelayInv, RelayInv', Accepted' = Accepted, UNCHANGED <<requests, replies, inbox>>,
         \A m \in Messages : RequestsToCome'[m] <= RequestsToCome[m],
         \A r \in Replies : RepliesToCome'[r] <= RepliesToCome[r]
  PROVE  Promise!Next
<1>1. /\ RequestsToCome' \in [Messages -> 0..(Req!Calls * (BapRetries + 1))]
      /\ RepliesToCome' \in [Replies -> 0..(Rep!Calls * (BppRetries + 1))]
  <2>1. WithinBudget'
    BY ToComeBounds, PTL
  <2> QED  BY <2>1 DEF WithinBudget, Req!Calls, Rep!Calls
<1> QED  BY <1>1 DEF Promise!Next, Promise!LoseCopies, Promise!Replies, Replies

\* Each step of the relay is a step of the promise or none.
LEMMA NextPromise ==
  ASSUME RelayInv, RelayInv', AcceptedFirst, [Next]_vars
  PROVE  [Promise!Next]_(Promise!vars)
<1>t. /\ caching \in [Messages -> Nat] /\ queueing \in [Messages -> Nat]
      /\ requests \in [Messages -> Nat] /\ replies \in [Messages -> Nat]
      /\ accepting \in [Replies -> Nat] /\ inbox \in [Replies -> Nat]
      /\ \A i \in Messages : reqPost[i].arrivals \in Nat
      /\ \A r \in Replies : repPost[r].arrivals \in Nat
      /\ \A i \in Messages, k \in 1..MaxReplies : <<i, k>> \in Replies
      /\ TypeOK
  BY RelayAssumption DEF RelayInv, TypeOK, Replies, Req!Posting, Rep!Posting
<1>b. WithinBudget
  BY ToComeBounds
<1>f. PICK C \in Nat, D \in Nat :
        C = Req!Calls * (BapRetries + 1) /\ D = Rep!Calls * (BppRetries + 1)
  BY <1>b DEF WithinBudget
<1>c. /\ \A m \in Messages :
           RequestsToCome'[m] = C - reqPost'[m].arrivals + caching'[m] + queueing'[m]
      /\ \A r \in Replies : RepliesToCome'[r] = D - repPost'[r].arrivals + accepting'[r]
  BY <1>f DEF RequestsToCome, RepliesToCome, Req!Calls, Rep!Calls
<1>e. /\ \A m \in Messages :
           RequestsToCome[m] = C - reqPost[m].arrivals + caching[m] + queueing[m]
      /\ \A r \in Replies : RepliesToCome[r] = D - repPost[r].arrivals + accepting[r]
  BY <1>f DEF RequestsToCome, RepliesToCome
<1>g. /\ \A m \in Messages : RequestsToCome[m] \in Nat /\ RequestsToCome[m] >= caching[m] + queueing[m]
      /\ \A r \in Replies : RepliesToCome[r] \in Nat /\ RepliesToCome[r] >= accepting[r]
  BY <1>b DEF WithinBudget
<1>h. ASSUME NEW m \in Messages
      PROVE  /\ RequestsToCome[m] = C - reqPost[m].arrivals + caching[m] + queueing[m]
             /\ RequestsToCome'[m] = C - reqPost'[m].arrivals + caching'[m] + queueing'[m]
  BY <1>c, <1>e
<1>i. ASSUME NEW r \in Replies
      PROVE  /\ RepliesToCome[r] = D - repPost[r].arrivals + accepting[r]
             /\ RepliesToCome'[r] = D - repPost'[r].arrivals + accepting'[r]
  BY <1>c, <1>e
\* No step counts: the accounts of both hops stay.
<1>q. ASSUME \A m \in Messages : reqPost'[m].arrivals = reqPost[m].arrivals,
             \A r \in Replies : repPost'[r].arrivals = repPost[r].arrivals,
             UNCHANGED handlers
      PROVE  /\ \A m \in Messages : RequestsToCome'[m] = RequestsToCome[m]
             /\ \A r \in Replies : RepliesToCome'[r] = RepliesToCome[r]
  BY <1>q, <1>c, <1>e, <1>t DEF handlers
<1>1. ASSUME NEW m \in Messages, Receive(m)
      PROVE  [Promise!Next]_(Promise!vars)
  <2>1. /\ RequestsToCome' = RequestsToCome /\ RepliesToCome' = RepliesToCome
        /\ UNCHANGED <<requests, replies, inbox>>
    BY <1>1 DEF Receive, handlers, queues, RequestsToCome, RepliesToCome
  <2>2. CASE proxy'[m] = "acked"
    <3>1. m \notin Accepted /\ Accepted' = Accepted \cup {m}
      BY <1>1, <2>2 DEF Receive, Accepted, TypeOK, RelayInv
    <3> QED  BY <2>1, <3>1 DEF Promise!Next, Promise!AcceptRequest
  <2>3. CASE proxy'[m] # "acked"
    <3>1. Accepted' = Accepted
      BY <1>1, <2>3 DEF Receive, Accepted, TypeOK, RelayInv
    <3> QED  BY <2>1, <3>1 DEF Promise!vars
  <2> QED  BY <2>2, <2>3
<1>a. ASSUME \A m \in Messages : ~ Receive(m)
      PROVE  Accepted' = Accepted
  BY <1>a, <1>t, AcceptedStays
<1>2. ASSUME \A i \in Messages : ~ Receive(i), NEW m \in Messages,
             CacheRequest(m) \/ QueueRequest(m) \/ FailRequest(m) \/ Expire(m)
      PROVE  [Promise!Next]_(Promise!vars)
  <2>1. UNCHANGED <<requests, replies, inbox, reqPost, repPost, handlers>>
    BY <1>2 DEF CacheRequest, QueueRequest, FailRequest, Expire, queues
  <2> QED  BY <1>2, <1>a, <1>q, <2>1, Stutters
<1>3. ASSUME \A i \in Messages : ~ Receive(i), NEW m \in Messages,
             TakeRequest(m) \/ RequestSettles(m)
      PROVE  [Promise!Next]_(Promise!vars)
  <2>1. UNCHANGED <<requests, replies, inbox, repPost, handlers>>
    BY <1>3 DEF TakeRequest, RequestSettles, queues
  <2>2. \A i \in Messages : reqPost'[i].arrivals = reqPost[i].arrivals
    BY <1>3, ReqFacts DEF TakeRequest, RequestSettles, TypeOK, RelayInv, HopsInv
  <2> QED  BY <1>3, <1>a, <1>q, <2>1, <2>2, Stutters
\* The copy that arrives is at work: as much may come as before.
<1>4. ASSUME \A i \in Messages : ~ Receive(i), NEW m \in Messages, RequestArrives(m)
      PROVE  [Promise!Next]_(Promise!vars)
  <2>1. /\ \A i \in Messages \ {m} : reqPost'[i] = reqPost[i]
        /\ reqPost'[m].arrivals = reqPost[m].arrivals + 1
    BY <1>4, ReqFacts DEF RequestArrives, TypeOK, RelayInv, HopsInv
  <2>2. /\ caching' = [caching EXCEPT ![m] = @ + 1]
        /\ UNCHANGED <<requests, replies, inbox, repPost, accepting, queueing>>
    BY <1>4 DEF RequestArrives, queues
  <2>3. caching'[m] = caching[m] + 1 /\ caching[m] \in Nat /\ queueing[m] \in Nat
        /\ queueing'[m] = queueing[m] /\ reqPost[m].arrivals \in Nat
    BY <1>t, <2>2
  <2>4. RequestsToCome'[m] = RequestsToCome[m]
    BY <1>h, <2>1, <2>3
  <2>5. \A i \in Messages \ {m} : RequestsToCome'[i] = RequestsToCome[i]
    BY <1>c, <1>e, <1>t, <2>1, <2>2
  <2>6. \A r \in Replies : RepliesToCome'[r] = RepliesToCome[r]
    BY <1>c, <1>e, <2>2
  <2> QED  BY <1>4, <1>a, <2>2, <2>4, <2>5, <2>6, Stutters
<1>5. ASSUME \A i \in Messages : ~ Receive(i), NEW m \in Messages, CacheAtSeller(m)
      PROVE  [Promise!Next]_(Promise!vars)
  <2>1. /\ caching[m] > 0 /\ caching' = [caching EXCEPT ![m] = @ - 1]
        /\ queueing' = [queueing EXCEPT ![m] = @ + 1]
        /\ UNCHANGED <<requests, replies, inbox, reqPost, repPost, accepting>>
    BY <1>5 DEF CacheAtSeller, queues
  <2>2. caching'[m] = caching[m] - 1 /\ caching[m] \in Nat
        /\ queueing'[m] = queueing[m] + 1 /\ queueing[m] \in Nat
        /\ reqPost[m].arrivals \in Nat
    BY <1>t, <2>1
  <2>3. RequestsToCome'[m] = RequestsToCome[m]
    <3>1. reqPost'[m].arrivals = reqPost[m].arrivals
      BY <2>1
    <3> QED  BY <1>h, <2>2, <3>1
  <2>4. \A i \in Messages \ {m} : RequestsToCome'[i] = RequestsToCome[i]
    BY <1>c, <1>e, <1>t, <2>1
  <2>5. \A r \in Replies : RepliesToCome'[r] = RepliesToCome[r]
    BY <1>c, <1>e, <2>1
  <2> QED  BY <1>5, <1>a, <2>1, <2>3, <2>4, <2>5, Stutters
\* The seller gets a copy of a request that bap-proxy acknowledged.
<1>6. ASSUME \A i \in Messages : ~ Receive(i), NEW m \in Messages, QueueAtSeller(m)
      PROVE  [Promise!Next]_(Promise!vars)
  <2>1. /\ queueing[m] > 0 /\ queueing' = [queueing EXCEPT ![m] = @ - 1]
        /\ requests' = [requests EXCEPT ![m] = @ + 1]
        /\ UNCHANGED <<replies, inbox, reqPost, repPost, accepting, caching>>
    BY <1>6 DEF QueueAtSeller
  <2>2. m \in Accepted
    BY <2>1, CopiesWerePosted DEF RelayInv, CachedFirst, AcceptedFirst
  <2>3. RequestsToCome[m] > 0
    BY <1>g, <1>t, <2>1
  <2>4. RequestsToCome'[m] = RequestsToCome[m] - 1
    <3>1. queueing'[m] = queueing[m] - 1 /\ queueing[m] \in Nat /\ caching[m] \in Nat
          /\ reqPost[m].arrivals \in Nat
      BY <1>t, <2>1
    <3>2. reqPost'[m].arrivals = reqPost[m].arrivals /\ caching'[m] = caching[m]
      BY <2>1
    <3> QED  BY <1>h, <3>1, <3>2
  <2>5. \A i \in Messages \ {m} : RequestsToCome'[i] = RequestsToCome[i]
    BY <1>c, <1>e, <1>t, <2>1
  <2>7. RequestsToCome' = [RequestsToCome EXCEPT ![m] = @ - 1]
    BY <2>4, <2>5 DEF RequestsToCome
  <2>6. RepliesToCome' = RepliesToCome
    BY <2>1 DEF RepliesToCome
  <2> QED
    BY <1>6, <1>a, <2>1, <2>2, <2>3, <2>6, <2>7 DEF Promise!Next, Promise!BringRequest
<1>7. ASSUME \A i \in Messages : ~ Receive(i), NEW m \in Messages, FailAtSeller(m)
      PROVE  [Promise!Next]_(Promise!vars)
  <2>1. UNCHANGED <<requests, replies, inbox, reqPost, repPost, accepting>>
    BY <1>7 DEF FailAtSeller, queues
  <2>2. \A i \in Messages : caching'[i] <= caching[i] /\ queueing'[i] <= queueing[i]
                             /\ caching'[i] \in Nat /\ queueing'[i] \in Nat
    BY <1>7, <1>t DEF FailAtSeller
  <2>3. \A i \in Messages : RequestsToCome'[i] <= RequestsToCome[i]
    BY <1>c, <1>e, <1>t, <2>1, <2>2
  <2>4. \A r \in Replies : RepliesToCome'[r] <= RepliesToCome[r]
    BY <1>c, <1>e, <1>t, <2>1
  <2> QED  BY <1>7, <1>a, <2>1, <2>3, <2>4, Losses
<1>8. ASSUME \A i \in Messages : ~ Receive(i), NEW m \in Messages, Reply(m)
      PROVE  [Promise!Next]_(Promise!vars)
  <2>1. RequestsToCome' = RequestsToCome /\ RepliesToCome' = RepliesToCome
    BY <1>8 DEF Reply, handlers, RequestsToCome, RepliesToCome
  <2> QED  BY <1>8, <1>a, <2>1 DEF Reply, Promise!Next, Promise!Reply
<1>9. ASSUME \A i \in Messages : ~ Receive(i), NEW m \in Messages, NEW k \in 1..MaxReplies,
             TakeReply(m, k) \/ DropReply(m, k) \/ ReplySettles(m, k)
      PROVE  [Promise!Next]_(Promise!vars)
  <2>1. UNCHANGED <<requests, replies, inbox, reqPost, handlers>>
    BY <1>9 DEF TakeReply, DropReply, ReplySettles, queues
  <2>2. \A r \in Replies : repPost'[r].arrivals = repPost[r].arrivals
    BY <1>9, <1>t, RepFacts DEF TakeReply, DropReply, ReplySettles, TypeOK, RelayInv, HopsInv
  <2> QED  BY <1>9, <1>a, <1>q, <2>1, <2>2, Stutters
\* A reply that arrives is accepted, or refused and so lost.
<1>10. ASSUME \A i \in Messages : ~ Receive(i), NEW m \in Messages, NEW k \in 1..MaxReplies,
              ReplyArrives(m, k)
       PROVE  [Promise!Next]_(Promise!vars)
  <2>1. /\ \A r \in Replies \ {<<m, k>>} : repPost'[r] = repPost[r]
        /\ repPost'[<<m, k>>].arrivals = repPost[<<m, k>>].arrivals + 1
    BY <1>10, <1>t, RepFacts DEF ReplyArrives, TypeOK, RelayInv, HopsInv
  <2>2. /\ accepting' = [accepting EXCEPT ![<<m, k>>] = @ + 1] \/ UNCHANGED accepting
        /\ UNCHANGED <<requests, replies, inbox, reqPost, caching, queueing>>
    BY <1>10 DEF ReplyArrives, queues
  <2>3. \A r \in Replies : RepliesToCome'[r] <= RepliesToCome[r]
    BY <1>c, <1>e, <1>t, <2>1, <2>2
  <2>4. \A i \in Messages : RequestsToCome'[i] <= RequestsToCome[i]
    BY <1>c, <1>e, <1>t, <2>2
  <2> QED  BY <1>10, <1>a, <2>2, <2>3, <2>4, Losses
\* core-app gets a copy of a reply that the seller published.
<1>11. ASSUME \A i \in Messages : ~ Receive(i), NEW m \in Messages, NEW k \in 1..MaxReplies,
              PublishReply(m, k)
       PROVE  [Promise!Next]_(Promise!vars)
  <2>1. /\ accepting[<<m, k>>] > 0
        /\ accepting' = [accepting EXCEPT ![<<m, k>>] = @ - 1]
        /\ inbox' = [inbox EXCEPT ![<<m, k>>] = @ + 1]
        /\ UNCHANGED <<requests, replies, reqPost, repPost, caching, queueing>>
    BY <1>11 DEF PublishReply
  <2>2. k <= replies[m]
    <3>1. repPost[<<m, k>>].arrivals > 0
      BY <1>t, <2>1 DEF RelayInv, CopiesCounted
    <3>2. repPost[<<m, k>>].phase # "idle"
      BY <1>t, <3>1 DEF RelayInv, HopsInv, Rep!PostInv, Rep!Idle
    <3> QED  BY <3>2 DEF RelayInv, CachedFirst
  <2>3. RepliesToCome[<<m, k>>] > 0
    BY <1>g, <1>t, <2>1
  <2>4. RepliesToCome'[<<m, k>>] = RepliesToCome[<<m, k>>] - 1
    <3>1. accepting'[<<m, k>>] = accepting[<<m, k>>] - 1 /\ accepting[<<m, k>>] \in Nat
          /\ repPost[<<m, k>>].arrivals \in Nat
      BY <1>t, <2>1
    <3>2. repPost'[<<m, k>>].arrivals = repPost[<<m, k>>].arrivals
      BY <2>1
    <3>3. <<m, k>> \in Replies
      BY <1>t
    <3> QED  BY <1>i, <3>1, <3>2, <3>3
  <2>5. \A r \in Replies \ {<<m, k>>} : RepliesToCome'[r] = RepliesToCome[r]
    BY <1>c, <1>e, <1>t, <2>1
  <2>7. RepliesToCome' = [RepliesToCome EXCEPT ![<<m, k>>] = @ - 1]
    BY <2>4, <2>5 DEF RepliesToCome
  <2>6. RequestsToCome' = RequestsToCome
    BY <2>1 DEF RequestsToCome
  <2> QED
    BY <1>11, <1>a, <2>1, <2>2, <2>3, <2>6, <2>7 DEF Promise!Next, Promise!BringReply
<1>12. ASSUME \A i \in Messages : ~ Receive(i), NEW m \in Messages, NEW k \in 1..MaxReplies,
              FailReply(m, k)
       PROVE  [Promise!Next]_(Promise!vars)
  <2>1. /\ accepting[<<m, k>>] > 0
        /\ accepting' = [accepting EXCEPT ![<<m, k>>] = @ - 1]
        /\ UNCHANGED <<requests, replies, inbox, reqPost, repPost, caching, queueing>>
    BY <1>12 DEF FailReply, queues
  <2>2. \A r \in Replies : RepliesToCome'[r] <= RepliesToCome[r]
    <3>1. \A r \in Replies : accepting'[r] <= accepting[r] /\ accepting'[r] \in Nat
      BY <1>t, <2>1
    <3> QED  BY <1>c, <1>e, <1>t, <2>1, <3>1
  <2>3. \A i \in Messages : RequestsToCome'[i] <= RequestsToCome[i]
    BY <1>c, <1>e, <1>t, <2>1
  <2> QED  BY <1>12, <1>a, <2>1, <2>2, <2>3, Losses
\* The handlers of a process that dies take their copies with them.
<1>13. ASSUME \A i \in Messages : ~ Receive(i), Crash
       PROVE  [Promise!Next]_(Promise!vars)
  <2>1. /\ \A i \in Messages : reqPost'[i].arrivals = reqPost[i].arrivals
        /\ \A r \in Replies : repPost'[r].arrivals = repPost[r].arrivals
    BY <1>13, ReqFacts, RepFacts
       DEF Crash, CrashProxy, CrashBap, CrashBpp, TypeOK, RelayInv, HopsInv
  <2>2. /\ \A i \in Messages : /\ caching'[i] <= caching[i] /\ queueing'[i] <= queueing[i]
                               /\ caching'[i] \in Nat /\ queueing'[i] \in Nat
        /\ \A r \in Replies : accepting'[r] <= accepting[r] /\ accepting'[r] \in Nat
        /\ UNCHANGED <<requests, replies, inbox>>
    BY <1>13, <1>t DEF Crash, CrashProxy, CrashBap, CrashBpp, queues, handlers
  <2>3. \A r \in Replies : RepliesToCome'[r] <= RepliesToCome[r]
    BY <1>c, <1>e, <1>t, <2>1, <2>2
  <2>4. \A i \in Messages : RequestsToCome'[i] <= RequestsToCome[i]
    BY <1>c, <1>e, <1>t, <2>1, <2>2
  <2> QED  BY <1>13, <1>a, <2>2, <2>3, <2>4, Losses
<1>14. CASE UNCHANGED vars
  BY <1>14 DEF vars, queues, handlers, Promise!vars, Accepted, RequestsToCome, RepliesToCome
<1>15. CASE \E m \in Messages : Receive(m)
  BY <1>1, <1>15
<1>16. CASE \A m \in Messages : ~ Receive(m)
  BY <1>2, <1>3, <1>4, <1>5, <1>6, <1>7, <1>8, <1>9, <1>10, <1>11, <1>12, <1>13, <1>14, <1>16
     DEF Next, Forward, Backward
<1> QED  BY <1>15, <1>16

\* Every behaviour of the relay is one of RelayPromise: neither side gets what the
\* other did not send, nor more often than the two retry loops account for.
THEOREM RelayKeepsPromise == Spec => KeepsPromise
<1>1. Init => AcceptedFirst
  BY DEF Init, AcceptedFirst, KnownToBap
<1>2. RelayInv /\ AcceptedFirst /\ [Next]_vars => AcceptedFirst'
  BY NextAcceptedFirst DEF RelayInv
<1>3. RelayInv /\ RelayInv' /\ AcceptedFirst /\ [Next]_vars => [Promise!Next]_(Promise!vars)
  BY NextPromise
<1> QED
  BY <1>1, <1>2, <1>3, InitPromise, RelayInvariance, PTL DEF Spec, KeepsPromise, Promise!Spec

=============================================================================
