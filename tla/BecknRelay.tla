----------------------------- MODULE BecknRelay -----------------------------
(***************************************************************************)
(* The relay between core-app and the seller-service: bap-proxy takes a    *)
(* request, bap-network posts it to bpp-network, which queues it for the   *)
(* seller; the seller's reply goes back from bpp-network to bap-network,   *)
(* which queues it for core-app.  Each side keeps an entry of the request  *)
(* in a cache with a time to live and drops replies that have none.        *)
(*                                                                         *)
(* Handlers acknowledge before they do their work, queues are read without *)
(* acknowledgement, posts are repeated, entries expire and processes crash *)
(* and restart.                                                            *)
(***************************************************************************)
EXTENDS Integers, FiniteSets

CONSTANTS
  Messages,    \* message ids of requests
  Subscribers, \* registry entries of the seller's bpp_id
  BapRetries,  \* httpRetryCount of bap-network
  BppRetries,  \* httpRetryCount of bpp-network
  MaxReplies,  \* bound: replies of the seller to one message
  MaxCrashes   \* bound: crashes of relay processes

ASSUME RelayAssumption ==
  /\ Subscribers \in Nat
  /\ BapRetries \in Nat
  /\ BppRetries \in Nat
  /\ MaxReplies \in Nat
  /\ MaxCrashes \in Nat

Replies == Messages \X (1..MaxReplies)

VARIABLES
  \* bap-proxy
  proxy,      \* [Messages -> Steps] of clientApiRequestHandler
  \* the Redis entries of either side and those that have expired
  bapCache, bapExpired,
  bppCache, bppExpired,
  \* RabbitMQ
  outbox,     \* requests that wait for bap-network
  requests,   \* [Messages -> Nat]: copies in the seller's queue
  replies,    \* [Messages -> Nat]: replies published by the seller
  inbox,      \* [Replies -> Nat]: copies published for core-app
  \* bap-network
  reqPost,    \* its postings of requests
  accepting,  \* [Replies -> Nat]: handlers that sent an ACK, not yet published
  \* bpp-network
  caching,    \* [Messages -> Nat]: handlers that have still to cache
  queueing,   \* [Messages -> Nat]: handlers that have still to publish
  repPost,    \* its postings of replies
  \* history and bounds
  dropped,    \* messages with a reply dropped by bpp-network
  refused,    \* messages with a reply refused by bap-network
  errors,     \* messages with a handler that ended in its catch block
  crashes     \* crashes so far

caches   == <<bapCache, bapExpired, bppCache, bppExpired>>
queues   == <<outbox, requests, replies, inbox>>
handlers == <<accepting, caching, queueing>>
history  == <<dropped, refused, errors, crashes>>
vars     == <<proxy, caches, queues, reqPost, repPost, handlers, history>>

Req == INSTANCE BecknPost WITH
         Items <- Messages, Retries <- BapRetries, post <- reqPost
Rep == INSTANCE BecknPost WITH
         Items <- Replies, Subscribers <- 1, Retries <- BppRetries, post <- repPost

Steps == {"none", "nacked", "acked", "cached", "queued", "failed"}

Init ==
  /\ proxy = [m \in Messages |-> "none"]
  /\ bapCache = {} /\ bapExpired = {}
  /\ bppCache = {} /\ bppExpired = {}
  /\ outbox = {}
  /\ requests = [m \in Messages |-> 0]
  /\ replies = [m \in Messages |-> 0]
  /\ inbox = [r \in Replies |-> 0]
  /\ Req!Init
  /\ Rep!Init
  /\ accepting = [r \in Replies |-> 0]
  /\ caching = [m \in Messages |-> 0]
  /\ queueing = [m \in Messages |-> 0]
  /\ dropped = {} /\ refused = {} /\ errors = {}
  /\ crashes = 0

-----------------------------------------------------------------------------
(***************************************************************************)
(* bap-proxy: clientApiRequestHandler                                      *)
(***************************************************************************)

\* A request without the seller's address is refused, another acknowledged
\* before anything is done about it.
Receive(m) ==
  /\ proxy[m] = "none"
  /\ \E step \in {"nacked", "acked"} : proxy' = [proxy EXCEPT ![m] = step]
  /\ UNCHANGED <<caches, queues, reqPost, repPost, handlers, history>>

CacheRequest(m) ==
  /\ proxy[m] = "acked"
  /\ proxy' = [proxy EXCEPT ![m] = "cached"]
  /\ bapCache' = bapCache \cup {m}
  /\ UNCHANGED <<bapExpired, bppCache, bppExpired, queues, reqPost, repPost,
                 handlers, history>>

\* Mutant: the request is queued without waiting for the cache.
QueueUncached(m) ==
  /\ proxy[m] \in {"acked", "cached"}
  /\ m \notin outbox /\ reqPost[m].phase = "idle"
  /\ outbox' = outbox \cup {m}
  /\ UNCHANGED <<proxy, caches, requests, replies, inbox, reqPost, repPost, handlers,
                 history>>

QueueRequest(m) ==
  /\ proxy[m] = "cached"
  /\ proxy' = [proxy EXCEPT ![m] = "queued"]
  /\ outbox' = outbox \cup {m}
  /\ UNCHANGED <<caches, requests, replies, inbox, reqPost, repPost, handlers,
                 history>>

\* The catch block: Redis or RabbitMQ failed after the ACK.
FailRequest(m) ==
  /\ proxy[m] \in {"acked", "cached"}
  /\ proxy' = [proxy EXCEPT ![m] = "failed"]
  /\ errors' = errors \cup {m}
  /\ UNCHANGED <<caches, queues, reqPost, repPost, handlers, dropped, refused,
                 crashes>>

-----------------------------------------------------------------------------
(***************************************************************************)
(* bap-network to bpp-network: bapClientMessageConsumer posts,             *)
(* sellerProtocolApiRequestHandler acknowledges and doHandleRequest works. *)
(***************************************************************************)

TakeRequest(m) ==
  /\ m \in outbox
  /\ outbox' = outbox \ {m}
  /\ Req!Start(m) \/ Req!StartFails(m)
  /\ UNCHANGED <<proxy, caches, requests, replies, inbox, repPost, handlers, history>>

RequestArrives(m) ==
  /\ Req!Arrive(m) \/ Req!ArriveLate(m)
  /\ caching' = [caching EXCEPT ![m] = @ + 1]
  /\ UNCHANGED <<proxy, caches, queues, repPost, accepting, queueing, history>>

\* A failure is recorded by an update without $set, which MongoDB rejects.
RequestSettles(m) ==
  /\ Req!Succeed(m) \/ Req!Retry(m)
  /\ UNCHANGED <<proxy, caches, queues, repPost, handlers, history>>

\* Mutant: the handler publishes the request without caching it.
NotCached(m) ==
  /\ caching[m] > 0
  /\ caching' = [caching EXCEPT ![m] = @ - 1]
  /\ queueing' = [queueing EXCEPT ![m] = @ + 1]
  /\ UNCHANGED <<proxy, caches, queues, reqPost, repPost, accepting, history>>

CacheAtSeller(m) ==
  /\ caching[m] > 0
  /\ caching' = [caching EXCEPT ![m] = @ - 1]
  /\ queueing' = [queueing EXCEPT ![m] = @ + 1]
  /\ bppCache' = bppCache \cup {m}
  /\ UNCHANGED <<proxy, bapCache, bapExpired, bppExpired, queues, reqPost, repPost,
                 accepting, history>>

QueueAtSeller(m) ==
  /\ queueing[m] > 0
  /\ queueing' = [queueing EXCEPT ![m] = @ - 1]
  /\ requests' = [requests EXCEPT ![m] = @ + 1]
  /\ UNCHANGED <<proxy, caches, outbox, replies, inbox, reqPost, repPost,
                 accepting, caching, history>>

\* The catch block of doHandleRequest; the ACK is out.
FailAtSeller(m) ==
  /\ \/ /\ caching[m] > 0
        /\ caching' = [caching EXCEPT ![m] = @ - 1]
        /\ UNCHANGED queueing
     \/ /\ queueing[m] > 0
        /\ queueing' = [queueing EXCEPT ![m] = @ - 1]
        /\ UNCHANGED caching
  /\ errors' = errors \cup {m}
  /\ UNCHANGED <<proxy, caches, queues, reqPost, repPost, accepting, dropped,
                 refused, crashes>>

-----------------------------------------------------------------------------
(***************************************************************************)
(* The seller and the way back: sellerServiceMessageHandler posts,         *)
(* clientProtocolApiRequestHandler checks, acknowledges and publishes.     *)
(***************************************************************************)

\* The seller publishes a reply to the request at hand; where it dies before
\* it acknowledges the request, that is delivered and answered again.
Reply(m) ==
  /\ requests[m] > 0
  /\ replies[m] < MaxReplies
  /\ replies' = [replies EXCEPT ![m] = @ + 1]
  /\ \E left \in {requests[m] - 1, requests[m]} :
       requests' = [requests EXCEPT ![m] = left]
  /\ UNCHANGED <<proxy, caches, outbox, inbox, reqPost, repPost, handlers, history>>

\* Replies the seller has published and bpp-network has not taken.
Published(m, k) == k <= replies[m] /\ repPost[<<m, k>>].phase = "idle"

TakeReply(m, k) ==
  /\ Published(m, k)
  /\ \/ m \in bppCache /\ Rep!Start(<<m, k>>)
     \/ Rep!StartFails(<<m, k>>)
  /\ UNCHANGED <<proxy, caches, queues, reqPost, handlers, history>>

\* Without an entry the reply ends in an error callback to the seller, which
\* nobody awaits: where it fails it ends the process, as Crash may at any time.
DropReply(m, k) ==
  /\ Published(m, k)
  /\ m \notin bppCache
  /\ Rep!Skip(<<m, k>>)
  /\ dropped' = dropped \cup {m}
  /\ UNCHANGED <<proxy, caches, queues, reqPost, handlers, refused, errors, crashes>>

\* bap-network answers NACK, with the status of a success, without an entry.
ReplyArrives(m, k) ==
  /\ Rep!Arrive(<<m, k>>) \/ Rep!ArriveLate(<<m, k>>)
  /\ \/ /\ m \in bapCache
        /\ accepting' = [accepting EXCEPT ![<<m, k>>] = @ + 1]
        /\ UNCHANGED refused
     \/ /\ m \notin bapCache
        /\ refused' = refused \cup {m}
        /\ UNCHANGED accepting
  /\ UNCHANGED <<proxy, caches, queues, reqPost, caching, queueing, dropped, errors,
                 crashes>>

ReplySettles(m, k) ==
  /\ Rep!Succeed(<<m, k>>) \/ Rep!Retry(<<m, k>>)
  /\ UNCHANGED <<proxy, caches, queues, reqPost, handlers, history>>

\* Mutant: the handler goes on after the NACK.
PublishAnyReply(m, k) ==
  /\ repPost[<<m, k>>].phase = "arrived"
  /\ accepting' = [accepting EXCEPT ![<<m, k>>] = @ - 1]
  /\ inbox' = [inbox EXCEPT ![<<m, k>>] = @ + 1]
  /\ UNCHANGED <<proxy, caches, outbox, requests, replies, reqPost, repPost,
                 caching, queueing, history>>

PublishReply(m, k) ==
  /\ accepting[<<m, k>>] > 0
  /\ accepting' = [accepting EXCEPT ![<<m, k>>] = @ - 1]
  /\ inbox' = [inbox EXCEPT ![<<m, k>>] = @ + 1]
  /\ UNCHANGED <<proxy, caches, outbox, requests, replies, reqPost, repPost,
                 caching, queueing, history>>

\* The catch block: RabbitMQ failed after the ACK.
FailReply(m, k) ==
  /\ accepting[<<m, k>>] > 0
  /\ accepting' = [accepting EXCEPT ![<<m, k>>] = @ - 1]
  /\ errors' = errors \cup {m}
  /\ UNCHANGED <<proxy, caches, queues, reqPost, repPost, caching, queueing, dropped,
                 refused, crashes>>

-----------------------------------------------------------------------------
(***************************************************************************)
(* Time and crashes                                                        *)
(***************************************************************************)

\* Redis removes an entry whose time to live is over.
Expire(m) ==
  /\ \/ /\ m \in bapCache
        /\ bapCache' = bapCache \ {m}
        /\ bapExpired' = bapExpired \cup {m}
        /\ UNCHANGED <<bppCache, bppExpired>>
     \/ /\ m \in bppCache
        /\ bppCache' = bppCache \ {m}
        /\ bppExpired' = bppExpired \cup {m}
        /\ UNCHANGED <<bapCache, bapExpired>>
  /\ UNCHANGED <<proxy, queues, reqPost, repPost, handlers, history>>

CrashProxy ==
  /\ proxy' = [m \in Messages |->
                 IF proxy[m] \in {"acked", "cached"} THEN "failed" ELSE proxy[m]]
  /\ UNCHANGED <<reqPost, repPost, handlers>>

CrashBap ==
  /\ Req!Abort
  /\ accepting' = [r \in Replies |-> 0]
  /\ UNCHANGED <<proxy, repPost, caching, queueing>>

CrashBpp ==
  /\ Rep!Abort
  /\ caching' = [m \in Messages |-> 0]
  /\ queueing' = [m \in Messages |-> 0]
  /\ UNCHANGED <<proxy, reqPost, accepting>>

\* The handlers of the process are gone; Redis and RabbitMQ stay.
Crash ==
  /\ crashes < MaxCrashes
  /\ crashes' = crashes + 1
  /\ CrashProxy \/ CrashBap \/ CrashBpp
  /\ UNCHANGED <<caches, queues, dropped, refused, errors>>

Forward(m) ==
  \/ CacheRequest(m) \/ QueueRequest(m)
  \/ TakeRequest(m) \/ RequestArrives(m) \/ RequestSettles(m)
  \/ CacheAtSeller(m) \/ QueueAtSeller(m)

Backward(m, k) ==
  \/ TakeReply(m, k) \/ DropReply(m, k)
  \/ ReplyArrives(m, k) \/ ReplySettles(m, k) \/ PublishReply(m, k)

Next ==
  \/ \E m \in Messages :
       \/ Receive(m) \/ Forward(m) \/ Reply(m)
       \/ FailRequest(m) \/ FailAtSeller(m) \/ Expire(m)
       \/ \E k \in 1..MaxReplies : Backward(m, k) \/ FailReply(m, k)
  \/ Crash

Spec == Init /\ [][Next]_vars

-----------------------------------------------------------------------------
(***************************************************************************)
(* Properties                                                              *)
(***************************************************************************)

\* Every variable has its type.
TypeOK ==
  /\ proxy \in [Messages -> Steps]
  /\ bapCache \subseteq Messages /\ bapExpired \subseteq Messages
  /\ bppCache \subseteq Messages /\ bppExpired \subseteq Messages
  /\ outbox \subseteq Messages
  /\ requests \in [Messages -> Nat]
  /\ replies \in [Messages -> 0..MaxReplies]
  /\ inbox \in [Replies -> Nat]
  /\ reqPost \in [Messages -> Req!Posting]
  /\ repPost \in [Replies -> Rep!Posting]
  /\ accepting \in [Replies -> Nat]
  /\ caching \in [Messages -> Nat]
  /\ queueing \in [Messages -> Nat]
  /\ dropped \subseteq Messages /\ refused \subseteq Messages /\ errors \subseteq Messages
  /\ crashes \in Nat

\* A reply is dropped or refused as timed out only where an entry did time out:
\* no reply, however fast, overtakes the caching of its request.
TimedOutOnlyIfExpired ==
  /\ dropped \subseteq bppExpired
  /\ refused \subseteq bapExpired

\* The seller's queue never holds, and core-app's queue never gets, more copies
\* than the retries of the hop before it account for.
CopiesBounded ==
  /\ \A m \in Messages : requests[m] <= Req!Calls * (BapRetries + 1)
  /\ \A r \in Replies  : inbox[r] <= Rep!Calls * (BppRetries + 1)

Answered(m) == \E k \in 1..MaxReplies : inbox[<<m, k>>] > 0

\* What the relay does not make up for: an error that is only logged, retries
\* that are used up, an entry that expired, a crash.
Harmed(m) ==
  \/ m \in errors \cup bapExpired \cup bppExpired
  \/ reqPost[m].phase = "failed"
  \/ \E k \in 1..MaxReplies : repPost[<<m, k>>].phase = "failed"
  \/ crashes > 0

\* Somebody still has the message in hand: the proxy's handler, a queue, a post
\* that may arrive, a handler that acknowledged it, or the like with a reply.
Held(m) ==
  \/ proxy[m] \in {"acked", "cached"} \/ m \in outbox
  \/ reqPost[m].phase = "sent"
  \/ caching[m] > 0 \/ queueing[m] > 0 \/ requests[m] > 0
  \/ \E k \in 1..MaxReplies :
       /\ k <= replies[m]
       /\ repPost[<<m, k>>].phase \in {"idle", "sent"} \/ accepting[<<m, k>>] > 0

\* A request that was acknowledged does not vanish between two hands: each of them
\* passes it on before it lets go of it, and only the harms named above lose it.
AckedIsHeld ==
  \A m \in Messages :
    proxy[m] \in {"acked", "cached", "queued"} => Held(m) \/ Answered(m) \/ Harmed(m)

\* What the relay promises either side, see RelayPromise: the copies that may
\* still come are those of the two retry loops that have not arrived, and those
\* that have and are at work.
Accepted == {m \in Messages : proxy[m] \notin {"none", "nacked"}}

RequestsToCome ==
  [m \in Messages |-> Req!Calls * (BapRetries + 1) - reqPost[m].arrivals
                        + caching[m] + queueing[m]]

RepliesToCome ==
  [r \in Replies |-> Rep!Calls * (BppRetries + 1) - repPost[r].arrivals + accepting[r]]

Promise == INSTANCE RelayPromise WITH
  RequestCopies <- Req!Calls * (BapRetries + 1),
  ReplyCopies   <- Rep!Calls * (BppRetries + 1),
  accepted      <- Accepted,
  requestBudget <- RequestsToCome,
  replyBudget   <- RepliesToCome

\* The relay brings neither side anything the other did not send, nor more often
\* than the retries of the hop account for, whatever is lost, late or repeated.
KeepsPromise == Promise!Spec

-----------------------------------------------------------------------------
(***************************************************************************)
(* Liveness: processes run, and a post that gets no answer times out.      *)
(***************************************************************************)

Fairness ==
  /\ \A m \in Messages :
       /\ WF_vars(CacheRequest(m) \/ QueueRequest(m))
       /\ WF_vars(TakeRequest(m))
       /\ WF_vars(RequestSettles(m))
       /\ WF_vars(CacheAtSeller(m))
       /\ WF_vars(QueueAtSeller(m))
       /\ WF_vars(Reply(m))
  /\ \A m \in Messages, k \in 1..MaxReplies :
       /\ WF_vars(TakeReply(m, k) \/ DropReply(m, k))
       /\ WF_vars(ReplySettles(m, k))
       /\ WF_vars(PublishReply(m, k))

FairSpec == Spec /\ Fairness

\* Of an acknowledged request core-app gets the answer, or one of the harms
\* named above came to it: no order of events loses a message by itself.
AckedIsAnswered ==
  \A m \in Messages : proxy[m] = "acked" ~> (Answered(m) \/ Harmed(m))

=============================================================================
