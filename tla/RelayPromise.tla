---------------------------- MODULE RelayPromise ----------------------------
(***************************************************************************)
(* What the relay promises the two parties it stands between.  The seller  *)
(* sees only requests that bap-proxy has acknowledged, core-app sees only  *)
(* replies that the seller has published, and each of them so many times   *)
(* at most.  How a message is lost on the way is left open here: what it   *)
(* may be lost of is AckedIsHeld of BecknRelay.                            *)
(***************************************************************************)
EXTENDS Integers

CONSTANTS
  Messages,      \* message ids of requests
  MaxReplies,    \* replies of the seller to one message
  RequestCopies, \* how often the seller may see one request
  ReplyCopies    \* how often core-app may see one reply

Replies == Messages \X (1..MaxReplies)

VARIABLES
  accepted,      \* messages that bap-proxy has acknowledged
  requests,      \* [Messages -> Nat]: copies in the seller's queue
  replies,       \* [Messages -> Nat]: replies the seller has published
  inbox,         \* [Replies -> Nat]: copies in core-app's queue
  requestBudget, \* [Messages -> Nat]: copies that may still come to the seller
  replyBudget    \* [Replies -> Nat]: copies that may still come to core-app

vars == <<accepted, requests, replies, inbox, requestBudget, replyBudget>>

Init ==
  /\ accepted = {}
  /\ requests = [m \in Messages |-> 0]
  /\ replies = [m \in Messages |-> 0]
  /\ inbox = [r \in Replies |-> 0]
  /\ requestBudget = [m \in Messages |-> RequestCopies]
  /\ replyBudget = [r \in Replies |-> ReplyCopies]

\* bap-proxy acknowledges a request, once.
AcceptRequest(m) ==
  /\ m \notin accepted
  /\ accepted' = accepted \cup {m}
  /\ UNCHANGED <<requests, replies, inbox, requestBudget, replyBudget>>

\* A copy of an acknowledged request reaches the seller.
BringRequest(m) ==
  /\ m \in accepted
  /\ requestBudget[m] > 0
  /\ requestBudget' = [requestBudget EXCEPT ![m] = @ - 1]
  /\ requests' = [requests EXCEPT ![m] = @ + 1]
  /\ UNCHANGED <<accepted, replies, inbox, replyBudget>>

\* The seller replies to a request it has, and may have it again.
Reply(m) ==
  /\ requests[m] > 0
  /\ replies[m] < MaxReplies
  /\ replies' = [replies EXCEPT ![m] = @ + 1]
  /\ \E left \in {requests[m] - 1, requests[m]} :
       requests' = [requests EXCEPT ![m] = left]
  /\ UNCHANGED <<accepted, inbox, requestBudget, replyBudget>>

\* A copy of a published reply reaches core-app.
BringReply(m, k) ==
  /\ k <= replies[m]
  /\ replyBudget[<<m, k>>] > 0
  /\ replyBudget' = [replyBudget EXCEPT ![<<m, k>>] = @ - 1]
  /\ inbox' = [inbox EXCEPT ![<<m, k>>] = @ + 1]
  /\ UNCHANGED <<accepted, requests, replies, requestBudget>>

\* Copies on their way are lost, and not made up for.
LoseCopies ==
  /\ requestBudget' \in [Messages -> 0..RequestCopies]
  /\ replyBudget' \in [Replies -> 0..ReplyCopies]
  /\ \A m \in Messages : requestBudget'[m] <= requestBudget[m]
  /\ \A r \in Replies : replyBudget'[r] <= replyBudget[r]
  /\ UNCHANGED <<accepted, requests, replies, inbox>>

Next ==
  \/ \E m \in Messages :
       \/ AcceptRequest(m) \/ BringRequest(m) \/ Reply(m)
       \/ \E k \in 1..MaxReplies : BringReply(m, k)
  \/ LoseCopies

Spec == Init /\ [][Next]_vars
=============================================================================
