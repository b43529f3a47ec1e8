----------------------------- MODULE BecknPost -----------------------------
(***************************************************************************)
(* One hop over HTTP: callNetwork and makeBecknRequest post an item to a   *)
(* peer until an attempt is answered.  The same code runs in bap-network   *)
(* (requests) and in bpp-network (replies).                                *)
(*                                                                         *)
(* Two loops are nested: makeBecknRequest calls axios.post again after any *)
(* error, Retries times for each subscriber, and axios-retry, which is     *)
(* installed on the same axios, sends the post of one call again after a   *)
(* network error, Retries times too.  An attempt that is given up may      *)
(* still be on its way and reach the peer later: it is then a stray.       *)
(***************************************************************************)
EXTENDS Integers

CONSTANTS
  Items,       \* what is posted
  Subscribers, \* subscribers that the item is posted to in turn
  Retries      \* httpRetryCount

VARIABLE post  \* [Items -> Posting]

Calls == Subscribers * (Retries + 1)

Posting == [phase    : {"idle", "sent", "arrived", "done", "failed"},
            calls    : Nat, \* calls of axios.post left after this one
            resends  : Nat, \* what axios-retry has left of this call
            stray    : Nat, \* attempts given up that may still arrive
            arrivals : Nat] \* runs of the peer's handler

Idle == [phase |-> "idle", calls |-> 0, resends |-> 0, stray |-> 0, arrivals |-> 0]

Waiting(i) == post[i].phase \in {"sent", "arrived"}

Change(i, p) == post' = [post EXCEPT ![i] = p]

\* The attempts on their way when the poster stops to wait for the current one.
StrayAfter(p) == p.stray + (IF p.phase = "sent" THEN 1 ELSE 0)

Init == post = [i \in Items |-> Idle]

\* callNetwork calls axios.post for the first time.
Start(i) ==
  /\ post[i].phase = "idle"
  /\ Calls > 0
  /\ Change(i, [post[i] EXCEPT !.phase = "sent", !.calls = Calls - 1,
                               !.resends = Retries])

\* It does not come to that: the lookup finds no subscriber, or the lookup, the
\* signature or the cache throws.
StartFails(i) ==
  /\ post[i].phase = "idle"
  /\ Change(i, [post[i] EXCEPT !.phase = "failed"])

\* The item is not meant to be posted.
Skip(i) ==
  /\ post[i].phase = "idle"
  /\ Change(i, [post[i] EXCEPT !.phase = "done"])

\* The current attempt reaches the peer and its handler does its work; one that
\* the peer rejects or fails on before that is as good as lost.
Arrive(i) ==
  /\ post[i].phase = "sent"
  /\ Change(i, [post[i] EXCEPT !.phase = "arrived", !.arrivals = @ + 1])

\* So does one that nobody waits for any more.
ArriveLate(i) ==
  /\ post[i].stray > 0
  /\ Change(i, [post[i] EXCEPT !.stray = @ - 1, !.arrivals = @ + 1])

\* The peer's acknowledgement, ACK or NACK, has status 202.
Succeed(i) ==
  /\ post[i].phase = "arrived"
  /\ Change(i, [post[i] EXCEPT !.phase = "done"])

\* axios-retry: a network error, before or after the peer has the request.
Resend(i) ==
  /\ Waiting(i)
  /\ post[i].resends > 0
  /\ Change(i, [post[i] EXCEPT !.phase = "sent", !.resends = @ - 1,
                               !.stray = StrayAfter(post[i])])

\* Mutant: the retry passes retry_count on instead of retry_count - 1.
CallAgainForever(i) ==
  /\ Waiting(i)
  /\ post[i].calls > 0
  /\ Change(i, [post[i] EXCEPT !.phase = "sent", !.resends = Retries,
                               !.stray = StrayAfter(post[i])])

\* makeBecknRequest calls itself, or callNetwork goes on to the next
\* subscriber, after an error status, a timeout or the last resend.
CallAgain(i) ==
  /\ Waiting(i)
  /\ post[i].calls > 0
  /\ Change(i, [post[i] EXCEPT !.phase = "sent", !.calls = @ - 1,
                               !.resends = Retries, !.stray = StrayAfter(post[i])])

\* The last call failed; nobody is told.
GiveUp(i) ==
  /\ Waiting(i)
  /\ post[i].calls = 0
  /\ Change(i, [post[i] EXCEPT !.phase = "failed", !.stray = StrayAfter(post[i])])

\* The posting process dies.
Abort ==
  post' = [i \in Items |->
            IF Waiting(i)
              THEN [post[i] EXCEPT !.phase = "failed", !.stray = StrayAfter(post[i])]
              ELSE post[i]]

\* What the poster does about an attempt by itself.
Retry(i) == Resend(i) \/ CallAgain(i) \/ GiveUp(i)

Next ==
  \/ \E i \in Items : Start(i) \/ StartFails(i) \/ Skip(i)
  \/ \E i \in Items : Arrive(i) \/ ArriveLate(i) \/ Succeed(i) \/ Retry(i)
  \/ Abort

-----------------------------------------------------------------------------

\* Every attempt was paid for by a call or a resend: arrivals, strays and what
\* may still be sent never exceed the two loops' product.
Paid(p) ==
  LET onItsWay == IF p.phase = "sent" THEN 1 ELSE 0
      toCome   == IF p.phase \in {"sent", "arrived"}
                    THEN p.calls * (Retries + 1) + p.resends ELSE 0
  IN p.arrivals + p.stray + onItsWay + toCome <= Calls * (Retries + 1)

PostInv ==
  \A i \in Items :
    /\ post[i].phase = "idle" => post[i] = Idle
    /\ Paid(post[i])

\* The peer sees an item at most as often as the two loops allow together.
ArrivalsBounded == \A i \in Items : post[i].arrivals <= Calls * (Retries + 1)

=============================================================================
