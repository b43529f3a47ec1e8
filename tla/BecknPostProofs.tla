-------------------------- MODULE BecknPostProofs --------------------------
(***************************************************************************)
(* What one hop of the relay guarantees, for any number of items,          *)
(* subscribers and retries.                                                *)
(***************************************************************************)
EXTENDS BecknPost, TLAPS

Sizes == Subscribers \in Nat /\ Retries \in Nat

Typed == post \in [Items -> Posting]

\* What the two loops may still send for a posting that is under way.
ToCome(calls, resends) == calls * (Retries + 1) + resends

\* Products of sizes: a call given up pays for the next call and its resends.
LEMMA CallsPay ==
  ASSUME Sizes
  PROVE  /\ Calls \in Nat
         /\ Calls * (Retries + 1) \in Nat
         /\ \A c \in Nat : c * (Retries + 1) \in Nat
         /\ \A c \in Nat \ {0} : (c - 1) * (Retries + 1) = c * (Retries + 1) - Retries - 1
<1>1. Retries + 1 \in Nat /\ Subscribers \in Nat
  BY DEF Sizes
<1>2. \A a, b \in Nat : a * b \in Nat
  OBVIOUS
<1>3. \A c, r \in Int : (c - 1) * (r + 1) = c * (r + 1) - r - 1
  OBVIOUS
<1> QED BY <1>1, <1>2, <1>3 DEF Calls, Sizes

\* A step of the hop keeps the type and the account of attempts: this is what
\* bounds the copies the peer sees.
LEMMA PostStep ==
  ASSUME Sizes, Typed, PostInv, Next
  PROVE  Typed' /\ PostInv'
<1> USE DEF Typed
<1>0. /\ Calls \in Nat /\ Calls * (Retries + 1) \in Nat /\ Retries \in Nat
      /\ \A c \in Nat : c * (Retries + 1) \in Nat
      /\ \A c \in Nat \ {0} : (c - 1) * (Retries + 1) = c * (Retries + 1) - Retries - 1
  BY CallsPay DEF Sizes
<1>a. ASSUME NEW i \in Items, NEW q \in Posting, Change(i, q),
             q.phase = "idle" => q = Idle, Paid(q)
      PROVE  Typed' /\ PostInv'
  BY <1>a DEF Change, PostInv
<1>b. ASSUME NEW i \in Items
      PROVE  /\ post[i] \in Posting /\ Paid(post[i])
             /\ post[i].phase = "idle" => post[i] = Idle
             /\ StrayAfter(post[i]) \in Nat
  BY DEF PostInv, Posting, StrayAfter
<1>1. CASE \E i \in Items : Start(i)
  <2> PICK i \in Items : Start(i)
    BY <1>1
  <2>1. post[i] = Idle /\ Calls > 0
    BY <1>b DEF Start
  <2> DEFINE q == [post[i] EXCEPT !.phase = "sent", !.calls = Calls - 1, !.resends = Retries]
  <2>0. Calls - 1 \in Nat /\ Retries \in Nat /\ post[i] \in Posting
    BY <1>0, <1>b, <2>1
  <2>t. q \in Posting
    BY <2>0 DEF Posting
  <2>2. q.phase = "sent" /\ q.calls = Calls - 1 /\ q.resends = Retries
        /\ q.stray = 0 /\ q.arrivals = 0
    BY <2>1 DEF Idle
  <2>3. Change(i, q)
    BY DEF Start
  <2>4. (Calls - 1) * (Retries + 1) = Calls * (Retries + 1) - Retries - 1
    BY <1>0, <2>1
  <2> HIDE DEF q
  <2>5. Paid(q)
    BY <1>0, <2>2, <2>4 DEF Paid
  <2> QED BY <1>a, <2>t, <2>2, <2>3, <2>5
<1>2. CASE \E i \in Items : Arrive(i)
  <2> PICK i \in Items : Arrive(i)
    BY <1>2
  <2> DEFINE q == [post[i] EXCEPT !.phase = "arrived", !.arrivals = @ + 1]
  <2>0. post[i].arrivals + 1 \in Nat
    BY <1>b DEF Posting
  <2>t. q \in Posting
    BY <1>b, <2>0 DEF Posting
  <2>1. q.phase = "arrived" /\ q.arrivals = post[i].arrivals + 1
        /\ q.stray = post[i].stray /\ q.calls = post[i].calls /\ q.resends = post[i].resends
    BY <1>b DEF Posting
  <2>2. Change(i, q) /\ post[i].phase = "sent"
    BY DEF Arrive
  <2> HIDE DEF q
  <2>3. Paid(q)
    BY <1>0, <1>b, <2>1, <2>2 DEF Paid, Posting
  <2> QED BY <1>a, <2>t, <2>1, <2>2, <2>3
<1>3. CASE \E i \in Items : ArriveLate(i)
  <2> PICK i \in Items : ArriveLate(i)
    BY <1>3
  <2> DEFINE q == [post[i] EXCEPT !.stray = @ - 1, !.arrivals = @ + 1]
  <2>0. post[i].arrivals + 1 \in Nat /\ post[i].stray - 1 \in Nat
    BY <1>b DEF Posting, ArriveLate
  <2>t. q \in Posting
    BY <1>b, <2>0 DEF Posting
  <2>1. q.phase = post[i].phase /\ q.arrivals = post[i].arrivals + 1
        /\ q.stray = post[i].stray - 1 /\ q.calls = post[i].calls
        /\ q.resends = post[i].resends
    BY <1>b DEF Posting, ArriveLate
  <2>2. Change(i, q) /\ post[i].stray > 0
    BY DEF ArriveLate
  <2>3. post[i].phase # "idle"
    BY <1>b, <2>2 DEF Idle
  <2> HIDE DEF q
  <2>4. Paid(q)
    BY <1>0, <1>b, <2>1, <2>2 DEF Paid, Posting
  <2> QED BY <1>a, <2>t, <2>1, <2>2, <2>3, <2>4
<1>4. CASE \E i \in Items : Succeed(i)
  <2> PICK i \in Items : Succeed(i)
    BY <1>4
  <2> DEFINE q == [post[i] EXCEPT !.phase = "done"]
  <2>1. q \in Posting /\ q.phase = "done" /\ q.arrivals = post[i].arrivals
        /\ q.stray = post[i].stray
    BY <1>b DEF Posting
  <2>2. Change(i, q) /\ post[i].phase = "arrived"
    BY DEF Succeed
  <2>3. ToCome(post[i].calls, post[i].resends) \in Nat
    BY <1>0, <1>b DEF ToCome, Posting
  <2> HIDE DEF q
  <2>4. Paid(q)
    BY <1>0, <1>b, <2>1, <2>2, <2>3 DEF Paid, Posting, ToCome
  <2> QED BY <1>a, <2>1, <2>2, <2>4
<1>5. CASE \E i \in Items : Resend(i)
  <2> PICK i \in Items : Resend(i)
    BY <1>5
  <2> DEFINE q == [post[i] EXCEPT !.phase = "sent", !.resends = @ - 1,
                                  !.stray = StrayAfter(post[i])]
  <2>0. post[i].resends - 1 \in Nat
    BY <1>b DEF Posting, Resend
  <2>t. q \in Posting
    BY <1>b, <2>0 DEF Posting
  <2>1. q.phase = "sent" /\ q.arrivals = post[i].arrivals
        /\ q.stray = StrayAfter(post[i]) /\ q.calls = post[i].calls
        /\ q.resends = post[i].resends - 1
    BY <1>b DEF Posting, Resend
  <2>2. Change(i, q) /\ Waiting(i)
    BY DEF Resend
  <2> HIDE DEF q
  <2>3. Paid(q)
    BY <1>0, <1>b, <2>1, <2>2 DEF Paid, Posting, Waiting, StrayAfter
  <2> QED BY <1>a, <2>t, <2>1, <2>2, <2>3
<1>6. CASE \E i \in Items : CallAgain(i)
  <2> PICK i \in Items : CallAgain(i)
    BY <1>6
  <2> DEFINE q == [post[i] EXCEPT !.phase = "sent", !.calls = @ - 1,
                                  !.resends = Retries, !.stray = StrayAfter(post[i])]
  <2>0. post[i].calls - 1 \in Nat
    BY <1>b DEF Posting, CallAgain
  <2>t. q \in Posting
    BY <1>0, <1>b, <2>0 DEF Posting
  <2>1. q.phase = "sent" /\ q.arrivals = post[i].arrivals
        /\ q.stray = StrayAfter(post[i]) /\ q.calls = post[i].calls - 1
        /\ q.resends = Retries
    BY <1>0, <1>b DEF Posting, CallAgain
  <2>2. Change(i, q) /\ Waiting(i) /\ post[i].calls \in Nat \ {0}
    BY <1>b DEF CallAgain, Posting
  <2>3. (post[i].calls - 1) * (Retries + 1) = post[i].calls * (Retries + 1) - Retries - 1
    BY <1>0, <2>2
  <2>4. post[i].calls * (Retries + 1) \in Nat
    BY <1>0, <2>2
  <2> HIDE DEF q
  <2>5. Paid(q)
    BY <1>0, <1>b, <2>1, <2>2, <2>3, <2>4 DEF Paid, Posting, Waiting, StrayAfter
  <2> QED BY <1>a, <2>t, <2>1, <2>2, <2>5
<1>c. ASSUME NEW i \in Items, Waiting(i)
      PROVE  LET q == [post[i] EXCEPT !.phase = "failed", !.stray = StrayAfter(post[i])]
             IN q \in Posting /\ q.phase = "failed" /\ Paid(q)
  <2> DEFINE q == [post[i] EXCEPT !.phase = "failed", !.stray = StrayAfter(post[i])]
  <2>1. q \in Posting /\ q.phase = "failed" /\ q.arrivals = post[i].arrivals
        /\ q.stray = StrayAfter(post[i])
    BY <1>b DEF Posting
  <2>2. ToCome(post[i].calls, post[i].resends) \in Nat
    BY <1>0, <1>b DEF ToCome, Posting
  <2> HIDE DEF q
  <2>3. Paid(q)
    BY <1>0, <1>b, <1>c, <2>1, <2>2 DEF Paid, Posting, Waiting, StrayAfter, ToCome
  <2> QED BY <2>1, <2>3 DEF q
<1>7. CASE \E i \in Items : GiveUp(i)
  <2> PICK i \in Items : GiveUp(i)
    BY <1>7
  <2> QED BY <1>a, <1>c DEF GiveUp
<1>8. CASE Abort
  <2>1. post' \in [Items -> Posting]
    BY <1>8, <1>b, <1>c DEF Abort
  <2>2. ASSUME NEW i \in Items
        PROVE  (post'[i].phase = "idle" => post'[i] = Idle) /\ Paid(post'[i])
    <3>1. CASE Waiting(i)
      BY <1>8, <1>c, <3>1 DEF Abort
    <3>2. CASE ~ Waiting(i)
      BY <1>8, <1>b, <3>2 DEF Abort
    <3> QED BY <3>1, <3>2
  <2> QED BY <2>1, <2>2 DEF PostInv
<1>10. CASE \E i \in Items : StartFails(i)
  <2> PICK i \in Items : StartFails(i)
    BY <1>10
  <2> DEFINE q == [post[i] EXCEPT !.phase = "failed"]
  <2>1. q \in Posting /\ q.phase = "failed" /\ q.arrivals = 0 /\ q.stray = 0
    BY <1>b DEF Posting, StartFails, Idle
  <2>2. Change(i, q)
    BY DEF StartFails
  <2> HIDE DEF q
  <2>3. Paid(q)
    BY <1>0, <2>1 DEF Paid
  <2> QED BY <1>a, <2>1, <2>2, <2>3
<1>9. CASE \E i \in Items : Skip(i)
  <2> PICK i \in Items : Skip(i)
    BY <1>9
  <2> DEFINE q == [post[i] EXCEPT !.phase = "done"]
  <2>1. q \in Posting /\ q.phase = "done" /\ q.arrivals = 0 /\ q.stray = 0
    BY <1>b DEF Posting, Skip, Idle
  <2>2. Change(i, q)
    BY DEF Skip
  <2> HIDE DEF q
  <2>3. Paid(q)
    BY <1>0, <2>1 DEF Paid
  <2> QED BY <1>a, <2>1, <2>2, <2>3
<1> QED BY <1>1, <1>2, <1>3, <1>4, <1>5, <1>6, <1>7, <1>8, <1>9, <1>10 DEF Next, Retry

\* Only the item itself is changed.
LEMMA ChangeAt ==
  ASSUME Typed, NEW i \in Items, NEW q, Change(i, q)
  PROVE  post'[i] = q /\ \A j \in Items \ {i} : post'[j] = post[j]
BY DEF Typed, Change

\* Beginning with an item, or leaving it, is no arrival.
LEMMA BeginIsNoArrival ==
  ASSUME Typed, NEW i \in Items, Start(i) \/ StartFails(i) \/ Skip(i)
  PROVE  /\ \A j \in Items \ {i} : post'[j] = post[j]
         /\ post'[i].arrivals = post[i].arrivals
         /\ post'[i].phase # "idle"
<1>0. post[i] \in Posting
  BY DEF Typed
<1>1. CASE \E q : Change(i, q) /\ q.arrivals = post[i].arrivals /\ q.phase # "idle"
  BY <1>1, ChangeAt
<1>2. CASE Start(i)
  <2> DEFINE q == [post[i] EXCEPT !.phase = "sent", !.calls = Calls - 1, !.resends = Retries]
  <2>1. Change(i, q)
    BY <1>2 DEF Start
  <2>2. q.arrivals = post[i].arrivals /\ q.phase = "sent"
    BY <1>0 DEF Posting
  <2> QED BY <1>1, <2>1, <2>2
<1>3. CASE StartFails(i)
  <2> DEFINE q == [post[i] EXCEPT !.phase = "failed"]
  <2>1. Change(i, q)
    BY <1>3 DEF StartFails
  <2>2. q.arrivals = post[i].arrivals /\ q.phase = "failed"
    BY <1>0 DEF Posting
  <2> QED BY <1>1, <2>1, <2>2
<1>4. CASE Skip(i)
  <2> DEFINE q == [post[i] EXCEPT !.phase = "done"]
  <2>1. Change(i, q)
    BY <1>4 DEF Skip
  <2>2. q.arrivals = post[i].arrivals /\ q.phase = "done"
    BY <1>0 DEF Posting
  <2> QED BY <1>1, <2>1, <2>2
<1> QED BY <1>2, <1>3, <1>4

\* Only an item that is being posted arrives, and it is counted.
LEMMA ArrivalCounts ==
  ASSUME Typed, PostInv, NEW i \in Items, Arrive(i) \/ ArriveLate(i)
  PROVE  /\ \A j \in Items \ {i} : post'[j] = post[j]
         /\ post'[i].arrivals = post[i].arrivals + 1
         /\ post[i].phase # "idle"
         /\ post'[i].phase # "idle"
<1>0. post[i] \in Posting
  BY DEF Typed
<1>1. post[i].phase # "idle"
  BY <1>0 DEF PostInv, Posting, Idle, Arrive, ArriveLate
<1>2. CASE Arrive(i)
  <2> DEFINE q == [post[i] EXCEPT !.phase = "arrived", !.arrivals = @ + 1]
  <2>1. Change(i, q)
    BY <1>2 DEF Arrive
  <2>2. q.arrivals = post[i].arrivals + 1 /\ q.phase = "arrived"
    BY <1>0 DEF Posting
  <2> QED BY <1>1, <2>1, <2>2, ChangeAt
<1>3. CASE ArriveLate(i)
  <2> DEFINE q == [post[i] EXCEPT !.stray = @ - 1, !.arrivals = @ + 1]
  <2>1. Change(i, q)
    BY <1>3 DEF ArriveLate
  <2>2. q.arrivals = post[i].arrivals + 1 /\ q.phase = post[i].phase
    BY <1>0 DEF Posting
  <2> QED BY <1>1, <2>1, <2>2, ChangeAt
<1> QED BY <1>2, <1>3

\* Settling an attempt, and the death of the poster, begin nothing and are no
\* arrivals.
LEMMA SettlingBeginsNothing ==
  ASSUME Typed, NEW j \in Items,
         (\E i \in Items : Succeed(i) \/ Retry(i)) \/ Abort
  PROVE  /\ post'[j].arrivals = post[j].arrivals
         /\ post'[j].phase = "idle" <=> post[j].phase = "idle"
<1>0. \A i \in Items : post[i] \in Posting
  BY DEF Typed
<1>1. ASSUME NEW i \in Items, NEW q, Change(i, q), q.arrivals = post[i].arrivals,
             q.phase # "idle", post[i].phase # "idle"
      PROVE  /\ post'[j].arrivals = post[j].arrivals
             /\ post'[j].phase = "idle" <=> post[j].phase = "idle"
  BY <1>1, ChangeAt
<1>2. ASSUME NEW i \in Items, Succeed(i) \/ GiveUp(i)
      PROVE  \E q : /\ Change(i, q) /\ q.arrivals = post[i].arrivals
                    /\ q.phase # "idle" /\ post[i].phase # "idle"
  <2>1. CASE Succeed(i)
    <3> DEFINE q == [post[i] EXCEPT !.phase = "done"]
    <3>1. Change(i, q) /\ post[i].phase # "idle"
      BY <2>1 DEF Succeed
    <3>2. q.arrivals = post[i].arrivals /\ q.phase = "done"
      BY <1>0 DEF Posting
    <3> QED BY <3>1, <3>2
  <2>2. CASE GiveUp(i)
    <3> DEFINE q == [post[i] EXCEPT !.phase = "failed", !.stray = StrayAfter(post[i])]
    <3>1. Change(i, q) /\ post[i].phase # "idle"
      BY <2>2 DEF GiveUp, Waiting
    <3>2. q.arrivals = post[i].arrivals /\ q.phase = "failed"
      BY <1>0 DEF Posting
    <3> QED BY <3>1, <3>2
  <2> QED BY <1>2, <2>1, <2>2
<1>3. ASSUME NEW i \in Items, Resend(i) \/ CallAgain(i)
      PROVE  \E q : /\ Change(i, q) /\ q.arrivals = post[i].arrivals
                    /\ q.phase # "idle" /\ post[i].phase # "idle"
  <2>1. CASE Resend(i)
    <3> DEFINE q == [post[i] EXCEPT !.phase = "sent", !.resends = @ - 1,
                                    !.stray = StrayAfter(post[i])]
    <3>1. Change(i, q) /\ post[i].phase # "idle"
      BY <2>1 DEF Resend, Waiting
    <3>2. q.arrivals = post[i].arrivals /\ q.phase = "sent"
      BY <1>0 DEF Posting
    <3> QED BY <3>1, <3>2
  <2>2. CASE CallAgain(i)
    <3> DEFINE q == [post[i] EXCEPT !.phase = "sent", !.calls = @ - 1,
                                    !.resends = Retries, !.stray = StrayAfter(post[i])]
    <3>1. Change(i, q) /\ post[i].phase # "idle"
      BY <2>2 DEF CallAgain, Waiting
    <3>2. q.arrivals = post[i].arrivals /\ q.phase = "sent"
      BY <1>0 DEF Posting
    <3> QED BY <3>1, <3>2
  <2> QED BY <1>3, <2>1, <2>2
<1>4. CASE Abort
  <2>1. CASE Waiting(j)
    <3> DEFINE q == [post[j] EXCEPT !.phase = "failed", !.stray = StrayAfter(post[j])]
    <3>1. post'[j] = q /\ post[j].phase # "idle"
      BY <1>4, <2>1 DEF Abort, Waiting
    <3>2. q.arrivals = post[j].arrivals /\ q.phase = "failed"
      BY <1>0 DEF Posting
    <3> QED BY <3>1, <3>2
  <2>2. CASE ~ Waiting(j)
    BY <1>4, <2>2 DEF Abort
  <2> QED BY <2>1, <2>2
<1> QED BY <1>1, <1>2, <1>3, <1>4 DEF Retry

\* The account bounds what the peer has seen.
LEMMA PostBound ==
  ASSUME Sizes, Typed, PostInv
  PROVE  ArrivalsBounded
<1> SUFFICES ASSUME NEW i \in Items
             PROVE  post[i].arrivals <= Calls * (Retries + 1)
  BY DEF ArrivalsBounded
<1>1. post[i] \in Posting /\ Paid(post[i])
  BY DEF Typed, PostInv
<1>2. ToCome(post[i].calls, post[i].resends) \in Nat /\ Calls * (Retries + 1) \in Nat
  BY <1>1, CallsPay DEF ToCome, Posting, Sizes
<1> QED BY <1>1, <1>2 DEF Paid, Posting, ToCome

=============================================================================
