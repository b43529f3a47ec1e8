--------------------------- MODULE RelayGateProofs ---------------------------
(***************************************************************************)
(* Proofs about RelayGate, for any number of exchanges, keys and failures, *)
(* any time to live and any length of time: what the verification of a     *)
(* signature vouches for, and the causes of refusals and of deaths.        *)
(***************************************************************************)
EXTENDS RelayGate, TLAPS

-----------------------------------------------------------------------------
(***************************************************************************)
(* The inductive invariant                                                 *)
(***************************************************************************)

World ==
  /\ changedAt <= now
  /\ \A k \in Keys : lastListed[k] <= now
  /\ listed.key # None => lastListed[listed.key] = now
  /\ Refusable(listed, now) => cause
  /\ ~online => outages > 0

\* An entry of the cache outlives the listing of its key by Unit * Ttl at most.
Cached ==
  /\ cache.expires <= now + Unit * Ttl
  /\ cache.key # None => cache.expires <= lastListed[cache.key] + Unit * Ttl
  /\ cache.key # None =>
       cache.key = listed.key \/ cache.expires <= changedAt + Unit * Ttl

\* Each server's chain has its own places.
InPlace(r) ==
  /\ role = "proxy" => r.at \notin {"verify", "sender"}
  /\ role # "proxy" => r.at \notin {"context", "sign", "self"}

\* A good signature stays good until the listing changes.
Signed(r) ==
  /\ r.since <= now
  /\ r.genuine => r.sig \in Keys /\ (changedAt >= r.since \/ r.sig = listed.key)

Vouched(r) ==
  auth /\ role # "proxy" /\ r.at \in {"sender", "schema", "handler"} =>
    /\ r.sig \in Keys
    /\ r.gateway # "bad"
    /\ r.passed <= lastListed[r.sig] + Unit * Ttl

\* What a lookup has found, from the registry or from the cache.
Looked(r) ==
  /\ r.look = "replied" =>
       /\ r.found.key = listed.key \/ changedAt = now
       /\ r.found.key # None => lastListed[r.found.key] = now
       /\ Refusable(r.found, now) => cause
  /\ r.look = "found" /\ r.found.key # None =>
       now <= lastListed[r.found.key] + Unit * Ttl
  /\ r.look \in {"replied", "found"} /\ r.genuine /\ r.found.key # r.sig =>
       changedAt >= r.since \/ now <= changedAt + Unit * Ttl

Sound(r) == InPlace(r) /\ Signed(r) /\ Vouched(r) /\ Looked(r)

GateInv ==
  /\ GateTypeOK
  /\ World
  /\ Cached
  /\ DiesForACause
  /\ \A e \in Exchanges : Sound(x[e])

-----------------------------------------------------------------------------
(***************************************************************************)
(* Lemmas                                                                  *)
(***************************************************************************)

LEMMA Bound ==
  /\ Unit * Ttl \in Nat
  /\ \A life \in Int : life > 0 /\ life <= Ttl =>
       Unit * life \in Nat /\ Unit * life <= Unit * Ttl
<1>1. Unit \in Nat /\ Ttl \in Nat
  BY GateAssumption
<1>2. ASSUME NEW life \in Int, life > 0, life <= Ttl
      PROVE  Unit * life \in Nat /\ Unit * life <= Unit * Ttl
  <2>1. PICK d \in Nat : Ttl = life + d
    BY <1>1, <1>2
  <2>2. Unit * Ttl = Unit * life + Unit * d
    BY <1>1, <1>2, <2>1
  <2>3. Unit * d \in Nat /\ Unit * life \in Nat
    BY <1>1, <1>2
  <2> QED BY <2>2, <2>3
<1> QED BY <1>1, <1>2

LEMMA Lifetimes ==
  ASSUME NEW s \in Listing, now \in Nat
  PROVE  /\ Lifetime(s) \in Int /\ Lifetime(s) <= Ttl
         /\ Lifetime(s) <= 0 => Refusable(s, now)
<1>1. Ttl \in Nat /\ Ttl > 0 /\ NotADate \in Int /\ NotADate < 0
  BY GateAssumption DEF NotADate
<1>2. s.until = NotADate \/ s.until \in Nat
  BY DEF Listing
<1>3. CASE s.key = None
  <2>1. Lifetime(s) = Ttl
    BY <1>3 DEF Lifetime
  <2> QED BY <1>1, <2>1
<1>4. CASE s.key # None /\ s.until = NotADate
  <2>1. Lifetime(s) = NotADate
    BY <1>4 DEF Lifetime
  <2> QED BY <1>1, <1>4, <2>1 DEF Refusable
<1>5. CASE s.key # None /\ s.until # NotADate
  <2>1. Lifetime(s) = IF s.until - now < Ttl THEN s.until - now ELSE Ttl
    BY <1>5 DEF Lifetime
  <2> QED BY <1>1, <1>2, <1>5, <2>1 DEF Refusable
<1> QED BY <1>3, <1>4, <1>5

\* An answer ends an exchange; nothing is left of it that the invariant is about.
LEMMA Answering ==
  ASSUME GateTypeOK, World, NEW e \in Exchanges, NEW a \in Answers
  PROVE  /\ Answer(e, a) \in Exchange
         /\ Sound(Answer(e, a))
<1> DEFINE r == Answer(e, a)
<1>1. r \in Exchange /\ r.at = "done" /\ r.look = "no" /\ r.genuine = FALSE
      /\ r.since = 0
  BY DEF Answer, Absent, Exchange, Places, NoListing, Listing, Answers, None, Bare
<1>2. now \in Nat
  BY GateAssumption DEF GateTypeOK, Times
<1> HIDE DEF r
<1>3. Sound(r)
  BY <1>1, <1>2 DEF Sound, InPlace, Signed, Vouched, Looked
<1> QED BY <1>1, <1>3 DEF r

\* Before its arrival an exchange has nothing that the invariant is about.
LEMMA AbsentIsSound ==
  /\ Absent \in Exchange
  /\ now \in Nat => Sound(Absent)
<1>1. Absent \in Exchange
  BY DEF Absent, Exchange, Places, NoListing, Listing, Answers, None, Bare
<1>2. Absent.at = "none" /\ Absent.look = "no" /\ Absent.genuine = FALSE
      /\ Absent.since = 0
  BY DEF Absent
<1> QED BY <1>1, <1>2 DEF Sound, InPlace, Signed, Vouched, Looked

LEMMA Following ==
  ASSUME GateTypeOK, NEW e \in Exchanges, InPlace(x[e]),
         x[e].at \in {"body", "route", "context", "sign", "self", "verify", "sender",
                      "schema"}
  PROVE  /\ PlaceAfter(x[e].at) \in Places \ {"done"}
         /\ role = "proxy" => PlaceAfter(x[e].at) \notin {"verify", "sender"}
         /\ role # "proxy" => PlaceAfter(x[e].at) \notin {"context", "sign", "self"}
         /\ PlaceAfter(x[e].at) \in {"sender", "schema", "handler"}
              /\ auth /\ role # "proxy"
            => x[e].at \in {"verify", "sender", "schema"}
BY DEF GateTypeOK, Roles, InPlace, PlaceAfter, AppOf, ProxyApp, BapApp, BppApp, RouteOf,
   ProxyRoute, BapRoute, BppRoute, Places

\* Every exchange stays sound if one is replaced by a sound one and the world stays.
LEMMA Replacing ==
  ASSUME GateTypeOK, \A e \in Exchanges : Sound(x[e]),
         NEW e \in Exchanges, NEW r \in Exchange, Sound(r), x' = [x EXCEPT ![e] = r],
         UNCHANGED <<role, auth, now, listed, lastListed, changedAt>>, cause => cause'
  PROVE  /\ x' \in [Exchanges -> Exchange]
         /\ \A f \in Exchanges : Sound(x[f])'
<1>1. x' \in [Exchanges -> Exchange]
  BY DEF GateTypeOK
<1>2. ASSUME NEW f \in Exchanges PROVE Sound(x[f])'
  <2>1. CASE f = e
    <3>1. x'[f] = r
      BY <2>1 DEF GateTypeOK
    <3> QED BY <3>1 DEF Sound, InPlace, Signed, Vouched, Looked
  <2>2. CASE f # e
    <3>1. x'[f] = x[f]
      BY <2>2 DEF GateTypeOK
    <3> QED BY <3>1 DEF Sound, InPlace, Signed, Vouched, Looked
  <2> QED BY <2>1, <2>2
<1> QED BY <1>1, <1>2

\* next() keeps what was vouched for, and asks for it where the chain begins to.
LEMMA PassingOn ==
  ASSUME GateTypeOK, NEW e \in Exchanges, Sound(x[e]),
         x[e].at \in {"body", "route", "context", "sign", "self", "sender", "schema"}
  PROVE  PassOn(e) \in Exchange /\ Sound(PassOn(e))
<1> DEFINE r == PassOn(e)
<1>1. /\ r \in Exchange /\ r.at = PlaceAfter(x[e].at) /\ r.look = "no"
      /\ r.sig = x[e].sig /\ r.genuine = x[e].genuine /\ r.gateway = x[e].gateway
      /\ r.since = x[e].since /\ r.passed = x[e].passed
  <2>1. PlaceAfter(x[e].at) \in Places
    BY Following DEF Sound
  <2>2. x[e] \in Exchange
    BY DEF GateTypeOK
  <2>3. NoListing \in Listing
    BY DEF NoListing, Listing, None
  <2> QED BY <2>1, <2>2, <2>3 DEF PassOn, Exchange
<1> HIDE DEF r
<1>2. Sound(r)
  BY <1>1, Following DEF Sound, InPlace, Signed, Vouched, Looked
<1> QED BY <1>1, <1>2 DEF r

\* What Init says of the server and of the registry holds.
LEMMA InitGate == GateInit => GateInv
<1> SUFFICES ASSUME GateInit PROVE GateInv
  OBVIOUS
<1> USE GateAssumption DEF GateInit
<1>1. Absent \in Exchange
  BY DEF Absent, Exchange, Places, NoListing, Listing, Answers, None, Bare
<1>2. GateTypeOK
  <2>1. listed \in Listing /\ cache \in Entry
    BY DEF Keys, Listing, Entry, None
  <2>2. x \in [Exchanges -> Exchange] /\ lastListed \in [Keys -> Nat]
    BY <1>1
  <2>3. now \in Times /\ minted \in Keys /\ outages \in 0..MaxOutages
    BY DEF Times, Keys
  <2>4. cause \in BOOLEAN
    BY Zenon DEF Refusable
  <2> QED BY <2>1, <2>2, <2>3, <2>4 DEF GateTypeOK
<1>3. World
  BY DEF World, None, Keys
<1>4. Cached
  <2>1. cache.key = None /\ cache.expires = 0 /\ now = 0
    OBVIOUS
  <2>2. 0 <= 0 + Unit * Ttl
    BY Bound
  <2> QED BY <2>1, <2>2 DEF Cached
<1>5. \A e \in Exchanges : Sound(x[e])
  <2>1. /\ Absent.at = "none" /\ Absent.look = "no" /\ Absent.genuine = FALSE
        /\ Absent.since = 0
    BY DEF Absent
  <2>2. Sound(Absent)
    BY <2>1 DEF Sound, InPlace, Signed, Vouched, Looked
  <2> QED BY <2>2
<1>6. DiesForACause
  BY DEF DiesForACause
<1> QED BY <1>2, <1>3, <1>4, <1>5, <1>6 DEF GateInv

-----------------------------------------------------------------------------
(***************************************************************************)
(* The steps of an exchange                                                *)
(***************************************************************************)

\* What every step of an exchange leaves as it is.
Kept == UNCHANGED <<role, auth, now, online, listed, minted, lastListed, changedAt,
                    cause, alive>>

\* A step that gives an exchange a sound record and leaves the cache alone.
LEMMA Stepping ==
  ASSUME GateInv, NEW e \in Exchanges, NEW r \in Exchange, Sound(r),
         x' = [x EXCEPT ![e] = r], Kept, UNCHANGED <<cache, doomed>>,
         outages' \in 0..MaxOutages, outages' >= outages
  PROVE  GateInv'
<1>1. /\ x' \in [Exchanges -> Exchange]
      /\ \A f \in Exchanges : Sound(x[f])'
  BY Replacing DEF GateInv, Kept
<1>2. GateTypeOK'
  BY <1>1 DEF GateInv, GateTypeOK, Kept
<1>3. World'
  <2>1. outages \in Nat /\ outages' \in Nat
    BY GateAssumption DEF GateInv, GateTypeOK
  <2> QED BY <2>1 DEF GateInv, World, Kept
<1>4. Cached' /\ DiesForACause'
  BY DEF GateInv, Cached, Kept, DiesForACause
<1> QED BY <1>1, <1>2, <1>3, <1>4 DEF GateInv

LEMMA AnsweringStep ==
  ASSUME GateInv, NEW e \in Exchanges, NEW a \in Answers, Put(e, Answer(e, a)), Kept,
         UNCHANGED <<cache, doomed>>, outages' \in 0..MaxOutages, outages' >= outages
  PROVE  GateInv'
BY Answering, Stepping DEF GateInv, Put

LEMMA PassingStep ==
  ASSUME GateInv, NEW e \in Exchanges, Put(e, PassOn(e)), Kept,
         UNCHANGED <<cache, doomed>>, outages' = outages,
         x[e].at \in {"body", "route", "context", "sign", "self", "sender", "schema"}
  PROVE  GateInv'
<1>1. outages' \in 0..MaxOutages /\ outages' >= outages
  BY GateAssumption DEF GateInv, GateTypeOK
<1> QED BY <1>1, PassingOn, Stepping DEF GateInv, Put

LEMMA Failing ==
  ASSUME NEW e \in Exchanges
  PROVE  \E a \in Answers : Failure(e) = Answer(e, a)
BY DEF Failure, Answers

\* The steps that only pass on or answer.
LEMMA ChainStep ==
  ASSUME GateInv, NEW e \in Exchanges,
         \/ ReadBody(e) \/ Route(e) \/ BuildContext(e) \/ RefuseContext(e)
         \/ SignRequest(e) \/ IdentifySelf(e) \/ IdentifySender(e)
         \/ ValidateRequest(e) \/ ValidateMessage(e) \/ SchemaError(e) \/ Handle(e)
         \/ HandleFails(e) \/ ParseFails(e) \/ LookupFails(e) \/ CheckFails(e)
  PROVE  GateInv'
<1>0. outages \in 0..MaxOutages /\ MaxOutages \in Nat
  BY GateAssumption DEF GateInv, GateTypeOK
<1>1. CASE ReadBody(e) \/ Route(e) \/ BuildContext(e) \/ RefuseContext(e)
           \/ SignRequest(e) \/ IdentifySelf(e) \/ IdentifySender(e)
           \/ ValidateRequest(e) \/ ValidateMessage(e) \/ SchemaError(e)
  <2>1. Kept /\ UNCHANGED <<cache, doomed>> /\ outages' = outages
    BY <1>1 DEF ReadBody, Route, BuildContext, RefuseContext, SignRequest, IdentifySelf,
       IdentifySender, ValidateRequest, ValidateMessage, SchemaError, Kept, world
  <2>2. \/ /\ Put(e, PassOn(e))
           /\ x[e].at \in {"body", "route", "context", "sign", "self", "sender",
                           "schema"}
        \/ \E a \in Answers : Put(e, Answer(e, a))
    BY <1>1 DEF ReadBody, Route, BuildContext, RefuseContext, SignRequest, IdentifySelf,
       IdentifySender, ValidateRequest, ValidateMessage, SchemaError, IsAt, Answers
  <2> QED BY <1>0, <2>1, <2>2, PassingStep, AnsweringStep
<1>2. CASE Handle(e) \/ ParseFails(e) \/ LookupFails(e)
  <2>1. Kept /\ UNCHANGED <<cache, doomed>> /\ outages' = outages
    BY <1>2 DEF Handle, ParseFails, LookupFails, Kept, world
  <2>2. \E a \in Answers : Put(e, Answer(e, a))
    BY <1>2, Failing DEF Handle, ParseFails, LookupFails, AnswersOf, ProxyAnswers,
       BapAnswers, BppAnswers, Answers, GateInv, GateTypeOK, Roles
  <2> QED BY <1>0, <2>1, <2>2, AnsweringStep
<1>3. CASE HandleFails(e) \/ CheckFails(e)
  <2>1. Kept /\ UNCHANGED <<cache, doomed>>
    BY <1>3 DEF HandleFails, CheckFails, Kept
  <2>2. outages' \in 0..MaxOutages /\ outages' >= outages
    BY <1>0, <1>3 DEF HandleFails, CheckFails
  <2>3. \E a \in Answers : Put(e, Answer(e, a))
    BY <1>3, Failing DEF HandleFails, CheckFails, Answers
  <2> QED BY <2>1, <2>2, <2>3, AnsweringStep
<1> QED BY <1>1, <1>2, <1>3

\* A message arrives with a signature that is genuine only if its key is listed.
LEMMA ArrivalStep ==
  ASSUME GateInv, NEW e \in Exchanges, Arrive(e)
  PROVE  GateInv'
<1>1. PICK sig \in Signatures, gateway \in Gateways :
        Put(e, [Absent EXCEPT !.at = AppOf[role].none, !.sig = sig,
                              !.gateway = gateway, !.since = now,
                              !.genuine = (sig \in Keys /\ sig = listed.key)])
  BY DEF Arrive
<1> DEFINE r == [Absent EXCEPT !.at = AppOf[role].none, !.sig = sig,
                               !.gateway = gateway, !.since = now,
                               !.genuine = (sig \in Keys /\ sig = listed.key)]
<1>2. now \in Nat /\ AppOf[role].none = "body" /\ sig \in {Bare, None} \cup Keys
  BY GateAssumption DEF GateInv, GateTypeOK, Times, AppOf, ProxyApp, BapApp, BppApp,
     Roles, Signatures
<1>9. gateway \in {"absent", "good", "bad"}
  BY DEF Gateways
<1>3. r \in Exchange
  BY <1>2, <1>9 DEF Absent, Exchange, Places, NoListing, Listing, Answers, None
<1>4. r.at = "body" /\ r.look = "no" /\ r.since = now
      /\ (r.genuine => r.sig \in Keys /\ r.sig = listed.key)
  BY <1>2 DEF Absent
<1>5. x' = [x EXCEPT ![e] = r]
  BY <1>1 DEF Put
<1> HIDE DEF r
<1>6. Sound(r)
  BY <1>2, <1>4 DEF Sound, InPlace, Signed, Vouched, Looked
<1>7. Kept /\ UNCHANGED <<cache, doomed>> /\ outages' = outages
  BY DEF Arrive, Kept, world
<1>8. outages' \in 0..MaxOutages /\ outages' >= outages
  BY <1>7, GateAssumption DEF GateInv, GateTypeOK
<1> QED BY <1>3, <1>5, <1>6, <1>7, <1>8, Stepping

-----------------------------------------------------------------------------
(***************************************************************************)
(* Lookups and signatures                                                  *)
(***************************************************************************)

\* A lookup changes nothing that the rest of the invariant is about.
LEMMA LookingUp ==
  ASSUME NEW e \in Exchanges, Sound(x[e]), NEW r, Looked(r),
         r.at = x[e].at, r.sig = x[e].sig, r.genuine = x[e].genuine,
         r.gateway = x[e].gateway, r.since = x[e].since, r.passed = x[e].passed
  PROVE  Sound(r)
BY DEF Sound, InPlace, Signed, Vouched

\* What the cache answers was listed Unit * Ttl ago at most, and so was the change,
\* if there was one.
LEMMA CheckCacheStep ==
  ASSUME GateInv, NEW e \in Exchanges, CheckCache(e)
  PROVE  GateInv'
<1> DEFINE look == LookupOf(Hit)
           found == IF look = "found" THEN [key |-> cache.key, until |-> 0]
                    ELSE NoListing
           r == [x[e] EXCEPT !.look = look, !.found = found]
<1>1. look \in {"asking", "found"} /\ (look = "found" => Hit)
  BY DEF LookupOf, ProxyLookup, BapLookup, BppLookup, GateInv, GateTypeOK, Roles
<1>2. found \in Listing
  BY DEF GateInv, GateTypeOK, Entry, Listing, NoListing
<1>3. x[e] \in Exchange
  BY DEF GateInv, GateTypeOK
<1>4. /\ r.look = look /\ r.found = found
      /\ r.at = x[e].at /\ r.sig = x[e].sig /\ r.genuine = x[e].genuine
      /\ r.gateway = x[e].gateway /\ r.since = x[e].since /\ r.passed = x[e].passed
  BY <1>3 DEF Exchange
<1>5. r \in Exchange
  BY <1>1, <1>2, <1>3 DEF Exchange
<1>6. x' = [x EXCEPT ![e] = r]
  BY DEF CheckCache, Put
<1>7. look = "found" => found.key = cache.key
  OBVIOUS
<1> HIDE DEF r, found, look
<1>8. Looked(r)
  <2>1. CASE look = "asking"
    BY <1>4, <2>1 DEF Looked
  <2>2. CASE look = "found"
    <3>1. /\ cache.key # None /\ now < cache.expires /\ cache.expires \in Nat
          /\ now \in Nat /\ changedAt \in Nat /\ lastListed[cache.key] \in Nat
      BY <1>1, <2>2, GateAssumption DEF Hit, GateInv, GateTypeOK, Entry, Times, None
    <3>2. Unit * Ttl \in Nat
      BY Bound
    <3>3. /\ cache.expires <= lastListed[cache.key] + Unit * Ttl
          /\ cache.key = listed.key \/ cache.expires <= changedAt + Unit * Ttl
      BY <3>1 DEF GateInv, Cached
    <3>4. x[e].genuine => changedAt >= x[e].since \/ x[e].sig = listed.key
      BY DEF GateInv, Sound, Signed
    <3> QED BY <1>4, <1>7, <2>2, <3>1, <3>2, <3>3, <3>4 DEF Looked
  <2> QED BY <1>1, <2>1, <2>2
<1>9. Sound(r)
  BY <1>4, <1>8, LookingUp DEF GateInv
<1>10. Kept /\ UNCHANGED <<cache, doomed>> /\ outages' = outages
  BY DEF CheckCache, Kept, world
<1>11. outages' \in 0..MaxOutages /\ outages' >= outages
  BY <1>10, GateAssumption DEF GateInv, GateTypeOK
<1> QED BY <1>5, <1>6, <1>9, <1>10, <1>11, Stepping

LEMMA RegistryStep ==
  ASSUME GateInv, NEW e \in Exchanges, RegistryReplies(e)
  PROVE  GateInv'
<1> DEFINE r == [x[e] EXCEPT !.look = "replied", !.found = listed]
<1>1. x[e] \in Exchange /\ listed \in Listing
  BY DEF GateInv, GateTypeOK
<1>2. /\ r.look = "replied" /\ r.found = listed
      /\ r.at = x[e].at /\ r.sig = x[e].sig /\ r.genuine = x[e].genuine
      /\ r.gateway = x[e].gateway /\ r.since = x[e].since /\ r.passed = x[e].passed
  BY <1>1 DEF Exchange
<1>3. r \in Exchange
  BY <1>1 DEF Exchange
<1>4. x' = [x EXCEPT ![e] = r]
  BY DEF RegistryReplies, Put
<1> HIDE DEF r
<1>5. Looked(r)
  BY <1>2 DEF Looked, GateInv, World, Sound, Signed
<1>6. Sound(r)
  BY <1>2, <1>5, LookingUp DEF GateInv
<1>7. Kept /\ UNCHANGED <<cache, doomed>> /\ outages' = outages
  BY DEF RegistryReplies, Kept, world
<1>8. outages' \in 0..MaxOutages /\ outages' >= outages
  BY <1>7, GateAssumption DEF GateInv, GateTypeOK
<1> QED BY <1>3, <1>4, <1>6, <1>7, <1>8, Stepping

\* The reply is at most as old as the last tick: its entry runs out Unit * Ttl later
\* at the latest, and where it cannot be written there is a cause.
LEMMA TakeListingStep ==
  ASSUME GateInv, NEW e \in Exchanges, TakeListing(e)
  PROVE  GateInv'
<1> DEFINE r == [x[e] EXCEPT !.look = "found"]
           s == x[e].found
           life == Lifetime(s)
<1>1. x[e] \in Exchange /\ s \in Listing /\ x[e].look = "replied"
  BY DEF GateInv, GateTypeOK, Exchange, TakeListing
<1>2. /\ r.look = "found" /\ r.found = s
      /\ r.at = x[e].at /\ r.sig = x[e].sig /\ r.genuine = x[e].genuine
      /\ r.gateway = x[e].gateway /\ r.since = x[e].since /\ r.passed = x[e].passed
  BY <1>1 DEF Exchange
<1>3. r \in Exchange
  BY <1>1 DEF Exchange
<1>4. x' = [x EXCEPT ![e] = r]
  BY DEF TakeListing, Put
<1>5. /\ s.key = listed.key \/ changedAt = now
      /\ s.key # None => lastListed[s.key] = now
      /\ Refusable(s, now) => cause
      /\ x[e].genuine /\ s.key # x[e].sig =>
           changedAt >= x[e].since \/ now <= changedAt + Unit * Ttl
  BY <1>1 DEF GateInv, Sound, Looked
<1>6. /\ now \in Nat /\ Unit * Ttl \in Nat /\ changedAt \in Nat
      /\ s.key \in {None} \cup Keys
  BY <1>1, Bound, GateAssumption DEF GateInv, GateTypeOK, Times, Listing
<1>7. /\ life \in Int /\ life <= Ttl
      /\ life <= 0 => Refusable(s, now)
  BY <1>1, <1>6, Lifetimes
<1> HIDE DEF r, s, life
<1>8. Looked(r)
  BY <1>2, <1>5, <1>6 DEF Looked
<1>9. Sound(r)
  BY <1>2, <1>8, LookingUp DEF GateInv
<1>10. /\ UNCHANGED <<role, auth, now, online, listed, minted, lastListed, changedAt,
                      alive>>
       /\ \/ SetWithExpiry(s.key, life) /\ UNCHANGED <<outages, cause>>
          \/ WriteFails
  BY DEF TakeListing, s, life
<1>11. /\ x' \in [Exchanges -> Exchange]
       /\ \A f \in Exchanges : Sound(x[f])'
  <2>1. cause => cause'
    BY <1>10 DEF WriteFails
  <2> QED BY <1>3, <1>4, <1>9, <1>10, <2>1, Replacing DEF GateInv
<1>12. outages' \in 0..MaxOutages /\ outages' >= outages /\ cause' \in BOOLEAN
       /\ (cause => cause')
  <2>1. outages \in 0..MaxOutages /\ MaxOutages \in Nat /\ cause \in BOOLEAN
    BY GateAssumption DEF GateInv, GateTypeOK
  <2>2. cause' = TRUE \/ cause' = cause
    BY <1>10 DEF WriteFails
  <2>3. cause' \in BOOLEAN /\ (cause => cause')
    BY <2>1, <2>2, Zenon
  <2>4. outages' = outages \/ (outages' = outages + 1 /\ outages < MaxOutages)
    BY <1>10 DEF WriteFails
  <2> QED BY <2>1, <2>3, <2>4
<1>13. World'
  BY <1>10, <1>12, GateAssumption DEF GateInv, GateTypeOK, World, Refusable
<1>14. CASE life > 0 /\ SetWithExpiry(s.key, life) /\ UNCHANGED <<outages, cause>>
  <2>1. cache' = [key |-> s.key, expires |-> now + Unit * life] /\ doomed' = doomed
    BY <1>14 DEF SetWithExpiry
  <2>2. Unit * life \in Nat /\ Unit * life <= Unit * Ttl
    BY <1>7, <1>14, Bound
  <2> DEFINE d == Unit * life
             b == Unit * Ttl
  <2>3. cache'.key = s.key /\ cache'.expires = now + d /\ cache' \in Entry
    BY <1>6, <2>1, <2>2 DEF Entry
  <2>4. d \in Nat /\ b \in Nat /\ d <= b
    BY <1>6, <2>2
  <2> HIDE DEF d
  <2>5. /\ cache'.expires <= now' + b
        /\ cache'.key # None => cache'.expires <= lastListed'[cache'.key] + b
        /\ cache'.key # None =>
             cache'.key = listed'.key \/ cache'.expires <= changedAt' + b
    <3> HIDE DEF b
    <3> QED BY <1>5, <1>6, <1>10, <2>3, <2>4
  <2>6. Cached'
    BY <2>5 DEF Cached
  <2>7. GateTypeOK'
    BY <1>10, <1>11, <1>12, <2>1, <2>3 DEF GateInv, GateTypeOK
  <2>8. DiesForACause'
    BY <1>14, <2>1 DEF GateInv, DiesForACause
  <2> QED BY <1>11, <1>13, <2>6, <2>7, <2>8 DEF GateInv
<1>15. CASE \/ ~(life > 0) /\ SetWithExpiry(s.key, life) /\ UNCHANGED <<outages, cause>>
           \/ WriteFails
  <2>1. cache' = cache /\ doomed' = TRUE
    BY <1>15 DEF SetWithExpiry, WriteFails
  <2>2. cause'
    BY <1>5, <1>7, <1>15 DEF WriteFails
  <2>3. Cached'
    BY <1>10, <2>1 DEF GateInv, Cached
  <2>4. GateTypeOK'
    BY <1>10, <1>11, <1>12, <2>1 DEF GateInv, GateTypeOK
  <2> QED BY <1>11, <1>13, <2>2, <2>3, <2>4 DEF GateInv, DiesForACause
<1> QED BY <1>10, <1>14, <1>15

\* So is the write that the gateway's lookup leaves behind: its cause is on record.
LEMMA GatewayStep ==
  ASSUME GateInv, NEW e \in Exchanges, GatewayWriteRefused(e)
  PROVE  GateInv'
<1>1. /\ UNCHANGED <<role, auth, now, online, listed, minted, outages, lastListed,
                     changedAt, cache, x, alive>>
      /\ doomed' = TRUE /\ cause' = TRUE
  BY DEF GatewayWriteRefused
<1>2. GateTypeOK' /\ World' /\ Cached' /\ DiesForACause'
  BY <1>1 DEF GateInv, GateTypeOK, World, Cached, DiesForACause
<1>3. \A e_1 \in Exchanges : Sound(x[e_1])'
  BY <1>1 DEF GateInv, Sound, InPlace, Signed, Vouched, Looked
<1> QED BY <1>2, <1>3 DEF GateInv

\* A signature is verified with the key that the lookup found.
LEMMA VerifyStep ==
  ASSUME GateInv, NEW e \in Exchanges, Verify(e)
  PROVE  GateInv'
<1>1. Kept /\ UNCHANGED <<cache, doomed>> /\ outages' = outages
  BY DEF Verify, Kept, world
<1>2. outages' \in 0..MaxOutages /\ outages' >= outages
  BY <1>1, GateAssumption DEF GateInv, GateTypeOK
<1>3. PICK byGateway \in ByGateway(e) :
        Put(e, IF Verified(e, byGateway)
                 THEN [PassOn(e) EXCEPT !.passed = now]
                 ELSE Answer(e, "unauthorized"))
  BY DEF Verify
<1>4. CASE ~Verified(e, byGateway)
  <2>1. Put(e, Answer(e, "unauthorized")) /\ "unauthorized" \in Answers
    BY <1>3, <1>4 DEF Answers
  <2> QED BY <1>1, <1>2, <2>1, AnsweringStep
<1>5. CASE Verified(e, byGateway)
  <2> DEFINE r == [PassOn(e) EXCEPT !.passed = now]
  <2>1. /\ x[e] \in Exchange /\ Sound(x[e]) /\ x[e].at = "verify"
        /\ x[e].look = "found" /\ now \in Nat
    BY GateAssumption DEF GateInv, GateTypeOK, Verify, IsAt, Times
  <2>2. PassOn(e) \in Exchange
    BY <2>1, Following DEF PassOn, GateInv, GateTypeOK, Exchange, NoListing, Listing,
       Sound, None
  <2>3. /\ r \in Exchange /\ r.at = PlaceAfter(x[e].at) /\ r.look = "no"
        /\ r.sig = x[e].sig /\ r.genuine = x[e].genuine /\ r.gateway = x[e].gateway
        /\ r.since = x[e].since /\ r.passed = now
    BY <2>1, <2>2 DEF PassOn, Exchange
  <2>4. /\ x[e].sig \in Keys /\ x[e].sig = x[e].found.key /\ x[e].gateway # "bad"
    BY <1>5 DEF Verified, ByGateway
  <2>5. now <= lastListed[x[e].sig] + Unit * Ttl
    BY <2>1, <2>4 DEF Sound, Looked, Keys, None
  <2>6. x' = [x EXCEPT ![e] = r]
    BY <1>3, <1>5 DEF Put
  <2> HIDE DEF r
  <2>7. Sound(r)
    BY <2>1, <2>3, <2>4, <2>5, Following DEF Sound, InPlace, Signed, Vouched, Looked,
       GateInv
  <2> QED BY <1>1, <1>2, <2>3, <2>6, <2>7, Stepping
<1> QED BY <1>4, <1>5

-----------------------------------------------------------------------------
(***************************************************************************)
(* The registry and time                                                   *)
(***************************************************************************)

\* A change of the listing explains every signature that it spoils.
LEMMA ChangeStep ==
  ASSUME GateInv, ChangeListing
  PROVE  GateInv'
<1>1. /\ now \in 0..MaxTime /\ MaxTime \in Nat /\ Ttl \in Nat /\ minted \in Keys
      /\ MaxKeys \in Nat /\ lastListed \in [Keys -> Nat] /\ Unit * Ttl \in Nat
      /\ changedAt \in Nat
  BY Bound, GateAssumption DEF GateInv, GateTypeOK, Times
<1>2. /\ changedAt' = now
      /\ UNCHANGED <<role, auth, now, online, outages, cache, x, doomed, alive>>
      /\ cause' = (cause \/ Refusable(listed', now))
  BY DEF ChangeListing
<1>3. /\ listed' \in Listing /\ minted' \in Keys /\ lastListed' \in [Keys -> Nat]
      /\ \A k \in Keys : lastListed'[k] = lastListed[k] \/ lastListed'[k] = now
      /\ listed'.key # None => lastListed'[listed'.key] = now
  <2>1. CASE minted < MaxKeys
              /\ minted' = minted + 1
              /\ (\E until \in {now + 1, MaxTime + Ttl + 1, NotADate} :
                    listed' = [key |-> minted + 1, until |-> until])
              /\ lastListed' = [lastListed EXCEPT ![minted + 1] = now]
    BY <1>1, <2>1 DEF Keys, Listing
  <2>2. CASE listed' = NoListing /\ UNCHANGED <<minted, lastListed>>
    BY <1>1, <2>2 DEF NoListing, Listing
  <2> QED BY <2>1, <2>2 DEF ChangeListing
<1>4. \A k \in Keys : lastListed'[k] >= lastListed[k] /\ lastListed'[k] <= now
                      /\ (lastListed[k] = now => lastListed'[k] = now)
  BY <1>1, <1>3 DEF GateInv, World
<1>5. cause' \in BOOLEAN /\ (cause => cause') /\ (Refusable(listed', now) => cause')
  BY <1>2, Zenon DEF Refusable
<1>10. GateTypeOK'
  BY <1>1, <1>2, <1>3, <1>5 DEF GateInv, GateTypeOK
<1>6. World'
  <2>1. Refusable(listed', now') => cause'
    BY <1>2, <1>5
  <2>2. changedAt' <= now' /\ \A k \in Keys : lastListed'[k] <= now'
    BY <1>1, <1>2, <1>4
  <2>3. listed'.key # None => lastListed'[listed'.key] = now'
    BY <1>2, <1>3
  <2>4. ~online' => outages' > 0
    BY <1>2 DEF GateInv, World
  <2> QED BY <2>1, <2>2, <2>3, <2>4 DEF World
<1>7. Cached'
  <2>1. cache.expires \in Nat /\ cache.key \in {None} \cup Keys
    BY DEF GateInv, GateTypeOK, Entry
  <2>2. cache.key # None => cache.expires <= lastListed'[cache.key] + Unit * Ttl
    BY <1>1, <1>3, <1>4, <2>1 DEF GateInv, Cached
  <2>3. cache.expires <= now + Unit * Ttl
    BY DEF GateInv, Cached
  <2> QED BY <1>2, <2>2, <2>3 DEF Cached
<1>8. ASSUME NEW e \in Exchanges PROVE Sound(x[e])'
  <2> DEFINE r == x[e]
  <2>1. /\ r.found \in Listing /\ r.since \in Nat /\ r.passed \in Nat
        /\ Sound(r)
    BY DEF GateInv, GateTypeOK, Exchange
  <2>2. r.found.key # None => r.found.key \in Keys
    BY <2>1 DEF Listing
  <2>3. x'[e] = r
    BY <1>2
  <2> HIDE DEF r
  <2>4. InPlace(r)' /\ Signed(r)'
    BY <1>1, <1>2, <2>1 DEF Sound, InPlace, Signed, r
  <2>5. Vouched(r)'
    <3>1. ASSUME r.sig \in Keys, r.passed <= lastListed[r.sig] + Unit * Ttl
          PROVE  r.passed <= lastListed'[r.sig] + Unit * Ttl
      BY <1>1, <1>3, <1>4, <2>1, <3>1
    <3> QED BY <1>2, <2>1, <2>3, <3>1 DEF Sound, Vouched, r
  <2>6. Looked(r)'
    <3>1. ASSUME r.found.key # None,
                 now <= lastListed[r.found.key] + Unit * Ttl
          PROVE  now <= lastListed'[r.found.key] + Unit * Ttl
      BY <1>1, <1>3, <1>4, <2>2, <3>1
    <3>2. changedAt' >= r.since
      BY <1>2, <2>1 DEF Sound, Signed
    <3> QED BY <1>2, <1>4, <1>5, <2>1, <2>2, <2>3, <3>1, <3>2 DEF Sound, Looked, r
  <2> QED BY <2>4, <2>5, <2>6 DEF Sound, r
<1>9. DiesForACause'
  BY <1>2, <1>5 DEF GateInv, DiesForACause
<1> QED BY <1>6, <1>7, <1>8, <1>9, <1>10 DEF GateInv

\* Time passes only while no lookup waits with a reply: what is listed stays listed,
\* and a listing that runs out is noticed.
LEMMA TickStep ==
  ASSUME GateInv, Tick
  PROVE  GateInv'
<1>1. /\ now \in 0..MaxTime /\ MaxTime \in Nat /\ lastListed \in [Keys -> Nat]
      /\ Unit * Ttl \in Nat /\ changedAt \in Nat /\ listed \in Listing
  BY Bound, GateAssumption DEF GateInv, GateTypeOK, Times
<1>2. /\ now' = now + 1 /\ now < MaxTime
      /\ cause' = (cause \/ Refusable(listed, now + 1))
      /\ UNCHANGED <<role, auth, online, listed, minted, outages, changedAt, cache, x,
                     doomed, alive>>
  BY DEF Tick
<1>3. /\ lastListed' \in [Keys -> Nat]
      /\ \A k \in Keys : lastListed'[k] = lastListed[k] \/ lastListed'[k] = now + 1
      /\ listed.key # None => lastListed'[listed.key] = now + 1
  <2>1. CASE listed.key = None
    BY <1>1, <2>1 DEF Tick
  <2>2. CASE listed.key # None
    <3>1. lastListed' = [lastListed EXCEPT ![listed.key] = now + 1]
      BY <2>2 DEF Tick
    <3>2. listed.key \in Keys
      BY <1>1, <2>2 DEF Listing
    <3> QED BY <1>1, <3>1, <3>2
  <2> QED BY <2>1, <2>2
<1>4. \A k \in Keys : lastListed'[k] >= lastListed[k] /\ lastListed'[k] <= now + 1
  BY <1>1, <1>3 DEF GateInv, World
<1>5. GateTypeOK'
  BY <1>1, <1>2, <1>3 DEF GateInv, GateTypeOK, Times
<1>6. World'
  <2>1. Refusable(listed', now') => cause'
    BY <1>2, Zenon
  <2>2. changedAt' <= now' /\ \A k \in Keys : lastListed'[k] <= now'
    BY <1>1, <1>2, <1>4 DEF GateInv, World
  <2>3. listed'.key # None => lastListed'[listed'.key] = now'
    BY <1>2, <1>3
  <2>4. ~online' => outages' > 0
    BY <1>2 DEF GateInv, World
  <2> QED BY <2>1, <2>2, <2>3, <2>4 DEF World
<1>7. Cached'
  <2>1. cache.expires \in Nat /\ cache.key \in {None} \cup Keys
    BY DEF GateInv, GateTypeOK, Entry
  <2>2. cache.key # None => cache.expires <= lastListed'[cache.key] + Unit * Ttl
    BY <1>1, <1>3, <1>4, <2>1 DEF GateInv, Cached
  <2>3. cache.expires <= now' + Unit * Ttl
    BY <1>1, <1>2, <2>1 DEF GateInv, Cached
  <2> QED BY <1>2, <2>2, <2>3 DEF GateInv, Cached
<1>8. ASSUME NEW e \in Exchanges PROVE Sound(x[e])'
  <2> DEFINE r == x[e]
  <2>1. /\ r.since \in Nat /\ r.passed \in Nat /\ Sound(r)
    BY DEF GateInv, GateTypeOK, Exchange
  <2>2. x'[e] = r /\ r.look \notin {"replied", "found"}
    BY <1>2 DEF Tick, Settled
  <2> HIDE DEF r
  <2>3. InPlace(r)' /\ Signed(r)' /\ Looked(r)'
    BY <1>1, <1>2, <2>1, <2>2 DEF Sound, InPlace, Signed, Looked, r
  <2>4. Vouched(r)'
    <3>1. ASSUME r.sig \in Keys, r.passed <= lastListed[r.sig] + Unit * Ttl
          PROVE  r.passed <= lastListed'[r.sig] + Unit * Ttl
      BY <1>1, <1>3, <1>4, <2>1, <3>1
    <3> QED BY <1>2, <2>1, <2>2, <3>1 DEF Sound, Vouched, r
  <2> QED BY <2>3, <2>4 DEF Sound, r
<1>9. DiesForACause'
  <2>1. cause => cause'
    BY <1>2, Zenon
  <2> QED BY <1>2, <2>1 DEF GateInv, DiesForACause
<1> QED BY <1>5, <1>6, <1>7, <1>8, <1>9 DEF GateInv

LEMMA OutageStep ==
  ASSUME GateInv, LoseRegistry \/ RestoreRegistry \/ UNCHANGED gateVars
  PROVE  GateInv'
<1>0. outages \in 0..MaxOutages /\ MaxOutages \in Nat
  BY GateAssumption DEF GateInv, GateTypeOK
<1>1. /\ UNCHANGED <<role, auth, now, listed, minted, lastListed, changedAt, cause,
                     cache, x, doomed>>
      /\ online' \in BOOLEAN /\ alive' \in BOOLEAN /\ outages' \in 0..MaxOutages
      /\ ~online' => outages' > 0
  <2>1. CASE LoseRegistry
    <3>1. online' = FALSE /\ alive' = alive
      BY <2>1 DEF LoseRegistry
    <3>2. online' \in BOOLEAN /\ alive' \in BOOLEAN
      BY <3>1 DEF GateInv, GateTypeOK
    <3>3. outages' \in 0..MaxOutages /\ outages' > 0
      BY <1>0, <2>1 DEF LoseRegistry
    <3>4. UNCHANGED <<role, auth, now, listed, minted, lastListed, changedAt, cause,
                      cache, x, doomed>>
      BY <2>1 DEF LoseRegistry
    <3> QED BY <3>2, <3>3, <3>4
  <2>2. CASE RestoreRegistry
    <3>1. online' = TRUE /\ alive' = alive /\ outages' = outages
      BY <2>2 DEF RestoreRegistry
    <3>2. alive' \in BOOLEAN
      BY <3>1 DEF GateInv, GateTypeOK
    <3>3. online' \in BOOLEAN /\ (~online' => outages' > 0)
      BY <3>1, Zenon
    <3>4. outages' \in 0..MaxOutages
      BY <1>0, <3>1
    <3>5. UNCHANGED <<role, auth, now, listed, minted, lastListed, changedAt, cause,
                      cache, x, doomed>>
      BY <2>2 DEF RestoreRegistry
    <3> QED BY <3>2, <3>3, <3>4, <3>5
  <2>3. CASE UNCHANGED gateVars
    BY <1>0, <2>3 DEF gateVars, world, GateInv, GateTypeOK, World
  <2> QED BY <2>1, <2>2, <2>3
<1>2. GateTypeOK' /\ World' /\ DiesForACause'
  BY <1>1 DEF GateInv, GateTypeOK, World, Refusable, DiesForACause
<1>3. Cached' /\ \A e \in Exchanges : Sound(x[e])'
  BY <1>1 DEF GateInv, Cached, Sound, InPlace, Signed, Vouched, Looked
<1> QED BY <1>1, <1>2, <1>3 DEF GateInv

\* The process that dies has nothing in hand any more.
LEMMA DieStep ==
  ASSUME GateInv, DieOfRejection
  PROVE  GateInv'
<1>1. /\ UNCHANGED <<role, auth, now, online, listed, minted, outages, lastListed,
                     changedAt, cause, cache, doomed>>
      /\ alive' = FALSE /\ x' = [e \in Exchanges |-> Absent]
  BY DEF DieOfRejection, world
<1>2. x' \in [Exchanges -> Exchange] /\ \A e \in Exchanges : Sound(x[e])'
  <2>1. ASSUME NEW e \in Exchanges PROVE Sound(x[e])'
    <3>1. now' \in Nat /\ x'[e] = Absent
      BY <1>1, GateAssumption DEF GateInv, GateTypeOK, Times
    <3> QED BY <3>1, AbsentIsSound DEF Sound, InPlace, Signed, Vouched, Looked, Absent
  <2> QED BY <1>1, <2>1, AbsentIsSound
<1>3. GateTypeOK' /\ World' /\ Cached' /\ DiesForACause'
  BY <1>1, <1>2 DEF GateInv, GateTypeOK, World, Cached, Refusable, DiesForACause
<1> QED BY <1>2, <1>3 DEF GateInv

LEMMA GateStep == GateInv /\ [GateNext]_gateVars => GateInv'
<1> SUFFICES ASSUME GateInv, [GateNext]_gateVars PROVE GateInv'
  OBVIOUS
<1>1. ASSUME NEW e \in Exchanges, Work(e) \/ CheckFails(e) \/ HandleFails(e)
      PROVE  GateInv'
  BY <1>1, ChainStep, CheckCacheStep, RegistryStep, TakeListingStep, GatewayStep, VerifyStep
  DEF Work, Lookup
<1> QED BY <1>1, ArrivalStep, ChangeStep, TickStep, OutageStep, DieStep DEF GateNext

LEMMA GateInvariant == GateSpec => []GateInv
BY InitGate, GateStep, PTL DEF GateSpec

-----------------------------------------------------------------------------
(***************************************************************************)
(* Theorems                                                                *)
(***************************************************************************)

\* The variables of the gate keep their types.
THEOREM GateTypes == GateSpec => []GateTypeOK
<1>1. GateInv => GateTypeOK
  BY DEF GateInv
<1> QED BY <1>1, GateInvariant, PTL

\* With app.auth, what a network server handles was signed with a key that the
\* registry listed at most Unit * Ttl before the signature was verified.
THEOREM Vouching == GateSpec => []HandledIsVouchedFor
<1>1. GateInv => HandledIsVouchedFor
  BY DEF GateInv, Sound, Vouched, HandledIsVouchedFor
<1> QED BY <1>1, GateInvariant, PTL

\* A listing that lasts ends no process, whatever lookups find in the cache, ask and
\* answer late: it takes one that has run out or is not a date, or a failing Redis.
THEOREM Deaths == GateSpec => []DiesForACause
<1>1. GateInv => DiesForACause
  BY DEF GateInv
<1> QED BY <1>1, GateInvariant, PTL

\* A lookup that contradicts a good signature does so because of a change: the step
\* that refuses has the cause that RefusesForACause names.
LEMMA RefusalStep ==
  ASSUME GateInv, [GateNext]_gateVars
  PROVE  RefusesForACause
<1> SUFFICES ASSUME NEW e \in Exchanges,
                    x[e].at # "done", x'[e].at = "done", x'[e].answer \in Refusals,
                    x[e].genuine, x[e].gateway # "bad"
             PROVE  outages > 0 \/ outages' > 0 \/ changedAt >= x[e].since
                      \/ now <= changedAt + Unit * Ttl
  BY DEF RefusesForACause
<1>0. /\ x \in [Exchanges -> Exchange] /\ Sound(x[e]) /\ outages \in Nat
      /\ x[e].sig \in Keys /\ x[e].sig # Bare /\ x[e].sig # None
  BY GateAssumption DEF GateInv, GateTypeOK, Sound, Signed, Keys, Bare, None
<1>1. ASSUME x'[e] = x[e] PROVE FALSE
  BY <1>1
<1>2. ASSUME NEW r, Put(e, r), r.at # "done" PROVE FALSE
  BY <1>0, <1>2 DEF Put
<1>3. ASSUME NEW a, Put(e, Answer(e, a)), a \notin Refusals PROVE FALSE
  BY <1>0, <1>3 DEF Put, Answer, Absent
<1>4. ASSUME NEW f \in Exchanges, NEW r, f # e, Put(f, r) PROVE FALSE
  BY <1>0, <1>1, <1>4 DEF Put
<1>5. ASSUME x[e].at \in {"body", "route", "context", "sign", "self", "verify",
                          "sender", "schema"}
      PROVE  PassOn(e).at # "done"
  BY <1>0, <1>5, Following DEF PassOn, Sound, GateInv, GateTypeOK, Exchange
<1>6. ASSUME x[e].look = "found", x[e].found.key # x[e].sig
      PROVE  changedAt >= x[e].since \/ now <= changedAt + Unit * Ttl
  BY <1>0, <1>6 DEF Sound, Looked
<1>7. ASSUME Put(e, PassOn(e)),
             x[e].at \in {"body", "route", "context", "sign", "self", "verify",
                          "sender", "schema"}
      PROVE  FALSE
  BY <1>2, <1>5, <1>7
<1>8. CASE \/ ReadBody(e) \/ Route(e) \/ BuildContext(e) \/ RefuseContext(e)
           \/ SignRequest(e) \/ ValidateRequest(e) \/ ValidateMessage(e)
           \/ SchemaError(e) \/ Handle(e) \/ HandleFails(e)
  <2>1. \/ /\ Put(e, PassOn(e))
           /\ x[e].at \in {"body", "route", "context", "sign", "self", "verify",
                           "sender", "schema"}
        \/ \E a : a \notin Refusals /\ Put(e, Answer(e, a))
    BY <1>8 DEF ReadBody, Route, BuildContext, RefuseContext, SignRequest,
       ValidateRequest, ValidateMessage, SchemaError, Handle, HandleFails, IsAt,
       Refusals, AnswersOf, ProxyAnswers, BapAnswers, BppAnswers, GateInv, GateTypeOK,
       Roles
  <2> QED BY <1>3, <1>7, <2>1
<1>9. CASE IdentifySelf(e) \/ IdentifySender(e)
  <2>1. \/ /\ Put(e, PassOn(e))
           /\ x[e].at \in {"body", "route", "context", "sign", "self", "verify",
                           "sender", "schema"}
        \/ x[e].look = "found" /\ x[e].found.key = None
    BY <1>9 DEF IdentifySelf, IdentifySender, IsAt, Known
  <2> QED BY <1>0, <1>6, <1>7, <2>1
<1>10. CASE Verify(e)
  <2>1. x[e].look = "found" /\ x[e].at = "verify"
    BY <1>10 DEF Verify, IsAt
  <2>2. PICK byGateway \in ByGateway(e) :
          Put(e, IF Verified(e, byGateway)
                   THEN [PassOn(e) EXCEPT !.passed = now]
                   ELSE Answer(e, "unauthorized"))
    BY <1>10 DEF Verify
  <2>3. CASE Verified(e, byGateway)
    <3>1. [PassOn(e) EXCEPT !.passed = now].at # "done"
      BY <1>0, <1>5, <2>1 DEF PassOn, GateInv, GateTypeOK, Exchange
    <3> QED BY <1>2, <2>2, <2>3, <3>1
  <2>4. CASE ~Verified(e, byGateway)
    <3>1. x[e].found.key # x[e].sig \/ ~byGateway
      BY <1>0, <2>4 DEF Verified
    <3>2. x[e].gateway \in {"absent", "good"}
      BY <1>0 DEF GateInv, GateTypeOK, Exchange
    <3>3. ~byGateway => outages > 0
      BY <2>2, <3>2 DEF ByGateway
    <3> QED BY <1>6, <2>1, <3>1, <3>3
  <2> QED BY <2>3, <2>4
<1>11. CASE ParseFails(e)
  BY <1>0, <1>11 DEF ParseFails, HeaderRead
<1>12. CASE LookupFails(e)
  BY <1>12 DEF LookupFails, GateInv, World
<1>13. CASE CheckFails(e)
  BY <1>0, <1>13 DEF CheckFails
<1>14. CASE CheckCache(e) \/ RegistryReplies(e) \/ TakeListing(e)
  <2>1. x[e].at # "done" /\ x[e] \in Exchange
    BY <1>0 DEF GateInv, GateTypeOK
  <2>2. ASSUME NEW look, NEW found,
               Put(e, [x[e] EXCEPT !.look = look, !.found = found])
        PROVE  FALSE
    <3>1. [x[e] EXCEPT !.look = look, !.found = found].at = x[e].at
      BY <2>1 DEF Exchange
    <3> QED BY <1>2, <2>1, <2>2, <3>1
  <2>3. [x[e] EXCEPT !.look = "found"].at = x[e].at
    BY <2>1 DEF Exchange
  <2>4. CASE CheckCache(e)
    BY <2>2, <2>4 DEF CheckCache
  <2>5. CASE RegistryReplies(e)
    BY <2>2, <2>5 DEF RegistryReplies
  <2>6. CASE TakeListing(e)
    BY <1>2, <2>1, <2>3, <2>6 DEF TakeListing
  <2> QED BY <1>14, <2>4, <2>5, <2>6
<1>15. CASE Arrive(e)
  <2>1. AppOf[role].none = "body"
    BY DEF GateInv, GateTypeOK, AppOf, ProxyApp, BapApp, BppApp, Roles
  <2>2. PICK sig \in Signatures, gateway \in Gateways :
          Put(e, [Absent EXCEPT !.at = AppOf[role].none, !.sig = sig,
                                !.gateway = gateway, !.since = now,
                                !.genuine = (sig \in Keys /\ sig = listed.key)])
    BY <1>15 DEF Arrive
  <2> DEFINE r == [Absent EXCEPT !.at = AppOf[role].none, !.sig = sig,
                                 !.gateway = gateway, !.since = now,
                                 !.genuine = (sig \in Keys /\ sig = listed.key)]
  <2>3. Put(e, r) /\ r.at = AppOf[role].none
    BY <2>2 DEF Absent
  <2> HIDE DEF r
  <2> QED BY <1>2, <2>1, <2>3
<1>16. ASSUME NEW f \in Exchanges, f # e,
              Arrive(f) \/ Work(f) \/ CheckFails(f) \/ HandleFails(f)
       PROVE  FALSE
  <2>1. (\E r : Put(f, r)) \/ x' = x
    BY <1>16 DEF GatewayWriteRefused, Arrive, Work, CheckFails, HandleFails, ReadBody, Route, BuildContext,
       RefuseContext, SignRequest, Lookup, ParseFails, CheckCache, RegistryReplies,
       TakeListing, LookupFails, Verify, IdentifySelf, IdentifySender, ValidateRequest,
       ValidateMessage, SchemaError, Handle
  <2> QED BY <1>1, <1>4, <1>16, <2>1
<1>17. CASE \/ ChangeListing \/ LoseRegistry \/ RestoreRegistry \/ Tick
            \/ GatewayWriteRefused(e) \/ UNCHANGED gateVars
  BY <1>1, <1>17 DEF ChangeListing, LoseRegistry, RestoreRegistry, Tick,
     GatewayWriteRefused, gateVars
<1>18. CASE DieOfRejection
  BY <1>0, <1>18 DEF DieOfRejection, Absent
<1> QED
  BY <1>8, <1>9, <1>10, <1>11, <1>12, <1>13, <1>14, <1>15, <1>16, <1>17, <1>18
  DEF GateNext, Work, Lookup

\* A message that was signed well is refused for its sender only for one of the named
\* causes, however lookups, answers and changes interleave.
THEOREM CausedRefusals == GateSpec => RefusedForACause
<1>1. GateInv /\ [GateNext]_gateVars => [RefusesForACause]_gateVars
  BY RefusalStep
<1> QED BY <1>1, GateInvariant, PTL DEF GateSpec, RefusedForACause

=============================================================================
