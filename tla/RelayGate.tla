----------------------------- MODULE RelayGate -----------------------------
(***************************************************************************)
(* What stands in front of the handlers of a relay server: the middleware  *)
(* chain of its routes, with the registry lookups and the cache behind     *)
(* them.  bap-proxy completes the context of its client's request, signs   *)
(* it and looks itself up; bap-network and bpp-network verify the sender's *)
(* signature with the key the registry lists, then look the sender up      *)
(* again.  Then the message is checked against the schema and handled.     *)
(*                                                                         *)
(* Time is counted in units longer than a round trip.  The senders' keys   *)
(* are re-registered, withdrawn and run out; a lookup may answer from the  *)
(* cache what the registry listed before; the write to the cache is not    *)
(* awaited, and where it is rejected the process dies of the rejection.    *)
(***************************************************************************)
EXTENDS Integers

CONSTANTS
  Exchanges,  \* requests to one server from one sender
  Ttl,        \* cache.ttl in units of time
  Unit,       \* how many units Redis takes a unit of the ttl for
  MaxTime,    \* bound: the last moment
  MaxKeys,    \* bound: keys that the sender registers
  MaxOutages  \* bound: failures of the registry or of Redis

ASSUME GateAssumption ==
  /\ Ttl \in Nat \ {0}
  /\ Unit \in Nat \ {0}
  /\ MaxTime \in Nat
  /\ MaxKeys \in Nat \ {0}
  /\ MaxOutages \in Nat

Roles == {"proxy", "bap", "bpp"}
Keys  == 1..MaxKeys
Times == 0..MaxTime
None  == 0  \* no key: nobody is listed, or a signature that fails
Bare  == -1 \* no authorization header that can be read

\* A valid_until that Date.parse makes NaN of: the registry may list any string.
NotADate == -1

\* A subscriber as the registry lists it, and an entry of the lookup cache.
Listing == [key : {None} \cup Keys, until : Nat \cup {NotADate}]
Entry   == [key : {None} \cup Keys, expires : Nat]

VARIABLES
  role, auth, \* the server, and whether app.auth is set; both fixed
  now,
  online,     \* the registry answers
  listed,     \* the sender's Listing
  minted,     \* the sender's newest key
  cache,      \* the server's Entry for the sender
  x,          \* [Exchanges -> Exchange]
  doomed,     \* a write to the cache was rejected and nobody handles it
  alive,      \* the process runs
  outages,    \* failures so far
  lastListed, \* [Keys -> Nat]: when the registry last listed a key
  changedAt,  \* when the listing last changed
  cause       \* something has happened that may have a write to the cache rejected

world    == <<now, online, listed, minted, outages, lastListed, changedAt, cause>>
gateVars == <<role, auth, world, cache, x, doomed, alive>>

Places == {"none", "body", "route", "context", "sign", "self", "verify", "sender",
           "schema", "handler", "done"}

Answers == {"none", "ack", "nack", "unrouted", "unconfigured", "invalid",
            "unsigned", "unauthorized", "unknown", "error", "silent"}

Exchange ==
  [at      : Places,
   look    : {"no", "asking", "replied", "found"}, \* of the lookup under way
   found   : Listing,                \* what it returns
   sig     : {Bare, None} \cup Keys, \* the key that made the signature
   genuine : BOOLEAN,                \* the registry listed that key on arrival
   gateway : {"absent", "good", "bad"}, \* the proxy-authorization header
   since   : Nat,                    \* arrival
   passed  : Nat,                    \* when the signature was verified
   answer  : Answers]

NoListing == [key |-> None, until |-> 0]

Absent == [at |-> "none", look |-> "no", found |-> NoListing, sig |-> None,
           genuine |-> FALSE, gateway |-> "absent", since |-> 0, passed |-> 0,
           answer |-> "none"]

-----------------------------------------------------------------------------
(***************************************************************************)
(* The applications and their routes                                       *)
(***************************************************************************)

\* What initializeExpress puts before the routes of each server.
ProxyApp == [none |-> "body", body |-> "route"]

BapApp == [none |-> "body", body |-> "route"]

BppApp == [none |-> "body", body |-> "route"]

\* The middleware of a configured action.
ProxyRoute == [route |-> "context", context |-> "sign", sign |-> "self",
               self |-> "schema", schema |-> "handler"]

BapRoute == [route |-> "verify", verify |-> "sender", sender |-> "schema",
             schema |-> "handler"]

BppRoute == [route |-> "verify", verify |-> "sender", sender |-> "schema",
             schema |-> "handler"]

AppOf   == [proxy |-> ProxyApp, bap |-> BapApp, bpp |-> BppApp]
RouteOf == [proxy |-> ProxyRoute, bap |-> BapRoute, bpp |-> BppRoute]

\* Without app.auth the authValidator goes to the sender's details at once.
PlaceAfter(place) ==
  IF place \in {"none", "body"} THEN AppOf[role][place]
  ELSE IF place = "route" /\ role # "proxy" /\ ~auth THEN "sender"
  ELSE RouteOf[role][place]

IsAt(e, place) == alive /\ x[e].at = place

Put(e, r) == x' = [x EXCEPT ![e] = r]

\* next()
PassOn(e) ==
  [x[e] EXCEPT !.at = PlaceAfter(x[e].at), !.look = "no", !.found = NoListing]

\* A response of the chain itself, or next(error) and the error handler.
Answer(e, answer) == [Absent EXCEPT !.at = "done", !.answer = answer]

-----------------------------------------------------------------------------
(***************************************************************************)
(* Arrival, body and context                                               *)
(***************************************************************************)

\* Mutant: the sender signs with a key that it has not registered yet.
SignaturesAhead == {Bare, None, minted + 1}

\* The header that a sender makes: with its newest key, with one that nobody
\* knows, or none.
Signatures == {Bare, None, minted}

\* Only a message of the network may have come through a gateway.
Gateways == IF role = "proxy" THEN {"absent"} ELSE {"absent", "good", "bad"}

Arrive(e) ==
  /\ IsAt(e, "none") \/ IsAt(e, "done")
  /\ \E sig \in Signatures, gateway \in Gateways :
       Put(e, [Absent EXCEPT !.at = AppOf[role].none, !.sig = sig,
                             !.gateway = gateway, !.since = now,
                             !.genuine = (sig \in Keys /\ sig = listed.key)])
  /\ UNCHANGED <<role, auth, world, cache, doomed, alive>>

\* The JSON parser refuses what is malformed or too large.
ReadBody(e) ==
  /\ IsAt(e, "body")
  /\ Put(e, PassOn(e)) \/ Put(e, Answer(e, "invalid"))
  /\ UNCHANGED <<role, auth, world, cache, doomed, alive>>

\* An action that is not configured has a route that answers for itself.
Route(e) ==
  /\ IsAt(e, "route")
  /\ \/ Put(e, PassOn(e))
     \/ \E answer \in {"unconfigured", "unrouted"} : Put(e, Answer(e, answer))
  /\ UNCHANGED <<role, auth, world, cache, doomed, alive>>

BuildContext(e) ==
  /\ IsAt(e, "context")
  /\ Put(e, PassOn(e))
  /\ UNCHANGED <<role, auth, world, cache, doomed, alive>>

\* A context without domain, version or a known action is refused.
RefuseContext(e) ==
  /\ IsAt(e, "context")
  /\ Put(e, Answer(e, "invalid"))
  /\ UNCHANGED <<role, auth, world, cache, doomed, alive>>

\* bap-proxy signs what it will send; without a usable private key that throws.
SignRequest(e) ==
  /\ IsAt(e, "sign")
  /\ Put(e, PassOn(e)) \/ Put(e, Answer(e, "unsigned"))
  /\ UNCHANGED <<role, auth, world, cache, doomed, alive>>

-----------------------------------------------------------------------------
(***************************************************************************)
(* Lookups: registryLookup, LookupCache                                    *)
(***************************************************************************)

\* Where a server looks up: a header that cannot be read ends it before that.
LooksUp(e) == alive /\ x[e].at \in {"self", "verify", "sender"}

HeaderRead(e) == x[e].at = "self" \/ x[e].sig # Bare

\* verifyHeader turns any failure into FALSE; the other lookups throw.
Failure(e) == Answer(e, IF x[e].at = "verify" THEN "unauthorized" ELSE "error")

ParseFails(e) ==
  /\ LooksUp(e) /\ ~HeaderRead(e)
  /\ Put(e, Failure(e))
  /\ UNCHANGED <<role, auth, world, cache, doomed, alive>>

\* Mutant: an entry has no end.
HitForever == cache.key # None

\* An empty list that was cached is not taken for an answer.
Hit == cache.key # None /\ now < cache.expires

\* registryLookup of each server after the check of the cache: bap-proxy and
\* bpp-network return what it has, in bap-network that is commented out.
ProxyLookup(hit) == IF hit THEN "found" ELSE "asking"

BapLookup(hit) == "asking"

BppLookup(hit) == IF hit THEN "found" ELSE "asking"

LookupOf(hit) ==
  CASE role = "proxy" -> ProxyLookup(hit)
    [] role = "bap"   -> BapLookup(hit)
    [] role = "bpp"   -> BppLookup(hit)

CheckCache(e) ==
  /\ LooksUp(e) /\ HeaderRead(e) /\ x[e].look = "no"
  /\ Put(e, [x[e] EXCEPT !.look  = LookupOf(Hit),
                         !.found = IF LookupOf(Hit) = "found"
                                     THEN [key |-> cache.key, until |-> 0]
                                     ELSE NoListing])
  /\ UNCHANGED <<role, auth, world, cache, doomed, alive>>

\* The registry reads its list; its reply is on the way.
RegistryReplies(e) ==
  /\ LooksUp(e) /\ x[e].look = "asking" /\ online
  /\ Put(e, [x[e] EXCEPT !.look = "replied", !.found = listed])
  /\ UNCHANGED <<role, auth, world, cache, doomed, alive>>

\* Mutant: the last moment of a listing is cut off.
LifetimeShort(s) ==
  IF s.key # None /\ s.until # NotADate /\ s.until - now < Ttl + 1
    THEN s.until - now - 1 ELSE Ttl

\* The time to live of an entry: cache.ttl, or what is left of valid_until, both in
\* milliseconds; NaN where there is no date, as Math.min has it.
Lifetime(s) ==
  IF s.key = None THEN Ttl
  ELSE IF s.until = NotADate THEN NotADate
  ELSE IF s.until - now < Ttl THEN s.until - now ELSE Ttl

\* set(key, value, "EX", life): EX takes seconds, and refuses what is not a positive
\* number.  The promise of this write is dropped.
SetWithExpiry(key, life) ==
  IF life > 0
    THEN cache' = [key |-> key, expires |-> now + Unit * life] /\ UNCHANGED doomed
    ELSE doomed' = TRUE /\ UNCHANGED cache

\* Redis, or the connection to it, fails at the write.
WriteFails ==
  /\ outages < MaxOutages /\ outages' = outages + 1
  /\ cause' = TRUE
  /\ doomed' = TRUE
  /\ UNCHANGED cache

\* The lookup goes on while the write is under way.
TakeListing(e) ==
  /\ LooksUp(e) /\ x[e].look = "replied"
  /\ Put(e, [x[e] EXCEPT !.look = "found"])
  /\ \/ /\ SetWithExpiry(x[e].found.key, Lifetime(x[e].found))
        /\ UNCHANGED <<outages, cause>>
     \/ WriteFails
  /\ UNCHANGED <<role, auth, now, online, listed, minted, lastListed, changedAt, alive>>

\* The registry cannot be reached, or does not answer what it should.
LookupFails(e) ==
  /\ LooksUp(e) /\ x[e].look = "asking" /\ ~online
  /\ Put(e, Failure(e))
  /\ UNCHANGED <<role, auth, world, cache, doomed, alive>>

\* Redis fails at the check.
CheckFails(e) ==
  /\ LooksUp(e) /\ HeaderRead(e) /\ x[e].look = "no"
  /\ outages < MaxOutages /\ outages' = outages + 1
  /\ Put(e, Failure(e))
  /\ UNCHANGED <<role, auth, now, online, listed, minted, lastListed, changedAt,
                 cause, cache, doomed, alive>>

-----------------------------------------------------------------------------
(***************************************************************************)
(* Signatures                                                              *)
(***************************************************************************)

\* Mutant: one good header is enough.
VerifiedByEither(e, byGateway) ==
  \/ x[e].sig \in Keys /\ x[e].sig = x[e].found.key
  \/ byGateway /\ x[e].gateway = "good"

\* Both headers, if both are there; getSubscriberDetails throws for a sender that
\* is not listed.
Verified(e, byGateway) ==
  /\ x[e].sig \in Keys /\ x[e].sig = x[e].found.key
  /\ byGateway

\* What the second verification comes to: its own lookup may fail.
ByGateway(e) ==
  CASE x[e].gateway = "absent" -> {TRUE}
    [] x[e].gateway = "good"   -> IF outages > 0 THEN {TRUE, FALSE} ELSE {TRUE}
    [] x[e].gateway = "bad"    -> {FALSE}

\* The lookup of the gateway's key writes to the cache as well, and the write is
\* rejected where the gateway's own valid_until has passed or is not a date.
GatewayWriteRefused(e) ==
  /\ IsAt(e, "verify") /\ x[e].gateway # "absent"
  /\ doomed' = TRUE
  /\ cause' = TRUE
  /\ UNCHANGED <<role, auth, now, online, listed, minted, outages, lastListed, changedAt,
                 cache, x, alive>>

Verify(e) ==
  /\ IsAt(e, "verify") /\ x[e].look = "found"
  /\ \E byGateway \in ByGateway(e) :
       Put(e, IF Verified(e, byGateway)
                THEN [PassOn(e) EXCEPT !.passed = now]
                ELSE Answer(e, "unauthorized"))
  /\ UNCHANGED <<role, auth, world, cache, doomed, alive>>

\* getSubscriberDetails throws where nobody is listed.
Known(e) == x[e].found.key # None

\* bap-proxy asks for its own details.
IdentifySelf(e) ==
  /\ IsAt(e, "self") /\ x[e].look = "found"
  /\ Put(e, IF Known(e) THEN PassOn(e) ELSE Answer(e, "unknown"))
  /\ UNCHANGED <<role, auth, world, cache, doomed, alive>>

\* getSenderDetails, a lookup of its own.
IdentifySender(e) ==
  /\ IsAt(e, "sender") /\ x[e].look = "found"
  /\ Put(e, IF Known(e) THEN PassOn(e) ELSE Answer(e, "unknown"))
  /\ UNCHANGED <<role, auth, world, cache, doomed, alive>>

-----------------------------------------------------------------------------
(***************************************************************************)
(* Schema and handler                                                      *)
(***************************************************************************)

\* bap-proxy may be told to take the schema of the request's domain.
ValidateRequest(e) ==
  /\ IsAt(e, "schema") /\ role = "proxy"
  /\ Put(e, PassOn(e))
  /\ UNCHANGED <<role, auth, world, cache, doomed, alive>>

\* The network servers have one schema.
ValidateMessage(e) ==
  /\ IsAt(e, "schema") /\ role # "proxy"
  /\ Put(e, PassOn(e))
  /\ UNCHANGED <<role, auth, world, cache, doomed, alive>>

SchemaError(e) ==
  /\ IsAt(e, "schema")
  /\ Put(e, Answer(e, "invalid"))
  /\ UNCHANGED <<role, auth, world, cache, doomed, alive>>

\* How each server's handler acknowledges: bap-proxy refuses a request without an
\* address and bap-network a reply that nobody waits for.
ProxyAnswers == {"ack", "nack"}

BapAnswers == {"ack", "nack"}

BppAnswers == {"ack"}

AnswersOf == [proxy |-> ProxyAnswers, bap |-> BapAnswers, bpp |-> BppAnswers]

Handle(e) ==
  /\ IsAt(e, "handler")
  /\ \E answer \in AnswersOf[role] : Put(e, Answer(e, answer))
  /\ UNCHANGED <<role, auth, world, cache, doomed, alive>>

\* bap-network reads the request cache before it answers: where that throws, the
\* catch block logs and the exchange stays without an answer.
HandleFails(e) ==
  /\ IsAt(e, "handler") /\ role = "bap"
  /\ outages < MaxOutages /\ outages' = outages + 1
  /\ Put(e, Answer(e, "silent"))
  /\ UNCHANGED <<role, auth, now, online, listed, minted, lastListed, changedAt,
                 cause, cache, doomed, alive>>

-----------------------------------------------------------------------------
(***************************************************************************)
(* The registry, time, and the end of the process                          *)
(***************************************************************************)

\* History: at time t the write of an entry for s would be refused.
Refusable(s, t) == s.key # None /\ (s.until = NotADate \/ s.until <= t)

\* The sender registers its next key, or is taken off the list.
ChangeListing ==
  /\ \/ /\ minted < MaxKeys
        /\ minted' = minted + 1
        /\ \E until \in {now + 1, MaxTime + Ttl + 1, NotADate} :
             listed' = [key |-> minted + 1, until |-> until]
        /\ lastListed' = [lastListed EXCEPT ![minted + 1] = now]
     \/ /\ listed.key # None
        /\ listed' = NoListing
        /\ UNCHANGED <<minted, lastListed>>
  /\ changedAt' = now
  /\ cause' = (cause \/ Refusable(listed', now))
  /\ UNCHANGED <<role, auth, now, online, outages, cache, x, doomed, alive>>

LoseRegistry ==
  /\ online
  /\ outages < MaxOutages /\ outages' = outages + 1
  /\ online' = FALSE
  /\ UNCHANGED <<role, auth, now, listed, minted, lastListed, changedAt, cause,
                 cache, x, doomed, alive>>

RestoreRegistry ==
  /\ ~online
  /\ online' = TRUE
  /\ UNCHANGED <<role, auth, now, listed, minted, outages, lastListed, changedAt,
                 cause, cache, x, doomed, alive>>

\* A reply of the registry takes less than a unit of time.
Settled == \A e \in Exchanges : x[e].look \notin {"replied", "found"}

Tick ==
  /\ now < MaxTime
  /\ Settled
  /\ now' = now + 1
  /\ lastListed' = IF listed.key = None THEN lastListed
                   ELSE [lastListed EXCEPT ![listed.key] = now + 1]
  /\ cause' = (cause \/ Refusable(listed, now + 1))
  /\ UNCHANGED <<role, auth, online, listed, minted, outages, changedAt, cache, x,
                 doomed, alive>>

\* The rejection that nobody handles ends the process, and what it was doing.
DieOfRejection ==
  /\ doomed /\ alive
  /\ alive' = FALSE
  /\ x' = [e \in Exchanges |-> Absent]
  /\ UNCHANGED <<role, auth, world, cache, doomed>>

-----------------------------------------------------------------------------

GateInit ==
  /\ role \in Roles /\ auth \in BOOLEAN
  /\ now = 0 /\ online = TRUE
  /\ minted = 1
  /\ \E until \in {1, MaxTime + Ttl + 1, NotADate} :
       listed = [key |-> 1, until |-> until]
  /\ cache = [key |-> None, expires |-> 0]
  /\ x = [e \in Exchanges |-> Absent]
  /\ doomed = FALSE /\ alive = TRUE
  /\ outages = 0
  /\ lastListed = [k \in Keys |-> 0]
  /\ changedAt = 0
  /\ cause = Refusable(listed, 0)

Lookup(e) ==
  \/ ParseFails(e) \/ CheckCache(e) \/ RegistryReplies(e) \/ TakeListing(e)
  \/ LookupFails(e)

Work(e) ==
  \/ ReadBody(e) \/ Route(e) \/ BuildContext(e) \/ RefuseContext(e)
  \/ SignRequest(e) \/ Lookup(e) \/ GatewayWriteRefused(e) \/ Verify(e)
  \/ IdentifySelf(e) \/ IdentifySender(e) \/ ValidateRequest(e) \/ ValidateMessage(e)
  \/ SchemaError(e) \/ Handle(e)

GateNext ==
  \/ \E e \in Exchanges : Arrive(e) \/ Work(e) \/ CheckFails(e) \/ HandleFails(e)
  \/ ChangeListing \/ LoseRegistry \/ RestoreRegistry \/ Tick
  \/ DieOfRejection

GateSpec == GateInit /\ [][GateNext]_gateVars

-----------------------------------------------------------------------------
(***************************************************************************)
(* Properties                                                              *)
(***************************************************************************)

\* Every variable of the gate has its type.
GateTypeOK ==
  /\ role \in Roles /\ auth \in BOOLEAN
  /\ now \in Times /\ online \in BOOLEAN
  /\ listed \in Listing
  /\ minted \in Keys
  /\ cache \in Entry
  /\ x \in [Exchanges -> Exchange]
  /\ doomed \in BOOLEAN /\ alive \in BOOLEAN
  /\ outages \in 0..MaxOutages
  /\ lastListed \in [Keys -> Nat]
  /\ changedAt \in Nat
  /\ cause \in BOOLEAN

\* With app.auth a message of the network reaches its handler only if its sender
\* signed it with a key that the registry listed at most Unit * Ttl before, and no
\* gateway header it carries is wrong.
HandledIsVouchedFor ==
  \A e \in Exchanges :
    auth /\ role # "proxy" /\ x[e].at = "handler" =>
      /\ x[e].sig \in Keys
      /\ x[e].gateway # "bad"
      /\ x[e].passed <= lastListed[x[e].sig] + Unit * Ttl

Refusals == {"unauthorized", "unknown", "error"}

\* A message whose signature was good on arrival is refused for its sender only if
\* the registry or Redis failed, or the sender's listing changed since the arrival
\* or at most Unit * Ttl before the answer.
RefusesForACause ==
  \A e \in Exchanges :
    /\ x[e].at # "done" /\ x'[e].at = "done" /\ x'[e].answer \in Refusals
    /\ x[e].genuine /\ x[e].gateway # "bad"
    => outages > 0 \/ outages' > 0 \/ changedAt >= x[e].since
         \/ now <= changedAt + Unit * Ttl

RefusedForACause == [][RefusesForACause]_gateVars

\* A server dies of the write that a lookup leaves behind only if the registry has
\* listed the sender, or the server itself, with a valid_until that passed meanwhile
\* or is not a date, or a gateway so, or Redis failed at a write.  Whatever lookups
\* find in the cache, ask and answer late, a listing that lasts kills nobody.
DiesForACause == doomed => cause

=============================================================================
