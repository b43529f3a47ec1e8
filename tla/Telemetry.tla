------------------------------ MODULE Telemetry ------------------------------
(***************************************************************************)
(* The telemetry of bap-network, which app.telemetry.enabled turns on.     *)
(* A request that was posted leaves an event in memory.  Once the events   *)
(* are enough, or the last synchronisation is old enough, the handler that *)
(* recorded the last one posts them all; what cannot be posted is put into *)
(* Redis; in either case the memory is emptied afterwards.  A successful   *)
(* post also empties Redis, in callbacks that nobody waits for.            *)
(*                                                                         *)
(* Handlers of other requests record their events meanwhile.               *)
(***************************************************************************)
EXTENDS Naturals, FiniteSets

CONSTANTS
  Events,   \* events, and the handlers that record them
  BatchSize \* app.telemetry.batchSize

ASSUME TelemetryAssumption == BatchSize \in Nat

VARIABLES
  memory,  \* telemetryCache: the events of all its arrays
  phase,   \* [Events -> Phases] of the handler
  payload, \* [Events -> SUBSET Events]: what the handler posts
  redis,   \* events in the batches of app.telemetry.redis_db
  drains,  \* handlers whose processCache is under way
  \* history
  posted, postedTwice, \* events that were posted, and posted again
  during,  \* events recorded while another handler posted or saved
  gone     \* events flushed from Redis, not saved there, or lost in a crash

telemetryVars ==
  <<memory, phase, payload, redis, drains, posted, postedTwice, during, gone>>

Phases == {"none", "posting", "saving", "done"}

Syncing == {m \in Events : phase[m] \in {"posting", "saving"}}

TelemetryInit ==
  /\ memory = {}
  /\ phase = [m \in Events |-> "none"]
  /\ payload = [m \in Events |-> {}]
  /\ redis = {} /\ drains = {}
  /\ posted = {} /\ postedTwice = {} /\ during = {} /\ gone = {}

-----------------------------------------------------------------------------

\* Mutant: they are flattened before the event is there.
FlattenedEarly(m) == memory

\* The arrays with the event that createTelemetryEvent makes of the request.
Recorded(m) == memory \cup {m}

\* The events that processTelemetry flattens for the handler that recorded m.
Flattened(m) == Recorded(m)

\* bapClientMessageConsumer records its event and processTelemetry decides, in one
\* step: by the number of events, or by the clock.
Record(m) ==
  /\ phase[m] = "none"
  /\ memory' = Recorded(m)
  /\ \E late \in BOOLEAN :
       IF late \/ Cardinality(memory') >= BatchSize
         THEN /\ phase' = [phase EXCEPT ![m] = "posting"]
              /\ payload' = [payload EXCEPT ![m] = Flattened(m)]
         ELSE /\ phase' = [phase EXCEPT ![m] = "done"]
              /\ UNCHANGED payload
  /\ during' = IF Syncing = {} THEN during ELSE during \cup {m}
  /\ UNCHANGED <<redis, drains, posted, postedTwice, gone>>

\* Mutant: the arrays are not reset.
KeepMemory(m) ==
  /\ phase' = [phase EXCEPT ![m] = "done"]
  /\ UNCHANGED memory

\* finally: the arrays are empty, whatever was recorded since.
ResetMemory(m) ==
  /\ phase' = [phase EXCEPT ![m] = "done"]
  /\ memory' = {}

\* The post succeeds and processCache starts to read Redis.
PushTelemetry(m) ==
  /\ phase[m] = "posting"
  /\ posted' = posted \cup payload[m]
  /\ postedTwice' = postedTwice \cup (posted \cap payload[m])
  /\ drains' = drains \cup {m}
  /\ ResetMemory(m)
  /\ UNCHANGED <<payload, redis, during, gone>>

\* Mutant: what cannot be posted waits in a phase that nobody ends.
RetryPush(m) ==
  /\ phase[m] = "posting"
  /\ phase' = [phase EXCEPT ![m] = "retrying"]
  /\ UNCHANGED <<memory, payload, redis, drains, posted, postedTwice, during, gone>>

\* It fails, after its retries.
PushFails(m) ==
  /\ phase[m] = "posting"
  /\ phase' = [phase EXCEPT ![m] = "saving"]
  /\ UNCHANGED <<memory, payload, redis, drains, posted, postedTwice, during, gone>>

SaveBatch(m) ==
  /\ phase[m] = "saving"
  /\ redis' = redis \cup payload[m]
  /\ ResetMemory(m)
  /\ UNCHANGED <<payload, drains, posted, postedTwice, during, gone>>

\* Redis fails as well: the error goes up to the handler, which logs it.
SaveFails(m) ==
  /\ phase[m] = "saving"
  /\ gone' = gone \cup payload[m]
  /\ ResetMemory(m)
  /\ UNCHANGED <<payload, redis, drains, posted, postedTwice, during>>

\* processCache posts the promises of what it reads, not the events, and flushes
\* the whole database if those posts succeeded.
ProcessCache(m) ==
  /\ m \in drains
  /\ drains' = drains \ {m}
  /\ \/ redis' = {} /\ gone' = gone \cup redis
     \/ UNCHANGED <<redis, gone>>
  /\ UNCHANGED <<memory, phase, payload, posted, postedTwice, during>>

\* The process ends and starts again with empty arrays.
CrashTelemetry ==
  /\ memory # {} \/ Syncing # {} \/ drains # {}
  /\ gone' = gone \cup memory \cup UNION {payload[m] : m \in Syncing}
  /\ memory' = {} /\ drains' = {}
  /\ phase' = [m \in Events |-> IF phase[m] = "none" THEN "none" ELSE "done"]
  /\ UNCHANGED <<payload, redis, posted, postedTwice, during>>

TelemetryNext ==
  \/ \E m \in Events :
       \/ Record(m) \/ PushTelemetry(m) \/ PushFails(m)
       \/ SaveBatch(m) \/ SaveFails(m) \/ ProcessCache(m)
  \/ CrashTelemetry

TelemetrySpec == TelemetryInit /\ [][TelemetryNext]_telemetryVars

-----------------------------------------------------------------------------

\* Every variable of the telemetry has its type.
TelemetryTypeOK ==
  /\ memory \subseteq Events
  /\ phase \in [Events -> Phases]
  /\ payload \in [Events -> SUBSET Events]
  /\ redis \subseteq Events /\ drains \subseteq Events
  /\ posted \subseteq Events /\ postedTwice \subseteq Events
  /\ during \subseteq Events /\ gone \subseteq Events

\* The reset of the arrays drops only events that were recorded while another
\* handler was posting: any other event that was recorded is in memory, on its way,
\* posted, in Redis, or was in Redis or lost with it.
DroppedOnlyDuringSync ==
  \A e \in Events :
    phase[e] # "none" =>
      \/ e \in memory \cup posted \cup redis \cup gone \cup during
      \/ \E m \in Syncing : e \in payload[m]

\* An event is posted twice only if one of the posts was made by a handler that
\* recorded its own event while another one was posting.
PostedTwiceOnlyByOverlap ==
  \A e \in postedTwice : \E m \in during : e \in payload[m]

\* Without handlers that overlap every recorded event is on its way or posted, and
\* once: overlapping is what both drops and repeats.
EventsPostedOnce == DroppedOnlyDuringSync /\ PostedTwiceOnlyByOverlap

=============================================================================
