--------------------------- MODULE RelayServersProofs ---------------------------
(***************************************************************************)
(* Proofs about RelayBoot, for any messages, any configurations and any    *)
(* number of faults: the wiring of a server that listens, and the causes   *)
(* of servers that stand still and of messages that are lost.  Below them  *)
(* are those about Telemetry, for any events and any size of a batch: what *)
(* the reset of the arrays may drop, and how an event is posted twice.     *)
(***************************************************************************)
EXTENDS RelayBoot, Telemetry, TLAPS

-----------------------------------------------------------------------------
(***************************************************************************)
(* What a server has got by the step that its main is at                   *)
(***************************************************************************)

Connected  == {"inbox", "outbox", "consume", "responses", "listen", "up"}
HasInbox   == {"outbox", "consume", "responses", "listen", "up"}
HasOutbox  == {"consume", "responses", "listen", "up"}
HasConsumer == {"responses", "listen", "up"}

Wired(p) ==
  /\ p = "proxy" => stage[p] \notin {"inbox", "outbox", "consume"}
  /\ stage[p] \notin {"off", "config"} => ParsesConfig(config[p])
  /\ stage[p] \in Connected => channel[p] = "open" \/ faults > 0
  /\ p \in Networks /\ stage[p] \in HasInbox => Inbox(p) \in declared
  /\ p \in Networks /\ stage[p] \in HasOutbox => Outbox(p) \in declared
  /\ p \in Networks /\ stage[p] \in HasConsumer /\ channel[p] = "open" =>
       (p \in consuming <=> Placed(p))
  /\ p \in consuming => Placed(p) /\ stage[p] \in HasConsumer \cup {"stuck"}
  /\ stage[p] = "stuck" => faults > 0 /\ (p \in consuming => mongoStops > 0)

Causes ==
  /\ broker = "down" => faults > 0
  /\ mongo = "down" => faults > 0 /\ mongoStops > 0

Lost(m) == fate[m] \in {"dropped", "thrown", "wiped"}

\* The inductive invariant.
BootInv ==
  /\ BootTypeOK
  /\ Causes
  /\ \A p \in Servers : Wired(p)
  /\ LostForACause

-----------------------------------------------------------------------------
(***************************************************************************)
(* Lemmas                                                                  *)
(***************************************************************************)

\* The order of main's steps.
LEMMA NextStage ==
  /\ \A p \in Servers : /\ MainOf(p, "client") = "broker"
                        /\ MainOf(p, "responses") = "listen"
                        /\ MainOf(p, "listen") = "up"
  /\ MainOf("proxy", "broker") = "responses"
  /\ \A p \in Networks : /\ MainOf(p, "broker") = "inbox"
                         /\ MainOf(p, "inbox") = "outbox"
                         /\ MainOf(p, "outbox") = "consume"
                         /\ MainOf(p, "consume") = "responses"
BY DEF MainOf, ProxyMain, BapMain, BppMain, ProxyGateway, BapGateway, BppGateway,
       Servers, Networks

\* A server that a step leaves alone stays wired: queues are never removed and
\* faults never taken back.
LEMMA WiredKept ==
  ASSUME BootTypeOK, BootTypeOK', NEW p \in Servers, Wired(p),
         stage'[p] = stage[p], channel'[p] = channel[p],
         p \in consuming' <=> p \in consuming, config' = config,
         declared \subseteq declared', faults' >= faults, mongoStops' >= mongoStops
  PROVE  Wired(p)'
BY DEF BootTypeOK, Wired, Placed, Inbox, Outbox

\* A message that a step does not touch keeps its cause.
LEMMA LossKept ==
  ASSUME BootTypeOK, BootTypeOK', LostForACause, early \subseteq early',
         faults' >= faults, NEW m \in Messages, fate'[m] = fate[m]
  PROVE  Lost(m)' => m \in early' \/ faults' > 0
BY DEF BootTypeOK, LostForACause, Lost

-----------------------------------------------------------------------------
(***************************************************************************)
(* The invariant                                                           *)
(***************************************************************************)

LEMMA InitBoot == BootInit => BootInv
<1> SUFFICES ASSUME BootInit PROVE BootInv
  OBVIOUS
<1> USE BootAssumption DEF BootInit
<1>1. config \in [Servers -> Config]
  <2>1. config \in [Servers -> UNION {Configs[p] : p \in Servers}]
    OBVIOUS
  <2>2. \A p \in Servers : config[p] \in Config
    BY <2>1
  <2> QED BY <2>1, <2>2
<1>2. BootTypeOK
  BY <1>1 DEF BootTypeOK, Stages, Fates
<1>3. \A p \in Servers : Wired(p)
  BY DEF Wired, Connected, HasInbox, HasOutbox, HasConsumer
<1> QED BY <1>2, <1>3 DEF BootInv, Causes, LostForACause

\* The type invariant is inductive but for the steps of main, which need to know
\* that the proxy never asserts a queue.
LEMMA BootTypeStep ==
  ASSUME BootTypeOK, \A p \in Servers : Wired(p), [BootNext]_bootVars
  PROVE  BootTypeOK'
<1> USE BootAssumption, NextStage DEF BootTypeOK, Stages
<1>1. ASSUME NEW p \in Servers, Boot(p) PROVE BootTypeOK'
  <2> USE DEF GoTo, At, Catch, Advance
  <2>0. p # "proxy" => p \in Networks
    BY DEF Servers, Networks
  <2>1. CASE ReadConfig(p) BY <2>1 DEF ReadConfig
  <2>2. CASE InitializeConnection(p) BY <2>2 DEF InitializeConnection
  <2>3. CASE ConnectBroker(p) BY <2>0, <2>3 DEF ConnectBroker
  <2>4. CASE AssertQueue(p)
    <3>1. {Inbox(p), Outbox(p)} \subseteq Queues
      BY DEF Inbox, Outbox, Queues
    <3>2. p \in Networks
      BY <2>0, <2>4 DEF AssertQueue, Wired
    <3> QED BY <2>4, <3>1, <3>2 DEF AssertQueue
  <2>5. CASE ConsumeMessage(p)
    <3>1. p \in Networks
      BY <2>0, <2>5 DEF ConsumeMessage, Wired
    <3> QED BY <2>5, <3>1 DEF ConsumeMessage
  <2>6. CASE InitializeResponses(p) BY <2>6 DEF InitializeResponses
  <2>7. CASE Listen(p) BY <2>7 DEF Listen
  <2> QED BY <1>1, <2>1, <2>2, <2>3, <2>4, <2>5, <2>6, <2>7 DEF Boot
<1>2. ASSUME NEW p \in Servers, Restart(p) \/ Redeploy(p) \/ ServerDies(p)
      PROVE  BootTypeOK'
  BY <1>2 DEF Restart, Redeploy, ServerDies, GoTo, At, Fault
<1>3. ASSUME NEW m \in Messages, PublishMessage(m) \/ TakeMessage(m)
      PROVE  BootTypeOK'
  BY <1>3 DEF PublishMessage, TakeMessage, Fates, servers
<1>4. CASE OthersDeclare
  BY <1>4 DEF OthersDeclare, servers, Queues
<1>5. CASE BrokerStops
  BY <1>5 DEF BrokerStops, BrokerCloses, BrokerBreaks, ForgetMessages, Fault, Fates
<1>6. CASE BrokerStarts \/ MongoStops \/ MongoStarts
  BY <1>6 DEF BrokerStarts, MongoStops, MongoStarts, Fault, servers
<1>7. CASE UNCHANGED bootVars
  BY <1>7 DEF bootVars, servers
<1> QED BY <1>1, <1>2, <1>3, <1>4, <1>5, <1>6, <1>7 DEF BootNext

\* Every step of main leaves its server wired, by the step that main goes to.
LEMMA BootStepWired ==
  ASSUME BootTypeOK, BootTypeOK', Causes, NEW p \in Servers, Wired(p), Boot(p)
  PROVE  Wired(p)'
<1> USE DEF GoTo, At, Catch, Advance, Placed, Wired
<1>0. p = "proxy" \/ p \in Networks
  BY DEF Servers, Networks
<1>1. CASE ReadConfig(p)
  BY <1>1 DEF ReadConfig, BootTypeOK, Connected, HasInbox, HasOutbox, HasConsumer
<1>2. CASE InitializeConnection(p)
  BY <1>2, NextStage DEF InitializeConnection, BootTypeOK, Connects, Causes, Connected,
     HasInbox, HasOutbox, HasConsumer
<1>3. CASE ConnectBroker(p)
  BY <1>0, <1>3, NextStage DEF ConnectBroker, BootTypeOK, Causes, Connected, HasInbox,
     HasOutbox, HasConsumer
<1>4. CASE AssertQueue(p)
  <2>1. p \in Networks
    BY <1>0, <1>4 DEF AssertQueue
  <2>2. p # "proxy"
    BY <2>1 DEF Networks
  <2>3. CASE stage[p] = "inbox" /\ channel[p] = "open"
    BY <1>4, <2>1, <2>2, <2>3, NextStage DEF AssertQueue, BootTypeOK, Connected,
       HasInbox, HasOutbox, HasConsumer, Inbox, Outbox
  <2>4. CASE stage[p] = "outbox" /\ channel[p] = "open"
    BY <1>4, <2>1, <2>2, <2>4, NextStage DEF AssertQueue, BootTypeOK, Connected,
       HasInbox, HasOutbox, HasConsumer, Inbox, Outbox
  <2>5. CASE channel[p] # "open"
    BY <1>4, <2>5 DEF AssertQueue, BootTypeOK, Connected, HasInbox, HasOutbox,
       HasConsumer
  <2> QED BY <1>4, <2>3, <2>4, <2>5 DEF AssertQueue
<1>5. CASE ConsumeMessage(p)
  <2>1. p \in Networks
    BY <1>0, <1>5 DEF ConsumeMessage
  <2> QED
    BY <1>5, <2>1, NextStage DEF ConsumeMessage, BootTypeOK, Connected, HasInbox,
       HasOutbox, HasConsumer, Inbox, Outbox, Networks
<1>6. CASE InitializeResponses(p)
  BY <1>6, NextStage DEF InitializeResponses, BootTypeOK, Connects, Causes, Connected,
     HasInbox, HasOutbox, HasConsumer, Inbox, Outbox
<1>7. CASE Listen(p)
  BY <1>7, NextStage DEF Listen, BootTypeOK, Connected, HasInbox, HasOutbox,
     HasConsumer, Inbox, Outbox
<1> QED BY <1>1, <1>2, <1>3, <1>4, <1>5, <1>6, <1>7 DEF Boot

LEMMA WiredStep ==
  ASSUME BootTypeOK, BootTypeOK', Causes, \A p \in Servers : Wired(p),
         [BootNext]_bootVars
  PROVE  \A p \in Servers : Wired(p)'
<1> SUFFICES ASSUME NEW q \in Servers PROVE Wired(q)'
  OBVIOUS
<1>0. /\ faults \in Nat /\ mongoStops \in Nat
  BY BootAssumption DEF BootTypeOK
<1>1. ASSUME NEW p \in Servers, Boot(p) PROVE Wired(q)'
  <2>1. CASE p = q
    BY <1>1, <2>1, BootStepWired
  <2>2. CASE p # q
    <3>1. /\ config' = config /\ stage'[q] = stage[q] /\ channel'[q] = channel[q]
          /\ q \in consuming' <=> q \in consuming
          /\ declared \subseteq declared' /\ faults' = faults
          /\ mongoStops' = mongoStops
      BY <1>1, <2>2 DEF Boot, ReadConfig, InitializeConnection, ConnectBroker,
         AssertQueue, ConsumeMessage, InitializeResponses, Listen, GoTo, Catch,
         Advance, BootTypeOK
    <3> QED BY <1>0, <3>1, WiredKept
  <2> QED BY <2>1, <2>2
<1>2. ASSUME NEW p \in Servers, Restart(p) \/ Redeploy(p) \/ ServerDies(p)
      PROVE  Wired(q)'
  <2>1. /\ config' = config /\ declared' = declared /\ mongoStops' = mongoStops
        /\ faults' >= faults
        /\ stage' = [stage EXCEPT ![p] = stage'[p]]
        /\ stage'[p] \in {"off", "config"}
        /\ p \notin consuming'
        /\ p # q => channel'[q] = channel[q]
        /\ p # q => (q \in consuming' <=> q \in consuming)
    BY <1>0, <1>2 DEF Restart, Redeploy, ServerDies, GoTo, At, Fault, BootTypeOK,
       Wired, HasConsumer
  <2>2. CASE p = q
    BY <2>1, <2>2 DEF Wired, Connected, HasInbox, HasOutbox, HasConsumer
  <2>3. CASE p # q
    BY <2>1, <2>3, WiredKept DEF BootTypeOK
  <2> QED BY <2>2, <2>3
<1>3. CASE BrokerStops
  <2>1. /\ config' = config /\ declared' = declared /\ mongoStops' = mongoStops
        /\ faults' > 0 /\ faults' > faults /\ consuming' = {}
    BY <1>0, <1>3 DEF BrokerStops, ForgetMessages, Fault
  <2>2. \/ stage'[q] = stage[q] /\ channel'[q] # "open"
        \/ stage'[q] = "off"
    BY <1>3 DEF BrokerStops, BrokerCloses, BrokerBreaks, BootTypeOK
  <2> QED
    BY <1>0, <2>1, <2>2 DEF Wired, Connected, HasInbox, HasOutbox, HasConsumer, Inbox,
       Outbox, Placed
<1>4. CASE \/ \E m \in Messages : PublishMessage(m) \/ TakeMessage(m)
           \/ OthersDeclare \/ BrokerStarts \/ MongoStops \/ MongoStarts
           \/ UNCHANGED bootVars
  <2>1. /\ UNCHANGED <<config, stage, channel, consuming>>
        /\ declared \subseteq declared' /\ faults' >= faults
        /\ mongoStops' >= mongoStops
    BY <1>0, <1>4 DEF PublishMessage, TakeMessage, OthersDeclare, BrokerStarts,
       MongoStops, MongoStarts, Fault, bootVars, servers
  <2> QED BY <2>1, WiredKept
<1> QED BY <1>1, <1>2, <1>3, <1>4 DEF BootNext

LEMMA CausesStep ==
  ASSUME BootTypeOK, BootTypeOK', Causes, [BootNext]_bootVars
  PROVE  Causes'
<1>0. faults \in Nat /\ mongoStops \in Nat
  BY BootAssumption DEF BootTypeOK
<1>1. CASE BrokerStops \/ MongoStops \/ BrokerStarts \/ MongoStarts
  BY <1>0, <1>1 DEF BrokerStops, MongoStops, BrokerStarts, MongoStarts, Fault, Causes
<1>2. CASE \/ \E p \in Servers : Boot(p) \/ Restart(p) \/ Redeploy(p) \/ ServerDies(p)
           \/ \E m \in Messages : PublishMessage(m) \/ TakeMessage(m)
           \/ OthersDeclare \/ UNCHANGED bootVars
  <2>1. /\ broker' = broker /\ mongo' = mongo /\ mongoStops' = mongoStops
        /\ faults' >= faults
    BY <1>0, <1>2 DEF Boot, ReadConfig, InitializeConnection, ConnectBroker,
       AssertQueue, ConsumeMessage, InitializeResponses, Listen, Restart, Redeploy,
       ServerDies, Fault, PublishMessage, TakeMessage, OthersDeclare, bootVars
  <2> QED BY <1>0, <2>1, BootAssumption DEF Causes, BootTypeOK
<1> QED BY <1>1, <1>2 DEF BootNext

\* A message is published on an open channel, or a fault has closed it; it is
\* dropped only where nobody had declared its queue.
LEMMA LossStep ==
  ASSUME BootTypeOK, BootTypeOK', \A p \in Servers : Wired(p), LostForACause,
         [BootNext]_bootVars
  PROVE  LostForACause'
<1> SUFFICES ASSUME NEW m \in Messages PROVE Lost(m)' => m \in early' \/ faults' > 0
  BY DEF LostForACause, Lost
<1>0. faults \in Nat
  BY BootAssumption DEF BootTypeOK
<1>1. ASSUME NEW n \in Messages, PublishMessage(n)
      PROVE  Lost(m)' => m \in early' \/ faults' > 0
  <2>1. CASE m = n
    <3>1. Publisher(n) \in Servers
      BY BootAssumption DEF Publisher, Servers
    <3>2. channel[Publisher(n)] = "open" \/ faults > 0
      BY <1>1, <3>1 DEF PublishMessage, At, Wired, Connected
    <3> QED BY <1>1, <2>1, <3>2 DEF PublishMessage, Lost, BootTypeOK
  <2>2. CASE m # n
    BY <1>0, <1>1, <2>2, LossKept DEF PublishMessage, BootTypeOK
  <2> QED BY <2>1, <2>2
<1>2. ASSUME NEW n \in Messages, TakeMessage(n)
      PROVE  Lost(m)' => m \in early' \/ faults' > 0
  BY <1>0, <1>2 DEF TakeMessage, BootTypeOK, LostForACause, Lost
<1>3. CASE BrokerStops
  BY <1>0, <1>3 DEF BrokerStops, Fault
<1>4. CASE \/ \E p \in Servers : Boot(p) \/ Restart(p) \/ Redeploy(p) \/ ServerDies(p)
           \/ OthersDeclare \/ BrokerStarts \/ MongoStops \/ MongoStarts
           \/ UNCHANGED bootVars
  <2>1. fate' = fate /\ early' = early /\ faults' >= faults
    BY <1>0, <1>4 DEF Boot, ReadConfig, InitializeConnection, ConnectBroker,
       AssertQueue, ConsumeMessage, InitializeResponses, Listen, Restart, Redeploy,
       ServerDies, Fault, OthersDeclare, BrokerStarts, MongoStops, MongoStarts, bootVars
  <2> QED BY <2>1, LossKept
<1> QED BY <1>1, <1>2, <1>3, <1>4 DEF BootNext

LEMMA BootInvariant == BootSpec => []BootInv
<1>1. BootInit => BootInv
  BY InitBoot
<1>2. BootInv /\ [BootNext]_bootVars => BootInv'
  BY BootTypeStep, WiredStep, CausesStep, LossStep DEF BootInv
<1> QED BY <1>1, <1>2, PTL DEF BootSpec

-----------------------------------------------------------------------------
(***************************************************************************)
(* Theorems                                                                *)
(***************************************************************************)

\* The variables keep their types: in particular main only ever goes to a step
\* that its server has.
THEOREM BootTypes == BootSpec => []BootTypeOK
<1>1. BootInv => BootTypeOK
  BY DEF BootInv
<1> QED BY <1>1, BootInvariant, PTL

\* A server that listens went through its whole start, whatever order the servers
\* started in and whatever stopped meanwhile.
THEOREM Wiring == BootSpec => []ListeningIsWired
<1>1. BootInv => ListeningIsWired
  BY DEF BootInv, Wired, ListeningIsWired, HasInbox, HasOutbox, HasConsumer, Networks,
     Servers
<1> QED BY <1>1, BootInvariant, PTL

\* A start that nothing disturbs ends in a server that listens or in no server.
THEOREM NoStandstill == BootSpec => []StuckForACause
<1>1. BootInv => StuckForACause
  BY DEF BootInv, Wired, StuckForACause
<1> QED BY <1>1, BootInvariant, PTL

\* Both together: what a server that listens has, and why another one does not.
THEOREM SoundStarts == BootSpec => []StartIsSound
BY Wiring, NoStandstill, PTL DEF StartIsSound

\* Acknowledged messages are lost by faults, and by being earlier than their queue.
THEOREM NoSilentLoss == BootSpec => []LostForACause
<1>1. BootInv => LostForACause
  BY DEF BootInv
<1> QED BY <1>1, BootInvariant, PTL

-----------------------------------------------------------------------------
(***************************************************************************)
(* The inductive invariant                                                 *)
(***************************************************************************)

\* Only what was recorded is in memory or in a payload.
OnlyRecorded ==
  /\ \A e \in memory : phase[e] # "none"
  /\ \A m \in Events : \A e \in payload[m] : phase[e] # "none" /\ phase[m] # "none"

\* What is in memory while a handler is posting is in its payload, or came later.
SeenOrLater == \A m \in Syncing : \A e \in memory : e \in payload[m] \cup during

\* An event is in memory and in a payload only until that handler is done.
KeptUntilDone == \A m \in Events : \A e \in memory : e \in payload[m] => m \in Syncing

\* Of two handlers with one event one recorded while the other was posting.
SharedByOverlap ==
  \A m, n \in Events :
    m # n /\ payload[m] \cap payload[n] # {} => m \in during \/ n \in during

PostedByDone == \A e \in posted : \E m \in Events : phase[m] = "done" /\ e \in payload[m]

TelemetryInv ==
  /\ TelemetryTypeOK
  /\ OnlyRecorded /\ SeenOrLater /\ KeptUntilDone /\ SharedByOverlap /\ PostedByDone
  /\ DroppedOnlyDuringSync /\ PostedTwiceOnlyByOverlap

-----------------------------------------------------------------------------

LEMMA InitTelemetry == TelemetryInit => TelemetryInv
BY DEF TelemetryInit, TelemetryInv, TelemetryTypeOK, Phases, OnlyRecorded, SeenOrLater,
   KeptUntilDone, SharedByOverlap, PostedByDone, DroppedOnlyDuringSync,
   PostedTwiceOnlyByOverlap, Syncing

LEMMA TelemetryTypeStep ==
  ASSUME TelemetryTypeOK, [TelemetryNext]_telemetryVars
  PROVE  TelemetryTypeOK'
<1> USE DEF TelemetryTypeOK, Phases
<1>1. ASSUME NEW m \in Events, Record(m) PROVE TelemetryTypeOK'
  <2>1. memory' \subseteq Events /\ Flattened(m) \subseteq Events
    BY <1>1 DEF Record, Recorded, Flattened
  <2>2. phase' \in [Events -> Phases] /\ payload' \in [Events -> SUBSET Events]
    BY <1>1, <2>1 DEF Record
  <2>3. during' \subseteq Events
    BY <1>1 DEF Record
  <2> QED BY <1>1, <2>1, <2>2, <2>3 DEF Record
<1>2. ASSUME NEW m \in Events, PushTelemetry(m) \/ SaveBatch(m) \/ SaveFails(m)
      PROVE  TelemetryTypeOK'
  BY <1>2 DEF PushTelemetry, SaveBatch, SaveFails, ResetMemory
<1>3. ASSUME NEW m \in Events, PushFails(m) \/ ProcessCache(m)
      PROVE  TelemetryTypeOK'
  BY <1>3 DEF PushFails, ProcessCache
<1>4. CASE CrashTelemetry
  BY <1>4 DEF CrashTelemetry, Syncing
<1>5. CASE UNCHANGED telemetryVars
  BY <1>5 DEF telemetryVars
<1> QED BY <1>1, <1>2, <1>3, <1>4, <1>5 DEF TelemetryNext

\* A handler that records: its payload is what is in memory, and if any of that is
\* in another payload, that handler is posting.
LEMMA RecordStep ==
  ASSUME TelemetryInv, TelemetryTypeOK', NEW m \in Events, Record(m)
  PROVE  TelemetryInv'
<1>1. /\ phase[m] = "none" /\ memory' = memory \cup {m}
      /\ during' = IF Syncing = {} THEN during ELSE during \cup {m}
      /\ UNCHANGED <<redis, drains, posted, postedTwice, gone>>
      /\ \/ /\ phase' = [phase EXCEPT ![m] = "posting"]
            /\ payload' = [payload EXCEPT ![m] = memory \cup {m}]
         \/ /\ phase' = [phase EXCEPT ![m] = "done"]
            /\ payload' = payload
  BY DEF Record, Recorded, Flattened
<1>2. /\ phase \in [Events -> Phases] /\ payload \in [Events -> SUBSET Events]
      /\ memory \subseteq Events
  BY DEF TelemetryInv, TelemetryTypeOK
<1>3. \A n \in Events : n # m => phase'[n] = phase[n] /\ payload'[n] = payload[n]
  BY <1>1, <1>2
<1>4. /\ m \notin memory /\ payload[m] = {}
      /\ \A n \in Events : m \notin payload[n]
  BY <1>1, <1>2 DEF TelemetryInv, OnlyRecorded
<1>5. /\ phase'[m] \in {"posting", "done"}
      /\ phase'[m] = "posting" => payload'[m] = memory \cup {m}
      /\ phase'[m] = "done" => payload'[m] = {}
  BY <1>1, <1>2, <1>4
<1>6. /\ Syncing' \ {m} = Syncing \ {m} /\ m \notin Syncing
      /\ m \in Syncing' <=> phase'[m] = "posting"
  BY <1>1, <1>2, <1>3, <1>5 DEF Syncing
<1>7. OnlyRecorded'
  BY <1>1, <1>2, <1>3, <1>5 DEF TelemetryInv, OnlyRecorded
<1>8. SeenOrLater'
  <2> SUFFICES ASSUME NEW n \in Syncing', NEW e \in memory'
               PROVE  e \in payload'[n] \cup during'
    BY DEF SeenOrLater
  <2>1. CASE n = m
    BY <1>1, <1>5, <1>6, <2>1
  <2>2. CASE n # m
    BY <1>1, <1>3, <1>6, <2>2 DEF TelemetryInv, SeenOrLater, Syncing
  <2> QED BY <2>1, <2>2
<1>9. KeptUntilDone'
  <2> SUFFICES ASSUME NEW n \in Events, NEW e \in memory', e \in payload'[n]
               PROVE  n \in Syncing'
    BY DEF KeptUntilDone
  <2>1. CASE n = m
    BY <1>5, <1>6, <2>1
  <2>2. CASE n # m
    BY <1>1, <1>3, <1>4, <1>6, <2>2 DEF TelemetryInv, KeptUntilDone
  <2> QED BY <2>1, <2>2
<1>10. SharedByOverlap'
  <2>1. ASSUME NEW n \in Events, n # m, payload'[m] \cap payload'[n] # {}
        PROVE  m \in during'
    <3>1. PICK e \in memory : e \in payload[n]
      BY <1>3, <1>4, <1>5, <2>1
    <3>2. n \in Syncing
      BY <3>1 DEF TelemetryInv, KeptUntilDone
    <3> QED BY <1>1, <3>2
  <2> QED BY <1>1, <1>3, <2>1 DEF TelemetryInv, SharedByOverlap
<1>11. PostedByDone'
  BY <1>1, <1>3 DEF TelemetryInv, PostedByDone
<1>12. DroppedOnlyDuringSync'
  <2> SUFFICES ASSUME NEW e \in Events, phase'[e] # "none", e # m
               PROVE  \/ e \in memory' \cup posted' \cup redis' \cup gone' \cup during'
                      \/ \E n \in Syncing' : e \in payload'[n]
    BY <1>1 DEF DroppedOnlyDuringSync
  <2>1. CASE e \in memory \cup posted \cup redis \cup gone \cup during
    BY <1>1, <2>1
  <2>2. CASE \E n \in Syncing : e \in payload[n]
    BY <1>3, <1>6, <2>2 DEF Syncing
  <2> QED BY <1>3, <2>1, <2>2 DEF TelemetryInv, DroppedOnlyDuringSync
<1>13. PostedTwiceOnlyByOverlap'
  <2> SUFFICES ASSUME NEW e \in postedTwice
               PROVE  \E n \in during' : e \in payload'[n]
    BY <1>1 DEF PostedTwiceOnlyByOverlap
  <2>1. PICK n \in during : e \in payload[n]
    BY DEF TelemetryInv, PostedTwiceOnlyByOverlap
  <2>2. n \in Events /\ n # m
    BY <1>4, <2>1 DEF TelemetryInv, TelemetryTypeOK
  <2> QED BY <1>1, <1>3, <2>1, <2>2
<1> QED
  BY <1>7, <1>8, <1>9, <1>10, <1>11, <1>12, <1>13 DEF TelemetryInv

\* A handler that is done with its payload empties the memory: what it did not have
\* was recorded later.
LEMMA DoneStep ==
  ASSUME TelemetryInv, TelemetryTypeOK', NEW m \in Syncing, ResetMemory(m),
         UNCHANGED <<payload, during>>,
         posted \subseteq posted', redis \subseteq redis', gone \subseteq gone',
         payload[m] \subseteq posted' \cup redis' \cup gone',
         posted' \subseteq posted \cup payload[m],
         postedTwice' \subseteq postedTwice \cup (posted \cap payload[m])
  PROVE  TelemetryInv'
<1>1. /\ memory' = {} /\ phase' = [phase EXCEPT ![m] = "done"]
      /\ m \in Events /\ phase \in [Events -> Phases] /\ phase[m] \in {"posting", "saving"}
      /\ during \subseteq Events
  BY DEF ResetMemory, Syncing, TelemetryInv, TelemetryTypeOK
<1>2. /\ \A n \in Events : n # m => phase'[n] = phase[n]
      /\ phase'[m] = "done"
      /\ Syncing' = Syncing \ {m}
  BY <1>1 DEF Syncing
<1>3. /\ OnlyRecorded' /\ SeenOrLater' /\ KeptUntilDone'
  BY <1>1, <1>2 DEF TelemetryInv, OnlyRecorded, SeenOrLater, KeptUntilDone
<1>4. SharedByOverlap'
  BY DEF TelemetryInv, SharedByOverlap
<1>5. PostedByDone'
  BY <1>1, <1>2 DEF TelemetryInv, PostedByDone
<1>6. DroppedOnlyDuringSync'
  <2> SUFFICES ASSUME NEW e \in Events, phase'[e] # "none"
               PROVE  \/ e \in memory' \cup posted' \cup redis' \cup gone' \cup during'
                      \/ \E n \in Syncing' : e \in payload'[n]
    BY DEF DroppedOnlyDuringSync
  <2>1. phase[e] # "none"
    BY <1>1, <1>2
  <2>2. CASE e \in memory
    BY <2>2 DEF TelemetryInv, SeenOrLater
  <2>3. CASE e \in posted \cup redis \cup gone \cup during
    BY <2>3
  <2>4. CASE \E n \in Syncing : e \in payload[n]
    BY <1>2, <2>4
  <2> QED BY <2>1, <2>2, <2>3, <2>4 DEF TelemetryInv, DroppedOnlyDuringSync
<1>7. PostedTwiceOnlyByOverlap'
  <2> SUFFICES ASSUME NEW e \in postedTwice' PROVE \E n \in during : e \in payload[n]
    BY DEF PostedTwiceOnlyByOverlap
  <2>1. CASE e \in postedTwice
    BY <2>1 DEF TelemetryInv, PostedTwiceOnlyByOverlap
  <2>2. CASE e \in posted \cap payload[m]
    <3>1. PICK n \in Events : phase[n] = "done" /\ e \in payload[n]
      BY <2>2 DEF TelemetryInv, PostedByDone
    <3>2. n # m /\ payload[m] \cap payload[n] # {}
      BY <1>1, <2>2, <3>1
    <3> QED BY <1>1, <2>2, <3>1, <3>2 DEF TelemetryInv, SharedByOverlap
  <2> QED BY <2>1, <2>2
<1> QED
  BY <1>3, <1>4, <1>5, <1>6, <1>7 DEF TelemetryInv

LEMMA TelemetryStep == TelemetryInv /\ [TelemetryNext]_telemetryVars => TelemetryInv'
<1> SUFFICES ASSUME TelemetryInv, [TelemetryNext]_telemetryVars PROVE TelemetryInv'
  OBVIOUS
<1>0. TelemetryTypeOK'
  BY TelemetryTypeStep DEF TelemetryInv
<1>1. ASSUME NEW m \in Events, Record(m) PROVE TelemetryInv'
  BY <1>0, <1>1, RecordStep
<1>2. ASSUME NEW m \in Events, PushTelemetry(m) PROVE TelemetryInv'
  <2>1. m \in Syncing
    BY <1>2 DEF PushTelemetry, Syncing
  <2> QED BY <1>0, <1>2, <2>1, DoneStep DEF PushTelemetry
<1>3. ASSUME NEW m \in Events, SaveBatch(m) \/ SaveFails(m) PROVE TelemetryInv'
  <2>1. m \in Syncing
    BY <1>3 DEF SaveBatch, SaveFails, Syncing
  <2> QED BY <1>0, <1>3, <2>1, DoneStep DEF SaveBatch, SaveFails
<1>4. ASSUME NEW m \in Events, PushFails(m) PROVE TelemetryInv'
  <2>1. /\ phase' = [phase EXCEPT ![m] = "saving"] /\ phase[m] = "posting"
        /\ phase \in [Events -> Phases]
        /\ UNCHANGED <<memory, payload, redis, drains, posted, postedTwice, during, gone>>
    BY <1>4 DEF PushFails, TelemetryInv, TelemetryTypeOK
  <2>2. /\ Syncing' = Syncing
        /\ \A n \in Events : /\ phase'[n] = "none" <=> phase[n] = "none"
                             /\ phase'[n] = "done" <=> phase[n] = "done"
    BY <2>1 DEF Syncing
  <2> QED
    BY <1>0, <2>1, <2>2 DEF TelemetryInv, TelemetryTypeOK, OnlyRecorded, SeenOrLater,
       KeptUntilDone, SharedByOverlap, PostedByDone, DroppedOnlyDuringSync,
       PostedTwiceOnlyByOverlap
<1>5. ASSUME NEW m \in Events, ProcessCache(m) PROVE TelemetryInv'
  <2>1. /\ UNCHANGED <<memory, phase, payload, posted, postedTwice, during>>
        /\ redis \cup gone \subseteq redis' \cup gone' /\ Syncing' = Syncing
    BY <1>5 DEF ProcessCache, Syncing
  <2> QED
    BY <1>0, <2>1 DEF TelemetryInv, OnlyRecorded, SeenOrLater, KeptUntilDone,
       SharedByOverlap, PostedByDone, DroppedOnlyDuringSync, PostedTwiceOnlyByOverlap
<1>6. CASE CrashTelemetry
  <2>1. /\ memory' = {} /\ phase' = [m \in Events |-> IF phase[m] = "none" THEN "none"
                                                      ELSE "done"]
        /\ gone' = gone \cup memory \cup UNION {payload[m] : m \in Syncing}
        /\ UNCHANGED <<payload, redis, posted, postedTwice, during>>
    BY <1>6 DEF CrashTelemetry
  <2>2. /\ Syncing' = {}
        /\ \A n \in Events : /\ phase'[n] = "none" <=> phase[n] = "none"
                             /\ phase[n] = "done" => phase'[n] = "done"
    BY <2>1 DEF Syncing
  <2>3. OnlyRecorded' /\ SeenOrLater' /\ KeptUntilDone' /\ SharedByOverlap'
        /\ PostedByDone'
    BY <2>1, <2>2 DEF TelemetryInv, TelemetryTypeOK, OnlyRecorded, SeenOrLater,
       KeptUntilDone, SharedByOverlap, PostedByDone
  <2>4. DroppedOnlyDuringSync' /\ PostedTwiceOnlyByOverlap'
    BY <2>1, <2>2 DEF TelemetryInv, DroppedOnlyDuringSync, PostedTwiceOnlyByOverlap
  <2> QED BY <1>0, <2>3, <2>4 DEF TelemetryInv
<1>7. CASE UNCHANGED telemetryVars
  BY <1>0, <1>7 DEF telemetryVars, TelemetryInv, OnlyRecorded, SeenOrLater, KeptUntilDone,
     SharedByOverlap, PostedByDone, DroppedOnlyDuringSync, PostedTwiceOnlyByOverlap,
     Syncing
<1> QED BY <1>1, <1>2, <1>3, <1>4, <1>5, <1>6, <1>7 DEF TelemetryNext

LEMMA TelemetryInvariant == TelemetrySpec => []TelemetryInv
BY InitTelemetry, TelemetryStep, PTL DEF TelemetrySpec

-----------------------------------------------------------------------------
(***************************************************************************)
(* Theorems                                                                *)
(***************************************************************************)

\* The variables of the telemetry keep their types.
THEOREM TelemetryTypes == TelemetrySpec => []TelemetryTypeOK
<1>1. TelemetryInv => TelemetryTypeOK
  BY DEF TelemetryInv
<1> QED BY <1>1, TelemetryInvariant, PTL

\* The reset of the arrays drops nothing but what was recorded during a post.
THEOREM Drops == TelemetrySpec => []DroppedOnlyDuringSync
<1>1. TelemetryInv => DroppedOnlyDuringSync
  BY DEF TelemetryInv
<1> QED BY <1>1, TelemetryInvariant, PTL

\* Handlers that do not overlap post no event twice.
THEOREM Repeats == TelemetrySpec => []PostedTwiceOnlyByOverlap
<1>1. TelemetryInv => PostedTwiceOnlyByOverlap
  BY DEF TelemetryInv
<1> QED BY <1>1, TelemetryInvariant, PTL

\* Only handlers that overlap drop events or post them twice.
THEOREM PostedOnce == TelemetrySpec => []EventsPostedOnce
BY Drops, Repeats, PTL DEF EventsPostedOnce

=============================================================================
