----------------------------- MODULE RelayBoot -----------------------------
(***************************************************************************)
(* The life of the three relay servers: each reads its configuration,      *)
(* connects to MongoDB and RabbitMQ, declares and consumes its queues and  *)
(* only then listens.  main awaits one step after the other and catches    *)
(* what they throw: the error is logged and the process stays, bound to    *)
(* the broker where it got that far, but it never listens ("stuck").       *)
(*                                                                         *)
(* Containers start in any order, the broker stops and starts again, with  *)
(* or without closing its connections, MongoDB is away for a while, and    *)
(* processes die.  Nobody connects again: an open channel that the broker  *)
(* closes is never replaced.                                               *)
(***************************************************************************)
EXTENDS Integers, FiniteSets

CONSTANTS
  Messages,  \* messages published by a relay server
  QueueOf,   \* [Messages -> Queues]: the queue that a message is sent to
  Configs,   \* [Servers -> SUBSET Config]: configurations to start from
  MaxFaults  \* bound: stops of the broker or MongoDB, and deaths of a server

Servers == {"proxy", "bap", "bpp"}
Queues  == {"outbox", "inbox", "inbox-bpp", "outbox-bpp"}

ClientTypes == {"synchronous", "webhook", "messageQueue"}
Modes == {"bap", "bpp"}
Sides == {"client", "network"}

\* The fields that a section of the configuration must have; cache.db has a
\* default.  Of app only those that the servers' life depends on are told apart.
ServerFields   == {"port"}
CacheFields    == {"host", "port", "ttl"}
ResponseFields == {"mongoURL", "ttl"}
GatewayFields  == {"mode", "inboxQueue", "outboxQueue", "amqpURL"}
ActionFields   == {"requests", "responses"}
ClientFields   == [synchronous  |-> {"mongoURL"},
                   webhook      |-> {"url"},
                   messageQueue |-> {"amqpURL", "incomingQueue", "outgoingQueue"}]
AppFields      == {"mode", "gateway", "actions", "subscriberId", "registryUrl",
                   "auth", "ttl", "httpTimeout", "telemetry"}

\* A configuration: the fields of each section, an empty section being absent, the
\* names under client with the fields of one of them, and the values of app.mode and
\* app.gateway.mode.
Config == [server : SUBSET ServerFields, cache : SUBSET CacheFields,
           responses : SUBSET ResponseFields, clients : SUBSET ClientTypes,
           connection : SUBSET UNION {ClientFields[t] : t \in ClientTypes},
           app : SUBSET AppFields, gateway : SUBSET GatewayFields,
           actions : SUBSET ActionFields, mode : Modes, side : Sides]

ASSUME BootAssumption ==
  /\ QueueOf \in [Messages -> {"outbox", "inbox", "inbox-bpp"}]
  /\ Configs \in [Servers -> SUBSET Config]
  /\ MaxFaults \in Nat

Stages == {"off", "config", "client", "broker", "inbox", "outbox", "consume",
           "responses", "listen", "up", "stuck"}

VARIABLES
  config,    \* [Servers -> Config], fixed
  stage,     \* [Servers -> Stages]: the step that main is at
  channel,   \* [Servers -> {"none", "open", "closed"}] of MQClient
  consuming, \* servers whose consumer the broker knows
  broker, mongo, \* "up" or "down"
  declared,  \* queues that the broker has
  fate,      \* [Messages -> Fates]
  early,     \* messages that were sent before anyone declared their queue
  faults,    \* faults so far
  mongoStops \* those of them that were stops of MongoDB

servers  == <<config, stage, channel, consuming>>
bootVars == <<servers, broker, mongo, declared, fate, early, faults, mongoStops>>

\* Once acknowledged to the sender a message waits in its queue, is taken from
\* it, is dropped by the broker that has no such queue, stays behind in an
\* exception on a closed channel, or is gone with the broker's memory.
Fates == {"unsent", "waiting", "taken", "dropped", "thrown", "wiped"}

-----------------------------------------------------------------------------
(***************************************************************************)
(* Configuration: parseConfig, on the first import that calls getConfig.   *)
(***************************************************************************)

ParsesServer(fields) == ServerFields \subseteq fields

ParsesCache(fields) == CacheFields \subseteq fields

\* The response cache is the one section that may be left out.
ParsesResponses(fields) == fields = {} \/ ResponseFields \subseteq fields

\* What the client of each type must be given to be reached.
ParsesConnection(type, fields) == ClientFields[type] \subseteq fields

\* One client type and no more.
ParsesClient(c) ==
  /\ Cardinality(c.clients) = 1
  /\ \A type \in c.clients : ParsesConnection(type, c.connection)

ParsesGateway(fields) == GatewayFields \subseteq fields

ParsesActions(fields) == ActionFields \subseteq fields

ParsesApp(c) ==
  /\ AppFields \subseteq c.app
  /\ ParsesGateway(c.gateway)
  /\ ParsesActions(c.actions)

\* The one client type that SyncCache, with its store, may be used for.
Synchronous(c) == "synchronous" \in c.clients

ParsesConfig(c) ==
  /\ ParsesServer(c.server)
  /\ ParsesCache(c.cache)
  /\ ParsesResponses(c.responses)
  /\ ParsesClient(c)
  /\ ParsesApp(c)
  /\ ~(c.mode = "bpp" /\ Synchronous(c))

CachesResponses(c) == c.responses # {}

-----------------------------------------------------------------------------
(***************************************************************************)
(* main and GatewayUtils.initialize of each server                         *)
(***************************************************************************)

\* Mutant: a step that nobody takes.
ProxyGatewayElsewhere == [broker |-> "caches"]

ProxyGateway == [broker |-> "responses"]

BapGateway == [broker |-> "inbox", inbox |-> "outbox", outbox |-> "consume",
               consume |-> "responses"]

BppGateway == [broker |-> "inbox", inbox |-> "outbox", outbox |-> "consume",
               consume |-> "responses"]

\* The step that follows the step s of a server's main.
ProxyMain(s) ==
  CASE s = "client"    -> "broker"
    [] s = "broker"    -> ProxyGateway.broker
    [] s = "responses" -> "listen"
    [] s = "listen"    -> "up"

BapMain(s) ==
  CASE s = "client"    -> "broker"
    [] s \in {"broker", "inbox", "outbox", "consume"} -> BapGateway[s]
    [] s = "responses" -> "listen"
    [] s = "listen"    -> "up"

\* Mutant: the server starts without its gateway.
BppMainUnconnected(s) ==
  CASE s = "client"    -> "responses"
    [] s = "responses" -> "listen"
    [] s = "listen"    -> "up"

BppMain(s) ==
  CASE s = "client"    -> "broker"
    [] s \in {"broker", "inbox", "outbox", "consume"} -> BppGateway[s]
    [] s = "responses" -> "listen"
    [] s = "listen"    -> "up"

MainOf(p, s) ==
  CASE p = "proxy" -> ProxyMain(s)
    [] p = "bap"   -> BapMain(s)
    [] p = "bpp"   -> BppMain(s)

At(p, s)     == stage[p] = s
GoTo(p, s)   == stage' = [stage EXCEPT ![p] = s]
Advance(p)   == GoTo(p, MainOf(p, stage[p]))

\* Where a server's code belongs: only with this mode and this side of the gateway
\* does it consume its queue and have routes.
ModeOf == [proxy |-> "bap", bap |-> "bap", bpp |-> "bpp"]
SideOf == [proxy |-> "client", bap |-> "network", bpp |-> "network"]

Placed(p) == config[p].mode = ModeOf[p] /\ config[p].side = SideOf[p]

\* main catches what the awaited step threw, and logs it.
Catch(p) == GoTo(p, "stuck")

Inbox(p)  == IF p = "bpp" THEN "inbox-bpp" ELSE "inbox"
Outbox(p) == IF p = "bpp" THEN "outbox-bpp" ELSE "outbox"

-----------------------------------------------------------------------------
(***************************************************************************)
(* The steps of a start                                                    *)
(***************************************************************************)

\* Modules read the configuration when they are imported, outside main: a
\* configuration that does not parse ends the process.
ReadConfig(p) ==
  /\ At(p, "config")
  /\ GoTo(p, IF ParsesConfig(config[p]) THEN "client" ELSE "off")
  /\ UNCHANGED <<config, channel, consuming, broker, mongo, declared, fate, early,
                 faults, mongoStops>>

\* DBClient.connect returns.
Connects == mongo = "up"

\* Only a synchronous client has a store to connect to.
InitializeConnection(p) ==
  /\ At(p, "client")
  /\ IF Synchronous(config[p]) => Connects
       THEN Advance(p) ELSE Catch(p)
  /\ UNCHANGED <<config, channel, consuming, broker, mongo, declared, fate, early,
                 faults, mongoStops>>

ConnectBroker(p) ==
  /\ At(p, "broker")
  /\ IF broker = "up"
       THEN Advance(p) /\ channel' = [channel EXCEPT ![p] = "open"]
       ELSE Catch(p)   /\ UNCHANGED channel
  /\ UNCHANGED <<config, consuming, broker, mongo, declared, fate, early, faults,
                 mongoStops>>

\* Two queues, one await each; on a closed channel the await throws.
AssertQueue(p) ==
  /\ stage[p] \in {"inbox", "outbox"}
  /\ IF channel[p] = "open"
       THEN /\ Advance(p)
            /\ declared' = declared \cup
                 {IF At(p, "inbox") THEN Inbox(p) ELSE Outbox(p)}
       ELSE Catch(p) /\ UNCHANGED declared
  /\ UNCHANGED <<config, channel, consuming, broker, mongo, fate, early, faults,
                 mongoStops>>

\* A server that is configured for another place consumes nothing.  channel.consume
\* is not awaited: on a closed channel its rejection is nobody's and ends the process.
ConsumeMessage(p) ==
  /\ At(p, "consume")
  /\ \/ /\ ~Placed(p)
        /\ Advance(p)
        /\ UNCHANGED <<channel, consuming>>
     \/ /\ Placed(p) /\ channel[p] = "open"
        /\ Advance(p)
        /\ consuming' = consuming \cup {p}
        /\ UNCHANGED channel
     \/ /\ Placed(p) /\ channel[p] # "open"
        /\ GoTo(p, "off")
        /\ channel' = [channel EXCEPT ![p] = "none"]
        /\ UNCHANGED consuming
  /\ UNCHANGED <<config, broker, mongo, declared, fate, early, faults, mongoStops>>

\* Mutant: the cache is asked for where it is not enabled, and throws.
InitializeAlways(p) ==
  /\ At(p, "responses")
  /\ IF CachesResponses(config[p]) /\ Connects THEN Advance(p) ELSE Catch(p)
  /\ UNCHANGED <<config, channel, consuming, broker, mongo, declared, fate, early,
                 faults, mongoStops>>

\* ResponseCache connects to MongoDB; its constructor, which asks for the index
\* before that, swallows the failure.
InitializeResponses(p) ==
  /\ At(p, "responses")
  /\ IF CachesResponses(config[p]) => Connects THEN Advance(p) ELSE Catch(p)
  /\ UNCHANGED <<config, channel, consuming, broker, mongo, declared, fate, early,
                 faults, mongoStops>>

\* The Redis clients connect by themselves; routes are set up and the port opens.
Listen(p) ==
  /\ At(p, "listen")
  /\ Advance(p)
  /\ UNCHANGED <<config, channel, consuming, broker, mongo, declared, fate, early,
                 faults, mongoStops>>

Boot(p) ==
  \/ ReadConfig(p) \/ InitializeConnection(p) \/ ConnectBroker(p) \/ AssertQueue(p)
  \/ ConsumeMessage(p) \/ InitializeResponses(p) \/ Listen(p)

-----------------------------------------------------------------------------
(***************************************************************************)
(* Messages                                                                *)
(***************************************************************************)

Publisher(m) ==
  CASE QueueOf[m] = "outbox"    -> "proxy"
    [] QueueOf[m] = "inbox"     -> "bap"
    [] QueueOf[m] = "inbox-bpp" -> "bpp"

\* A handler of a listening server that has routes, after its ACK.  The message is not persistent
\* and not mandatory: sendToQueue waits for nothing.
PublishMessage(m) ==
  LET q == QueueOf[m] p == Publisher(m)
      how == IF channel[p] # "open" THEN "thrown"
             ELSE IF q \in declared THEN "waiting" ELSE "dropped"
  IN
  /\ fate[m] = "unsent"
  /\ At(p, "up") /\ Placed(p)
  /\ fate' = [fate EXCEPT ![m] = how]
  /\ early' = IF q \in declared THEN early ELSE early \cup {m}
  /\ UNCHANGED <<servers, broker, mongo, declared, faults, mongoStops>>

\* The consumer of the queue, without acknowledgement: bap-network for outbox,
\* core-app and the seller-service for the others.
TakeMessage(m) ==
  /\ fate[m] = "waiting"
  /\ QueueOf[m] = "outbox" => "bap" \in consuming
  /\ fate' = [fate EXCEPT ![m] = "taken"]
  /\ UNCHANGED <<servers, broker, mongo, declared, early, faults, mongoStops>>

\* core-app declares inbox, the seller-service the two queues of the seller.
OthersDeclare ==
  /\ broker = "up"
  /\ \E new \in {{"inbox"}, {"inbox-bpp", "outbox-bpp"}} : declared' = declared \cup new
  /\ UNCHANGED <<servers, broker, mongo, fate, early, faults, mongoStops>>

-----------------------------------------------------------------------------
(***************************************************************************)
(* Faults and repairs                                                      *)
(***************************************************************************)

Fault == faults < MaxFaults /\ faults' = faults + 1

\* Mutant: the queues are not durable.
ForgetQueues ==
  /\ fate' = [m \in Messages |-> IF fate[m] = "waiting" THEN "wiped" ELSE fate[m]]
  /\ declared' = {}

\* Queues are durable, the messages in them are not.
ForgetMessages ==
  /\ fate' = [m \in Messages |-> IF fate[m] = "waiting" THEN "wiped" ELSE fate[m]]
  /\ UNCHANGED declared

\* The broker shuts down and closes its connections: amqplib reports no error,
\* the channels are closed and nobody notices.
BrokerCloses ==
  /\ channel' = [p \in Servers |-> IF channel[p] = "open" THEN "closed" ELSE channel[p]]
  /\ UNCHANGED stage

\* The connections break: 'error' is emitted, has no listener and is thrown.
BrokerBreaks ==
  /\ stage' = [p \in Servers |-> IF channel[p] = "open" THEN "off" ELSE stage[p]]
  /\ channel' = [p \in Servers |-> IF channel[p] = "open" THEN "none" ELSE channel[p]]

BrokerStops ==
  /\ broker = "up"
  /\ Fault
  /\ broker' = "down"
  /\ BrokerCloses \/ BrokerBreaks
  /\ consuming' = {}
  /\ ForgetMessages
  /\ UNCHANGED <<config, mongo, early, mongoStops>>

BrokerStarts ==
  /\ broker = "down"
  /\ broker' = "up"
  /\ UNCHANGED <<servers, mongo, declared, fate, early, faults, mongoStops>>

MongoStops ==
  /\ mongo = "up"
  /\ Fault
  /\ mongo' = "down"
  /\ mongoStops' = mongoStops + 1
  /\ UNCHANGED <<servers, broker, declared, fate, early>>

MongoStarts ==
  /\ mongo = "down"
  /\ mongo' = "up"
  /\ UNCHANGED <<servers, broker, declared, fate, early, faults, mongoStops>>

\* An unhandled rejection anywhere in a handler, or a kill.
ServerDies(p) ==
  /\ stage[p] # "off"
  /\ Fault
  /\ GoTo(p, "off")
  /\ channel' = [channel EXCEPT ![p] = "none"]
  /\ consuming' = consuming \ {p}
  /\ UNCHANGED <<config, broker, mongo, declared, fate, early, mongoStops>>

\* bap-network runs as the container's own process and restarts on failure; the
\* other two run under nodemon, which survives them and waits for a file change or
\* an operator.
Restart(p) ==
  /\ At(p, "off")
  /\ GoTo(p, "config")
  /\ UNCHANGED <<config, channel, consuming, broker, mongo, declared, fate, early,
                 faults, mongoStops>>

\* An operator starts a container again that does not serve.
Redeploy(p) ==
  /\ stage[p] \in {"stuck", "up"}
  /\ stage[p] = "up" => channel[p] = "closed"
  /\ GoTo(p, "config")
  /\ channel' = [channel EXCEPT ![p] = "none"]
  /\ consuming' = consuming \ {p}
  /\ UNCHANGED <<config, broker, mongo, declared, fate, early, faults, mongoStops>>

-----------------------------------------------------------------------------

BootInit ==
  /\ config \in {c \in [Servers -> UNION {Configs[p] : p \in Servers}] :
                   \A p \in Servers : c[p] \in Configs[p]}
  /\ stage = [p \in Servers |-> "off"]
  /\ channel = [p \in Servers |-> "none"]
  /\ consuming = {}
  /\ broker = "up" /\ mongo = "up"
  /\ declared = {}
  /\ fate = [m \in Messages |-> "unsent"]
  /\ early = {}
  /\ faults = 0 /\ mongoStops = 0

BootNext ==
  \/ \E p \in Servers : Boot(p) \/ Restart(p) \/ Redeploy(p) \/ ServerDies(p)
  \/ \E m \in Messages : PublishMessage(m) \/ TakeMessage(m)
  \/ OthersDeclare \/ BrokerStops \/ BrokerStarts \/ MongoStops \/ MongoStarts

BootSpec == BootInit /\ [][BootNext]_bootVars

-----------------------------------------------------------------------------
(***************************************************************************)
(* Properties                                                              *)
(***************************************************************************)

\* Every variable of the servers' life has its type.
BootTypeOK ==
  /\ config \in [Servers -> Config]
  /\ stage \in [Servers -> Stages]
  /\ channel \in [Servers -> {"none", "open", "closed"}]
  /\ consuming \subseteq Servers
  /\ broker \in {"up", "down"} /\ mongo \in {"up", "down"}
  /\ declared \subseteq Queues
  /\ fate \in [Messages -> Fates]
  /\ early \subseteq Messages
  /\ faults \in 0..MaxFaults
  /\ mongoStops \in Nat

Networks == {"bap", "bpp"}

\* A server that listens went through its whole start: its configuration parses,
\* both queues of a network server exist, whatever the broker went through since,
\* and it consumes if and only if it is configured for its place, unless its channel
\* was closed under it.
ListeningIsWired ==
  \A p \in Servers :
    stage[p] = "up" =>
      /\ ParsesConfig(config[p])
      /\ p \in Networks => {Inbox(p), Outbox(p)} \subseteq declared
      /\ p \in Networks /\ channel[p] = "open" => (p \in consuming <=> Placed(p))

\* A server stands still without listening only after a fault; one that consumes
\* all the same, and so takes requests whose replies it cannot receive, only after
\* MongoDB was away.
StuckForACause ==
  \A p \in Servers :
    stage[p] = "stuck" => faults > 0 /\ (p \in consuming => mongoStops > 0)

\* A start ends well, or stands still with an excuse: the two facts above are what
\* an operator reads off a server that listens and off one that does not.
StartIsSound == ListeningIsWired /\ StuckForACause

\* A message that was acknowledged and lost was sent before its queue existed, or
\* the broker stopped or a server died: starting in any order loses nothing else.
LostForACause ==
  \A m \in Messages :
    fate[m] \in {"dropped", "thrown", "wiped"} => m \in early \/ faults > 0

=============================================================================
