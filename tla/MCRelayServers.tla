---------------------------- MODULE MCRelayServers ----------------------------
(***************************************************************************)
(* The start of the relay servers, the gate before their handlers and the  *)
(* telemetry of bap-network.  They share no variable: a behaviour follows  *)
(* one of them and leaves the others as they are.                          *)
(***************************************************************************)
EXTENDS RelayBoot, RelayGate, Telemetry, TLC

CONSTANTS m1, m2

VARIABLE part

allVars == <<part, bootVars, gateVars, telemetryVars>>

MCQueueOf == (m1 :> "outbox") @@ (m2 :> "inbox-bpp")

Configured(mode, side, clients, responses) ==
  [server |-> ServerFields, cache |-> CacheFields, responses |-> responses,
   clients |-> clients, connection |-> UNION {ClientFields[t] : t \in clients}, app |-> AppFields, gateway |-> GatewayFields,
   actions |-> ActionFields, mode |-> mode, side |-> side]

\* The configurations of the repository, some that do not parse, and one of a
\* server that is not where its code belongs.
MCConfigs ==
  [proxy |-> {Configured("bap", "client", {"synchronous"}, ResponseFields)},
   bap   |-> {Configured("bap", "network", {"synchronous"}, ResponseFields),
              Configured("bap", "client", {"synchronous"}, {}),
              Configured("bap", "network", {"synchronous"}, {"mongoURL"})},
   bpp   |-> {Configured("bpp", "network", {"webhook"}, ResponseFields),
              Configured("bpp", "network", {"webhook"}, {}),
              Configured("bpp", "network", {"synchronous"}, ResponseFields)}]

\* At most one server departs from what the repository configures.
Usual(p) == config[p].responses = ResponseFields /\ ParsesConfig(config[p])

Boots    == part = "boot" /\ BootNext /\ UNCHANGED <<part, gateVars, telemetryVars>>
Guards   == part = "gate" /\ GateNext /\ UNCHANGED <<part, bootVars, telemetryVars>>
Measures == part = "telemetry" /\ TelemetryNext
              /\ UNCHANGED <<part, bootVars, gateVars>>

\* The parts that stand still have one initial state each, and app.auth means
\* nothing to bap-proxy.
MCInit ==
  /\ BootInit /\ GateInit /\ TelemetryInit
  /\ part \in {"boot", "gate", "telemetry"}
  /\ Usual("bap") \/ Usual("bpp")
  /\ part # "boot" => Usual("bap") /\ Usual("bpp")
  /\ part # "gate" => role = "proxy" /\ listed.until = 1
  /\ role = "proxy" => auth = FALSE

MCNext == Boots \/ Guards \/ Measures

MCSpec == MCInit /\ [][MCNext]_allVars

=============================================================================
