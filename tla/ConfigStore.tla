----------------------------- MODULE ConfigStore -----------------------------
(***************************************************************************)
(* The device configuration: two slots of which one is active              *)
(* (storage_config.c), SYNC_CONFIG, which writes the other one and then    *)
(* swaps (proto_sync_config.c), and the platform endpoint that is merged   *)
(* from it (net_platform_config.c).  Of the configuration the endpoint is  *)
(* kept; the rules and bindings are data no decision here reads.           *)
(*                                                                         *)
(* The store is a value here and its operations are functions of it, since *)
(* NetLink applies them in the middle of a handler.                        *)
(***************************************************************************)
EXTENDS Naturals

CONSTANTS
    Hosts, Ports,             \* what the platform may name
    NoHost, NoPort,           \* "" and 0
    DefaultHost, DefaultPort, \* FW_PLATFORM_TCP_HOST, FW_PLATFORM_TCP_PORT
    Kept                      \* a field SYNC_CONFIG does not mention

ASSUME HostAssumption == /\ {NoHost, DefaultHost} \subseteq Hosts
                         /\ NoHost # DefaultHost /\ Kept \notin Hosts
ASSUME PortAssumption == /\ {NoPort, DefaultPort} \subseteq Ports
                         /\ NoPort # DefaultPort /\ Kept \notin Ports

Endpoints == [host : Hosts, port : Ports]
Dialable  == [host : Hosts \ {NoHost}, port : Ports \ {NoPort}]
Default   == [host |-> DefaultHost, port |-> DefaultPort]

\* s_slot_a and s_slot_b, s_active, and s_ep of net_platform_config.c.
Stores == [slot : [{0, 1} -> Endpoints], active : {0, 1}, ep : Endpoints]

Load(c) == c.slot[c.active]

StageInactive(c, x) == [c EXCEPT !.slot[1 - c.active] = x]
CommitSwap(c)       == [c EXCEPT !.active = 1 - @]

\* net_platform_config_reload_from_device_config: a field left empty in the
\* configuration leaves the endpoint in use as it is.
Reload(c) ==
    [c EXCEPT !.ep = [host |-> IF Load(c).host = NoHost THEN @.host ELSE Load(c).host,
                      port |-> IF Load(c).port = NoPort THEN @.port ELSE Load(c).port]]

\* proto_sync_config_apply: fields not mentioned are taken over.
Merged(old, u) == [host |-> IF u.host = Kept THEN old.host ELSE u.host,
                   port |-> IF u.port = Kept THEN old.port ELSE u.port]

\* Faulty variant: the candidate is written to the slot in use.
SyncInPlace(c, u) == CommitSwap([c EXCEPT !.slot[c.active] = Merged(@, u)])

Sync(c, u) == CommitSwap(StageInactive(c, Merged(Load(c), u)))

\* app_seed_default_config writes slot B; slot A is invalid until a SYNC_CONFIG
\* fills it, and is not read before.
Seeded ==
    Reload([slot |-> [i \in {0, 1} |-> Default], active |-> 1, ep |-> Default])
=============================================================================
