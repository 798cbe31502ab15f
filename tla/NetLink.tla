------------------------------- MODULE NetLink -------------------------------
(***************************************************************************)
(* The link to the platform: net_connectivity.c over net_socket_client.c   *)
(* and net_4g_modem.c.  One poll of the superloop notices a lost modem or  *)
(* socket, dials, registers, and dispatches what has arrived; SYNC_CONFIG  *)
(* moves the link to another endpoint from within that dispatch.           *)
(*                                                                         *)
(* FrameStream shows how messages become frames and how frames get lost;   *)
(* here a message arrives whole or is lost.                                *)
(***************************************************************************)
EXTENDS ConfigStore, Sequences, FiniteSets

CONSTANTS
    Updates,   \* endpoints the SYNC_CONFIGs of the platform mention
    TimeMod,   \* values of the millisecond counter (2^32)
    Backoff,   \* NET_RECONNECT_BACKOFF_MS
    MaxInbox   \* bound: messages on the way to the controller

ASSUME UpdateAssumption == Updates \subseteq [host : Hosts \cup {Kept}, port : Ports \cup {Kept}]
ASSUME TimeAssumption == Backoff \in Nat \ {0} /\ TimeMod \in Nat /\ Backoff < TimeMod
ASSUME InboxAssumption == MaxInbox \in Nat \ {0}

VARIABLES
    link,        \* the controller's view of the link, see Links
    conf,        \* the configuration and the endpoint merged from it
    now,         \* monotonic_ms
    held,        \* the platform's end holds the connection open
    closing,     \* the modem's text about a connection closed is on the UART
    inbox,       \* messages of the platform on their way
    unanswered,  \* REGISTERs of this connection the platform has not answered
    sinceDial,   \* history: ticks since a poll dialled (at most Backoff)
    asked,       \* history: the endpoint as the accepted SYNC_CONFIGs leave it
    mute         \* history: a command was handled and its answer not sent

platform == <<held, closing, inbox, unanswered>>
history  == <<sinceDial, asked, mute>>
vars     == <<link, conf, now, platform, history>>

Nowhere == [host |-> NoHost, port |-> NoPort]

\* online, tcp and direct are net_4g_modem.c's s_online, s_tcp_connected and
\* s_tcp_direct_mode; up and peer are s_sock.connected and its host and port;
\* registered and pending the status flag and s_register_pending; last is
\* s_last_connect_attempt_ms; shown the status flag tcp_connected.
Links == [online : BOOLEAN, tcp : BOOLEAN, direct : BOOLEAN, up : BOOLEAN,
          peer : Endpoints, shown : BOOLEAN, registered : BOOLEAN,
          pending : BOOLEAN, last : 0..(TimeMod - 1)]

\* A COMMAND is one answered from its handler: QUERY, EXECUTE_ACTION, and a
\* SYNC_CONFIG that is refused.
Commands == [type : {"COMMAND"}]
            \cup [type : {"SYNC_CONFIG"}, with : Updates]
Messages == Commands \cup [type : {"REGISTER_ACK", "REGISTER_NACK"}]
-----------------------------------------------------------------------------
(* Functions of the link.                                                   *)

\* net_4g_modem_tcp_close and net_4g_modem_tcp_connect, where it succeeds.
Closed(n) == [n EXCEPT !.tcp = FALSE, !.direct = FALSE]
Opened(n) == [n EXCEPT !.tcp = TRUE, !.direct = TRUE]

\* net_socket_client_disconnect
Disconnect(n) == [Closed(n) EXCEPT !.up = FALSE]

Unregistered(n) == [n EXCEPT !.shown = FALSE, !.registered = FALSE, !.pending = TRUE]

\* Faulty variant: the modem keeps its end of the connection.
MarkDisconnectedStatusOnly(n) == Unregistered([n EXCEPT !.up = FALSE])

\* net_connectivity_mark_disconnected
MarkDisconnected(n) == Unregistered(IF n.up THEN Disconnect(n) ELSE n)

\* net_socket_client_connect
Connect(n, ep, ok) == [IF ok THEN Opened(n) ELSE n EXCEPT !.up = ok, !.peer = ep]

CanSend(n) == n.up /\ n.tcp

\* Faulty variant: the registration stays pending after it was sent.
TryRegisterAgain(n) == IF n.pending /\ CanSend(n) THEN [n EXCEPT !.registered = TRUE] ELSE n

\* net_connectivity_try_register
TryRegister(n) ==
    IF n.pending /\ CanSend(n) THEN [n EXCEPT !.registered = TRUE, !.pending = FALSE] ELSE n

\* handle_urc_line, on the text about a connection closed.
HandleUrc(n) == [n EXCEPT !.tcp = FALSE]

\* stream_push_from_uart: in direct mode every byte is payload, the modem's
\* text too; in no other does it come to be read as such.
Hear(n, text) == IF text /\ ~(n.tcp /\ n.direct) THEN HandleUrc(n) ELSE n

\* modem_offline_recovery: the probe, every 20 s while off line.
Recover(n, probe) == [n EXCEPT !.online = @ \/ probe]

ModemPoll(n, text, probe) == Recover(Hear(n, text), probe)

\* Faulty variant: a deadline is computed and compared, and the wrap forgotten.
BackoffOverByDeadline(n) == n.last = 0 \/ now >= n.last + Backoff

\* The dial of a poll.  0 is no attempt yet.
BackoffOver(n) == n.last = 0 \/ (now - n.last) % TimeMod >= Backoff

\* Faulty variants: an attempt is noted only when it succeeds; a later time is
\* noted, lest it be 0.
RedialNotingSuccess(n, ep, ok) ==
    IF ~n.up /\ ep \in Dialable /\ BackoffOver(n)
    THEN LET m == Connect(n, ep, ok)
         IN  IF ok THEN [Unregistered(m) EXCEPT !.last = now] ELSE m
    ELSE n

RedialNotingLater(n, ep, ok) ==
    IF ~n.up /\ ep \in Dialable /\ BackoffOver(n)
    THEN LET m == Connect([n EXCEPT !.last = now + 1], ep, ok)
         IN  IF ok THEN Unregistered(m) ELSE m
    ELSE n

Redial(n, ep, ok) ==
    IF ~n.up /\ ep \in Dialable /\ BackoffOver(n)
    THEN LET m == Connect([n EXCEPT !.last = now], ep, ok)
         IN  IF ok THEN Unregistered(m) ELSE m
    ELSE n
-----------------------------------------------------------------------------
(* The dispatch of one message: s holds the link, the configuration and the *)
(* histories a message adds to.                                             *)

\* cb_sync_config: the connection the answer would go by is closed first.
SyncConfig(s, m) ==
    [link  |-> MarkDisconnected(s.link),
     conf  |-> Reload(Sync(s.conf, m.with)),
     asked |-> Merged(s.asked, m.with),
     mute  |-> TRUE]

\* proto_dispatch_handle_inbound and the reply.
Handle(s, m) ==
    CASE m.type = "REGISTER_ACK"  -> [s EXCEPT !.link.registered = TRUE, !.link.pending = FALSE]
      [] m.type = "REGISTER_NACK" -> [s EXCEPT !.link.registered = FALSE, !.link.pending = TRUE]
      [] m.type = "SYNC_CONFIG"   -> SyncConfig(s, m)
      [] OTHER                    -> [s EXCEPT !.mute = @ \/ ~CanSend(s.link)]

\* The loop: up to the first message that leaves the socket closed.
Dispatch(s, msgs) ==
    LET after[i \in 0..Len(msgs)] ==
            IF i = 0 THEN s
            ELSE IF after[i - 1].link.up THEN Handle(after[i - 1], msgs[i]) ELSE after[i - 1]
    IN  after[Len(msgs)]
-----------------------------------------------------------------------------
Off == [online |-> FALSE, tcp |-> FALSE, direct |-> FALSE, up |-> FALSE, peer |-> Nowhere,
        shown |-> FALSE, registered |-> FALSE, pending |-> TRUE, last |-> 0]

\* net_connectivity_init: the dial at boot is not noted in last.
Booted(online, ok) ==
    LET n == IF online THEN TryRegister(Connect([Off EXCEPT !.online = TRUE], Default, ok))
             ELSE Off
    IN  [n EXCEPT !.shown = n.up]

Init ==
    /\ \E online, ok \in BOOLEAN : link = Booted(online, ok)
    /\ conf = Seeded
    /\ now \in 0..(TimeMod - 1)
    /\ held = link.up /\ closing = FALSE /\ inbox = <<>>
    /\ unanswered = IF link.up THEN 1 ELSE 0
    /\ sinceDial = Backoff /\ asked = Default /\ mute = FALSE

Tick ==
    /\ now' = (now + 1) % TimeMod
    /\ sinceDial' = IF sinceDial < Backoff THEN sinceDial + 1 ELSE Backoff
    /\ UNCHANGED <<link, conf, platform, asked, mute>>

\* net_connectivity_poll off line: b is the link as the modem's poll left it.
PollOffLine(b, k) ==
    /\ link' = MarkDisconnected(b)
    /\ k = 0
    /\ UNCHANGED <<conf, held, inbox, unanswered, history>>

\* On line: b is the link before the dial and c after it, k messages have come.
PollOnLine(b, c, k) ==
    \E e \in {Dispatch([link |-> TryRegister([c EXCEPT !.shown = c.up]),
                        conf |-> conf, asked |-> asked, mute |-> mute],
                       SubSeq(inbox, 1, k))} :
        LET fresh == c.up /\ ~b.up
            gone  == ~e.link.up
        IN  /\ link' = IF c.up /\ gone THEN Unregistered(e.link) ELSE e.link
            /\ fresh => k = 0
            /\ conf' = e.conf /\ asked' = e.asked /\ mute' = e.mute
            /\ held' = ((held \/ fresh) /\ ~gone)
            /\ inbox' = IF fresh \/ gone THEN <<>> ELSE SubSeq(inbox, k + 1, Len(inbox))
            /\ unanswered' = (IF fresh \/ gone THEN 0 ELSE unanswered)
                             + (IF c.pending /\ CanSend(c) /\ ~gone THEN 1 ELSE 0)
            /\ sinceDial' = IF ~b.up /\ conf.ep \in Dialable /\ BackoffOver(b)
                            THEN 0 ELSE sinceDial

Poll(probe, ok, k) ==
    /\ k <= Len(inbox)
    /\ \E a \in {ModemPoll(link, closing, probe)} :
           IF ~a.online THEN PollOffLine(a, k)
           ELSE \E b \in {IF a.up /\ ~a.tcp THEN Unregistered(Disconnect(a)) ELSE a} :
                \E c \in {Redial(b, conf.ep, ok)} : PollOnLine(b, c, k)
    /\ closing' = FALSE
    /\ UNCHANGED now
-----------------------------------------------------------------------------
(* The platform and the network. *)

Arrives(m) == inbox' = Append(inbox, m)

PlatformAnswers ==
    /\ held /\ unanswered > 0 /\ Len(inbox) < MaxInbox
    /\ \E t \in {"REGISTER_ACK", "REGISTER_NACK"} : Arrives([type |-> t])
    /\ unanswered' = unanswered - 1
    /\ UNCHANGED <<link, conf, now, held, closing, history>>

PlatformCommands(m) ==
    /\ held /\ Len(inbox) < MaxInbox
    /\ Arrives(m)
    /\ UNCHANGED <<link, conf, now, held, closing, unanswered, history>>

MessageLost ==
    /\ inbox # <<>> /\ inbox' = Tail(inbox)
    /\ UNCHANGED <<link, conf, now, held, closing, unanswered, history>>

\* The far end, or the network, closes the connection; the modem says so.
PlatformCloses ==
    /\ held
    /\ held' = FALSE /\ closing' = TRUE /\ unanswered' = 0
    /\ UNCHANGED <<link, conf, now, inbox, history>>

\* The modem is probed only while off line.
SuperloopPoll ==
    \E probe \in {FALSE, ~link.online}, ok \in BOOLEAN, k \in 0..MaxInbox : Poll(probe, ok, k)

Next ==
    \/ Tick
    \/ SuperloopPoll
    \/ PlatformAnswers
    \/ \E m \in Commands : PlatformCommands(m)
    \/ MessageLost
    \/ PlatformCloses

Spec == Init /\ [][Next]_vars

\* Time passes, and the superloop polls far more often than the counter wraps:
\* no chance to dial that comes again and again is missed for ever.
Fairness == WF_vars(Tick) /\ SF_vars(SuperloopPoll)
FairSpec == Spec /\ Fairness
-----------------------------------------------------------------------------
LinkTypeOK ==
    /\ link \in Links /\ conf \in Stores /\ now \in 0..(TimeMod - 1)
    /\ held \in BOOLEAN /\ closing \in BOOLEAN /\ mute \in BOOLEAN
    /\ inbox \in Seq(Messages) /\ Len(inbox) <= MaxInbox
    /\ unanswered \in Nat /\ sinceDial \in 0..Backoff /\ asked \in Endpoints

\* Between polls the three layers and the status agree: the socket client is up
\* exactly when the modem's socket is, what the status shows is that, no
\* registration outlives its connection, and a connection is either registered
\* or about to be: whatever order REGISTER_ACK, REGISTER_NACK and SYNC_CONFIG
\* come in within one poll (net_connectivity.c:181-205).
LayersAgree ==
    /\ link.up <=> link.tcp /\ link.direct
    /\ link.shown <=> link.up
    /\ link.registered => link.up
    /\ link.pending <=> ~link.registered

\* The connection leads to the endpoint in use, and that is the one the accepted
\* SYNC_CONFIGs ask for, field by field, an empty field aside: the swap of the
\* slots, the reload and the forced reconnect happen in one handler, after which
\* no message of the old connection is handled (app_main.c:75-76).
ConnectedWhereConfigured ==
    /\ link.up => link.peer = conf.ep
    /\ Load(conf) = asked
    /\ asked.host \in {NoHost, conf.ep.host}
    /\ asked.port \in {NoPort, conf.ep.port}

\* However registrations are refused and lost, the platform never has two
\* REGISTERs of one connection to answer.
OneRegisterAtATime == unanswered <= 1

\* Dials of the poll keep their distance and do not cease, also across the wrap
\* of the counter (net_connectivity.c:157-159): two of them are a backoff apart,
\* but for an attempt made at time 0, which s_last_connect_attempt_ms cannot tell
\* from none; and a controller whose modem is on line does not stay disconnected
\* without dialling.
DialsInTime ==
    /\ [][sinceDial' = 0 /\ sinceDial # 0 => sinceDial = Backoff \/ link.last = 0]_vars
    /\ link.online /\ ~link.up ~> link.up \/ sinceDial = 0

\* net_connectivity.c:6: other ACKs and NACKs than those of a registration are
\* written back by way of the envelope.  So a command that was handled has had
\* its answer sent.
EveryCommandAnswered == ~mute

\* net_connectivity.c:148: "poll: modem TCP socket closed, reconnect pending".
\* So a connection the platform's end has closed is given up in the end.
ClosedConnectionGivenUp == link.up /\ ~held ~> ~link.up
=============================================================================
