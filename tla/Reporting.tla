------------------------------- MODULE Reporting -------------------------------
(***************************************************************************)
(* What the controller tells the platform unasked: the pings, vitals and   *)
(* snapshots of app_scheduler.c, built by proto_heartbeat.c and            *)
(* proto_state_snapshot.c and handed to a link that may be down.           *)
(*                                                                         *)
(* A message names the active and the last session.  It is built in a      *)
(* buffer of fixed size and is not sent when it does not fit; how much     *)
(* room the names take decides which messages still do.  The room the last *)
(* voice prompt, the hint and the digits of the numbers take counts as     *)
(* part of that of the names, and changes with it.                         *)
(*                                                                         *)
(* A tick is a second here: the intervals are whole seconds, and the 10 ms *)
(* ticks in between find nothing due that the next second does not.        *)
(***************************************************************************)
EXTENDS Integers, Sequences

CONSTANTS
    TimeMod,    \* values of monotonic_ms (2^32)
    Slow,       \* 30 s, between two measurements of the battery
    Gap,        \* VITALS_DELTA_MIN_GAP_MS
    BootDelay,  \* 3000 ms, before the first vitals
    Levels,     \* what bsp_adc_sample_battery_to_status may find
    Names,      \* room the session names may take
    PingRoom,   \* room the buffer of a ping leaves for them
    VitalsRoom, \* room the buffer of the vitals leaves for them
    Default,    \* runtime_rules of app_seed_default_config
    Fallback,   \* what parse_runtime_rules puts for a value left out
    Requests    \* runtime_rules of the SYNC_CONFIGs of the platform

Clock == 0..(TimeMod - 1)

\* Intervals of pings, vitals, snapshots and of the undivided heartbeat, 0 for
\* none, and the change of the battery that is reported at once.  The seconds
\* have 16 bits: the intervals are far shorter than a turn of the counter.
Rules == [ping : Clock, vitals : Clock, snapshot : Clock, heartbeat : Clock, delta : Nat]

ASSUME TimeAssumption ==
    /\ TimeMod \in Nat \ {0} /\ Slow \in 1..(TimeMod - 1)
    /\ Gap \in 1..(TimeMod - 1) /\ BootDelay \in Nat
ASSUME RulesAssumption ==
    /\ Default \in Rules /\ Requests \subseteq Rules
    /\ Fallback \in [vitals : Clock \ {0}, snapshot : Clock \ {0},
                    heartbeat : Clock \ {0}, delta : Nat \ {0}]
ASSUME RoomAssumption ==
    Names \subseteq Nat /\ 0 \in Names /\ PingRoom \in Nat /\ VitalsRoom \in Nat
ASSUME LevelAssumption == Levels \subseteq Nat

VARIABLES
    now,    \* monotonic_ms
    sched,  \* the scheduler, see Schedulers
    rules,  \* runtime_rules of the active configuration
    names,  \* room the names of the active and the last session take, and all
            \* else in a message that has no fixed length
    up,     \* the connection to the platform
    told,   \* history: the battery as the platform was last told of it, or Unknown
    quiet,  \* history: ticks since it was told anything
    stale,  \* history: ticks that began and ended with a battery unlike the one it was told of
    paced   \* history: ticks since the last vitals (at most Gap)

history == <<told, quiet, stale, paced>>
vars    == <<now, sched, rules, names, up, history>>

Unknown == -1

-----------------------------------------------------------------------------
(* Messages. *)

Ping        == [kind |-> "ping"]
Vitals(s)   == [kind |-> "vitals", soc |-> s.soc]
Snapshot(s) == [kind |-> "snapshot", soc |-> s.soc]

Messages == {Ping} \cup [kind : {"vitals", "snapshot"}, soc : Levels \cup {0}]

\* soc is battery_soc of the status, baseline s_last_sent_soc, and out what the
\* last tick put on the wire.  signal_csq has no writer: it is always 0, and so is
\* s_last_sent_csq.
Schedulers == [lastSlow : Clock, lastSnap : Clock, lastPing : Clock, lastVitals : Clock,
               soc : Levels \cup {0}, baseline : Levels \cup {0},
               baselineOk : BOOLEAN, bootSent : BOOLEAN, out : Seq(Messages)]

\* Whether proto_heartbeat_build_ping and proto_heartbeat_build_vitals succeed.
PingFits  == names <= PingRoom
VitalsFit == names <= VitalsRoom

\* net_connectivity_send_json
Sent(s, m) == [s EXCEPT !.out = IF up THEN Append(@, m) ELSE @]
-----------------------------------------------------------------------------
(* The parts of app_scheduler_tick, at time t. *)

\* Faulty variant: a deadline is computed, and the wrap forgotten.
DueByDeadline(last, interval, t) == t >= last + interval

Due(last, interval, t) == (t - last) % TimeMod >= interval

Noted(s, t) == [s EXCEPT !.baseline = s.soc, !.baselineOk = TRUE, !.lastVitals = t]

\* Faulty variant: the time is not noted.
SendVitalsUntimed(s, t) ==
    IF VitalsFit THEN [Sent(s, Vitals(s)) EXCEPT !.baseline = s.soc, !.baselineOk = TRUE] ELSE s

\* send_vitals_mark_baseline: noted whether or not the send succeeds.
SendVitals(s, t) == IF VitalsFit THEN Noted(Sent(s, Vitals(s)), t) ELSE s

Distance(a, b) == IF a >= b THEN a - b ELSE b - a

TryDeltaVitals(s, t) ==
    IF /\ rules.ping > 0 /\ rules.vitals > 0
       /\ s.baselineOk /\ Due(s.lastVitals, Gap, t)
       /\ rules.delta > 0 /\ Distance(s.soc, s.baseline) >= rules.delta
    THEN SendVitals(s, t) ELSE s

RefreshSlow(s, t, level) ==
    IF Due(s.lastSlow, Slow, t) THEN [s EXCEPT !.lastSlow = t, !.soc = level] ELSE s

SendSnapshot(s, t) ==
    IF rules.snapshot > 0 /\ Due(s.lastSnap, rules.snapshot, t)
    THEN Sent([s EXCEPT !.lastSnap = t], Snapshot(s)) ELSE s

BootVitals(s, t) ==
    IF rules.vitals > 0 /\ ~s.bootSent /\ t >= BootDelay
    THEN SendVitals([s EXCEPT !.bootSent = TRUE], t) ELSE s

\* Faulty variant: the next deadline is noted in place of the time.
SendPingDeadline(s, t) ==
    IF Due(s.lastPing, rules.ping, t)
    THEN LET n == [s EXCEPT !.lastPing = t + rules.ping]
         IN  IF PingFits THEN Sent(n, Ping) ELSE n
    ELSE s

SendPing(s, t) ==
    IF Due(s.lastPing, rules.ping, t)
    THEN LET n == [s EXCEPT !.lastPing = t] IN IF PingFits THEN Sent(n, Ping) ELSE n
    ELSE s

\* Faulty variant: where nothing has changed nothing is sent.
PeriodicVitalsOfChange(s, t) ==
    IF rules.vitals > 0 /\ Due(s.lastVitals, rules.vitals, t) /\ s.soc # s.baseline
    THEN SendVitals(s, t) ELSE s

PeriodicVitals(s, t) ==
    IF rules.vitals > 0 /\ Due(s.lastVitals, rules.vitals, t) THEN SendVitals(s, t) ELSE s

Heartbeat(s, t) ==
    IF rules.heartbeat > 0 /\ Due(s.lastPing, rules.heartbeat, t)
    THEN SendVitals([s EXCEPT !.lastPing = t], t) ELSE s

\* Pings and vitals apart, or one heartbeat where pings are off.
Layers(s, t) ==
    IF rules.ping > 0 THEN PeriodicVitals(SendPing(BootVitals(s, t), t), t) ELSE Heartbeat(s, t)

Scheduled(t, level) ==
    LET s == TryDeltaVitals([sched EXCEPT !.out = <<>>], t)
    IN  Layers(SendSnapshot(RefreshSlow(s, t, level), t), t)
-----------------------------------------------------------------------------
(* SYNC_CONFIG. *)

Or(value, fallback) == IF value = 0 THEN fallback ELSE value

\* parse_runtime_rules: what a SYNC_CONFIG leaves out.
Completed(r) ==
    LET all == [r EXCEPT !.snapshot = Or(@, Fallback.snapshot)]
    IN  IF r.ping > 0
        THEN [all EXCEPT !.vitals = Or(@, Fallback.vitals), !.delta = Or(@, Fallback.delta)]
        ELSE [all EXCEPT !.heartbeat = Or(@, Fallback.heartbeat)]
-----------------------------------------------------------------------------
(* What the platform has been told. *)

OfStatus == {"vitals", "snapshot"}

\* How far the platform's picture of the battery may be off.
Tolerance == IF rules.delta > 0 THEN rules.delta ELSE 1

Close(picture, soc) == picture # Unknown /\ Distance(picture, soc) < Tolerance

\* The histories after a tick that put out on the wire and left soc in the status.
Told(out, soc) ==
    LET status == {i \in DOMAIN out : out[i].kind \in OfStatus}
        latest == CHOOSE i \in status : \A j \in status : j <= i
    IN  /\ told' = IF status = {} THEN told ELSE out[latest].soc
        /\ quiet' = IF out # <<>> \/ ~up THEN 0 ELSE quiet + 1
        /\ stale' = IF Close(told', soc) \/ Close(told', sched.soc) \/ ~up THEN 0 ELSE stale + 1
        /\ paced' = IF \E i \in DOMAIN out : out[i].kind = "vitals" THEN 0
                    ELSE IF paced < Gap THEN paced + 1 ELSE Gap

\* The obligations begin anew.
Anew(s) == /\ sched' = [s EXCEPT !.out = <<>>] /\ quiet' = 0 /\ stale' = 0
           /\ UNCHANGED <<told, paced>>
-----------------------------------------------------------------------------
Blank == [lastSlow |-> 0, lastSnap |-> 0, lastPing |-> 0, lastVitals |-> 0,
          soc |-> 0, baseline |-> 0, baselineOk |-> FALSE, bootSent |-> FALSE, out |-> <<>>]

Init ==
    /\ now = 0 /\ sched = Blank /\ rules = Default /\ names \in Names /\ up \in BOOLEAN
    /\ told = Unknown /\ quiet = 0 /\ stale = 0 /\ paced = Gap

Tick ==
    /\ now' = (now + 1) % TimeMod
    /\ \E level \in Levels : sched' = Scheduled(now', level)
    /\ Told(sched'.out, sched'.soc)
    /\ UNCHANGED <<rules, names, up>>

\* A SYNC_CONFIG is accepted; its handler closes the connection.
Configure(r) ==
    /\ up /\ rules' = Completed(r) /\ up' = FALSE
    /\ Anew(sched) /\ UNCHANGED <<now, names>>

Link == up' = ~up /\ Anew(sched) /\ UNCHANGED <<now, rules, names>>

\* A session begins or ends.
Session == names' \in Names \ {names} /\ Anew(sched) /\ UNCHANGED <<now, rules, up>>

\* app_scheduler_init, after a loss of power.
Restart ==
    /\ now' = 0 /\ rules' = Default /\ up' \in BOOLEAN
    /\ Anew(Blank) /\ UNCHANGED names

Next == Tick \/ (\E r \in Requests : Configure(r)) \/ Link \/ Session \/ Restart

Spec == Init /\ [][Next]_vars
-----------------------------------------------------------------------------
ReportingTypeOK ==
    /\ now \in Clock /\ sched \in Schedulers /\ rules \in Rules
    /\ names \in Names /\ up \in BOOLEAN
    /\ told \in Levels \cup {0, Unknown}
    /\ quiet \in Nat /\ stale \in Nat /\ paced \in 0..Gap

\* The intervals, under the rules in force, of the messages that fit, of those
\* with the status and of all.
StatusIntervals ==
    {i \in {rules.snapshot} : i > 0}
    \cup {i \in {IF rules.ping > 0 THEN rules.vitals ELSE rules.heartbeat} : i > 0 /\ VitalsFit}
Intervals == StatusIntervals \cup {i \in {rules.ping} : i > 0 /\ PingFits}

\* While the connection, the rules and the session stay as they are the platform
\* hears of the controller once in the shortest interval of a message that fits,
\* whatever was due and missed before and wherever the counter wraps.
NeverSilent == \A i \in Intervals : quiet <= i

\* While they stay as they are, what the platform knows of the battery is off by
\* the tolerance for less than the shortest interval of a message that carries it,
\* although the baseline is noted for vitals that were never sent; and for less
\* than the gap if the vitals of the baseline have reached it
\* (app_scheduler.c:42-84).
ChangeReachesPlatform ==
    /\ \A i \in StatusIntervals : stale <= i
    /\ /\ rules.ping > 0 /\ rules.vitals > 0 /\ rules.delta > 0 /\ VitalsFit
       /\ sched.baselineOk /\ told = sched.baseline
       => stale <= Gap

\* app_scheduler.c:16: signal jitter must not flood the traffic.  Vitals keep the
\* gap, or their own interval where that is shorter, from those before them; the
\* first ones after a boot need not.
VitalsPaced ==
    [][/\ \E i \in DOMAIN sched'.out : sched'.out[i].kind = "vitals"
       /\ rules.ping > 0 /\ sched.bootSent
       => paced + 1 >= (IF rules.vitals < Gap THEN rules.vitals ELSE Gap)]_vars
=============================================================================
