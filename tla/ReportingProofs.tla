---------------------------- MODULE ReportingProofs ----------------------------
(***************************************************************************)
(* Theorems about Reporting for every set of rules, every width of the     *)
(* counter and every room the session names may take: whatever the rules   *)
(* are and whenever the counter wraps, what is told is told in time.       *)
(*                                                                         *)
(* The tick of the scheduler is seven parts, each made from what the one   *)
(* before has left.  What any part may do to the times and to what is sent *)
(* is Part, and Part composes.                                             *)
(***************************************************************************)
EXTENDS Reporting, Loops

HasVitals(o) == \E i \in DOMAIN o : o[i].kind = "vitals"
HasStatus(o) == \E i \in DOMAIN o : o[i].kind \in OfStatus

\* What o tells of the battery are levels in S.
Tells(o, S) == \A i \in DOMAIN o : o[i].kind \in OfStatus => o[i].soc \in S

\* What every part of the tick at t makes of s.
Part(s, r, t, S) ==
    /\ r \in Schedulers /\ Tells(r.out, S)
    /\ HasVitals(s.out) => HasVitals(r.out)
    /\ HasStatus(s.out) => HasStatus(r.out)
    /\ s.out # <<>> => r.out # <<>>
    /\ \/ /\ r.lastVitals = s.lastVitals /\ r.baseline = s.baseline
          /\ r.baselineOk = s.baselineOk /\ (HasVitals(r.out) => HasVitals(s.out))
       \/ r.lastVitals = t /\ (up => HasVitals(r.out))

\* Vitals carry the status, and who has had the status has heard something.
LEMMA VitalsAreStatus == \A o : (HasVitals(o) => HasStatus(o)) /\ (HasStatus(o) => o # <<>>)
<1>1. \A o : HasVitals(o) => HasStatus(o)
  BY DEF HasVitals, HasStatus, OfStatus
<1>2. ~HasStatus(<<>>)
  BY DEF HasStatus
<1> QED BY <1>1, <1>2

\* net_connectivity_send_json adds to what is sent, while connected.
LEMMA SentFacts ==
    ASSUME NEW s \in Schedulers, NEW S, Tells(s.out, S), NEW m \in Messages,
           m.kind \in OfStatus => m.soc \in S,
           NEW r, r = Sent(s, m)
    PROVE  /\ r \in Schedulers /\ r = [s EXCEPT !.out = r.out] /\ Tells(r.out, S)
           /\ HasVitals(s.out) => HasVitals(r.out)
           /\ HasStatus(s.out) => HasStatus(r.out)
           /\ HasVitals(r.out) => HasVitals(s.out) \/ m.kind = "vitals"
           /\ up => r.out # <<>> /\ (m.kind \in OfStatus => HasStatus(r.out))
                 /\ (m.kind = "vitals" => HasVitals(r.out))
           /\ s.out # <<>> => r.out # <<>>
<1> DEFINE o == IF up THEN Append(s.out, m) ELSE s.out
<1>1. s.out \in Seq(Messages)
  BY DEF Schedulers
<1>2. r = [s EXCEPT !.out = o]
  BY DEF Sent
<1>3. o \in Seq(Messages)
  BY <1>1
<1>4. r \in Schedulers /\ r.out = o
  <2> HIDE DEF o
  <2> QED BY <1>2, <1>3 DEF Schedulers
<1>5. CASE up
  <2>1. /\ Len(o) = Len(s.out) + 1 /\ o[Len(o)] = m /\ o # <<>>
        /\ \A i \in 1..Len(s.out) : o[i] = s.out[i]
        /\ DOMAIN o = 1..Len(o) /\ DOMAIN s.out = 1..Len(s.out)
    BY <1>1, <1>5
  <2> HIDE DEF o
  <2>2. \A i \in DOMAIN o : i \in DOMAIN s.out \/ i = Len(o)
    BY <2>1, <1>1
  <2>3. Len(o) \in DOMAIN o /\ \A i \in DOMAIN s.out : i \in DOMAIN o
    BY <2>1, <1>1
  <2>4. Tells(o, S)
    BY <2>1, <2>2 DEF Tells
  <2>5. (HasVitals(s.out) => HasVitals(o)) /\ (HasStatus(s.out) => HasStatus(o))
    BY <2>1, <2>3 DEF HasVitals, HasStatus
  <2>6. HasVitals(o) => HasVitals(s.out) \/ m.kind = "vitals"
    BY <2>1, <2>2 DEF HasVitals
  <2>7. (m.kind \in OfStatus => HasStatus(o)) /\ (m.kind = "vitals" => HasVitals(o))
    BY <2>1, <2>3 DEF HasVitals, HasStatus
  <2> QED BY <1>2, <1>4, <2>1, <2>4, <2>5, <2>6, <2>7
<1>6. CASE ~up
  BY <1>2, <1>4, <1>6
<1> QED
  BY <1>5, <1>6

\* The messages, what they carry and which of them tell of the battery.
LEMMA MessageTypes ==
    ASSUME NEW s \in Schedulers
    PROVE  /\ Vitals(s) \in Messages /\ Vitals(s).kind = "vitals" /\ Vitals(s).soc = s.soc
           /\ Snapshot(s) \in Messages /\ Snapshot(s).kind = "snapshot" /\ Snapshot(s).soc = s.soc
           /\ Ping \in Messages /\ Ping.kind = "ping"
           /\ "vitals" \in OfStatus /\ "snapshot" \in OfStatus /\ "ping" \notin OfStatus
BY DEF Schedulers, Vitals, Snapshot, Ping, Messages, OfStatus

\* The fields that only one part of the tick writes.
Same(s, r) == r.lastSlow = s.lastSlow /\ r.lastSnap = s.lastSnap /\ r.lastPing = s.lastPing
              /\ r.soc = s.soc /\ r.bootSent = s.bootSent

\* send_vitals_mark_baseline, where the vitals fit and where they do not.
LEMMA SendVitalsPart ==
    ASSUME NEW s \in Schedulers, NEW t \in Clock, NEW S, s.soc \in S, Tells(s.out, S),
           NEW r, r = SendVitals(s, t)
    PROVE  /\ Part(s, r, t, S) /\ Same(s, r)
           /\ VitalsFit => r.lastVitals = t /\ (up => HasVitals(r.out))
<1>1. CASE VitalsFit
  <2>0. PICK q : q = Sent(s, Vitals(s))
    OBVIOUS
  <2>1. r = [q EXCEPT !.baseline = q.soc, !.baselineOk = TRUE, !.lastVitals = t]
    BY <1>1, <2>0 DEF SendVitals, Noted
  <2>2. Vitals(s) \in Messages /\ Vitals(s).kind = "vitals" /\ Vitals(s).soc = s.soc /\ "vitals" \in OfStatus
    BY MessageTypes
  <2>3. /\ q \in Schedulers /\ q = [s EXCEPT !.out = q.out] /\ Tells(q.out, S)
        /\ HasVitals(s.out) => HasVitals(q.out)
        /\ HasStatus(s.out) => HasStatus(q.out)
        /\ up => q.out # <<>> /\ HasVitals(q.out)
        /\ s.out # <<>> => q.out # <<>>
    <3> DEFINE m == Vitals(s)
    <3>1. m \in Messages /\ m.kind = "vitals" /\ m.soc \in S /\ "vitals" \in OfStatus
      BY <2>2
    <3>2. q = Sent(s, m)
      BY <2>0
    <3> HIDE DEF m
    <3>3. m.kind \in OfStatus => m.soc \in S
      BY <3>1
    <3>4. /\ q \in Schedulers /\ q = [s EXCEPT !.out = q.out] /\ Tells(q.out, S)
          /\ HasVitals(s.out) => HasVitals(q.out)
          /\ HasStatus(s.out) => HasStatus(q.out)
          /\ up => q.out # <<>> /\ (m.kind \in OfStatus => HasStatus(q.out))
                /\ (m.kind = "vitals" => HasVitals(q.out))
          /\ s.out # <<>> => q.out # <<>>
      <4>1. s \in Schedulers /\ Tells(s.out, S)
        OBVIOUS
      <4> QED BY <4>1, <3>1, <3>2, <3>3, SentFacts
    <3> QED BY <3>1, <3>4
  <2>4. /\ r \in Schedulers /\ r.out = q.out /\ r.lastVitals = t
        /\ r.lastSlow = q.lastSlow /\ r.lastSnap = q.lastSnap /\ r.lastPing = q.lastPing
        /\ r.soc = q.soc /\ r.bootSent = q.bootSent
    BY <2>1, <2>3 DEF Schedulers
  <2>5. Same(s, q)
    BY <2>3 DEF Same, Schedulers
  <2> QED BY <1>1, <2>3, <2>4, <2>5 DEF Part, Same
<1>2. CASE ~VitalsFit
  <2>1. r = s
    BY <1>2 DEF SendVitals
  <2> QED BY <1>2, <2>1 DEF Part, Same
<1> QED
  BY <1>1, <1>2

\* The conditions of scheduler_try_delta_vitals.
DeltaDue(s, t) ==
    /\ rules.ping > 0 /\ rules.vitals > 0
    /\ s.baselineOk /\ Due(s.lastVitals, Gap, t)
    /\ rules.delta > 0 /\ Distance(s.soc, s.baseline) >= rules.delta

\* The vitals of a change.
LEMMA TryDeltaPart ==
    ASSUME NEW s \in Schedulers, NEW t \in Clock, NEW S, s.soc \in S, Tells(s.out, S),
           NEW r, r = TryDeltaVitals(s, t)
    PROVE  /\ Part(s, r, t, S) /\ Same(s, r)
           /\ IF DeltaDue(s, t) THEN VitalsFit => r.lastVitals = t /\ (up => HasVitals(r.out)) ELSE r = s
<1>1. CASE DeltaDue(s, t)
  <2>1. r = SendVitals(s, t)
    BY <1>1 DEF TryDeltaVitals, DeltaDue
  <2> QED BY <1>1, <2>1, SendVitalsPart
<1>2. CASE ~DeltaDue(s, t)
  <2>1. r = s
    BY <1>2 DEF TryDeltaVitals, DeltaDue
  <2> QED BY <1>2, <2>1 DEF Part, Same
<1> QED
  BY <1>1, <1>2

\* The battery is measured: nothing is sent.
LEMMA RefreshSlowPart ==
    ASSUME NEW s \in Schedulers, NEW t \in Clock, NEW level \in Levels, NEW S, Tells(s.out, S),
           NEW r, r = RefreshSlow(s, t, level)
    PROVE  /\ Part(s, r, t, S)
           /\ r.lastSnap = s.lastSnap /\ r.lastPing = s.lastPing /\ r.bootSent = s.bootSent
           /\ r.lastVitals = s.lastVitals /\ r.out = s.out
<1>1. /\ r \in Schedulers /\ r.lastSnap = s.lastSnap /\ r.lastPing = s.lastPing
      /\ r.bootSent = s.bootSent /\ r.lastVitals = s.lastVitals /\ r.out = s.out
      /\ r.baseline = s.baseline /\ r.baselineOk = s.baselineOk
  <2>1. CASE Due(s.lastSlow, Slow, t)
    <3>1. r = [s EXCEPT !.lastSlow = t, !.soc = level]
      BY <2>1 DEF RefreshSlow
    <3> QED BY <3>1 DEF Schedulers
  <2>2. CASE ~Due(s.lastSlow, Slow, t)
    BY <2>2 DEF RefreshSlow
  <2> QED BY <2>1, <2>2
<1> QED
  BY <1>1 DEF Part

\* The snapshot, which always fits.
LEMMA SnapshotPart ==
    ASSUME NEW s \in Schedulers, NEW t \in Clock, NEW S, s.soc \in S, Tells(s.out, S),
           NEW r, r = SendSnapshot(s, t)
    PROVE  /\ Part(s, r, t, S)
           /\ r.lastPing = s.lastPing /\ r.soc = s.soc /\ r.bootSent = s.bootSent
           /\ r.lastVitals = s.lastVitals /\ (HasVitals(r.out) => HasVitals(s.out))
           /\ IF rules.snapshot > 0 /\ Due(s.lastSnap, rules.snapshot, t)
              THEN up => HasStatus(r.out)
              ELSE r = s
<1>1. CASE rules.snapshot > 0 /\ Due(s.lastSnap, rules.snapshot, t)
  <2> DEFINE p == [s EXCEPT !.lastSnap = t]
  <2>1. r = Sent(p, Snapshot(s))
    BY <1>1 DEF SendSnapshot
  <2>2. /\ p \in Schedulers /\ p.out = s.out /\ p.soc = s.soc /\ p.lastPing = s.lastPing
        /\ p.bootSent = s.bootSent /\ p.lastVitals = s.lastVitals
        /\ p.baseline = s.baseline /\ p.baselineOk = s.baselineOk
    BY DEF Schedulers
  <2> HIDE DEF p
  <2>3. /\ r \in Schedulers /\ r = [p EXCEPT !.out = r.out] /\ Tells(r.out, S)
        /\ HasVitals(s.out) => HasVitals(r.out)
        /\ HasStatus(s.out) => HasStatus(r.out)
        /\ HasVitals(r.out) => HasVitals(s.out)
        /\ up => HasStatus(r.out)
        /\ s.out # <<>> => r.out # <<>>
    <3> DEFINE m == Snapshot(s)
    <3>1. m \in Messages /\ m.kind = "snapshot" /\ m.soc \in S /\ "snapshot" \in OfStatus
      BY MessageTypes
    <3>2. r = Sent(p, m)
      BY <2>1
    <3> HIDE DEF m
    <3>3. p \in Schedulers /\ Tells(p.out, S) /\ (m.kind \in OfStatus => m.soc \in S)
      BY <2>2, <3>1
    <3>4. /\ r \in Schedulers /\ r = [p EXCEPT !.out = r.out] /\ Tells(r.out, S)
          /\ HasVitals(p.out) => HasVitals(r.out)
          /\ HasStatus(p.out) => HasStatus(r.out)
          /\ HasVitals(r.out) => HasVitals(p.out) \/ m.kind = "vitals"
          /\ up => (m.kind \in OfStatus => HasStatus(r.out))
          /\ p.out # <<>> => r.out # <<>>
      BY <3>1, <3>2, <3>3, SentFacts
    <3> QED BY <2>2, <3>1, <3>4
  <2>4. /\ r.soc = p.soc /\ r.lastPing = p.lastPing /\ r.bootSent = p.bootSent
        /\ r.lastVitals = p.lastVitals /\ r.baseline = p.baseline /\ r.baselineOk = p.baselineOk
    BY <2>2, <2>3 DEF Schedulers
  <2> QED BY <1>1, <2>2, <2>3, <2>4 DEF Part
<1>2. CASE ~(rules.snapshot > 0 /\ Due(s.lastSnap, rules.snapshot, t))
  <2>1. r = s
    BY <1>2 DEF SendSnapshot
  <2> QED BY <1>2, <2>1 DEF Part
<1> QED
  BY <1>1, <1>2

\* The first vitals after a boot.
LEMMA BootPart ==
    ASSUME NEW s \in Schedulers, NEW t \in Clock, NEW S, s.soc \in S, Tells(s.out, S),
           NEW r, r = BootVitals(s, t)
    PROVE  /\ Part(s, r, t, S)
           /\ r.lastSnap = s.lastSnap /\ r.lastPing = s.lastPing /\ r.soc = s.soc
           /\ s.bootSent => r = s
<1>1. CASE rules.vitals > 0 /\ ~s.bootSent /\ t >= BootDelay
  <2> DEFINE p == [s EXCEPT !.bootSent = TRUE]
  <2>1. r = SendVitals(p, t)
    BY <1>1 DEF BootVitals
  <2>2. /\ p \in Schedulers /\ p.out = s.out /\ p.soc = s.soc /\ p.lastPing = s.lastPing
        /\ p.lastSnap = s.lastSnap /\ p.lastVitals = s.lastVitals
        /\ p.baseline = s.baseline /\ p.baselineOk = s.baselineOk
    BY DEF Schedulers
  <2> HIDE DEF p
  <2>3. Part(p, r, t, S) /\ Same(p, r)
    BY <2>1, <2>2, SendVitalsPart
  <2> QED BY <1>1, <2>2, <2>3 DEF Part, Same
<1>2. CASE ~(rules.vitals > 0 /\ ~s.bootSent /\ t >= BootDelay)
  <2>1. r = s
    BY <1>2 DEF BootVitals
  <2> QED BY <2>1 DEF Part
<1> QED
  BY <1>1, <1>2

\* The ping.
LEMMA PingPart ==
    ASSUME NEW s \in Schedulers, NEW t \in Clock, NEW S, s.soc \in S, Tells(s.out, S),
           NEW r, r = SendPing(s, t)
    PROVE  /\ Part(s, r, t, S)
           /\ r.lastSnap = s.lastSnap /\ r.soc = s.soc /\ r.lastVitals = s.lastVitals
           /\ (HasVitals(r.out) => HasVitals(s.out))
           /\ IF Due(s.lastPing, rules.ping, t)
              THEN up /\ PingFits => r.out # <<>>
              ELSE r = s
<1>1. CASE Due(s.lastPing, rules.ping, t)
  <2> DEFINE p == [s EXCEPT !.lastPing = t]
  <2>1. r = IF PingFits THEN Sent(p, Ping) ELSE p
    BY <1>1 DEF SendPing
  <2>2. /\ p \in Schedulers /\ p.out = s.out /\ p.soc = s.soc
        /\ p.lastSnap = s.lastSnap /\ p.lastVitals = s.lastVitals
        /\ p.baseline = s.baseline /\ p.baselineOk = s.baselineOk
    BY DEF Schedulers
  <2> HIDE DEF p
  <2>3. CASE PingFits
    <3>1. r = Sent(p, Ping)
      BY <2>1, <2>3
    <3>2. Ping \in Messages /\ Ping.kind = "ping" /\ "ping" \notin OfStatus
      BY MessageTypes
    <3>3. /\ r \in Schedulers /\ r = [p EXCEPT !.out = r.out] /\ Tells(r.out, S)
          /\ HasVitals(s.out) => HasVitals(r.out)
          /\ HasStatus(s.out) => HasStatus(r.out)
          /\ HasVitals(r.out) => HasVitals(s.out)
          /\ up => r.out # <<>>
          /\ s.out # <<>> => r.out # <<>>
      BY <2>2, <3>1, <3>2, SentFacts
    <3>4. /\ r.soc = p.soc /\ r.lastSnap = p.lastSnap
          /\ r.lastVitals = p.lastVitals /\ r.baseline = p.baseline /\ r.baselineOk = p.baselineOk
      BY <2>2, <3>3 DEF Schedulers
    <3> QED BY <1>1, <2>2, <3>3, <3>4 DEF Part
  <2>4. CASE ~PingFits
    <3>1. r = p
      BY <2>1, <2>4
    <3> QED BY <1>1, <2>2, <2>4, <3>1 DEF Part
  <2> QED BY <2>3, <2>4
<1>2. CASE ~Due(s.lastPing, rules.ping, t)
  <2>1. r = s
    BY <1>2 DEF SendPing
  <2> QED BY <1>2, <2>1 DEF Part
<1> QED
  BY <1>1, <1>2

\* The vitals of the interval.
LEMMA PeriodicPart ==
    ASSUME NEW s \in Schedulers, NEW t \in Clock, NEW S, s.soc \in S, Tells(s.out, S),
           NEW r, r = PeriodicVitals(s, t)
    PROVE  /\ Part(s, r, t, S) /\ Same(s, r)
           /\ IF rules.vitals > 0 /\ Due(s.lastVitals, rules.vitals, t)
              THEN VitalsFit => r.lastVitals = t /\ (up => HasVitals(r.out))
              ELSE r = s
<1>1. CASE rules.vitals > 0 /\ Due(s.lastVitals, rules.vitals, t)
  <2>1. r = SendVitals(s, t)
    BY <1>1 DEF PeriodicVitals
  <2> QED BY <1>1, <2>1, SendVitalsPart
<1>2. CASE ~(rules.vitals > 0 /\ Due(s.lastVitals, rules.vitals, t))
  <2>1. r = s
    BY <1>2 DEF PeriodicVitals
  <2> QED BY <1>2, <2>1 DEF Part, Same
<1> QED
  BY <1>1, <1>2

\* The undivided heartbeat.
LEMMA HeartbeatPart ==
    ASSUME NEW s \in Schedulers, NEW t \in Clock, NEW S, s.soc \in S, Tells(s.out, S),
           NEW r, r = Heartbeat(s, t)
    PROVE  /\ Part(s, r, t, S)
           /\ r.lastSnap = s.lastSnap /\ r.soc = s.soc
           /\ IF rules.heartbeat > 0 /\ Due(s.lastPing, rules.heartbeat, t)
              THEN VitalsFit /\ up => HasVitals(r.out)
              ELSE r = s
<1>1. CASE rules.heartbeat > 0 /\ Due(s.lastPing, rules.heartbeat, t)
  <2> DEFINE p == [s EXCEPT !.lastPing = t]
  <2>1. r = SendVitals(p, t)
    BY <1>1 DEF Heartbeat
  <2>2. /\ p \in Schedulers /\ p.out = s.out /\ p.soc = s.soc
        /\ p.lastSnap = s.lastSnap /\ p.lastVitals = s.lastVitals
        /\ p.baseline = s.baseline /\ p.baselineOk = s.baselineOk
    BY DEF Schedulers
  <2> HIDE DEF p
  <2>3. Part(p, r, t, S) /\ Same(p, r) /\ (VitalsFit => (up => HasVitals(r.out)))
    BY <2>1, <2>2, SendVitalsPart
  <2> QED BY <1>1, <2>2, <2>3 DEF Part, Same
<1>2. CASE ~(rules.heartbeat > 0 /\ Due(s.lastPing, rules.heartbeat, t))
  <2>1. r = s
    BY <1>2 DEF Heartbeat
  <2> QED BY <1>2, <2>1 DEF Part
<1> QED
  BY <1>1, <1>2

\* Two parts one after the other.
LEMMA PartComposes ==
    ASSUME NEW a, NEW b, NEW c, NEW t, NEW S, Part(a, b, t, S), Part(b, c, t, S)
    PROVE  Part(a, c, t, S)
BY DEF Part

\* What a whole tick at t makes of the scheduler.
TickMakes(r, t) ==
    /\ \/ /\ r.lastVitals = sched.lastVitals /\ r.baseline = sched.baseline
          /\ r.baselineOk = sched.baselineOk /\ ~HasVitals(r.out)
       \/ r.lastVitals = t /\ (up => HasVitals(r.out))
    /\ IF rules.snapshot > 0 /\ Due(sched.lastSnap, rules.snapshot, t)
       THEN up => HasStatus(r.out) ELSE r.lastSnap = sched.lastSnap
    /\ rules.ping > 0 =>
         IF Due(sched.lastPing, rules.ping, t)
         THEN up /\ PingFits => r.out # <<>> ELSE r.lastPing = sched.lastPing
    /\ rules.ping > 0 /\ rules.vitals > 0 /\ VitalsFit /\ Due(sched.lastVitals, rules.vitals, t)
       => r.lastVitals = t /\ (up => HasVitals(r.out))
    /\ rules.ping = 0 =>
         IF rules.heartbeat > 0 /\ Due(sched.lastPing, rules.heartbeat, t)
         THEN VitalsFit /\ up => HasVitals(r.out) ELSE r.lastPing = sched.lastPing
    /\ DeltaDue(sched, t) /\ VitalsFit => r.lastVitals = t /\ (up => HasVitals(r.out))
    /\ HasVitals(r.out) /\ rules.ping > 0 /\ sched.bootSent
       => Due(sched.lastVitals, Gap, t) \/ (rules.vitals > 0 /\ Due(sched.lastVitals, rules.vitals, t))

\* The parts put together, in the order of app_scheduler_tick.
LEMMA ScheduledFacts ==
    ASSUME sched \in Schedulers, rules \in Rules, NEW t \in Clock, NEW level \in Levels,
           NEW r, r = Scheduled(t, level)
    PROVE  r \in Schedulers /\ Tells(r.out, {sched.soc, r.soc}) /\ TickMakes(r, t)
<1> DEFINE s0 == [sched EXCEPT !.out = <<>>]
           s1 == TryDeltaVitals(s0, t)
           s2 == RefreshSlow(s1, t, level)
           s3 == SendSnapshot(s2, t)
           s4 == BootVitals(s3, t)
           s5 == SendPing(s4, t)
           S == {sched.soc, s2.soc}
<1>0. /\ s0 \in Schedulers /\ s0.out = <<>> /\ Same(sched, s0) /\ s0.lastVitals = sched.lastVitals
      /\ s0.baseline = sched.baseline /\ s0.baselineOk = sched.baselineOk
      /\ s0.soc \in S /\ Tells(s0.out, S) /\ ~HasVitals(s0.out)
  <2>1. <<>> \in Seq(Messages)
    OBVIOUS
  <2>2. Tells(<<>>, S) /\ ~HasVitals(<<>>)
    BY DEF Tells, HasVitals
  <2> HIDE DEF S
  <2>3. s0 \in Schedulers /\ s0.out = <<>> /\ Same(sched, s0) /\ s0.lastVitals = sched.lastVitals
        /\ s0.baseline = sched.baseline /\ s0.baselineOk = sched.baselineOk /\ s0.soc = sched.soc
    BY <2>1 DEF Schedulers, Same
  <2> HIDE DEF s0
  <2>4. sched.soc \in S
    BY DEF S
  <2> QED BY <2>2, <2>3, <2>4
<1>1. DeltaDue(s0, t) <=> DeltaDue(sched, t)
  BY <1>0 DEF DeltaDue, Same
<1> HIDE DEF s0, s1, S
<1>2. /\ Part(s0, s1, t, S) /\ Same(s0, s1)
      /\ IF DeltaDue(s0, t) THEN VitalsFit => s1.lastVitals = t /\ (up => HasVitals(s1.out)) ELSE s1 = s0
  BY <1>0, TryDeltaPart DEF s1
<1> HIDE DEF s2
<1>3. /\ Part(s1, s2, t, S)
      /\ s2.lastSnap = s1.lastSnap /\ s2.lastPing = s1.lastPing /\ s2.bootSent = s1.bootSent
      /\ s2.lastVitals = s1.lastVitals /\ s2.out = s1.out
  BY <1>2, RefreshSlowPart DEF s2, Part
<1>4. s2.soc \in S
  BY DEF S
<1> HIDE DEF s3
<1>5. /\ Part(s2, s3, t, S)
      /\ s3.lastPing = s2.lastPing /\ s3.soc = s2.soc /\ s3.bootSent = s2.bootSent
      /\ s3.lastVitals = s2.lastVitals /\ (HasVitals(s3.out) => HasVitals(s2.out))
      /\ IF rules.snapshot > 0 /\ Due(s2.lastSnap, rules.snapshot, t)
         THEN up => HasStatus(s3.out) ELSE s3 = s2
  BY <1>3, <1>4, SnapshotPart DEF s3, Part
<1>6. Part(s0, s3, t, S)
  BY <1>2, <1>3, <1>5, PartComposes
<1>7. s2.lastSnap = sched.lastSnap /\ s3.lastPing = sched.lastPing /\ s3.bootSent = sched.bootSent
  BY <1>0, <1>2, <1>3, <1>5 DEF Same
<1>8. r = Layers(s3, t)
  BY DEF Scheduled, s0, s1, s2, s3
<1>9. /\ Part(s3, r, t, S) /\ r.soc = s2.soc /\ r.lastSnap = s3.lastSnap
      /\ rules.ping > 0 =>
           IF Due(s3.lastPing, rules.ping, t)
           THEN up /\ PingFits => r.out # <<>> ELSE r.lastPing = s3.lastPing
      /\ rules.ping > 0 /\ rules.vitals > 0 /\ VitalsFit =>
           \/ r.lastVitals = t /\ (up => HasVitals(r.out))
           \/ ~Due(s3.lastVitals, rules.vitals, t)
      /\ rules.ping = 0 =>
           IF rules.heartbeat > 0 /\ Due(s3.lastPing, rules.heartbeat, t)
           THEN VitalsFit /\ up => HasVitals(r.out) ELSE r.lastPing = s3.lastPing
      /\ rules.ping > 0 /\ s3.bootSent /\ HasVitals(r.out) =>
           HasVitals(s3.out) \/ (rules.vitals > 0 /\ Due(s3.lastVitals, rules.vitals, t))
  <2>1. CASE rules.ping > 0
    <3> HIDE DEF s4
    <3>1. /\ Part(s3, s4, t, S)
          /\ s4.lastSnap = s3.lastSnap /\ s4.lastPing = s3.lastPing /\ s4.soc = s3.soc
          /\ s3.bootSent => s4 = s3
      BY <1>4, <1>5, BootPart DEF s4, Part
    <3> HIDE DEF s5
    <3>2. /\ Part(s4, s5, t, S)
          /\ s5.lastSnap = s4.lastSnap /\ s5.soc = s4.soc /\ s5.lastVitals = s4.lastVitals
          /\ (HasVitals(s5.out) => HasVitals(s4.out))
          /\ IF Due(s4.lastPing, rules.ping, t)
             THEN up /\ PingFits => s5.out # <<>> ELSE s5 = s4
      BY <1>4, <1>5, <3>1, PingPart DEF s5, Part
    <3>3. r = PeriodicVitals(s5, t)
      BY <1>8, <2>1 DEF Layers, s4, s5
    <3>4. /\ Part(s5, r, t, S) /\ Same(s5, r)
          /\ IF rules.vitals > 0 /\ Due(s5.lastVitals, rules.vitals, t)
             THEN VitalsFit => r.lastVitals = t /\ (up => HasVitals(r.out)) ELSE r = s5
      BY <1>4, <1>5, <3>1, <3>2, <3>3, PeriodicPart DEF Part
    <3>5. Part(s3, r, t, S) /\ Part(s3, s5, t, S)
      BY <3>1, <3>2, <3>4, PartComposes
    <3>6. r.soc = s2.soc /\ r.lastSnap = s3.lastSnap
      BY <1>5, <3>1, <3>2, <3>4 DEF Same
    <3>7. IF Due(s3.lastPing, rules.ping, t)
          THEN up /\ PingFits => r.out # <<>> ELSE r.lastPing = s3.lastPing
      BY <3>1, <3>2, <3>4 DEF Same, Part
    <3>8. rules.vitals > 0 /\ VitalsFit =>
           \/ r.lastVitals = t /\ (up => HasVitals(r.out))
           \/ ~Due(s3.lastVitals, rules.vitals, t)
      <4>1. CASE s5.lastVitals = s3.lastVitals
        BY <3>4, <4>1
      <4>2. CASE s5.lastVitals = t /\ (up => HasVitals(s5.out))
        BY <3>4, <4>2 DEF Part
      <4> QED BY <3>5, <4>1, <4>2 DEF Part
    <3>9. s3.bootSent /\ HasVitals(r.out) =>
           HasVitals(s3.out) \/ (rules.vitals > 0 /\ Due(s3.lastVitals, rules.vitals, t))
      BY <3>1, <3>2, <3>4
    <3> QED BY <2>1, <3>5, <3>6, <3>7, <3>8, <3>9
  <2>2. CASE ~(rules.ping > 0)
    <3>1. r = Heartbeat(s3, t)
      BY <1>8, <2>2 DEF Layers
    <3>2. /\ Part(s3, r, t, S)
          /\ r.lastSnap = s3.lastSnap /\ r.soc = s3.soc
          /\ IF rules.heartbeat > 0 /\ Due(s3.lastPing, rules.heartbeat, t)
             THEN VitalsFit /\ up => HasVitals(r.out)
             ELSE r = s3
      BY <1>4, <1>5, <3>1, HeartbeatPart DEF Part
    <3> QED BY <1>5, <2>2, <3>2
  <2> QED BY <2>1, <2>2
<1>10. Part(s0, r, t, S)
  BY <1>6, <1>9, PartComposes
<1>11. r \in Schedulers /\ Tells(r.out, {sched.soc, r.soc})
  BY <1>9, <1>10 DEF Part, S
<1>12. \/ /\ r.lastVitals = sched.lastVitals /\ r.baseline = sched.baseline
          /\ r.baselineOk = sched.baselineOk /\ ~HasVitals(r.out)
       \/ r.lastVitals = t /\ (up => HasVitals(r.out))
  BY <1>0, <1>10 DEF Part
<1>13. IF rules.snapshot > 0 /\ Due(sched.lastSnap, rules.snapshot, t)
       THEN up => HasStatus(r.out) ELSE r.lastSnap = sched.lastSnap
  BY <1>5, <1>7, <1>9 DEF Part
<1>14. \/ s3.lastVitals = sched.lastVitals
       \/ r.lastVitals = t /\ (up => HasVitals(r.out))
  BY <1>0, <1>6, <1>9 DEF Part
<1>15. DeltaDue(sched, t) /\ VitalsFit => r.lastVitals = t /\ (up => HasVitals(r.out))
  BY <1>1, <1>2, <1>3, <1>5, <1>9 DEF Part
<1>16. HasVitals(r.out) /\ rules.ping > 0 /\ sched.bootSent
       => Due(sched.lastVitals, Gap, t) \/ (rules.vitals > 0 /\ Due(sched.lastVitals, rules.vitals, t))
  <2> SUFFICES ASSUME HasVitals(r.out), rules.ping > 0, sched.bootSent, ~Due(sched.lastVitals, Gap, t)
               PROVE  rules.vitals > 0 /\ Due(sched.lastVitals, rules.vitals, t)
    OBVIOUS
  <2>1. s1 = s0
    BY <1>1, <1>2 DEF DeltaDue
  <2>2. ~HasVitals(s3.out) /\ s3.lastVitals = sched.lastVitals
    BY <1>0, <1>3, <1>5, <2>1
  <2> QED BY <1>7, <1>9, <2>2
<1> QED
  BY <1>7, <1>9, <1>11, <1>12, <1>13, <1>14, <1>15, <1>16 DEF TickMakes
-----------------------------------------------------------------------------
(* The inductive invariant.                                                *)
(*                                                                         *)
(* A count of ticks says nothing of when the next message is due.  What    *)
(* ties the two together is that a count that is not 0 is at most one more *)
(* than the age of the time noted for the message, and that age is short   *)
(* of the interval: else the message would have been sent, and the count   *)
(* be 0.                                                                   *)

Age(at) == (now - at) % TimeMod

\* A count of ticks that is kept by what is sent whenever it is an interval since at.
Keeps(count, age, interval) == count > 0 => age < interval /\ count <= age + 1

SnapshotKeeps ==
    rules.snapshot > 0 => /\ Keeps(quiet, Age(sched.lastSnap), rules.snapshot)
                          /\ Keeps(stale, Age(sched.lastSnap), rules.snapshot)
VitalsKeep ==
    rules.ping > 0 /\ rules.vitals > 0 /\ VitalsFit =>
        /\ Keeps(quiet, Age(sched.lastVitals), rules.vitals)
        /\ Keeps(stale, Age(sched.lastVitals), rules.vitals)
PingKeeps ==
    rules.ping > 0 /\ PingFits => Keeps(quiet, Age(sched.lastPing), rules.ping)
HeartbeatKeeps ==
    rules.ping = 0 /\ rules.heartbeat > 0 /\ VitalsFit =>
        /\ Keeps(quiet, Age(sched.lastPing), rules.heartbeat)
        /\ Keeps(stale, Age(sched.lastPing), rules.heartbeat)
DeltaKeeps ==
    /\ rules.ping > 0 /\ rules.vitals > 0 /\ rules.delta > 0 /\ VitalsFit
    /\ sched.baselineOk /\ told = sched.baseline
    => Keeps(stale, Age(sched.lastVitals), Gap)
PacedNoted == paced < Gap => Age(sched.lastVitals) <= paced

IInv ==
    /\ ReportingTypeOK
    /\ SnapshotKeeps /\ VitalsKeep /\ PingKeeps /\ HeartbeatKeeps /\ DeltaKeeps /\ PacedNoted

\* Time since at, from one tick to the next.
LEMMA Ages ==
    ASSUME NEW n \in Clock, NEW at \in Clock, NEW m, m = (n + 1) % TimeMod
    PROVE  /\ m \in Clock /\ (m - m) % TimeMod = 0
           /\ (n - at) % TimeMod \in Clock /\ (m - at) % TimeMod \in Clock
           /\ (n - at) % TimeMod < TimeMod - 1 => (m - at) % TimeMod = ((n - at) % TimeMod) + 1
<1> USE DEF Clock
<1>1. \A x \in 0..(TimeMod - 1) : x % TimeMod = x
  BY TimeAssumption
<1>2. \A x \in 0..(TimeMod - 1) : (x - TimeMod) % TimeMod = x
  BY TimeAssumption
<1>3. TimeMod % TimeMod = 0
  BY TimeAssumption
<1>4. m \in Clock /\ (m - m) % TimeMod = 0
  BY <1>1, TimeAssumption
<1>5. (n - at) % TimeMod \in Clock /\ (m - at) % TimeMod \in Clock
  BY <1>4, TimeAssumption
<1>6. (n - at) % TimeMod = IF n >= at THEN n - at ELSE n - at + TimeMod
  BY <1>1, <1>2, TimeAssumption
<1>7. m = IF n = TimeMod - 1 THEN 0 ELSE n + 1
  BY <1>1, <1>3, TimeAssumption
<1>8. (m - at) % TimeMod = IF m >= at THEN m - at ELSE m - at + TimeMod
  BY <1>1, <1>2, <1>4, TimeAssumption
<1> QED
  BY <1>4, <1>5, <1>6, <1>7, <1>8, TimeAssumption

\* Nothing was due at m, and the count went on.
LEMMA KeepsOn ==
    ASSUME NEW n \in Clock, NEW at \in Clock, NEW m, m = (n + 1) % TimeMod,
           NEW interval \in Clock, NEW c \in Nat, NEW d, d = 0 \/ d = c + 1,
           Keeps(c, (n - at) % TimeMod, interval), ~Due(at, interval, m)
    PROVE  Keeps(d, (m - at) % TimeMod, interval)
<1> DEFINE a == (n - at) % TimeMod
           b == (m - at) % TimeMod
<1>1. a \in Clock /\ b \in Clock /\ (a < TimeMod - 1 => b = a + 1)
  BY Ages
<1>2. interval \in Int /\ b < interval /\ interval <= TimeMod - 1
  <2>1. ~(b >= interval)
    BY DEF Due
  <2> HIDE DEF b
  <2> QED BY <2>1, <1>1, TimeAssumption DEF Clock
<1>3. Keeps(c, a, interval)
  OBVIOUS
<1> HIDE DEF a, b
<1>4. a \in Nat /\ b \in Nat /\ interval \in Nat /\ TimeMod \in Nat
  BY <1>1, TimeAssumption DEF Clock
<1>5. ASSUME d = c + 1 PROVE Keeps(d, b, interval)
  <2>1. CASE c = 0
    BY <1>2, <1>4, <1>5, <2>1 DEF Keeps
  <2>2. CASE c > 0
    <3>1. a < interval /\ c <= a + 1
      BY <1>3, <2>2 DEF Keeps
    <3>2. b = a + 1
      BY <1>1, <1>2, <1>4, <3>1
    <3>3. d <= b + 1
      BY <1>4, <1>5, <3>1, <3>2
    <3> QED BY <1>2, <3>3 DEF Keeps
  <2> QED BY <2>1, <2>2
<1>6. CASE d = 0
  BY <1>6 DEF Keeps
<1> QED
  BY <1>5, <1>6 DEF b

\* A count that begins anew is kept.
LEMMA NothingToKeep == \A age, interval : Keeps(0, age, interval)
BY DEF Keeps
-----------------------------------------------------------------------------
(* What a tick makes of the histories. *)

\* What was sent with the status is the battery as it was or as it is now.
LEMMA ToldFacts ==
    ASSUME ReportingTypeOK, NEW r \in Schedulers, Tells(r.out, {sched.soc, r.soc}),
           Told(r.out, r.soc)
    PROVE  /\ told' \in Levels \cup {0, Unknown}
           /\ quiet' = 0 \/ quiet' = quiet + 1
           /\ stale' = 0 \/ stale' = stale + 1
           /\ r.out # <<>> \/ ~up => quiet' = 0
           /\ HasStatus(r.out) \/ ~up => stale' = 0
           /\ ~HasStatus(r.out) => told' = told
           /\ stale' = 0 \/ ~Close(told', sched.soc)
           /\ paced' = IF HasVitals(r.out) THEN 0 ELSE IF paced < Gap THEN paced + 1 ELSE Gap
<1> DEFINE o == r.out
           status == {i \in DOMAIN o : o[i].kind \in OfStatus}
           latest == CHOOSE i \in status : \A j \in status : j <= i
<1>1. o \in Seq(Messages) /\ sched.soc \in Levels \cup {0} /\ r.soc \in Levels \cup {0}
  BY DEF ReportingTypeOK, Schedulers
<1>2. told' = IF status = {} THEN told ELSE o[latest].soc
  BY DEF Told
<1>3. HasStatus(o) <=> status # {}
  BY DEF HasStatus
<1>4. CASE status # {}
  <2>1. DOMAIN o = 1..Len(o) /\ Len(o) \in Nat
    BY <1>1
  <2>2. status \subseteq 1..Len(o)
    BY <2>1
  <2>3. \E i \in status : \A j \in status : j <= i
    <3> HIDE DEF status
    <3> QED BY <1>4, <2>1, <2>2, GreatestExists
  <2>4. latest \in status
    <3> HIDE DEF status
    <3> QED BY <2>3
  <2>5. o[latest].soc \in {sched.soc, r.soc}
    <3> HIDE DEF latest
    <3> QED BY <2>4 DEF Tells
  <2>6. told' \in {sched.soc, r.soc}
    <3> HIDE DEF status, latest
    <3> QED BY <1>2, <1>4, <2>5
  <2>7. told' \in Levels \cup {0} /\ told' # Unknown
    BY <1>1, <2>6, LevelAssumption DEF Unknown
  <2>8. Close(told', r.soc) \/ Close(told', sched.soc)
    <3>1. \A x \in Levels \cup {0} : Distance(x, x) = 0
      <4>1. \A x \in Nat : Distance(x, x) = 0
        BY DEF Distance
      <4>2. Levels \cup {0} \subseteq Nat
        BY LevelAssumption
      <4> QED BY <4>1, <4>2
    <3>2. Tolerance > 0
      BY DEF Tolerance, ReportingTypeOK, Rules
    <3> QED BY <2>6, <2>7, <3>1, <3>2 DEF Close
  <2>9. stale' = 0
    BY <2>8 DEF Told
  <2>10. HasStatus(o)
    BY <1>3, <1>4
  <2>11. o # <<>>
    BY <2>10, VitalsAreStatus
  <2>12. quiet' = 0
    BY <2>11 DEF Told
  <2>13. paced' = IF HasVitals(o) THEN 0 ELSE IF paced < Gap THEN paced + 1 ELSE Gap
    BY DEF Told, HasVitals
  <2> QED BY <2>7, <2>9, <2>10, <2>12, <2>13
<1>5. CASE status = {}
  <2>1. told' = told
    BY <1>2, <1>5
  <2>2. ~HasStatus(o)
    BY <1>3, <1>5
  <2>3. paced' = IF HasVitals(o) THEN 0 ELSE IF paced < Gap THEN paced + 1 ELSE Gap
    BY DEF Told, HasVitals
  <2>4. /\ quiet' = IF o # <<>> \/ ~up THEN 0 ELSE quiet + 1
        /\ stale' = IF Close(told', r.soc) \/ Close(told', sched.soc) \/ ~up THEN 0 ELSE stale + 1
    BY DEF Told
  <2> HIDE DEF o, status
  <2>5. told \in Levels \cup {0, Unknown}
    BY DEF ReportingTypeOK
  <2> QED BY <2>1, <2>2, <2>3, <2>4, <2>5 DEF o
<1> QED
  BY <1>4, <1>5

\* Nothing is told of the battery, and yet it stays close: else it would have been due.
LEMMA DeltaWasDue ==
    ASSUME ReportingTypeOK, NEW t \in Clock, rules.ping > 0, rules.vitals > 0, rules.delta > 0,
           sched.baselineOk, ~Close(sched.baseline, sched.soc), Due(sched.lastVitals, Gap, t)
    PROVE  DeltaDue(sched, t)
<1>1. /\ sched.baseline \in Nat /\ sched.soc \in Nat /\ sched.baseline # Unknown
      /\ rules.delta \in Nat
  <2>1. Levels \cup {0} \subseteq Nat
    BY LevelAssumption
  <2>2. sched.baseline \in Levels \cup {0} /\ sched.soc \in Levels \cup {0} /\ rules.delta \in Nat
    BY DEF ReportingTypeOK, Schedulers, Rules
  <2> QED BY <2>1, <2>2 DEF Unknown
<1>2. ~(Distance(sched.baseline, sched.soc) < rules.delta)
  BY <1>1 DEF Close, Tolerance
<1>3. Distance(sched.soc, sched.baseline) >= rules.delta
  BY <1>1, <1>2 DEF Distance
<1> QED
  BY <1>3 DEF DeltaDue
-----------------------------------------------------------------------------
(* The steps. *)

\* A tick of the scheduler.
LEMMA TickKeeps == IInv /\ Tick => IInv'
<1> SUFFICES ASSUME IInv, Tick PROVE IInv'
  OBVIOUS
<1> DEFINE t == now'
           r == sched'
<1>1. PICK level \in Levels : r = Scheduled(t, level)
  BY DEF Tick
<1>2. /\ t = (now + 1) % TimeMod /\ Told(r.out, r.soc)
      /\ rules' = rules /\ names' = names /\ up' = up
  BY DEF Tick
<1>3. ReportingTypeOK
  BY DEF IInv
<1>4. /\ now \in Clock /\ sched \in Schedulers /\ rules \in Rules
      /\ quiet \in Nat /\ stale \in Nat /\ paced \in 0..Gap
      /\ sched.lastSnap \in Clock /\ sched.lastPing \in Clock /\ sched.lastVitals \in Clock
      /\ rules.snapshot \in Clock /\ rules.ping \in Clock /\ rules.vitals \in Clock
      /\ rules.heartbeat \in Clock /\ Gap \in Clock
  BY <1>3, TimeAssumption DEF ReportingTypeOK, Schedulers, Rules, Clock
<1> HIDE DEF t, r
<1>5. t \in Clock /\ (t - t) % TimeMod = 0
  BY <1>2, <1>4, Ages
<1>5a. r \in Schedulers /\ Tells(r.out, {sched.soc, r.soc}) /\ TickMakes(r, t)
  BY <1>1, <1>4, <1>5, ScheduledFacts
<1>6. /\ r \in Schedulers /\ Tells(r.out, {sched.soc, r.soc})
      /\ \/ /\ r.lastVitals = sched.lastVitals /\ r.baseline = sched.baseline
            /\ r.baselineOk = sched.baselineOk /\ ~HasVitals(r.out)
         \/ r.lastVitals = t /\ (up => HasVitals(r.out))
      /\ IF rules.snapshot > 0 /\ Due(sched.lastSnap, rules.snapshot, t)
         THEN up => HasStatus(r.out) ELSE r.lastSnap = sched.lastSnap
      /\ rules.ping > 0 =>
           IF Due(sched.lastPing, rules.ping, t)
           THEN up /\ PingFits => r.out # <<>> ELSE r.lastPing = sched.lastPing
      /\ rules.ping > 0 /\ rules.vitals > 0 /\ VitalsFit /\ Due(sched.lastVitals, rules.vitals, t)
         => r.lastVitals = t /\ (up => HasVitals(r.out))
      /\ rules.ping = 0 =>
           IF rules.heartbeat > 0 /\ Due(sched.lastPing, rules.heartbeat, t)
           THEN VitalsFit /\ up => HasVitals(r.out) ELSE r.lastPing = sched.lastPing
      /\ DeltaDue(sched, t) /\ VitalsFit => r.lastVitals = t /\ (up => HasVitals(r.out))
  BY <1>5a DEF TickMakes
<1>7. /\ told' \in Levels \cup {0, Unknown}
      /\ quiet' = 0 \/ quiet' = quiet + 1
      /\ stale' = 0 \/ stale' = stale + 1
      /\ r.out # <<>> \/ ~up => quiet' = 0
      /\ HasStatus(r.out) \/ ~up => stale' = 0
      /\ ~HasStatus(r.out) => told' = told
      /\ stale' = 0 \/ ~Close(told', sched.soc)
      /\ paced' = IF HasVitals(r.out) THEN 0 ELSE IF paced < Gap THEN paced + 1 ELSE Gap
  BY <1>2, <1>3, <1>6, ToldFacts
<1>8. (HasVitals(r.out) => HasStatus(r.out)) /\ (HasStatus(r.out) => r.out # <<>>)
  BY VitalsAreStatus
<1>9. (up => HasStatus(r.out)) => quiet' = 0 /\ stale' = 0
  BY <1>7, <1>8
<1>10. (up => HasVitals(r.out)) => quiet' = 0 /\ stale' = 0
  BY <1>8, <1>9
<1>11. ReportingTypeOK'
  BY <1>2, <1>3, <1>5, <1>6, <1>7, TimeAssumption DEF ReportingTypeOK, r, t
<1>12. SnapshotKeeps'
  <2> SUFFICES ASSUME rules.snapshot > 0
               PROVE  /\ Keeps(quiet', (t - r.lastSnap) % TimeMod, rules.snapshot)
                      /\ Keeps(stale', (t - r.lastSnap) % TimeMod, rules.snapshot)
    BY <1>2 DEF SnapshotKeeps, Age, t, r
  <2>1. CASE Due(sched.lastSnap, rules.snapshot, t)
    BY <1>6, <1>9, <2>1, NothingToKeep
  <2>2. CASE ~Due(sched.lastSnap, rules.snapshot, t)
    <3>1. /\ Keeps(quiet, (now - sched.lastSnap) % TimeMod, rules.snapshot)
          /\ Keeps(stale, (now - sched.lastSnap) % TimeMod, rules.snapshot)
      BY DEF IInv, SnapshotKeeps, Age
    <3>2. r.lastSnap = sched.lastSnap
      BY <1>6, <2>2
    <3> QED BY <1>2, <1>4, <1>7, <2>2, <3>1, <3>2, KeepsOn
  <2> QED BY <2>1, <2>2
<1>13. VitalsKeep'
  <2> SUFFICES ASSUME rules.ping > 0, rules.vitals > 0, VitalsFit
               PROVE  /\ Keeps(quiet', (t - r.lastVitals) % TimeMod, rules.vitals)
                      /\ Keeps(stale', (t - r.lastVitals) % TimeMod, rules.vitals)
    BY <1>2 DEF VitalsKeep, VitalsFit, Age, t, r
  <2>1. CASE r.lastVitals = t /\ (up => HasVitals(r.out))
    BY <1>10, <2>1, NothingToKeep
  <2>2. CASE ~(r.lastVitals = t /\ (up => HasVitals(r.out)))
    <3>1. /\ Keeps(quiet, (now - sched.lastVitals) % TimeMod, rules.vitals)
          /\ Keeps(stale, (now - sched.lastVitals) % TimeMod, rules.vitals)
      BY DEF IInv, VitalsKeep, Age
    <3>2. r.lastVitals = sched.lastVitals /\ ~Due(sched.lastVitals, rules.vitals, t)
      BY <1>6, <2>2
    <3> QED BY <1>2, <1>4, <1>7, <3>1, <3>2, KeepsOn
  <2> QED BY <2>1, <2>2
<1>14. PingKeeps'
  <2> SUFFICES ASSUME rules.ping > 0, PingFits
               PROVE  Keeps(quiet', (t - r.lastPing) % TimeMod, rules.ping)
    BY <1>2 DEF PingKeeps, PingFits, Age, t, r
  <2>1. CASE Due(sched.lastPing, rules.ping, t)
    BY <1>6, <1>7, <2>1, NothingToKeep
  <2>2. CASE ~Due(sched.lastPing, rules.ping, t)
    <3>1. Keeps(quiet, (now - sched.lastPing) % TimeMod, rules.ping)
      BY DEF IInv, PingKeeps, Age
    <3>2. r.lastPing = sched.lastPing
      BY <1>6, <2>2
    <3> QED BY <1>2, <1>4, <1>7, <2>2, <3>1, <3>2, KeepsOn
  <2> QED BY <2>1, <2>2
<1>15. HeartbeatKeeps'
  <2> SUFFICES ASSUME rules.ping = 0, rules.heartbeat > 0, VitalsFit
               PROVE  /\ Keeps(quiet', (t - r.lastPing) % TimeMod, rules.heartbeat)
                      /\ Keeps(stale', (t - r.lastPing) % TimeMod, rules.heartbeat)
    BY <1>2 DEF HeartbeatKeeps, VitalsFit, Age, t, r
  <2>1. CASE Due(sched.lastPing, rules.heartbeat, t)
    BY <1>6, <1>10, <2>1, NothingToKeep
  <2>2. CASE ~Due(sched.lastPing, rules.heartbeat, t)
    <3>1. /\ Keeps(quiet, (now - sched.lastPing) % TimeMod, rules.heartbeat)
          /\ Keeps(stale, (now - sched.lastPing) % TimeMod, rules.heartbeat)
      BY DEF IInv, HeartbeatKeeps, Age
    <3>2. r.lastPing = sched.lastPing
      BY <1>6, <2>2
    <3> QED BY <1>2, <1>4, <1>7, <2>2, <3>1, <3>2, KeepsOn
  <2> QED BY <2>1, <2>2
<1>16. DeltaKeeps'
  <2> SUFFICES ASSUME rules.ping > 0, rules.vitals > 0, rules.delta > 0, VitalsFit,
                      r.baselineOk, told' = r.baseline
               PROVE  Keeps(stale', (t - r.lastVitals) % TimeMod, Gap)
    BY <1>2 DEF DeltaKeeps, VitalsFit, Age, t, r
  <2>1. CASE stale' = 0
    BY <2>1, NothingToKeep
  <2>2. CASE stale' # 0
    <3>1. ~HasStatus(r.out) /\ ~(r.lastVitals = t /\ (up => HasVitals(r.out)))
      BY <1>7, <1>10, <2>2
    <3>2. /\ r.lastVitals = sched.lastVitals /\ r.baseline = sched.baseline
          /\ r.baselineOk = sched.baselineOk
      BY <1>6, <3>1
    <3>3. told' = told /\ told = sched.baseline /\ sched.baselineOk /\ ~Close(sched.baseline, sched.soc)
      BY <1>7, <2>2, <3>1, <3>2
    <3>4. ~Due(sched.lastVitals, Gap, t)
      BY <1>3, <1>5, <1>6, <3>1, <3>3, DeltaWasDue
    <3>5. Keeps(stale, (now - sched.lastVitals) % TimeMod, Gap)
      BY <3>3 DEF IInv, DeltaKeeps, Age
    <3> QED BY <1>2, <1>4, <1>7, <3>2, <3>4, <3>5, KeepsOn
  <2> QED BY <2>1, <2>2
<1>17. PacedNoted'
  <2> SUFFICES ASSUME paced' < Gap PROVE (t - r.lastVitals) % TimeMod <= paced'
    BY DEF PacedNoted, Age, t, r
  <2>0. paced' \in Nat
    BY <1>4, <1>7, TimeAssumption DEF Clock
  <2>1. CASE r.lastVitals = t
    BY <1>5, <2>0, <2>1
  <2>2. CASE r.lastVitals # t
    <3>1. r.lastVitals = sched.lastVitals /\ ~HasVitals(r.out)
      BY <1>6, <2>2
    <3>2. paced < Gap /\ paced' = paced + 1
      <4>1. paced' = IF paced < Gap THEN paced + 1 ELSE Gap
        BY <1>7, <3>1
      <4>2. Gap \in Int
        BY TimeAssumption
      <4> QED BY <4>1, <4>2
    <3> DEFINE a == (now - sched.lastVitals) % TimeMod
               b == (t - sched.lastVitals) % TimeMod
    <3>3. a \in Clock /\ b \in Clock /\ (a < TimeMod - 1 => b = a + 1)
      BY <1>2, <1>4, Ages
    <3>4. a <= paced
      BY <3>2 DEF IInv, PacedNoted, Age
    <3> HIDE DEF a, b
    <3>5. b <= paced'
      BY <1>4, <3>2, <3>3, <3>4, TimeAssumption DEF Clock
    <3> QED BY <3>1, <3>5 DEF b
  <2> QED BY <2>1, <2>2
<1> QED
  BY <1>11, <1>12, <1>13, <1>14, <1>15, <1>16, <1>17 DEF IInv

\* parse_runtime_rules makes rules of rules.
LEMMA CompletedRules == \A r \in Rules : Completed(r) \in Rules
<1> SUFFICES ASSUME NEW r \in Rules PROVE Completed(r) \in Rules
  OBVIOUS
<1> DEFINE all == [r EXCEPT !.snapshot = Or(@, Fallback.snapshot)]
<1>1. all \in Rules
  BY RulesAssumption DEF Rules, Or
<1> HIDE DEF all
<1>2. all.ping = r.ping
  BY DEF all, Rules
<1>3. [all EXCEPT !.vitals = Or(@, Fallback.vitals), !.delta = Or(@, Fallback.delta)] \in Rules
  BY <1>1, RulesAssumption DEF Rules, Or
<1>4. [all EXCEPT !.heartbeat = Or(@, Fallback.heartbeat)] \in Rules
  BY <1>1, RulesAssumption DEF Rules, Or
<1> QED
  BY <1>3, <1>4 DEF Completed, all

\* app_scheduler_init
LEMMA BlankScheduler == Blank \in Schedulers
<1>1. <<>> \in Seq(Messages)
  OBVIOUS
<1>2. 0 \in Clock
  BY TimeAssumption DEF Clock
<1> QED
  BY <1>1, <1>2 DEF Blank, Schedulers

\* A step with which the obligations begin anew.
LEMMA AnewKeeps ==
    ASSUME ReportingTypeOK, PacedNoted, NEW s \in Schedulers, Anew(s),
           now' \in Clock, rules' \in Rules, names' \in Names, up' \in BOOLEAN,
           paced < Gap => (now' - s.lastVitals) % TimeMod <= paced
    PROVE  IInv'
<1>1. sched' \in Schedulers /\ sched'.lastVitals = s.lastVitals
  <2>1. <<>> \in Seq(Messages)
    OBVIOUS
  <2> QED BY <2>1 DEF Anew, Schedulers
<1>2. quiet' = 0 /\ stale' = 0 /\ told' = told /\ paced' = paced
  BY DEF Anew
<1>3. ReportingTypeOK'
  BY <1>1, <1>2 DEF ReportingTypeOK
<1>4. PacedNoted'
  BY <1>1, <1>2 DEF PacedNoted, Age
<1>5. SnapshotKeeps' /\ VitalsKeep' /\ PingKeeps' /\ HeartbeatKeeps' /\ DeltaKeeps'
  BY <1>2 DEF SnapshotKeeps, VitalsKeep, PingKeeps, HeartbeatKeeps, DeltaKeeps, Keeps
<1> QED
  BY <1>3, <1>4, <1>5 DEF IInv

\* Every step.
LEMMA StepKeeps == IInv /\ [Next]_vars => IInv'
<1> SUFFICES ASSUME IInv, [Next]_vars PROVE IInv'
  OBVIOUS
<1>1. /\ ReportingTypeOK /\ PacedNoted /\ sched \in Schedulers
      /\ now \in Clock /\ rules \in Rules /\ names \in Names /\ up \in BOOLEAN
      /\ paced < Gap => (now - sched.lastVitals) % TimeMod <= paced
  BY DEF IInv, ReportingTypeOK, PacedNoted, Age
<1>2. CASE Tick
  BY <1>2, TickKeeps
<1>3. ASSUME NEW q \in Requests, Configure(q) PROVE IInv'
  <2>1. rules' \in Rules
    BY <1>3, CompletedRules, RulesAssumption DEF Configure
  <2> QED BY <1>1, <1>3, <2>1, AnewKeeps DEF Configure
<1>4. CASE Link
  BY <1>1, <1>4, AnewKeeps DEF Link
<1>5. CASE Session
  BY <1>1, <1>5, AnewKeeps DEF Session
<1>6. CASE Restart
  <2>1. Blank.lastVitals = 0 /\ 0 \in Clock /\ (0 - 0) % TimeMod = 0
    BY TimeAssumption DEF Blank, Clock
  <2>2. paced \in Nat
    BY <1>1, TimeAssumption DEF ReportingTypeOK
  <2> QED BY <1>1, <1>6, <2>1, <2>2, BlankScheduler, RulesAssumption, AnewKeeps DEF Restart
<1>7. CASE UNCHANGED vars
  BY <1>7 DEF IInv, vars, history, ReportingTypeOK, SnapshotKeeps, VitalsKeep, PingKeeps,
      HeartbeatKeeps, DeltaKeeps, PacedNoted, Age, PingFits, VitalsFit
<1> QED
  BY <1>2, <1>3, <1>4, <1>5, <1>6, <1>7 DEF Next

\* The first state.
LEMMA InitIsGood == Init => IInv
<1> SUFFICES ASSUME Init PROVE IInv
  OBVIOUS
<1>1. 0 \in Clock
  BY TimeAssumption DEF Clock
<1>2. ReportingTypeOK
  BY <1>1, BlankScheduler, RulesAssumption, TimeAssumption DEF Init, ReportingTypeOK
<1>3. SnapshotKeeps /\ VitalsKeep /\ PingKeeps /\ HeartbeatKeeps /\ DeltaKeeps
  BY DEF Init, SnapshotKeeps, VitalsKeep, PingKeeps, HeartbeatKeeps, DeltaKeeps, Keeps
<1>4. PacedNoted
  BY TimeAssumption DEF Init, PacedNoted
<1> QED
  BY <1>2, <1>3, <1>4 DEF IInv

\* The inductive invariant holds throughout.
LEMMA Invariance == Spec => []IInv
<1> QED BY InitIsGood, StepKeeps, PTL DEF Spec

\* A count that is kept stays within the interval.
LEMMA KeptWithin ==
    ASSUME NEW c \in Nat, NEW at \in Clock, NEW i \in Clock, now \in Clock,
           Keeps(c, Age(at), i)
    PROVE  c <= i
<1> DEFINE a == Age(at)
<1>1. a \in Int
  BY Ages DEF Age, Clock
<1>2. Keeps(c, a, i)
  OBVIOUS
<1> HIDE DEF a
<1> QED BY <1>1, <1>2 DEF Keeps, Clock

\* The variables keep their types, for every set of rules, levels and names and
\* every width of the counter.
THEOREM ReportingTypeCorrect == Spec => []ReportingTypeOK
<1>1. IInv => ReportingTypeOK
  BY DEF IInv
<1> QED BY <1>1, Invariance, PTL

\* The messages that carry the battery come in their shortest interval.
LEMMA StatusKept == IInv => \A i \in StatusIntervals : quiet <= i /\ stale <= i
<1> SUFFICES ASSUME IInv, NEW i \in StatusIntervals PROVE quiet <= i /\ stale <= i
  OBVIOUS
<1>1. /\ now \in Clock /\ sched \in Schedulers /\ rules \in Rules /\ quiet \in Nat /\ stale \in Nat
      /\ sched.lastSnap \in Clock /\ sched.lastPing \in Clock /\ sched.lastVitals \in Clock
      /\ rules.snapshot \in Clock /\ rules.ping \in Clock /\ rules.vitals \in Clock
      /\ rules.heartbeat \in Clock
  BY DEF IInv, ReportingTypeOK, Schedulers, Rules
<1>2. CASE i = rules.snapshot /\ i > 0
  BY <1>1, <1>2, KeptWithin DEF IInv, SnapshotKeeps
<1>3. CASE rules.ping > 0 /\ i = rules.vitals /\ i > 0 /\ VitalsFit
  BY <1>1, <1>3, KeptWithin DEF IInv, VitalsKeep
<1>4. CASE rules.ping = 0 /\ i = rules.heartbeat /\ i > 0 /\ VitalsFit
  BY <1>1, <1>4, KeptWithin DEF IInv, HeartbeatKeeps
<1>5. rules.ping > 0 \/ rules.ping = 0
  BY <1>1 DEF Clock
<1> QED
  BY <1>2, <1>3, <1>4, <1>5 DEF StatusIntervals

\* While connected the platform hears of the controller once in the shortest
\* interval of a message that fits its buffer, whatever was due and missed before
\* and wherever the counter wraps (app_scheduler.c:101-176).
THEOREM PlatformHears == Spec => []NeverSilent
<1>1. IInv => NeverSilent
  <2> SUFFICES ASSUME IInv, NEW i \in Intervals PROVE quiet <= i
    BY DEF NeverSilent
  <2>1. CASE i \in StatusIntervals
    BY <2>1, StatusKept
  <2>2. CASE i = rules.ping /\ i > 0 /\ PingFits
    <3>1. now \in Clock /\ quiet \in Nat /\ sched.lastPing \in Clock /\ rules.ping \in Clock
      BY DEF IInv, ReportingTypeOK, Schedulers, Rules
    <3> QED BY <2>2, <3>1, KeptWithin DEF IInv, PingKeeps
  <2> QED BY <2>1, <2>2 DEF Intervals
<1> QED BY <1>1, Invariance, PTL

\* What the platform knows of the battery is off by the tolerance for no longer
\* than the shortest interval of a message that carries it, although the baseline
\* is noted for vitals that were never sent; and for no longer than the gap where
\* the baseline is what the platform has been told (app_scheduler.c:42-84).
THEOREM PictureKeptClose == Spec => []ChangeReachesPlatform
<1>1. IInv => ChangeReachesPlatform
  <2> SUFFICES ASSUME IInv PROVE ChangeReachesPlatform
    OBVIOUS
  <2>1. \A i \in StatusIntervals : stale <= i
    BY StatusKept
  <2>2. now \in Clock /\ stale \in Nat /\ sched.lastVitals \in Clock /\ Gap \in Clock
    BY TimeAssumption DEF IInv, ReportingTypeOK, Schedulers, Clock
  <2>3. /\ rules.ping > 0 /\ rules.vitals > 0 /\ rules.delta > 0 /\ VitalsFit
        /\ sched.baselineOk /\ told = sched.baseline
        => stale <= Gap
    BY <2>2, KeptWithin DEF IInv, DeltaKeeps
  <2> QED BY <2>1, <2>3 DEF ChangeReachesPlatform
<1> QED BY <1>1, Invariance, PTL

\* A battery that goes up and down does not flood the platform: vitals keep the
\* gap, or their own interval, from those before them (VITALS_DELTA_MIN_GAP_MS).
THEOREM VitalsKeepTheGap == Spec => VitalsPaced
<1> DEFINE Paced == /\ \E i \in DOMAIN sched'.out : sched'.out[i].kind = "vitals"
                    /\ rules.ping > 0 /\ sched.bootSent
                    => paced + 1 >= (IF rules.vitals < Gap THEN rules.vitals ELSE Gap)
<1>1. ASSUME IInv, Tick PROVE Paced
  <2> DEFINE t == now'
             r == sched'
  <2>1. PICK level \in Levels : r = Scheduled(t, level)
    BY <1>1 DEF Tick
  <2>2. t = (now + 1) % TimeMod
    BY <1>1 DEF Tick
  <2>3. /\ now \in Clock /\ sched \in Schedulers /\ rules \in Rules /\ paced \in 0..Gap
        /\ sched.lastVitals \in Clock /\ rules.vitals \in Clock /\ Gap \in Clock
    BY <1>1, TimeAssumption DEF IInv, ReportingTypeOK, Schedulers, Rules, Clock
  <2> DEFINE a == (now - sched.lastVitals) % TimeMod
             b == (t - sched.lastVitals) % TimeMod
  <2>4. t \in Clock /\ a \in Clock /\ b \in Clock /\ (a < TimeMod - 1 => b = a + 1)
    <3> HIDE DEF t
    <3> QED BY <2>2, <2>3, Ages
  <2>5. HasVitals(r.out) /\ rules.ping > 0 /\ sched.bootSent => b >= Gap \/ b >= rules.vitals
    <3> HIDE DEF t, r
    <3>1. HasVitals(r.out) /\ rules.ping > 0 /\ sched.bootSent
          => Due(sched.lastVitals, Gap, t) \/ Due(sched.lastVitals, rules.vitals, t)
      BY <2>1, <2>3, <2>4, ScheduledFacts DEF TickMakes
    <3> QED BY <3>1 DEF Due
  <2>6. paced < Gap => a <= paced
    BY <1>1 DEF IInv, PacedNoted, Age
  <2> HIDE DEF a, b
  <2>7. b >= Gap \/ b >= rules.vitals => paced + 1 >= (IF rules.vitals < Gap THEN rules.vitals ELSE Gap)
    BY <2>3, <2>4, <2>6, TimeAssumption DEF Clock
  <2> QED BY <2>5, <2>7 DEF HasVitals
<1>2. ASSUME NEW s, Anew(s), sched \in Schedulers, s \in Schedulers PROVE Paced
  <2>1. sched'.out = <<>>
    BY <1>2 DEF Anew, Schedulers
  <2> QED BY <2>1
<1>3. IInv /\ [Next]_vars => [Paced]_vars
  <2> SUFFICES ASSUME IInv, Next PROVE Paced
    OBVIOUS
  <2>1. sched \in Schedulers
    BY DEF IInv, ReportingTypeOK
  <2>2. CASE Tick
    BY <1>1, <2>2
  <2>3. CASE Next /\ ~Tick
    <3>1. Anew(sched) \/ Anew(Blank)
      BY <2>3 DEF Next, Configure, Link, Session, Restart
    <3> HIDE DEF Paced
    <3> QED BY <1>2, <2>1, <3>1, BlankScheduler
  <2> QED BY <2>2, <2>3
<1> QED
  BY <1>3, Invariance, PTL DEF Spec, VitalsPaced
=============================================================================
