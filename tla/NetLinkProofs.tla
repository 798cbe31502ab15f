----------------------------- MODULE NetLinkProofs -----------------------------
(***************************************************************************)
(* Theorems about NetLink for every set of endpoints, every bound of the   *)
(* inbox, every backoff and every width of the counter: whatever order     *)
(* answers, commands, losses and dials come in, the layers of the link     *)
(* agree after every poll, the link leads where the configuration says,    *)
(* one registration is under way at most and dials keep their distance.    *)
(*                                                                         *)
(* The dispatch of a poll is a loop over what has arrived.  What each      *)
(* message keeps, the whole loop keeps: DispatchStays, by Loops.           *)
(***************************************************************************)
EXTENDS NetLink, Loops

\* What Dispatch carries from message to message.
Carried == [link : Links, conf : Stores, asked : Endpoints, mute : BOOLEAN]

\* A set that the handling of every message stays within, the dispatch stays within.
LEMMA DispatchStays ==
    ASSUME NEW A, NEW M, NEW s \in A, NEW msgs \in Seq(M),
           \A x \in A, m \in M : x.link.up => Handle(x, m) \in A
    PROVE  Dispatch(s, msgs) \in A
<1> DEFINE N == Len(msgs)
           Turn(x, i) == IF x.link.up THEN Handle(x, msgs[i]) ELSE x
           step == [i \in 1..N |-> [x \in A |-> Turn(x, i)]]
           after[i \in 0..N] == IF i = 0 THEN s
                                ELSE IF after[i - 1].link.up THEN Handle(after[i - 1], msgs[i])
                                     ELSE after[i - 1]
<1>1. N \in Nat /\ \A i \in 1..N : msgs[i] \in M
  OBVIOUS
<1>2. \A i \in 1..N, x \in A : Turn(x, i) \in A
  BY <1>1
<1>3. step \in [1..N -> [A -> A]] /\ \A i \in 1..N, x \in A : step[i][x] = Turn(x, i)
  <2> HIDE DEF Turn, N
  <2> QED BY <1>2
<1>4. \E g : IsLoop(g, N, A, s, step)
  <2> HIDE DEF step, Turn, N, after
  <2>1. step \in Turns(N, A)
    BY <1>3 DEF Turns
  <2> QED BY <1>1, <2>1, LoopExists
<1>5. PICK g : g \in [0..N -> A] /\ g[0] = s /\ \A i \in 1..N : g[i] = step[i][g[i - 1]]
  <2> HIDE DEF step, Turn, N, after
  <2> QED BY <1>4 DEF IsLoop
<1>6. \A i \in 1..N : g[i] = Turn(g[i - 1], i)
  <2> HIDE DEF step, Turn, N, after
  <2> QED BY <1>1, <1>3, <1>5
<1>7. \A i \in 0..N : g[i] = IF i = 0 THEN s ELSE Turn(g[i - 1], i)
  <2> HIDE DEF step, Turn, N, after
  <2> QED BY <1>1, <1>5, <1>6
<1>8. g = [i \in 0..N |-> IF i = 0 THEN s ELSE Turn(g[i - 1], i)]
  <2> HIDE DEF step, Turn, N, after
  <2> QED BY <1>5, <1>7
<1>9. after = [i \in 0..N |-> IF i = 0 THEN s ELSE Turn(after[i - 1], i)]
  BY <1>8, Zenon
<1>10. 0..N \subseteq {i \in 0..N : after[i] \in A}
  <2> HIDE DEF step, Turn, N, after
  <2> DEFINE S == {i \in 0..N : after[i] \in A}
  <2>1. 0 \in S
    BY <1>1, <1>9
  <2>2. ASSUME NEW i \in 1..N, i - 1 \in S PROVE i \in S
    <3>1. i \in 0..N /\ i # 0
      BY <1>1
    <3>2. after[i] = Turn(after[i - 1], i)
      BY <1>9, <3>1
    <3> QED BY <2>2, <3>1, <3>2, <1>2
  <2>3. 0..N \subseteq S
    <3> HIDE DEF S
    <3> QED BY <1>1, <2>1, <2>2, UpToInduction
  <2> QED BY <2>3
<1>11. after[N] \in A
  <2> HIDE DEF after, N
  <2> QED BY <1>1, <1>10
<1>12. Dispatch(s, msgs) = after[N]
  BY DEF Dispatch
<1> QED
  BY <1>11, <1>12

-----------------------------------------------------------------------------
(* The inductive invariant.                                                *)
(*                                                                         *)
(* OneRegisterAtATime needs to know that a REGISTER is either unanswered,  *)
(* or its one answer is on the way, or it has been dealt with, and that    *)
(* while another is due none of the first two holds.                       *)

\* LayersAgree, of any link.
Agree(n) ==
    /\ n.up <=> n.tcp /\ n.direct
    /\ n.shown <=> n.up
    /\ n.registered => n.up
    /\ n.pending <=> ~n.registered

\* The second part of ConnectedWhereConfigured, of any configuration.
Follows(c, wanted) ==
    /\ Load(c) = wanted
    /\ wanted.host \in {NoHost, c.ep.host}
    /\ wanted.port \in {NoPort, c.ep.port}

IsAnswer(m) == m.type \in {"REGISTER_ACK", "REGISTER_NACK"}
Answered == \E i \in 1..Len(inbox) : IsAnswer(inbox[i])

\* The REGISTER of this connection and its answer.
InFlight ==
    /\ unanswered <= 1
    /\ Answered => unanswered = 0
    /\ \A i, j \in 1..Len(inbox) : IsAnswer(inbox[i]) /\ IsAnswer(inbox[j]) => i = j
    /\ link.up /\ link.pending => unanswered = 0 /\ ~Answered

\* The time noted is that of the last dial, unless the counter has hidden it.
DialNoted == link.last # 0 => sinceDial = Backoff \/ (now - link.last) % TimeMod <= sinceDial

IInv == /\ LinkTypeOK /\ Agree(link)
        /\ link.up => link.peer = conf.ep
        /\ Follows(conf, asked)
        /\ InFlight /\ DialNoted
-----------------------------------------------------------------------------
(* Configuration. *)

\* The endpoints and the configuration the controller is seeded with.
LEMMA EndpointTypes ==
    /\ Nowhere \in Endpoints /\ Default \in Endpoints
    /\ Seeded \in Stores /\ Follows(Seeded, Default) /\ Seeded.ep = Default
<1>1. Nowhere \in Endpoints /\ Default \in Endpoints
  BY HostAssumption, PortAssumption DEF Nowhere, Default, Endpoints
<1> DEFINE c == [slot |-> [i \in {0, 1} |-> Default], active |-> 1, ep |-> Default]
<1>2. c \in Stores /\ Load(c) = Default
  BY <1>1 DEF Stores, Load
<1>3. Seeded = Reload(c)
  BY DEF Seeded
<1>4. Reload(c) = [c EXCEPT !.ep = Default]
  BY <1>1, <1>2, HostAssumption, PortAssumption DEF Reload, Default, Endpoints
<1>5. Reload(c) = c
  BY <1>4
<1> QED
  BY <1>1, <1>2, <1>3, <1>5 DEF Follows, Default

\* What an update leaves of an endpoint is an endpoint.
LEMMA MergedType ==
    ASSUME NEW old \in Endpoints, NEW u \in Updates
    PROVE  Merged(old, u) \in Endpoints
BY UpdateAssumption DEF Merged, Endpoints

\* A SYNC_CONFIG and the reload leave in use what the accepted ones ask for
\* (cfg_sync_apply, cfg_store_load_active).
LEMMA SyncKeeps ==
    ASSUME NEW c \in Stores, NEW wanted \in Endpoints, Follows(c, wanted), NEW u \in Updates
    PROVE  /\ Reload(Sync(c, u)) \in Stores
           /\ Follows(Reload(Sync(c, u)), Merged(wanted, u))
<1> DEFINE x == Merged(Load(c), u)
           d == Sync(c, u)
           r == Reload(d)
<1>1. c.slot \in [{0, 1} -> Endpoints] /\ c.active \in {0, 1} /\ c.ep \in Endpoints
  BY DEF Stores
<1>2. Load(c) \in Endpoints /\ Load(c) = wanted
  BY <1>1 DEF Load, Follows
<1>3. x \in Endpoints /\ x = Merged(wanted, u)
  BY <1>2, MergedType
<1>4. d \in Stores /\ Load(d) = x /\ d.ep = c.ep
  <2> HIDE DEF x
  <2>1. StageInactive(c, x) = [c EXCEPT !.slot = [c.slot EXCEPT ![1 - c.active] = x]]
    BY <1>1 DEF StageInactive, Stores
  <2>2. 1 - c.active \in {0, 1}
    BY <1>1
  <2>3. [c.slot EXCEPT ![1 - c.active] = x] \in [{0, 1} -> Endpoints]
    BY <1>1, <1>3
  <2>4. [c.slot EXCEPT ![1 - c.active] = x][1 - c.active] = x
    BY <1>1, <2>2
  <2>5. d = CommitSwap(StageInactive(c, x))
    BY DEF Sync, x
  <2> DEFINE sl == [c.slot EXCEPT ![1 - c.active] = x]
  <2>6. d = [c EXCEPT !.slot = sl, !.active = 1 - c.active]
    <3> HIDE DEF sl, d
    <3> QED BY <2>1, <2>5 DEF CommitSwap, Stores, sl
  <2>7. d.slot = sl /\ d.active = 1 - c.active /\ d.ep = c.ep /\ d \in Stores
    <3> HIDE DEF d
    <3>1. sl \in [{0, 1} -> Endpoints]
      BY <2>3
    <3> HIDE DEF sl
    <3> QED BY <2>2, <2>6, <3>1 DEF Stores
  <2> QED
    <3> HIDE DEF d
    <3> QED BY <2>4, <2>7 DEF Load
<1> DEFINE ep == [host |-> IF x.host = NoHost THEN d.ep.host ELSE x.host,
                  port |-> IF x.port = NoPort THEN d.ep.port ELSE x.port]
<1>5. r = [d EXCEPT !.ep = ep]
  <2> HIDE DEF x, d
  <2> QED BY <1>4 DEF Reload, Stores
<1>6. ep \in Endpoints
  <2> HIDE DEF x, d
  <2> QED BY <1>1, <1>3, <1>4 DEF Endpoints
<1>7. r \in Stores /\ Load(r) = x /\ r.ep = ep
  <2>1. r.slot = d.slot /\ r.active = d.active /\ r.ep = ep /\ r \in Stores
    <3> HIDE DEF x, d, r, ep
    <3> QED BY <1>4, <1>5, <1>6 DEF Stores
  <2> QED
    <3> HIDE DEF x, d, r, ep
    <3> QED BY <2>1, <1>4 DEF Load
<1>8. x.host \in {NoHost, ep.host} /\ x.port \in {NoPort, ep.port}
  <2> HIDE DEF x, d
  <2> QED OBVIOUS
<1> QED
  <2> HIDE DEF x, d, r, ep
  <2>1. r = Reload(Sync(c, u))
    BY DEF r, d
  <2> QED BY <2>1, <1>3, <1>7, <1>8 DEF Follows
-----------------------------------------------------------------------------
(* The link. *)

\* Closing, giving up and registering keep the layers in step.
LEMMA LinkFunctions ==
    ASSUME NEW n \in Links
    PROVE  /\ MarkDisconnected(n) \in Links /\ ~MarkDisconnected(n).up
           /\ Unregistered(n) \in Links
           /\ TryRegister(n) \in Links
           /\ Agree(n) => Agree(MarkDisconnected(n))
           /\ MarkDisconnected(n).last = n.last
BY DEF Links, MarkDisconnected, Unregistered, Disconnect, Closed, TryRegister, Agree

\* Where the layers agree a poll of the modem changes nothing that counts.
LEMMA ModemPollKeeps ==
    ASSUME NEW n \in Links, Agree(n), NEW text \in BOOLEAN, NEW probe \in BOOLEAN,
           NEW a, a = ModemPoll(n, text, probe)
    PROVE  /\ a \in Links /\ Agree(a) /\ ~(a.up /\ ~a.tcp)
           /\ a.up = n.up /\ a.peer = n.peer /\ a.last = n.last /\ a.pending = n.pending
BY DEF Links, ModemPoll, Recover, Hear, HandleUrc, Agree

\* A dial leads to the endpoint given and leaves a registration due.
LEMMA RedialKeeps ==
    ASSUME NEW b \in Links, Agree(b), NEW ep \in Endpoints, NEW ok \in BOOLEAN, now \in 0..(TimeMod - 1),
           NEW c, c = Redial(b, ep, ok)
    PROVE  /\ c \in Links /\ Agree([c EXCEPT !.shown = c.up])
           /\ b.up => c = b
           /\ c.up => b.up \/ (c.peer = ep /\ c.pending /\ c.tcp)
           /\ IF ~b.up /\ ep \in Dialable /\ BackoffOver(b) THEN c.last = now
              ELSE c = b
<1>1. CASE ~b.up /\ ep \in Dialable /\ BackoffOver(b)
  <2>1. CASE ok
    BY <1>1, <2>1 DEF Links, Redial, Connect, Opened, Unregistered, Agree
  <2>2. CASE ~ok
    BY <1>1, <2>2 DEF Links, Redial, Connect, Opened, Unregistered, Agree
  <2> QED BY <2>1, <2>2
<1>2. CASE ~(~b.up /\ ep \in Dialable /\ BackoffOver(b))
  <2>1. c = b
    BY <1>2 DEF Redial
  <2> QED BY <2>1, <1>2 DEF Links, Agree
<1> QED
  BY <1>1, <1>2

\* Before the dispatch a link that can register has.
LEMMA RegisterKeeps ==
    ASSUME NEW c \in Links, Agree([c EXCEPT !.shown = c.up]),
           NEW n, n = TryRegister([c EXCEPT !.shown = c.up])
    PROVE  /\ n \in Links /\ Agree(n)
           /\ n.up = c.up /\ n.peer = c.peer /\ n.last = c.last
           /\ n.up => ~n.pending
           /\ CanSend(c) <=> c.up
BY DEF Links, TryRegister, CanSend, Agree
-----------------------------------------------------------------------------
(* The dispatch. *)

\* What holds before and after the dispatch of each message.
Good(x, last) ==
    /\ Agree(x.link) /\ x.link.last = last
    /\ x.link.up => x.link.peer = x.conf.ep
    /\ Follows(x.conf, x.asked)

\* One message handled, the register answers and SYNC_CONFIG included.
LEMMA HandleKeeps ==
    ASSUME NEW x \in Carried, NEW last, Good(x, last), x.link.up, NEW m \in Messages
    PROVE  /\ Handle(x, m) \in Carried /\ Good(Handle(x, m), last)
           /\ ~IsAnswer(m) /\ ~x.link.pending
              => (Handle(x, m).link.up => ~Handle(x, m).link.pending)
<1>0. x.link \in Links /\ x.conf \in Stores /\ x.asked \in Endpoints /\ x.mute \in BOOLEAN
  BY DEF Carried
<1>1. CASE m.type = "REGISTER_ACK"
  <2> DEFINE n == [x.link EXCEPT !.registered = TRUE, !.pending = FALSE]
  <2>1. Handle(x, m) = [x EXCEPT !.link = n]
    BY <1>1, <1>0 DEF Handle, Carried, Links
  <2>2. n \in Links /\ (Agree(x.link) => Agree(n)) /\ n.last = x.link.last /\ n.up = x.link.up
        /\ n.peer = x.link.peer /\ IsAnswer(m)
    BY <1>0, <1>1 DEF Links, Agree, IsAnswer
  <2> QED
    <3> HIDE DEF n
    <3> QED BY <1>0, <2>1, <2>2 DEF Carried, Good
<1>2. CASE m.type = "REGISTER_NACK"
  <2> DEFINE n == [x.link EXCEPT !.registered = FALSE, !.pending = TRUE]
  <2>1. Handle(x, m) = [x EXCEPT !.link = n]
    BY <1>2, <1>0 DEF Handle, Carried, Links
  <2>2. n \in Links /\ (Agree(x.link) => Agree(n)) /\ n.last = x.link.last /\ n.up = x.link.up
        /\ n.peer = x.link.peer /\ IsAnswer(m)
    BY <1>0, <1>2 DEF Links, Agree, IsAnswer
  <2> QED
    <3> HIDE DEF n
    <3> QED BY <1>0, <2>1, <2>2 DEF Carried, Good
<1>3. CASE m.type = "SYNC_CONFIG"
  <2>1. m.with \in Updates
    BY <1>3 DEF Messages, Commands
  <2>2. Handle(x, m) = SyncConfig(x, m)
    BY <1>3 DEF Handle
  <2>3. Reload(Sync(x.conf, m.with)) \in Stores /\ Merged(x.asked, m.with) \in Endpoints
        /\ Follows(Reload(Sync(x.conf, m.with)), Merged(x.asked, m.with))
    BY <1>0, <2>1, SyncKeeps, MergedType DEF Good
  <2>4. /\ MarkDisconnected(x.link) \in Links /\ ~MarkDisconnected(x.link).up
        /\ Agree(MarkDisconnected(x.link)) /\ MarkDisconnected(x.link).last = x.link.last
    BY <1>0, LinkFunctions DEF Good
  <2>5. SyncConfig(x, m) \in Carried
    BY <2>3, <2>4 DEF SyncConfig, Carried
  <2> QED BY <2>2, <2>3, <2>4, <2>5 DEF SyncConfig, Good
<1>4. CASE m.type = "COMMAND"
  <2>1. Handle(x, m) = [x EXCEPT !.mute = @ \/ ~CanSend(x.link)]
    BY <1>4 DEF Handle
  <2>2. (x.mute \/ ~CanSend(x.link)) \in BOOLEAN
    BY <1>0
  <2> QED BY <1>0, <2>1, <2>2 DEF Carried, Good
<1> QED
  BY <1>1, <1>2, <1>3, <1>4 DEF Messages, Commands

\* All the messages of a poll.
LEMMA DispatchKeeps ==
    ASSUME NEW s \in Carried, NEW last, Good(s, last), NEW msgs \in Seq(Messages)
    PROVE  Dispatch(s, msgs) \in Carried /\ Good(Dispatch(s, msgs), last)
<1> DEFINE A == {x \in Carried : Good(x, last)}
<1>1. s \in A
  OBVIOUS
<1>2. \A x \in A, m \in Messages : x.link.up => Handle(x, m) \in A
  BY HandleKeeps
<1>3. Dispatch(s, msgs) \in A
  <2> HIDE DEF A
  <2> QED BY <1>1, <1>2, DispatchStays
<1> QED
  BY <1>3

\* Only an answer to a REGISTER makes another one necessary.
LEMMA DispatchPending ==
    ASSUME NEW s \in Carried, NEW last, Good(s, last), s.link.up => ~s.link.pending,
           NEW msgs \in Seq(Messages), \A i \in 1..Len(msgs) : ~IsAnswer(msgs[i])
    PROVE  Dispatch(s, msgs).link.up => ~Dispatch(s, msgs).link.pending
<1> DEFINE A == {x \in Carried : Good(x, last) /\ (x.link.up => ~x.link.pending)}
           M == {m \in Messages : ~IsAnswer(m)}
<1>1. s \in A
  OBVIOUS
<1>2. \A x \in A, m \in M : x.link.up => Handle(x, m) \in A
  BY HandleKeeps
<1>3. msgs \in Seq(M)
  OBVIOUS
<1>4. Dispatch(s, msgs) \in A
  <2> HIDE DEF A, M
  <2> QED BY <1>1, <1>2, <1>3, DispatchStays
<1> QED
  BY <1>4

\* A closed socket ends the loop at once.
LEMMA DispatchClosed ==
    ASSUME NEW s, ~s.link.up, NEW msgs \in Seq(Messages)
    PROVE  Dispatch(s, msgs) = s
<1>1. \A x \in {s}, m \in Messages : x.link.up => Handle(x, m) \in {s}
  OBVIOUS
<1>2. Dispatch(s, msgs) \in {s}
  <2>1. s \in {s}
    OBVIOUS
  <2> QED BY <1>1, <2>1, DispatchStays
<1> QED
  BY <1>2
-----------------------------------------------------------------------------
(* Time. *)

\* One tick later a time is at most one tick longer ago.
LEMMA TickAges ==
    ASSUME NEW n \in 0..(TimeMod - 1), NEW a \in 0..(TimeMod - 1)
    PROVE  (((n + 1) % TimeMod) - a) % TimeMod <= ((n - a) % TimeMod) + 1
<1>1. \A x \in 0..(TimeMod - 1) : x % TimeMod = x
  BY TimeAssumption
<1>2. \A x \in 0..(TimeMod - 1) : (x - TimeMod) % TimeMod = x
  BY TimeAssumption
<1>3. TimeMod % TimeMod = 0
  BY TimeAssumption
<1> QED
  BY <1>1, <1>2, <1>3, TimeAssumption

\* Differences of the counter are small, and it stays within its width.
LEMMA Differences ==
    ASSUME NEW n \in 0..(TimeMod - 1), NEW a \in 0..(TimeMod - 1)
    PROVE  (n - n) % TimeMod = 0 /\ (n - a) % TimeMod \in Nat /\ (n + 1) % TimeMod \in 0..(TimeMod - 1)
BY TimeAssumption
-----------------------------------------------------------------------------
(* The steps. *)

\* What net_connectivity_init leaves, on line or not, connected or not.
LEMMA InitIsGood == Init => IInv
<1> SUFFICES ASSUME Init, NEW online \in BOOLEAN, NEW ok \in BOOLEAN, link = Booted(online, ok)
             PROVE  IInv
  BY DEF Init
<1> USE DEF Init
<1>0. 0 \in 0..(TimeMod - 1) /\ Backoff \in 0..Backoff
  BY TimeAssumption
<1>1. Off \in Links /\ Agree(Off) /\ Off.up = FALSE /\ Off.pending /\ Off.last = 0 /\ ~Off.tcp
  BY <1>0, EndpointTypes DEF Off, Links, Agree
<1>2. /\ link \in Links /\ Agree(link) /\ link.last = 0
      /\ link.up => link.peer = Default /\ ~link.pending
  <2>1. CASE ~online
    <3>1. link = [Off EXCEPT !.shown = FALSE]
      BY <2>1, <1>1 DEF Booted
    <3> QED BY <3>1, <1>1 DEF Links, Agree
  <2>2. CASE online
    <3> DEFINE p == Connect([Off EXCEPT !.online = TRUE], Default, ok)
               n == TryRegister(p)
    <3>1. link = [n EXCEPT !.shown = n.up]
      BY <2>2 DEF Booted
    <3>2. p = [Off EXCEPT !.online = TRUE, !.tcp = ok, !.direct = ok, !.up = ok, !.peer = Default]
      BY <1>1 DEF Connect, Opened, Off, Links
    <3>3. CASE ok
      <4>1. n = [p EXCEPT !.registered = TRUE, !.pending = FALSE]
        BY <3>2, <3>3, <1>1 DEF TryRegister, CanSend, Off
      <4> HIDE DEF p, n
      <4> QED BY <3>1, <3>2, <3>3, <4>1, <1>1, EndpointTypes DEF Links, Agree, Off
    <3>4. CASE ~ok
      <4>1. n = p
        BY <3>2, <3>4, <1>1 DEF TryRegister, CanSend, Off
      <4> HIDE DEF p, n
      <4> QED BY <3>1, <3>2, <3>4, <4>1, <1>1, EndpointTypes DEF Links, Agree, Off
    <3> QED BY <3>3, <3>4
  <2> QED BY <2>1, <2>2
<1>3. LinkTypeOK
  <2>1. link.up \in BOOLEAN /\ unanswered \in Nat
    BY <1>2 DEF Links
  <2>2. inbox \in Seq(Messages) /\ Len(inbox) <= MaxInbox
    BY InboxAssumption
  <2> QED BY <1>0, <1>2, <2>1, <2>2, EndpointTypes DEF LinkTypeOK
<1>4. link.up => link.peer = conf.ep
  BY <1>2, EndpointTypes
<1>5. Follows(conf, asked)
  BY EndpointTypes
<1>6. InFlight
  BY <1>2 DEF InFlight, Answered
<1>7. DialNoted
  BY <1>2 DEF DialNoted
<1> QED
  BY <1>2, <1>3, <1>4, <1>5, <1>6, <1>7 DEF IInv

\* The counter goes on.
LEMMA TickKeeps == IInv /\ Tick => IInv'
<1> SUFFICES ASSUME IInv, Tick PROVE IInv'
  OBVIOUS
<1>1. LinkTypeOK'
  BY TimeAssumption, Differences DEF IInv, LinkTypeOK, Tick, platform
<1>2. (Agree(link) /\ (link.up => link.peer = conf.ep) /\ Follows(conf, asked))'
  BY DEF IInv, Tick, Agree, Follows, Load
<1>3. InFlight'
  BY DEF IInv, Tick, platform, InFlight, Answered
<1>4. DialNoted'
  <2> SUFFICES ASSUME link.last # 0, sinceDial < Backoff
               PROVE  (now' - link.last) % TimeMod <= sinceDial + 1
    BY TimeAssumption DEF DialNoted, Tick, IInv, LinkTypeOK
  <2>1. (now - link.last) % TimeMod <= sinceDial
    BY TimeAssumption DEF IInv, DialNoted, LinkTypeOK
  <2>2. now \in 0..(TimeMod - 1) /\ link.last \in 0..(TimeMod - 1) /\ sinceDial \in Nat
    BY DEF IInv, LinkTypeOK, Links
  <2>3. now' = (now + 1) % TimeMod
    BY DEF Tick
  <2>4. (now' - link.last) % TimeMod <= ((now - link.last) % TimeMod) + 1
    BY <2>2, <2>3, TickAges
  <2>5. (now - link.last) % TimeMod \in Nat /\ (now' - link.last) % TimeMod \in Nat
    BY <2>2, <2>3, Differences
  <2> QED BY <2>1, <2>2, <2>4, <2>5
<1> QED
  BY <1>1, <1>2, <1>3, <1>4 DEF IInv

\* What the platform and the network do to the messages under way.
LEMMA PlatformKeeps ==
    ASSUME IInv,
           PlatformAnswers \/ (\E m \in Commands : PlatformCommands(m)) \/ MessageLost \/ PlatformCloses
    PROVE  IInv'
<1>1. UNCHANGED <<link, conf, now, history>>
  BY DEF PlatformAnswers, PlatformCommands, MessageLost, PlatformCloses
<1>2. (Agree(link) /\ (link.up => link.peer = conf.ep) /\ Follows(conf, asked) /\ DialNoted)'
  BY <1>1 DEF IInv, Agree, Follows, Load, DialNoted, history
<1>3. LinkTypeOK' /\ InFlight'
  <2> USE DEF IInv, LinkTypeOK, history
  <2>1. CASE PlatformAnswers
    <3>1. PICK t \in {"REGISTER_ACK", "REGISTER_NACK"} : inbox' = Append(inbox, [type |-> t])
      BY <2>1 DEF PlatformAnswers, Arrives
    <3>2. [type |-> t] \in Messages
      BY DEF Messages
    <3>3. /\ inbox' \in Seq(Messages) /\ Len(inbox') = Len(inbox) + 1 /\ Len(inbox') <= MaxInbox
          /\ \A i \in 1..Len(inbox) : inbox'[i] = inbox[i]
      BY <2>1, <3>1, <3>2, InboxAssumption DEF PlatformAnswers
    <3>4. unanswered = 1 /\ unanswered' = 0 /\ ~Answered /\ ~(link.up /\ link.pending)
      BY <2>1 DEF PlatformAnswers, InFlight
    <3>5. \A i \in 1..Len(inbox') : IsAnswer(inbox'[i]) => i = Len(inbox')
      BY <3>3, <3>4 DEF Answered
    <3>6. LinkTypeOK'
      BY <1>1, <2>1, <3>3, <3>4 DEF PlatformAnswers
    <3>7. InFlight'
      BY <1>1, <3>3, <3>4, <3>5 DEF InFlight
    <3> QED BY <3>6, <3>7
  <2>2. ASSUME NEW m \in Commands, PlatformCommands(m)
        PROVE  LinkTypeOK' /\ InFlight'
    <3>1. m \in Messages /\ ~IsAnswer(m)
      BY DEF Messages, Commands, IsAnswer
    <3>2. /\ inbox' \in Seq(Messages) /\ Len(inbox') = Len(inbox) + 1 /\ Len(inbox') <= MaxInbox
          /\ \A i \in 1..Len(inbox) : inbox'[i] = inbox[i]
          /\ inbox'[Len(inbox')] = m /\ unanswered' = unanswered
      BY <2>2, <3>1, InboxAssumption DEF PlatformCommands, Arrives
    <3>3. \A i \in 1..Len(inbox') : IsAnswer(inbox'[i]) => i \in 1..Len(inbox) /\ IsAnswer(inbox[i])
      BY <3>1, <3>2
    <3>4. LinkTypeOK'
      BY <1>1, <2>2, <3>2 DEF PlatformCommands
    <3>5. Answered' => Answered
      BY <3>3 DEF Answered
    <3>6. InFlight'
      BY <1>1, <3>2, <3>3, <3>5 DEF InFlight
    <3> QED BY <3>4, <3>6
  <2>3. CASE MessageLost
    <3>1. /\ inbox' \in Seq(Messages) /\ Len(inbox') = Len(inbox) - 1 /\ Len(inbox') \in Nat
          /\ \A i \in 1..Len(inbox') : inbox'[i] = inbox[i + 1]
          /\ unanswered' = unanswered
      BY <2>3 DEF MessageLost
    <3>2. LinkTypeOK'
      BY <1>1, <2>3, <3>1, InboxAssumption DEF MessageLost
    <3>3. \A i \in 1..Len(inbox') : i + 1 \in 1..Len(inbox)
      BY <3>1
    <3>4. Answered' => Answered
      BY <3>1, <3>3 DEF Answered
    <3>5. \A i, j \in 1..Len(inbox') : IsAnswer(inbox'[i]) /\ IsAnswer(inbox'[j]) => i = j
      <4>1. ASSUME NEW i \in 1..Len(inbox'), NEW j \in 1..Len(inbox'),
                   IsAnswer(inbox'[i]), IsAnswer(inbox'[j])
            PROVE  i + 1 = j + 1
        BY <4>1, <3>1, <3>3 DEF InFlight
      <4>2. \A i, j \in 1..Len(inbox') : i + 1 = j + 1 => i = j
        BY <3>1
      <4> QED BY <4>1, <4>2
    <3>6. InFlight'
      BY <1>1, <3>1, <3>4, <3>5 DEF InFlight
    <3> QED BY <3>2, <3>6
  <2>4. CASE PlatformCloses
    <3>1. inbox' = inbox /\ unanswered' = 0 /\ held' = FALSE /\ closing' = TRUE
      BY <2>4 DEF PlatformCloses
    <3>2. LinkTypeOK'
      <4>1. held' \in BOOLEAN /\ closing' \in BOOLEAN /\ unanswered' \in Nat
        BY <3>1
      <4> QED BY <1>1, <3>1, <4>1
    <3>3. InFlight'
      BY <1>1, <3>1 DEF InFlight, Answered
    <3> QED BY <3>2, <3>3
  <2> QED BY <2>1, <2>2, <2>3, <2>4
<1> QED
  BY <1>2, <1>3 DEF IInv

\* What a poll leaves of the link, the configuration and the histories.
LEMMA PollOnLineKeeps ==
    ASSUME IInv, NEW probe \in BOOLEAN, NEW ok \in BOOLEAN, NEW k \in 0..MaxInbox, k <= Len(inbox),
           NEW b \in Links, Agree(b), b.up = link.up, b.peer = link.peer, b.last = link.last,
           b.pending = link.pending,
           NEW c, c = Redial(b, conf.ep, ok), PollOnLine(b, c, k),
           closing' = FALSE, now' = now
    PROVE  IInv'
<1> DEFINE n == TryRegister([c EXCEPT !.shown = c.up])
           x == [link |-> n, conf |-> conf, asked |-> asked, mute |-> mute]
           msgs == SubSeq(inbox, 1, k)
           e == Dispatch(x, msgs)
           fresh == c.up /\ ~b.up
           gone == ~e.link.up
<1>0. /\ conf \in Stores /\ conf.ep \in Endpoints /\ asked \in Endpoints /\ mute \in BOOLEAN
      /\ now \in 0..(TimeMod - 1) /\ held \in BOOLEAN /\ inbox \in Seq(Messages)
      /\ Len(inbox) <= MaxInbox /\ unanswered \in Nat /\ sinceDial \in 0..Backoff
  BY DEF IInv, LinkTypeOK, Stores
<1>1. /\ c \in Links /\ Agree([c EXCEPT !.shown = c.up])
      /\ b.up => c = b
      /\ c.up => b.up \/ (c.peer = conf.ep /\ c.pending /\ c.tcp)
      /\ IF ~b.up /\ conf.ep \in Dialable /\ BackoffOver(b) THEN c.last = now ELSE c = b
  BY <1>0, RedialKeeps
<1>2. /\ n \in Links /\ Agree(n)
      /\ n.up = c.up /\ n.peer = c.peer /\ n.last = c.last
      /\ n.up => ~n.pending
      /\ CanSend(c) <=> c.up
  BY <1>1, RegisterKeeps
<1>3. x \in Carried /\ Good(x, c.last) /\ (x.link.up => ~x.link.pending)
  <2> HIDE DEF n
  <2>1. x \in Carried
    BY <1>0, <1>2 DEF Carried
  <2>2. n.up => n.peer = conf.ep
    BY <1>1, <1>2 DEF IInv
  <2> QED BY <2>1, <2>2, <1>2 DEF Good, IInv
<1>4. /\ msgs \in Seq(Messages) /\ Len(msgs) = k
      /\ \A i \in 1..k : msgs[i] = inbox[i]
  BY <1>0
<1>5. e \in Carried /\ Good(e, c.last)
  <2> HIDE DEF x, msgs
  <2> QED BY <1>3, <1>4, DispatchKeeps
<1>6. (\A i \in 1..k : ~IsAnswer(inbox[i])) => (e.link.up => ~e.link.pending)
  <2> HIDE DEF x, msgs
  <2> QED BY <1>3, <1>4, DispatchPending
<1>7. e.link.up => c.up
  <2>1. ASSUME ~x.link.up PROVE ~e.link.up
    <3> HIDE DEF x, msgs
    <3> QED BY <2>1, <1>4, DispatchClosed
  <2>2. x.link.up <=> c.up
    BY <1>2
  <2> HIDE DEF e, x
  <2> QED BY <2>1, <2>2
<1>8. /\ link' = IF c.up /\ gone THEN Unregistered(e.link) ELSE e.link
      /\ fresh => k = 0
      /\ conf' = e.conf /\ asked' = e.asked /\ mute' = e.mute
      /\ held' = ((held \/ fresh) /\ ~gone)
      /\ inbox' = IF fresh \/ gone THEN <<>> ELSE SubSeq(inbox, k + 1, Len(inbox))
      /\ unanswered' = (IF fresh \/ gone THEN 0 ELSE unanswered)
                       + (IF c.pending /\ CanSend(c) /\ ~gone THEN 1 ELSE 0)
      /\ sinceDial' = IF ~b.up /\ conf.ep \in Dialable /\ BackoffOver(b) THEN 0 ELSE sinceDial
  BY DEF PollOnLine
<1> HIDE DEF n, x, msgs, e
<1>9. e.link \in Links /\ e.conf \in Stores /\ e.asked \in Endpoints /\ e.mute \in BOOLEAN
  BY <1>5 DEF Carried
<1>10. /\ link' \in Links /\ Agree(link') /\ link'.up = e.link.up /\ link'.last = c.last
       /\ link'.up => link' = e.link
  <2>1. CASE c.up /\ gone
    <3>1. link' = Unregistered(e.link)
      BY <1>8, <2>1
    <3> QED BY <1>5, <1>9, <2>1, <3>1 DEF Links, Agree, Unregistered, Good
  <2>2. CASE ~(c.up /\ gone)
    BY <1>5, <1>8, <1>9, <2>2 DEF Good
  <2> QED BY <2>1, <2>2
<1>11. (link.up => link.peer = conf.ep)' /\ Follows(conf, asked)' /\ Agree(link)'
  <2>1. link'.up => link'.peer = conf'.ep
    BY <1>5, <1>8, <1>10 DEF Good
  <2>2. Follows(conf', asked')
    BY <1>5, <1>8 DEF Good
  <2> QED BY <1>10, <2>1, <2>2 DEF Follows, Agree, Load
<1>12. inbox' \in Seq(Messages) /\ Len(inbox') <= MaxInbox
  BY <1>0, <1>8, InboxAssumption, SMTT(20)
<1>13. unanswered' \in Nat /\ sinceDial' \in 0..Backoff /\ held' \in BOOLEAN
  <2>1. unanswered' \in Nat
    <3>1. \E p \in {0, unanswered}, q \in {0, 1} : unanswered' = p + q
      BY <1>8
    <3> QED BY <1>0, <3>1
  <2>2. sinceDial' \in 0..Backoff
    <3>1. sinceDial' = 0 \/ sinceDial' = sinceDial
      BY <1>8
    <3> QED BY <1>0, <3>1, TimeAssumption
  <2>3. held' \in BOOLEAN
    BY <1>8
  <2> QED BY <2>1, <2>2, <2>3
<1>14. LinkTypeOK'
  <2>1. FALSE \in BOOLEAN
    OBVIOUS
  <2> QED BY <1>0, <1>8, <1>9, <1>10, <1>12, <1>13, <2>1 DEF LinkTypeOK
<1>15. InFlight'
  <2>1. CASE fresh \/ gone
    <3>1. inbox' = <<>> /\ ~Answered'
      BY <1>8, <2>1 DEF Answered
    <3>2. unanswered' <= 1
      <4>1. unanswered' = 0 + 0 \/ unanswered' = 0 + 1
        BY <1>8, <2>1
      <4> QED BY <4>1
    <3>3. gone => unanswered' = 0
      BY <1>8
    <3>4. fresh => \A i \in 1..k : ~IsAnswer(inbox[i])
      BY <1>8
    <3>5. ~(link'.up /\ link'.pending)
      BY <1>6, <1>10, <2>1, <3>4
    <3> QED BY <3>1, <3>2, <3>3, <3>5 DEF InFlight
  <2>2. CASE ~(fresh \/ gone)
    <3>1. e.link.up /\ c.up /\ b.up /\ c = b
      BY <1>1, <1>7, <2>2
    <3>2. /\ inbox' = SubSeq(inbox, k + 1, Len(inbox))
          /\ unanswered' = unanswered + (IF c.pending THEN 1 ELSE 0)
      <4>1. inbox' = SubSeq(inbox, k + 1, Len(inbox))
        BY <1>8, <2>2
      <4>2. CanSend(c) /\ ~gone
        BY <1>2, <3>1
      <4>3. unanswered' = unanswered + (IF c.pending /\ CanSend(c) /\ ~gone THEN 1 ELSE 0)
        BY <1>8, <2>2, Zenon
      <4>4. CASE c.pending
        BY <4>1, <4>2, <4>3, <4>4, Zenon
      <4>5. CASE ~c.pending
        BY <4>1, <4>2, <4>3, <4>5, Zenon
      <4> QED BY <4>4, <4>5
    <3>3. /\ Len(inbox') = Len(inbox) - k /\ Len(inbox') \in Nat
          /\ \A i \in 1..Len(inbox') : inbox'[i] = inbox[k + i] /\ k + i \in 1..Len(inbox)
      <4>1. inbox' = SubSeq(inbox, k + 1, Len(inbox))
        BY <3>2
      <4> QED BY <1>0, <4>1
    <3>4. Answered' => Answered
      BY <3>3 DEF Answered
    <3>5. \A i, j \in 1..Len(inbox') : IsAnswer(inbox'[i]) /\ IsAnswer(inbox'[j]) => i = j
      <4>1. ASSUME NEW i \in 1..Len(inbox'), NEW j \in 1..Len(inbox'),
                   IsAnswer(inbox'[i]), IsAnswer(inbox'[j])
            PROVE  k + i = k + j
        BY <4>1, <3>3 DEF InFlight, IInv
      <4>2. \A i, j \in 1..Len(inbox') : k + i = k + j => i = j
        BY <3>3
      <4> QED BY <4>1, <4>2
    <3>6. CASE c.pending
      <4>1. unanswered = 0 /\ ~Answered
        BY <3>1, <3>6 DEF IInv, InFlight
      <4>2. \A i \in 1..k : ~IsAnswer(inbox[i])
        BY <4>1, <1>0 DEF Answered
      <4>3. ~(link'.up /\ link'.pending) /\ unanswered' = 1
        BY <1>6, <1>10, <3>2, <3>6, <4>1, <4>2
      <4> QED BY <3>4, <3>5, <4>1, <4>3 DEF InFlight
    <3>7. CASE ~c.pending
      <4>1. unanswered' = unanswered
        BY <1>0, <3>2, <3>7
      <4>2. ASSUME link'.up /\ link'.pending PROVE unanswered' = 0 /\ ~Answered'
        <5>1. PICK i \in 1..k : IsAnswer(inbox[i])
          BY <1>6, <1>10, <3>1, <4>2
        <5>2. i \in 1..Len(inbox) /\ unanswered = 0
          BY <1>0, <5>1 DEF Answered, IInv, InFlight
        <5>3. ASSUME NEW j \in 1..Len(inbox'), IsAnswer(inbox'[j]) PROVE FALSE
          <6>1. k + j = i
            BY <5>1, <5>2, <5>3, <3>3 DEF IInv, InFlight
          <6> QED BY <6>1, <3>3
        <5> QED BY <4>1, <5>2, <5>3 DEF Answered
      <4> QED BY <3>4, <3>5, <4>1, <4>2 DEF InFlight, IInv
    <3> QED BY <3>6, <3>7
  <2> QED BY <2>1, <2>2
<1>16. DialNoted'
  <2>1. CASE ~b.up /\ conf.ep \in Dialable /\ BackoffOver(b)
    <3>1. link'.last = now /\ sinceDial' = 0
      BY <1>1, <1>8, <1>10, <2>1
    <3>2. (now' - link'.last) % TimeMod = 0
      BY <1>0, <3>1, Differences
    <3> QED BY <3>1, <3>2 DEF DialNoted
  <2>2. CASE ~(~b.up /\ conf.ep \in Dialable /\ BackoffOver(b))
    <3>1. link'.last = link.last /\ sinceDial' = sinceDial
      BY <1>1, <1>8, <1>10, <2>2
    <3> QED BY <3>1 DEF DialNoted, IInv
  <2> QED BY <2>1, <2>2
<1> QED
  BY <1>10, <1>11, <1>14, <1>15, <1>16 DEF IInv

\* A whole poll, off line as well as on line.
LEMMA PollKeeps ==
    ASSUME IInv, NEW probe \in BOOLEAN, NEW ok \in BOOLEAN, NEW k \in 0..MaxInbox, Poll(probe, ok, k)
    PROVE  IInv'
<1> DEFINE a == ModemPoll(link, closing, probe)
<1>0. link \in Links /\ Agree(link) /\ closing \in BOOLEAN
  BY DEF IInv, LinkTypeOK
<1>1. /\ a \in Links /\ Agree(a) /\ ~(a.up /\ ~a.tcp)
      /\ a.up = link.up /\ a.peer = link.peer /\ a.last = link.last /\ a.pending = link.pending
  BY <1>0, ModemPollKeeps
<1>2. closing' = FALSE /\ now' = now /\ k <= Len(inbox)
  BY DEF Poll
<1>3. CASE ~a.online
  <2>1. PollOffLine(a, k)
    BY <1>3 DEF Poll
  <2>2. link' = MarkDisconnected(a)
    BY <2>1 DEF PollOffLine
  <2>3. link' \in Links /\ Agree(link') /\ ~link'.up /\ link'.last = link.last
    BY <1>1, <2>2, LinkFunctions
  <2>4. UNCHANGED <<conf, held, inbox, unanswered, sinceDial, asked, mute>>
    BY <2>1 DEF PollOffLine, history
  <2>5. LinkTypeOK'
    BY <1>2, <2>3, <2>4 DEF IInv, LinkTypeOK
  <2>6. InFlight'
    BY <2>3, <2>4 DEF IInv, InFlight, Answered
  <2>7. DialNoted' /\ Follows(conf, asked)'
    BY <1>2, <2>3, <2>4 DEF IInv, DialNoted, Follows, Load
  <2> QED BY <2>3, <2>5, <2>6, <2>7 DEF IInv, Agree
<1>4. CASE a.online
  <2> HIDE DEF a
  <2>1. \E c \in {Redial(a, conf.ep, ok)} : PollOnLine(a, c, k)
    BY <1>1, <1>4 DEF Poll, a
  <2>2. PollOnLine(a, Redial(a, conf.ep, ok), k)
    BY <2>1
  <2> QED BY <1>1, <1>2, <2>2, PollOnLineKeeps
<1> QED
  BY <1>3, <1>4

\* Every step.
LEMMA StepKeeps == IInv /\ [Next]_vars => IInv'
<1> SUFFICES ASSUME IInv, [Next]_vars PROVE IInv'
  OBVIOUS
<1>1. CASE Tick
  BY <1>1, TickKeeps
<1>2. CASE SuperloopPoll
  <2>1. PICK probe \in {FALSE, ~link.online}, ok \in BOOLEAN, k \in 0..MaxInbox : Poll(probe, ok, k)
    BY <1>2 DEF SuperloopPoll
  <2>2. probe \in BOOLEAN
    BY <2>1
  <2> QED BY <2>1, <2>2, PollKeeps
<1>3. CASE PlatformAnswers \/ (\E m \in Commands : PlatformCommands(m)) \/ MessageLost \/ PlatformCloses
  BY <1>3, PlatformKeeps
<1>4. CASE UNCHANGED vars
  BY <1>4 DEF vars, platform, history, IInv, LinkTypeOK, Agree, Follows, Load, InFlight, Answered, DialNoted
<1> QED
  BY <1>1, <1>2, <1>3, <1>4 DEF Next

\* The inductive invariant holds throughout.
LEMMA Invariance == Spec => []IInv
BY InitIsGood, StepKeeps, PTL DEF Spec
-----------------------------------------------------------------------------
(* What is proved of the link. *)

\* The variables keep their types, for every set of endpoints, bound of the inbox,
\* backoff and width of the counter.
THEOREM LinkTypeCorrect == Spec => []LinkTypeOK
<1>1. IInv => LinkTypeOK
  BY DEF IInv
<1> QED BY <1>1, Invariance, PTL

\* The modem's socket, the socket client, the registration and the status agree
\* after every poll, whatever order REGISTER_ACK, REGISTER_NACK and SYNC_CONFIG
\* come in within one of them (net_connectivity.c:137-205).
THEOREM LayersInStep == Spec => []LayersAgree
<1>1. IInv => LayersAgree
  BY DEF IInv, Agree, LayersAgree
<1> QED BY <1>1, Invariance, PTL

\* A connection leads to the endpoint in use, and that is the one the accepted
\* SYNC_CONFIGs ask for: a message of the old connection is never handled after
\* the move (cb_sync_config in app_main.c, the loop of net_connectivity_poll).
THEOREM EndpointFollowed == Spec => []ConnectedWhereConfigured
<1>1. IInv => ConnectedWhereConfigured
  BY DEF IInv, Follows, ConnectedWhereConfigured
<1> QED BY <1>1, Invariance, PTL

\* However registrations are refused, answered late and lost, the platform never
\* has two REGISTERs of one connection to answer (net_connectivity_try_register).
THEOREM OneRegistration == Spec => []OneRegisterAtATime
<1>1. IInv => OneRegisterAtATime
  BY DEF IInv, InFlight, OneRegisterAtATime
<1> QED BY <1>1, Invariance, PTL

\* Two dials of net_connectivity_poll are a backoff apart, also across the wrap of
\* the counter, but for an attempt made at time 0, which is taken for none
\* (net_connectivity.c:157-159): the safety half of DialsInTime.
THEOREM DialsApart ==
    Spec => [][sinceDial' = 0 /\ sinceDial # 0 => sinceDial = Backoff \/ link.last = 0]_vars
<1>1. ASSUME IInv, Next, sinceDial' = 0, sinceDial # 0, link.last # 0
      PROVE  sinceDial = Backoff
  <2>1. CASE Tick
    BY <1>1, <2>1, TimeAssumption DEF Tick, IInv, LinkTypeOK
  <2>2. CASE SuperloopPoll
    <3>1. PICK probe \in {FALSE, ~link.online}, ok \in BOOLEAN, k \in 0..MaxInbox : Poll(probe, ok, k)
      BY <2>2 DEF SuperloopPoll
    <3>2. probe \in BOOLEAN
      BY <3>1
    <3> DEFINE a == ModemPoll(link, closing, probe)
    <3>3. a \in Links /\ ~(a.up /\ ~a.tcp) /\ a.last = link.last
      BY <1>1, <3>2, ModemPollKeeps DEF IInv, LinkTypeOK
    <3>4. BackoffOver(a)
      <4>1. a.online
        BY <1>1, <3>1 DEF Poll, PollOffLine, history
      <4> HIDE DEF a
      <4>2. PollOnLine(a, Redial(a, conf.ep, ok), k)
        BY <3>1, <3>3, <4>1 DEF Poll, a
      <4>3. sinceDial' = IF ~a.up /\ conf.ep \in Dialable /\ BackoffOver(a) THEN 0 ELSE sinceDial
        BY <4>2 DEF PollOnLine
      <4> QED BY <1>1, <4>3
    <3>5. (now - link.last) % TimeMod >= Backoff
      BY <1>1, <3>3, <3>4 DEF BackoffOver
    <3>6. sinceDial = Backoff \/ (now - link.last) % TimeMod <= sinceDial
      BY <1>1 DEF IInv, DialNoted
    <3>7. (now - link.last) % TimeMod \in Nat
      BY <1>1, Differences DEF IInv, LinkTypeOK, Links
    <3>8. sinceDial \in 0..Backoff /\ Backoff \in Nat
      BY <1>1, TimeAssumption DEF IInv, LinkTypeOK
    <3> DEFINE d == (now - link.last) % TimeMod
    <3> HIDE DEF d
    <3>9. d >= Backoff /\ d \in Nat /\ (sinceDial = Backoff \/ d <= sinceDial)
      BY <3>5, <3>6, <3>7 DEF d
    <3> QED BY <3>8, <3>9
  <2>3. CASE PlatformAnswers \/ (\E m \in Commands : PlatformCommands(m)) \/ MessageLost \/ PlatformCloses
    BY <1>1, <2>3 DEF PlatformAnswers, PlatformCommands, MessageLost, PlatformCloses, history
  <2> QED BY <1>1, <2>1, <2>2, <2>3 DEF Next
<1>2. IInv /\ [Next]_vars => [sinceDial' = 0 /\ sinceDial # 0 => sinceDial = Backoff \/ link.last = 0]_vars
  BY <1>1
<1> QED
  BY <1>2, Invariance, PTL DEF Spec
=============================================================================
