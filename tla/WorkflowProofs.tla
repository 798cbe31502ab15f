---------------------------- MODULE WorkflowProofs ----------------------------
(***************************************************************************)
(* Theorems about WorkflowEngine for every set of session references, every*)
(* counter width, stop guard and debounce the assumptions admit, and for   *)
(* every flash sector: one that takes each record, one that fails now and  *)
(* then, and one that refuses every call.                                  *)
(*                                                                         *)
(* The state predicates are proved in the order they rest on each other:   *)
(* the types, then the coherence of the record in RAM and of the one on    *)
(* flash together with the agreement of the upgrade guard.  The action     *)
(* property about a pending recovery follows from the coherence.           *)
(*                                                                         *)
(* The second part is about what becomes of a session: after a save that   *)
(* succeeded whatever a restart needs is on flash, no interrupted session  *)
(* is forgotten before a failure of the sector, none begins before the last*)
(* one is accounted for, and the engine implements SessionLifecycle.       *)
(*                                                                         *)
(* The third is about WorkflowControl, for every set of tokens and module  *)
(* commands.  The composition adds nothing to what the engine may do, so   *)
(* that what is proved of the engine holds in it.  On that rests its own   *)
(* invariant: who began the session, whose token is kept, whether the pump *)
(* runs, and what the time of the last action says of the session's age.   *)
(***************************************************************************)
EXTENDS WorkflowControl, TLAPS

(* Arithmetic and storage. *)

LEMMA ClockRange ==
    ASSUME NEW n \in Int
    PROVE  n % TimeMod \in 0 .. TimeMod - 1
BY TimeAssumption

LEMMA ClockConstants ==
    /\ 0 \in 0 .. TimeMod - 1
    /\ StopGuard \in 0 .. TimeMod - 1
    /\ StopGuard \in Int /\ TimeMod \in Int
BY TimeAssumption

\* Whatever the sector does, it holds the new record, the old one or none, and
\* the new one when it says so.
LEMMA FlashOutcome ==
    ASSUME NEW old, NEW r, NEW s \in FlashAfter(old, r)
    PROVE  /\ s.record \in {old, r, NoRecord}
           /\ s.ok \in BOOLEAN
           /\ s.ok => s.record = r
<1>1. PICK o \in FlashOutcomes :
          s = [record |-> CASE o = "written"      -> r
                            [] o = "erase_failed" -> old
                            [] OTHER              -> NoRecord,
               ok     |-> o = "written"]
  BY DEF FlashAfter
<1>2. CASE o = "written"
  <2>1. s.record = r /\ s.ok = TRUE
    BY <1>1, <1>2
  <2>. QED
    BY <2>1
<1>3. CASE o # "written"
  <2>1. s.record \in {old, NoRecord} /\ s.ok = FALSE
    BY <1>1, <1>3
  <2>. QED
    BY <2>1
<1>. QED
  BY <1>2, <1>3
-----------------------------------------------------------------------------
(* The inductive invariant.                                                *)
(*                                                                         *)
(* RuntimeCoherent alone is not inductive: the engine passes through       *)
(* STARTING, PAUSING, RESUMING and STOPPING inside one handler only, and a *)
(* boot that found one of them on flash would mirror "running" without a   *)
(* session.  GoodRecord therefore also says that no handler returns, and   *)
(* nothing is persisted, in such a state.                                  *)

StableState ==
    {"BOOTING", "ONLINE_NOT_READY", "READY_IDLE", "RUNNING", "PAUSED", "STOPPED"}

GoodRecord(r) == r \in Runtime /\ Coherent(r) /\ r.state \in StableState

GoodFlash(f) == f = NoRecord \/ GoodRecord(f)

\* A sector that holds such a record or none, whatever came of the attempt.
GoodSector(s) == GoodFlash(s.record) /\ s.ok \in BOOLEAN

\* The copies g of the upgrade guard fit the runtime r.
GuardFits(g, r) ==
    /\ g \in [running : BOOLEAN, settlement : BOOLEAN]
    /\ g.running <=> r.active # NoRef
    /\ g.settlement <=> r.settlement

IInv == /\ TypeOK
        /\ GoodRecord(rt)
        /\ GoodFlash(flash)
        /\ GuardFits(guard, rt)
        /\ phase = "off" => guard = BlankGuard

(* The parts the handlers are made of. *)

Clock == 0 .. TimeMod - 1

\* Replacing the record on flash by a good one leaves a good sector.
LEMMA FlashStaysGood ==
    ASSUME NEW old, GoodFlash(old), NEW r, GoodRecord(r), NEW s \in FlashAfter(old, r)
    PROVE  GoodSector(s)
BY FlashOutcome DEF GoodFlash, GoodSector

LEMMA SaveIsGood ==
    ASSUME IInv, NEW r, GoodRecord(r), Save(r)
    PROVE  GoodFlash(flash') /\ saved' \in BOOLEAN /\ (saved' => flash' = r)
<1>1. PICK s \in FlashAfter(flash, r) : flash' = s.record /\ saved' = s.ok
  BY DEF Save, SectorBecomes
<1>. QED
  BY <1>1, FlashStaysGood, FlashOutcome DEF IInv, GoodSector

\* Finishing an expired settlement changes that flag and nothing else.
LEMMA SettledIsGood ==
    ASSUME IInv, NEW t \in Clock
    PROVE  /\ GoodRecord(SettledRt(t))
           /\ SettledRt(t).state = rt.state
           /\ SettledRt(t).active = rt.active
           /\ SettledRt(t).recovery = rt.recovery
           /\ SettledUntil(t) \in Clock
           /\ GuardFits(SettledGuard(t), SettledRt(t))
           /\ \A s \in SettledFlash(t) : GoodSector(s)
<1>1. /\ rt \in Runtime /\ Coherent(rt) /\ rt.state \in StableState
      /\ guardUntil \in Clock
      /\ guard \in [running : BOOLEAN, settlement : BOOLEAN]
  BY DEF IInv, TypeOK, GoodRecord, Clock
<1>2. /\ SettledRt(t) \in Runtime
      /\ SettledRt(t).state = rt.state
      /\ SettledRt(t).active = rt.active
      /\ SettledRt(t).recovery = rt.recovery
      /\ SettledRt(t).lastId = rt.lastId
      /\ SettledRt(t).reason = rt.reason
      /\ SettledRt(t).settlement <=> rt.settlement /\ ~Expired(t)
  BY <1>1 DEF SettledRt, Runtime
<1>3. GoodRecord(SettledRt(t))
  BY <1>1, <1>2 DEF GoodRecord, Coherent
<1>4. SettledUntil(t) \in Clock
  BY <1>1, ClockConstants DEF SettledUntil, Clock
<1>5. GuardFits(SettledGuard(t), SettledRt(t))
  BY <1>1, <1>2 DEF IInv, GuardFits, SettledGuard
<1>6. ASSUME NEW s \in SettledFlash(t)  PROVE GoodSector(s)
  <2>1. CASE Expired(t)
    BY <1>3, <1>6, <2>1, FlashStaysGood DEF SettledFlash, IInv
  <2>2. CASE ~Expired(t)
    BY <1>6, <2>2 DEF SettledFlash, GoodSector, IInv, TypeOK
  <2>. QED
    BY <2>1, <2>2
<1>. QED
  BY <1>2, <1>3, <1>4, <1>5, <1>6

\* workflow_persist of a good record after the settlement check.
LEMMA PersistIsGood ==
    ASSUME IInv, Persist, GoodRecord(rt')
    PROVE  GoodFlash(flash') /\ saved' \in BOOLEAN /\ (saved' => flash' = rt')
<1>1. PICK a \in UNION {FlashAfter(s.record, rt') : s \in SettledFlash(now)} :
          flash' = a.record /\ saved' = a.ok
  BY DEF Persist, SectorBecomes
<1>2. PICK s \in SettledFlash(now) : a \in FlashAfter(s.record, rt')
  BY <1>1
<1>3. GoodFlash(s.record)
  BY <1>2, SettledIsGood DEF IInv, TypeOK, Clock, GoodSector
<1>. QED
  BY <1>1, <1>2, <1>3, FlashStaysGood, FlashOutcome DEF GoodSector

\* The settlement check alone.
LEMMA SettlingIsGood ==
    ASSUME IInv, NEW t \in Clock, SectorBecomes(SettledFlash(t))
    PROVE  /\ GoodFlash(flash') /\ saved' \in BOOLEAN
           /\ Expired(t) /\ saved' => flash' = SettledRt(t)
           /\ ~Expired(t) => flash' = flash /\ saved' = saved
<1>1. PICK s \in SettledFlash(t) : flash' = s.record /\ saved' = s.ok
  BY DEF SectorBecomes
<1>2. GoodSector(s)
  BY <1>1, SettledIsGood
<1>. QED
  BY <1>1, <1>2, FlashOutcome DEF GoodSector, SettledFlash

\* Ending a session by a stop, and promoting a dirty one at boot.
LEMMA CapturedIsGood ==
    ASSUME NEW r, GoodRecord(r), r.state \in {"RUNNING", "PAUSED"}
    PROVE  /\ GoodRecord(Captured(r, "manual"))
           /\ Captured(r, "manual").active = NoRef
           /\ Captured(r, "manual").settlement
BY DEF GoodRecord, Captured, Coherent, Runtime, StableState, WfState

LEMMA PromotedIsGood ==
    ASSUME NEW r, GoodRecord(r)
    PROVE  /\ GoodRecord(Promoted(r))
           /\ Promoted(r).active = NoRef
BY DEF GoodRecord, Promoted, Captured, Coherent, Runtime, StableState, WfState

LEMMA CaptureAtRange ==
    ASSUME NEW t \in Clock, CaptureAt(t)
    PROVE  /\ guardUntil' \in Clock
           /\ lastStop' \in [age : 0 .. StopGuard, edge : BOOLEAN]
<1>1. t + StopGuard \in Int
  BY ClockConstants DEF Clock
<1>. QED
  BY <1>1, ClockRange, ClockConstants, TimeAssumption DEF CaptureAt, Clock
-----------------------------------------------------------------------------
(* One lemma per group of actions, then the invariant. *)

LEMMA InitIsGood == Init => IInv
<1>. SUFFICES ASSUME Init
              PROVE  IInv
  OBVIOUS
<1>1. GoodRecord(rt)
  BY DEF Init, BlankRuntime, GoodRecord, Coherent, Runtime, StableState, WfState
<1>2. GuardFits(guard, rt)
  BY DEF Init, BlankRuntime, BlankGuard, GuardFits
<1>3. lastStop \in [age : 0 .. StopGuard, edge : BOOLEAN]
  BY TimeAssumption DEF Init, LongAgo
<1>4. TypeOK
  BY <1>1, <1>2, <1>3, ClockConstants DEF Init, TypeOK, GoodRecord, GuardFits
<1>. QED
  BY <1>1, <1>2, <1>4 DEF Init, IInv, GoodFlash

LEMMA PowerKeeps == IInv /\ PowerLoss => IInv'
<1>. SUFFICES ASSUME IInv, PowerLoss
              PROVE  IInv'
  OBVIOUS
<1>1. GoodRecord(rt')
  BY DEF PowerLoss, BlankRuntime, GoodRecord, Coherent, Runtime, StableState, WfState
<1>2. owed' \in Ref \cup {NoRef} /\ lastStop' \in [age : 0 .. StopGuard, edge : BOOLEAN]
  BY TimeAssumption DEF PowerLoss, LongAgo, IInv, TypeOK, Runtime
<1>3. TypeOK'
  BY <1>1, <1>2, ClockConstants DEF PowerLoss, IInv, TypeOK, BlankGuard, GoodRecord
<1>4. GuardFits(guard', rt')
  BY DEF PowerLoss, BlankRuntime, BlankGuard, GuardFits
<1>. QED
  BY <1>1, <1>3, <1>4 DEF IInv, PowerLoss

LEMMA BootKeeps == IInv /\ Boot => IInv'
<1>. SUFFICES ASSUME IInv, Boot
              PROVE  IInv'
  OBVIOUS
<1>1. CASE BootBlank
  <2>1. GoodRecord(rt')
    BY <1>1 DEF BootBlank, BlankRuntime, GoodRecord, Coherent, Runtime, StableState, WfState
  <2>2. GuardFits(guard', rt')
    BY <1>1 DEF BootBlank, clocks, env, sector, BlankRuntime, BlankGuard, GuardFits, IInv
  <2>3. /\ saved' \in BOOLEAN /\ owed' \in Ref \cup {NoRef}
        /\ lastStop' \in [age : 0 .. StopGuard, edge : BOOLEAN]
    <3>1. LongAgo \in [age : 0 .. StopGuard, edge : BOOLEAN]
      BY TimeAssumption DEF LongAgo
    <3>. QED
      BY <1>1, <3>1 DEF BootBlank, IInv, TypeOK
  <2>4. TypeOK'
    BY <1>1, <2>1, <2>3 DEF BootBlank, clocks, env, IInv, TypeOK, GoodRecord
  <2>. QED
    BY <1>1, <2>1, <2>2, <2>4 DEF BootBlank, clocks, env, IInv
<1>2. CASE BootRestore
  <2>1. GoodRecord(flash)
    BY <1>2 DEF BootRestore, clocks, env, sector, IInv, GoodFlash
  <2>2. GoodRecord(rt') /\ rt'.active = NoRef
    BY <1>2, <2>1, PromotedIsGood DEF BootRestore
  <2>3. GoodFlash(flash') /\ saved' \in BOOLEAN
    BY <1>2, <2>2, SaveIsGood DEF BootRestore
  <2>4. GuardFits(guard', rt')
    <3>0. rt' \in Runtime
      BY <2>2 DEF GoodRecord
    <3>1. rt'.state \notin InSession
      BY <2>2 DEF GoodRecord, Coherent, StableState, InSession
    <3>2. rt'.settlement \in BOOLEAN
      BY <3>0 DEF Runtime
    <3>3. guard' \in [running : BOOLEAN, settlement : BOOLEAN]
      BY <1>2, <3>2 DEF BootRestore
    <3>4. guard'.running <=> rt'.state \in InSession
      BY <1>2 DEF BootRestore
    <3>5. guard'.settlement = rt'.settlement
      BY <1>2 DEF BootRestore
    <3>. QED
      BY <2>2, <3>1, <3>3, <3>4, <3>5 DEF GuardFits
  <2>5. /\ guardUntil' \in Clock
        /\ lastStop' \in [age : 0 .. StopGuard, edge : BOOLEAN]
    <3>1. CASE flash.active # NoRef
      BY <1>2, <3>1, CaptureAtRange, ClockConstants DEF BootRestore, Clock
    <3>2. CASE flash.active = NoRef
      BY <1>2, <3>2, ClockConstants DEF BootRestore, clocks, env, sector, Clock, IInv, TypeOK
    <3>. QED
      BY <3>1, <3>2
  <2>6. TypeOK'
    BY <1>2, <2>2, <2>3, <2>4, <2>5
       DEF BootRestore, clocks, env, sector, IInv, TypeOK, GoodRecord, GoodFlash, GuardFits, Clock
  <2>. QED
    BY <1>2, <2>2, <2>3, <2>4, <2>6 DEF BootRestore, clocks, env, sector, IInv
<1>3. ASSUME NEW sent \in BOOLEAN, ReportRecovery(sent)
      PROVE  IInv'
  <2>1. TypeOK'
    BY <1>3 DEF ReportRecovery, clocks, env, sector, IInv, TypeOK
  <2>. QED
    BY <1>3, <2>1 DEF ReportRecovery, clocks, env, sector, IInv
<1>4. CASE MarkRecoveryReported
  <2>1. GoodRecord(rt') /\ GuardFits(guard', rt')
    BY <1>4 DEF MarkRecoveryReported, clocks, env, sector, IInv, GoodRecord, Coherent, Runtime, GuardFits
  <2>2. GoodFlash(flash') /\ saved' \in BOOLEAN
    BY <1>4, <2>1, SaveIsGood DEF MarkRecoveryReported
  <2>3. TypeOK'
    BY <1>4, <2>1, <2>2 DEF MarkRecoveryReported, clocks, env, sector, IInv, TypeOK, GoodRecord, GoodFlash
  <2>. QED
    BY <1>4, <2>1, <2>2, <2>3 DEF MarkRecoveryReported, clocks, env, sector, IInv
<1>. QED
  BY <1>1, <1>2, <1>3, <1>4 DEF Boot

LEMMA LoopKeeps == IInv /\ (Tick \/ Environment \/ PollReady) => IInv'
<1>. SUFFICES ASSUME IInv, Tick \/ Environment \/ PollReady
              PROVE  IInv'
  OBVIOUS
<1>1. CASE Tick
  <2>1. now' \in Clock
    BY <1>1, ClockRange DEF Tick, clocks, env, sector, IInv, TypeOK, Clock
  <2>2. /\ GoodRecord(rt') /\ GuardFits(guard', rt')
        /\ GoodFlash(flash') /\ saved' \in BOOLEAN
    BY <1>1, <2>1, SettledIsGood, SettlingIsGood DEF Tick, FinishSettlementIfExpired
  <2>3. guardUntil' \in Clock
    BY <1>1, <2>1, SettledIsGood DEF Tick, FinishSettlementIfExpired
  <2>4. lastStop' \in [age : 0 .. StopGuard, edge : BOOLEAN]
    BY <1>1, TimeAssumption DEF Tick, clocks, env, sector, IInv, TypeOK
  <2>5. TypeOK'
    BY <1>1, <2>1, <2>2, <2>3, <2>4
       DEF Tick, clocks, env, sector, IInv, TypeOK, GoodRecord, GoodFlash, GuardFits, Clock
  <2>. QED
    BY <1>1, <2>2, <2>5 DEF Tick, clocks, env, sector, IInv
<1>2. CASE Environment
  <2>1. TypeOK'
    BY <1>2 DEF Environment, clocks, env, sector, IInv, TypeOK
  <2>. QED
    BY <1>2, <2>1 DEF Environment, clocks, env, sector, IInv
<1>3. CASE PollReady
  <2>1. now \in Clock
    BY DEF IInv, TypeOK, Clock
  <2>2. GoodRecord(rt')
    BY <1>3, <2>1, SettledIsGood
       DEF PollReady, IsReady, GoodRecord, Coherent, Runtime, StableState, WfState
  <2>3. GuardFits(guard', rt')
    BY <1>3, <2>1, SettledIsGood
       DEF PollReady, IsReady, GuardFits, GoodRecord, Coherent, Runtime, InSession
  <2>4. /\ GoodFlash(flash') /\ saved' \in BOOLEAN
        /\ guardUntil' \in Clock /\ ready' \in BOOLEAN
    BY <1>3, <2>1, SettledIsGood, SettlingIsGood
       DEF PollReady, clocks, env, sector, IsReady, IInv, TypeOK
  <2>5. TypeOK'
    BY <1>3, <2>2, <2>3, <2>4
       DEF PollReady, clocks, env, sector, IInv, TypeOK, GoodRecord, GoodFlash, GuardFits, Clock
  <2>. QED
    BY <1>3, <2>2, <2>3, <2>4, <2>5 DEF PollReady, clocks, env, sector, IInv
<1>. QED
  BY <1>1, <1>2, <1>3

LEMMA StartKeeps ==
    ASSUME IInv, NEW ref \in Ref, StartSession(ref)
    PROVE  IInv'
<1>. DEFINE base == SettledRt(now)
<1>1. now \in Clock
  BY DEF IInv, TypeOK, Clock
<1>2. /\ GoodRecord(base) /\ base.active = rt.active /\ base.state = rt.state
      /\ base.recovery = rt.recovery
      /\ SettledUntil(now) \in Clock
      /\ GuardFits(SettledGuard(now), base)
  BY <1>1, SettledIsGood
<1>3. /\ GoodRecord(StartBase(ref))
      /\ StartBase(ref).active = base.active
      /\ StartBase(ref).settlement = base.settlement
  <2>1. CASE StartBase(ref) = base
    BY <1>2, <2>1
  <2>2. CASE /\ ~StartBlocked /\ rt.state = "STOPPED"
             /\ StartBase(ref) = [base EXCEPT !.state = "READY_IDLE"]
    BY <1>2, <2>2
       DEF StartBlocked, GoodRecord, Coherent, Runtime, StableState, WfState
  <2>. QED
    BY <2>1, <2>2 DEF StartBase
<1>. HIDE DEF base
<1>4. CASE StartAllowed(ref)
  <2>1. /\ StartBase(ref).state = "READY_IDLE"
        /\ ref # NoRef
    BY <1>4, RefAssumption DEF StartAllowed
  <2>2. /\ rt' = [StartBase(ref) EXCEPT !.active = ref, !.state = "RUNNING"]
        /\ guardUntil' = SettledUntil(now)
        /\ guard' = [SettledGuard(now) EXCEPT !.running = TRUE]
        /\ lastAction' = now
        /\ Persist
        /\ UNCHANGED <<phase, now, ready, env, owed, lastStop>>
    BY <1>4 DEF StartSession
  <2>3. /\ rt'.active = ref
        /\ rt'.settlement = base.settlement
        /\ GoodRecord(rt')
    BY <1>3, <2>1, <2>2 DEF GoodRecord, Coherent, Runtime, StableState, WfState
  <2>4. GuardFits(guard', rt')
    BY <1>2, <2>1, <2>2, <2>3 DEF GuardFits
  <2>5. GoodFlash(flash') /\ saved' \in BOOLEAN
    BY <2>2, <2>3, PersistIsGood
  <2>6. TypeOK'
    BY <1>1, <1>2, <2>2, <2>3, <2>4, <2>5
       DEF IInv, TypeOK, GoodRecord, GoodFlash, GuardFits, Clock, env
  <2>. QED
    BY <2>2, <2>3, <2>4, <2>5, <2>6 DEF IInv, StartSession
<1>5. CASE ~StartAllowed(ref)
  <2>1. /\ rt' = StartBase(ref)
        /\ guardUntil' = SettledUntil(now)
        /\ guard' = SettledGuard(now)
        /\ GoodFlash(flash') /\ saved' \in BOOLEAN
        /\ UNCHANGED <<lastAction, phase, now, ready, env, owed, lastStop>>
    BY <1>1, <1>5, SettlingIsGood DEF StartSession, FinishSettlementIfExpired
  <2>2. GuardFits(guard', rt')
    BY <1>2, <1>3, <2>1 DEF GuardFits
  <2>3. TypeOK'
    BY <1>2, <1>3, <2>1, <2>2
       DEF IInv, TypeOK, GoodRecord, GoodFlash, GuardFits, Clock, env
  <2>. QED
    BY <1>2, <1>3, <2>1, <2>2, <2>3 DEF IInv, StartSession
<1>. QED
  BY <1>4, <1>5

LEMMA StopKeeps ==
    ASSUME IInv, NEW ref \in Ref \cup {NoRef}, StopSession(ref)
    PROVE  IInv'
<1>1. now \in Clock
  BY DEF IInv, TypeOK, Clock
<1>2. /\ GoodRecord(SettledRt(now)) /\ SettledRt(now).state = rt.state
      /\ SettledUntil(now) \in Clock
      /\ GuardFits(SettledGuard(now), SettledRt(now))
  BY <1>1, SettledIsGood
<1>3. CASE StopAllowed(ref)
  <2>1. /\ rt' = Captured(SettledRt(now), "manual")
        /\ CaptureAt(now)
        /\ guard' = [running |-> FALSE, settlement |-> TRUE]
        /\ lastAction' = now
        /\ Persist
        /\ UNCHANGED <<phase, now, ready, env, owed>>
    BY <1>3 DEF StopSession
  <2>2. GoodRecord(rt') /\ rt'.active = NoRef /\ rt'.settlement
    BY <1>2, <1>3, <2>1, CapturedIsGood DEF StopAllowed
  <2>3. GuardFits(guard', rt')
    BY <2>1, <2>2 DEF GuardFits
  <2>4. GoodFlash(flash') /\ saved' \in BOOLEAN
    BY <2>1, <2>2, PersistIsGood
  <2>5. TypeOK'
    BY <1>1, <2>1, <2>2, <2>3, <2>4, CaptureAtRange
       DEF IInv, TypeOK, GoodRecord, GoodFlash, GuardFits, Clock, env
  <2>. QED
    BY <2>1, <2>2, <2>3, <2>4, <2>5 DEF IInv, StopSession
<1>4. CASE ~StopAllowed(ref)
  <2>1. /\ rt' = SettledRt(now)
        /\ guardUntil' = SettledUntil(now)
        /\ guard' = SettledGuard(now)
        /\ GoodFlash(flash') /\ saved' \in BOOLEAN
        /\ UNCHANGED <<lastAction, phase, now, ready, env, owed, lastStop>>
    BY <1>1, <1>4, SettlingIsGood DEF StopSession, FinishSettlementIfExpired
  <2>2. TypeOK'
    BY <1>2, <2>1
       DEF IInv, TypeOK, GoodRecord, GoodFlash, GuardFits, Clock, env
  <2>. QED
    BY <1>2, <2>1, <2>2 DEF IInv, StopSession
<1>. QED
  BY <1>3, <1>4

LEMMA PauseResumeKeeps ==
    ASSUME IInv, PauseSession \/ ResumeSession
    PROVE  IInv'
<1>1. PICK from \in {"RUNNING", "PAUSED"}, to \in {"RUNNING", "PAUSED"} :
          PauseResume(from, to)
  BY DEF PauseSession, ResumeSession
<1>2. GoodRecord(rt') /\ rt'.active = rt.active /\ rt'.settlement = rt.settlement
  BY <1>1 DEF PauseResume, IInv, GoodRecord, Coherent, Runtime, StableState, WfState
<1>3. GuardFits(guard', rt')
  <2>1. rt.active # NoRef /\ to \in InSession
    BY <1>1 DEF PauseResume, IInv, GoodRecord, Coherent, InSession
  <2>2. guard' = [guard EXCEPT !.running = TRUE]
    BY <1>1, <2>1 DEF PauseResume
  <2>. QED
    BY <1>2, <2>1, <2>2 DEF IInv, GuardFits
<1>4. GoodFlash(flash') /\ saved' \in BOOLEAN
  BY <1>1, <1>2, SaveIsGood DEF PauseResume
<1>5. TypeOK'
  BY <1>1, <1>2, <1>3, <1>4
     DEF PauseResume, IInv, TypeOK, GoodRecord, GoodFlash, GuardFits, env
<1>. QED
  BY <1>1, <1>2, <1>3, <1>4, <1>5 DEF IInv, PauseResume

LEMMA StutterKeeps ==
    ASSUME IInv, UNCHANGED vars
    PROVE  IInv'
BY DEF IInv, TypeOK, GoodRecord, GoodFlash, vars, clocks, env, sector

LEMMA StepKeeps ==
    ASSUME IInv, [Next]_vars
    PROVE  IInv'
<1>1. ASSUME NEW ref \in Ref, StartSession(ref)  PROVE IInv'
  BY <1>1, StartKeeps
<1>2. ASSUME NEW ref \in Ref \cup {NoRef}, StopSession(ref)  PROVE IInv'
  BY <1>2, StopKeeps
<1>. QED
  BY <1>1, <1>2, PowerKeeps, BootKeeps, LoopKeeps, PauseResumeKeeps, StutterKeeps
     DEF Next, Request

LEMMA Invariance == Spec => []IInv
BY InitIsGood, StepKeeps, PTL DEF Spec
-----------------------------------------------------------------------------
(* What each action does to the session named and to the last action. *)

LEMMA StartEffect ==
    ASSUME IInv, NEW ref \in Ref, StartSession(ref)
    PROVE  /\ now' = now
           /\ \/ /\ rt.active = NoRef /\ rt'.active # NoRef /\ lastAction' = now
                 /\ StartAllowed(ref)
              \/ rt'.active = rt.active /\ lastAction' = lastAction
<1>1. SettledRt(now) \in Runtime /\ SettledRt(now).active = rt.active
  BY SettledIsGood DEF IInv, TypeOK, Clock, GoodRecord
<1>2. StartBase(ref) \in Runtime /\ StartBase(ref).active = rt.active
  BY <1>1 DEF StartBase, Runtime, WfState
<1>3. CASE StartAllowed(ref)
  <2>1. rt'.active = ref
    BY <1>2, <1>3 DEF StartSession, Runtime
  <2>. QED
    BY <1>3, <2>1, RefAssumption DEF StartSession, StartAllowed
<1>4. CASE ~StartAllowed(ref)
  BY <1>2, <1>4 DEF StartSession
<1>. QED
  BY <1>3, <1>4

LEMMA StopEffect ==
    ASSUME IInv, NEW ref \in Ref \cup {NoRef}, StopSession(ref)
    PROVE  /\ now' = now
           /\ \/ rt.active # NoRef /\ rt'.active = NoRef /\ ~Debounced
              \/ rt'.active = rt.active /\ lastAction' = lastAction
<1>1. /\ GoodRecord(SettledRt(now)) /\ SettledRt(now).active = rt.active
      /\ SettledRt(now).state = rt.state
  BY SettledIsGood DEF IInv, TypeOK, Clock
<1>2. CASE StopAllowed(ref)
  <2>1. rt'.active = NoRef
    BY <1>1, <1>2, CapturedIsGood DEF StopSession, StopAllowed
  <2>2. rt.active # NoRef
    BY <1>2 DEF StopAllowed, IInv, GoodRecord, Coherent
  <2>. QED
    BY <1>2, <2>1, <2>2 DEF StopSession, StopAllowed
<1>3. CASE ~StopAllowed(ref)
  BY <1>1, <1>3 DEF StopSession
<1>. QED
  BY <1>2, <1>3

LEMMA PauseResumeEffect ==
    ASSUME IInv, PauseSession \/ ResumeSession
    PROVE  rt'.active = rt.active /\ now' = now /\ ~Debounced
BY DEF PauseSession, ResumeSession, PauseResume, IInv, TypeOK, Runtime

LEMMA TickEffect ==
    ASSUME IInv, Tick
    PROVE  rt'.active = rt.active /\ now' = (now + 1) % TimeMod /\ lastAction' = lastAction
<1>1. now' \in Clock
  BY ClockRange DEF Tick, IInv, TypeOK, Clock
<1>. QED
  BY <1>1, SettledIsGood DEF Tick

LEMMA IdleEffect ==
    ASSUME IInv, Boot \/ Environment \/ PollReady
    PROVE  rt'.active = rt.active /\ now' = now /\ lastAction' = lastAction
<1>1. ASSUME phase = "off"  PROVE rt.active = NoRef
  BY <1>1 DEF IInv, GuardFits, BlankGuard
<1>2. CASE BootBlank
  BY <1>1, <1>2 DEF BootBlank, BlankRuntime, clocks
<1>3. CASE BootRestore
  <2>1. rt'.active = NoRef
    BY <1>3, PromotedIsGood DEF BootRestore, IInv, GoodFlash
  <2>. QED
    BY <1>1, <1>3, <2>1 DEF BootRestore
<1>4. ASSUME NEW sent \in BOOLEAN, ReportRecovery(sent)
      PROVE  rt'.active = rt.active /\ now' = now /\ lastAction' = lastAction
  BY <1>4 DEF ReportRecovery, clocks
<1>5. CASE MarkRecoveryReported
  BY <1>5 DEF MarkRecoveryReported, clocks, IInv, TypeOK, Runtime
<1>6. CASE Environment
  BY <1>6 DEF Environment, clocks
<1>7. CASE PollReady
  <2>1. SettledRt(now) \in Runtime /\ SettledRt(now).active = rt.active
    BY SettledIsGood DEF IInv, TypeOK, Clock, GoodRecord
  <2>. QED
    BY <1>7, <2>1 DEF PollReady, Runtime
<1>. QED
  BY <1>2, <1>3, <1>4, <1>5, <1>6, <1>7 DEF Boot
-----------------------------------------------------------------------------
(* The theorems. *)

\* The engine's variables keep their types: every clock value stays below
\* TimeMod and every record written to flash is a runtime record
\* (workflow_engine.c).
THEOREM TypeCorrect == Spec => []TypeOK
<1>1. IInv => TypeOK
  BY DEF IInv
<1>. QED
  BY <1>1, Invariance, PTL

\* The record in RAM and the one on flash stay coherent for every clock width,
\* every set of references and every failing sector
\* (workflow_engine.c:77-176, 201-270).
THEOREM Coherence == Spec => []RuntimeCoherent
<1>1. IInv => RuntimeCoherent
  BY DEF IInv, GoodRecord, GoodFlash, RuntimeCoherent
<1>. QED
  BY <1>1, Invariance, PTL

\* The upgrade guard's copies agree with the engine after every handler
\* (workflow_engine.c:51,72,100,114,143).
THEOREM GuardAgreement == Spec => []UpgradeGuardAgrees
<1>1. IInv => UpgradeGuardAgrees
  BY DEF IInv, GuardFits, UpgradeGuardAgrees
<1>. QED
  BY <1>1, Invariance, PTL

\* While a recovery is pending in the loop, nothing changes what it is about.
LEMMA PendingStays ==
    ASSUME IInv, IInv', [Next]_vars, phase = "loop", phase' = "loop", rt.recovery
    PROVE  /\ rt'.recovery /\ rt'.lastId = rt.lastId
           /\ rt'.state = "STOPPED" /\ rt'.active = NoRef
<1>1. now \in Clock /\ now' \in Clock /\ rt.state = "STOPPED" /\ rt.active = NoRef
  BY DEF IInv, TypeOK, GoodRecord, Coherent, Clock
<1>2. \A t \in Clock : /\ SettledRt(t).recovery = rt.recovery
                        /\ SettledRt(t).lastId = rt.lastId
                        /\ SettledRt(t) \in Runtime
  BY SettledIsGood DEF GoodRecord, SettledRt, IInv, TypeOK, Runtime
<1>3. ASSUME PowerLoss \/ Boot  PROVE FALSE
  BY <1>3 DEF PowerLoss, Boot, BootBlank, BootRestore, ReportRecovery,
              MarkRecoveryReported
<1>4. ASSUME Tick \/ Environment \/ PollReady
      PROVE  rt'.recovery /\ rt'.lastId = rt.lastId
  BY <1>1, <1>2, <1>4 DEF Tick, Environment, PollReady, Runtime
<1>5. ASSUME NEW ref \in Ref, StartSession(ref)
      PROVE  rt'.recovery /\ rt'.lastId = rt.lastId
  <2>1. rt' = StartBase(ref)
    BY <1>1, <1>5 DEF StartSession, StartAllowed, StartBlocked
  <2>. QED
    BY <1>1, <1>2, <2>1 DEF StartBase, StartBlocked
<1>6. ASSUME NEW ref \in Ref \cup {NoRef}, StopSession(ref)
      PROVE  rt'.recovery /\ rt'.lastId = rt.lastId
  BY <1>1, <1>2, <1>6 DEF StopSession, StopAllowed
<1>7. ASSUME PauseSession \/ ResumeSession  PROVE FALSE
  BY <1>1, <1>7 DEF PauseSession, ResumeSession, PauseResume
<1>8. ASSUME UNCHANGED vars  PROVE rt'.recovery /\ rt'.lastId = rt.lastId
  BY <1>8 DEF vars
<1>9. rt'.recovery /\ rt'.lastId = rt.lastId
  BY <1>3, <1>4, <1>5, <1>6, <1>7, <1>8 DEF Next, Request
<1>. QED
  BY <1>9 DEF IInv, GoodRecord, Coherent

\* A recovery the boot path left unreported keeps the engine stopped until the
\* next restart (workflow_recovery.c:49-55).
THEOREM RecoveryStopsUntilRestart == Spec => PendingRecoveryStopsUntilRestart
<1>1. IInv /\ IInv' /\ [Next]_vars =>
          (phase = "loop" /\ phase' = "loop" /\ rt.recovery
               => rt'.recovery /\ rt'.state = "STOPPED" /\ rt'.active = NoRef)
  BY PendingStays
<1>. QED
  BY <1>1, Invariance, PTL DEF Spec, PendingRecoveryStopsUntilRestart
-----------------------------------------------------------------------------
(* What becomes of a session.                                              *)

\* What a restart reads of a record.
Kept(r) == <<r.active, r.recovery, r.settlement, r.lastId, r.reason>>

\* The parts of the record in which the handlers that do not persist may
\* change it: the state, when it is neither a session's.
LEMMA SettledKeeps ==
    ASSUME IInv, NEW t
    PROVE  /\ SettledRt(t) \in Runtime
           /\ SettledRt(t).state = rt.state /\ SettledRt(t).active = rt.active
           /\ SettledRt(t).recovery = rt.recovery
           /\ SettledRt(t).lastId = rt.lastId /\ SettledRt(t).reason = rt.reason
           /\ SettledRt(t).settlement <=> rt.settlement /\ ~Expired(t)
           /\ ~Expired(t) => SettledRt(t) = rt
BY DEF SettledRt, Runtime, IInv, TypeOK

LEMMA StartBaseKeeps ==
    ASSUME IInv, NEW ref
    PROVE  /\ StartBase(ref) \in Runtime
           /\ Kept(StartBase(ref)) = Kept(SettledRt(now))
           /\ rt.state \in {"RUNNING", "PAUSED"} => StartBase(ref) = SettledRt(now)
<1>1. SettledRt(now) \in Runtime
  BY SettledKeeps
<1>. QED
  BY <1>1 DEF StartBase, Kept, Runtime, WfState
-----------------------------------------------------------------------------
(* Durability.  RecoveryDataDurable is inductive beside IInv. *)

\* A handler that keeps the record as it is but for an expired settlement and
\* the state keeps it durable.
LEMMA SettlingKeepsDurable ==
    ASSUME IInv, RecoveryDataDurable, phase # "off", NEW t \in Clock,
           rt' \in Runtime, Kept(rt') = Kept(SettledRt(t)), SectorBecomes(SettledFlash(t))
    PROVE  RecoveryDataDurable'
<1>1. CASE Expired(t)
  <2>1. (saved' => flash' = SettledRt(t)) /\ SettledRt(t) \in Runtime
    BY <1>1, SettlingIsGood, SettledKeeps
  <2>. QED
    BY <2>1, RecordAssumption DEF RecoveryDataDurable, Kept
<1>2. CASE ~Expired(t)
  <2>1. flash' = flash /\ saved' = saved /\ SettledRt(t) = rt
    BY <1>2, SettlingIsGood, SettledKeeps
  <2>. QED
    BY <2>1 DEF RecoveryDataDurable, Kept
<1>. QED
  BY <1>1, <1>2

LEMMA WritingKeepsDurable ==
    ASSUME rt' \in Runtime, saved' => flash' = rt'
    PROVE  RecoveryDataDurable'
BY RecordAssumption DEF RecoveryDataDurable

LEMMA DurableStep ==
    ASSUME IInv, IInv', RecoveryDataDurable, [Next]_vars
    PROVE  RecoveryDataDurable'
<1>1. /\ rt' \in Runtime /\ rt \in Runtime
      /\ now \in Clock /\ now' \in Clock
      /\ GoodRecord(rt')
  BY DEF IInv, TypeOK, Clock
<1>2. CASE PowerLoss
  BY <1>2 DEF PowerLoss, RecoveryDataDurable
<1>3. CASE BootBlank
  BY <1>3 DEF BootBlank, RecoveryDataDurable, BlankRuntime
<1>4. CASE BootRestore
  BY <1>1, <1>4, SaveIsGood, WritingKeepsDurable DEF BootRestore
<1>5. ASSUME NEW sent \in BOOLEAN, ReportRecovery(sent)
      PROVE  RecoveryDataDurable'
  BY <1>5 DEF ReportRecovery, RecoveryDataDurable, sector
<1>6. CASE MarkRecoveryReported
  BY <1>1, <1>6, SaveIsGood, WritingKeepsDurable DEF MarkRecoveryReported
<1>7. CASE Tick
  BY <1>1, <1>7, SettlingKeepsDurable DEF Tick, FinishSettlementIfExpired
<1>8. CASE Environment
  BY <1>8 DEF Environment, RecoveryDataDurable, sector
<1>9. CASE PollReady
  <2>1. Kept(rt') = Kept(SettledRt(now))
    BY <1>9, SettledKeeps DEF PollReady, Kept, Runtime
  <2>. QED
    BY <1>1, <1>9, <2>1, SettlingKeepsDurable DEF PollReady
<1>10. ASSUME NEW ref \in Ref, StartSession(ref)
       PROVE  RecoveryDataDurable'
  <2>1. CASE StartAllowed(ref)
    BY <1>1, <1>10, <2>1, PersistIsGood, WritingKeepsDurable DEF StartSession
  <2>2. CASE ~StartAllowed(ref)
    BY <1>1, <1>10, <2>2, StartBaseKeeps, SettlingKeepsDurable
       DEF StartSession, FinishSettlementIfExpired
  <2>. QED
    BY <2>1, <2>2
<1>11. ASSUME NEW ref \in Ref \cup {NoRef}, StopSession(ref)
       PROVE  RecoveryDataDurable'
  <2>1. CASE StopAllowed(ref)
    BY <1>1, <1>11, <2>1, PersistIsGood, WritingKeepsDurable DEF StopSession
  <2>2. CASE ~StopAllowed(ref)
    BY <1>1, <1>11, <2>2, SettlingKeepsDurable DEF StopSession, FinishSettlementIfExpired
  <2>. QED
    BY <2>1, <2>2
<1>12. CASE PauseSession \/ ResumeSession
  BY <1>1, <1>12, SaveIsGood, WritingKeepsDurable DEF PauseSession, ResumeSession, PauseResume
<1>13. CASE UNCHANGED vars
  BY <1>13 DEF vars, sector, RecoveryDataDurable
<1>. QED
  BY <1>2, <1>3, <1>4, <1>5, <1>6, <1>7, <1>8, <1>9, <1>10, <1>11, <1>12, <1>13
     DEF Next, Boot, Request
-----------------------------------------------------------------------------
(* The interrupted session.  InterruptedSessionKept needs durability, and  *)
(* that the step "mark" of the boot path follows a report only.            *)

KInv == /\ RecoveryDataDurable
        /\ InterruptedSessionKept
        /\ phase = "mark" => owed = NoRef

\* A session still owed shows in RAM as a pending recovery once the boot path
\* has restored the record.
LEMMA OwedIsPending ==
    ASSUME KInv, phase # "off", owed # NoRef
    PROVE  rt.recovery /\ rt.lastId = owed
BY DEF KInv, InterruptedSessionKept

\* With power on, the pending recovery is enough: a save that succeeded has
\* put it on flash.
OwedPends == owed # NoRef => rt.recovery /\ rt.lastId = owed

LEMMA PendingIsKept ==
    RecoveryDataDurable' /\ phase' # "off" /\ OwedPends' => InterruptedSessionKept'
BY DEF RecoveryDataDurable, InterruptedSessionKept, OwedPends

LEMMA LoopStep ==
    ASSUME Next, phase # "off", phase # "report", phase # "mark", ~PowerLoss
    PROVE  phase = "loop" /\ phase' = "loop" /\ owed' = owed
BY DEF Next, Boot, BootBlank, BootRestore, ReportRecovery, MarkRecoveryReported, Tick,
       Environment, PollReady, Request, StartSession, StopSession, PauseSession,
       ResumeSession, PauseResume

LEMMA BootStep ==
    ASSUME Next, phase \in {"off", "report", "mark"}, ~PowerLoss
    PROVE  Boot
BY DEF Next, Tick, Environment, PollReady, Request, StartSession, StopSession,
       PauseSession, ResumeSession, PauseResume

LEMMA KeptStep ==
    ASSUME IInv, IInv', KInv, [Next]_vars
    PROVE  KInv'
<1>1. RecoveryDataDurable'
  BY DurableStep DEF KInv
<1>2. CASE PowerLoss
  <2>1. /\ phase # "off" /\ phase' = "off" /\ flash' = flash
        /\ owed' = IF ~saved THEN NoRef ELSE IF rt.active # NoRef THEN rt.active ELSE owed
    BY <1>2 DEF PowerLoss
  <2>2. CASE saved /\ rt.active # NoRef
    <3>1. owed' = rt.active /\ flash # NoRecord /\ flash.active = rt.active
      BY <2>1, <2>2 DEF KInv, RecoveryDataDurable
    <3>. QED
      BY <1>1, <2>1, <3>1 DEF KInv, InterruptedSessionKept
  <2>3. CASE saved /\ rt.active = NoRef
    <3>1. owed' = owed
      BY <2>1, <2>3
    <3>2. owed # NoRef => flash # NoRecord /\ flash.recovery /\ flash.lastId = owed
      BY <2>1, <2>3 DEF KInv, InterruptedSessionKept
    <3>3. phase' = "off" /\ flash' = flash
      BY <2>1
    <3>. QED
      BY <1>1, <3>1, <3>2, <3>3 DEF KInv, InterruptedSessionKept
  <2>4. CASE ~saved
    BY <1>1, <2>1, <2>4 DEF KInv, InterruptedSessionKept
  <2>. QED
    BY <2>2, <2>3, <2>4
<1>3. CASE BootBlank
  <2>1. phase = "off" /\ phase' = "report" /\ owed' = NoRef
    BY <1>3 DEF BootBlank, KInv, InterruptedSessionKept
  <2>. QED
    BY <1>1, <2>1 DEF KInv, InterruptedSessionKept
<1>4. CASE BootRestore
  <2>1. GoodRecord(flash) /\ rt' = Promoted(flash) /\ phase' = "report" /\ owed' = owed
    BY <1>4 DEF BootRestore, IInv, GoodFlash
  <2>2. ASSUME owed # NoRef  PROVE rt'.recovery /\ rt'.lastId = owed
    <3>1. CASE flash.active = owed
      BY <2>1, <2>2, <3>1 DEF Promoted, Captured, GoodRecord, Runtime
    <3>2. CASE flash.recovery /\ flash.lastId = owed
      BY <2>1, <2>2, <3>2 DEF Promoted, GoodRecord, Coherent
    <3>. QED
      BY <1>4, <2>2, <3>1, <3>2 DEF KInv, InterruptedSessionKept, BootRestore
  <2>3. OwedPends'
    BY <2>1, <2>2 DEF OwedPends
  <2>. QED
    BY <1>1, <2>1, <2>3, PendingIsKept DEF KInv
<1>5. ASSUME NEW sent \in BOOLEAN, ReportRecovery(sent)
      PROVE  KInv'
  <2>1. /\ phase = "report" /\ phase' \in {"mark", "loop"} /\ rt' = rt
        /\ \/ owed' = NoRef
           \/ phase' = "loop" /\ owed' = owed
    BY <1>5 DEF ReportRecovery
  <2>2. owed # NoRef => rt.recovery /\ rt.lastId = owed
    BY <2>1, OwedIsPending
  <2>. QED
    BY <1>1, <2>1, <2>2, PendingIsKept DEF KInv, OwedPends
<1>6. CASE MarkRecoveryReported
  <2>1. phase' = "loop" /\ owed' = NoRef
    BY <1>6 DEF MarkRecoveryReported, KInv
  <2>. QED
    BY <1>1, <2>1, PendingIsKept DEF KInv, OwedPends
<1>7. ASSUME phase = "loop", phase' = "loop", owed' = owed
      PROVE  KInv'
  <2>1. owed # NoRef => rt.recovery /\ rt.lastId = owed
    BY <1>7, OwedIsPending
  <2>2. owed # NoRef => rt'.recovery /\ rt'.lastId = owed
    BY <1>7, <2>1, PendingStays
  <2>. QED
    BY <1>1, <1>7, <2>2, PendingIsKept DEF KInv, OwedPends
<1>8. CASE UNCHANGED vars
  BY <1>1, <1>8 DEF vars, sector, KInv, InterruptedSessionKept
<1>. QED
  BY <1>2, <1>3, <1>4, <1>5, <1>6, <1>7, <1>8, LoopStep, BootStep
     DEF Boot, IInv, TypeOK

LEMMA InitIsKept == Init => KInv
BY DEF Init, BlankRuntime, KInv, RecoveryDataDurable, InterruptedSessionKept

LEMMA KeptInvariance == Spec => []KInv
<1>1. IInv /\ IInv' /\ KInv /\ [Next]_vars => KInv'
  BY KeptStep
<1>. QED
  BY <1>1, InitIsKept, Invariance, PTL DEF Spec

\* Whatever a restart needs is on flash when the handler that changed it
\* returns, unless the last save failed: for every sector, every clock and
\* every set of references (the workflow_persist calls of workflow_engine.c,
\* storage_runtime.c:131-143).
THEOREM Durability == Spec => []RecoveryDataDurable
<1>1. KInv => RecoveryDataDurable
  BY DEF KInv
<1>. QED
  BY <1>1, KeptInvariance, PTL

\* However the sector behaves, no number of power losses makes the controller
\* forget an interrupted session that was on flash before it was reported, as
\* long as no power loss follows a failed save and the record is read
\* (workflow_engine.c:77-117, storage_runtime.c:71-83,96-109).
THEOREM InterruptedNotForgotten == Spec => []InterruptedSessionKept
<1>1. KInv => InterruptedSessionKept
  BY DEF KInv
<1>. QED
  BY <1>1, KeptInvariance, PTL
-----------------------------------------------------------------------------
(* The settlement.  While less than StopGuard ticks have passed since the  *)
(* last end, the deadline is at least that far ahead; and a settlement the *)
(* controller still carries beyond its deadline, which happens when the    *)
(* deadline is the reserved value 0, was opened at this very clock value.  *)

LEMMA CaptureRemains ==
    ASSUME NEW t \in Clock
    PROVE  /\ (((t + StopGuard) % TimeMod) - t) % TimeMod = StopGuard
           /\ t = 0 => (t + StopGuard) % TimeMod # 0
<1>1. \A x \in Clock : x % TimeMod = x
  BY TimeAssumption DEF Clock
<1>2. \A x \in Clock : (x + TimeMod) % TimeMod = x /\ (x - TimeMod) % TimeMod = x
  BY TimeAssumption DEF Clock
<1>3. CASE t + StopGuard < TimeMod
  BY <1>1, <1>3, TimeAssumption DEF Clock
<1>4. CASE t + StopGuard >= TimeMod
  <2>1. (t + StopGuard) % TimeMod = t + StopGuard - TimeMod
    <3>1. t + StopGuard - TimeMod \in Clock
      BY <1>4, TimeAssumption DEF Clock
    <3>2. (t + StopGuard - TimeMod) + TimeMod = t + StopGuard
      BY TimeAssumption DEF Clock
    <3>. QED
      BY <1>2, <3>1, <3>2
  <2>2. StopGuard \in Clock /\ t + StopGuard - TimeMod - t = StopGuard - TimeMod
    BY TimeAssumption DEF Clock
  <2>. QED
    BY <1>2, <1>4, <2>1, <2>2, TimeAssumption DEF Clock
<1>. QED
  BY <1>3, <1>4, TimeAssumption DEF Clock

LEMMA TickRemains ==
    ASSUME NEW g \in Clock, NEW n \in Clock, (g - n) % TimeMod >= 1
    PROVE  (g - ((n + 1) % TimeMod)) % TimeMod = ((g - n) % TimeMod) - 1
<1>1. \A x \in Clock : x % TimeMod = x
  BY TimeAssumption DEF Clock
<1>2. \A x \in Clock : (x - TimeMod) % TimeMod = x
  BY TimeAssumption DEF Clock
<1>3. TimeMod % TimeMod = 0
  BY TimeAssumption
<1>. QED
  BY <1>1, <1>2, <1>3, TimeAssumption DEF Clock

LEMMA RemainsActive ==
    ASSUME NEW g \in Clock, NEW n \in Clock, g # 0,
           NEW d \in 1 .. StopGuard, (g - n) % TimeMod = d
    PROVE  DeadlineActive(g, n)
BY TimeAssumption DEF DeadlineActive

Remaining == (guardUntil - now) % TimeMod

Unsettled == lastStop.age < StopGuard /\ ~lastStop.edge

SInv == /\ Unsettled /\ phase = "off" =>
               flash # NoRecord /\ (flash.settlement \/ flash.active # NoRef)
        /\ Unsettled /\ phase # "off" =>
               /\ rt.settlement /\ guardUntil # 0
               /\ Remaining >= StopGuard - lastStop.age /\ Remaining <= StopGuard
        /\ Expired(now) => lastAction = now /\ now # 0
        /\ phase = "off" => now = 0

LEMMA SettleTypes ==
    ASSUME IInv
    PROVE  /\ guardUntil \in Clock /\ now \in Clock
           /\ lastStop.age \in 0 .. StopGuard /\ lastStop.edge \in BOOLEAN
           /\ rt \in Runtime
           /\ Remaining \in Int
BY ClockRange, TimeAssumption DEF IInv, TypeOK, Clock, Remaining

LEMMA UnsettledIsActive ==
    ASSUME IInv, SInv, Unsettled, phase # "off"
    PROVE  rt.settlement /\ ~Expired(now)
<1>1. Remaining \in 1 .. StopGuard
  BY SettleTypes, TimeAssumption DEF SInv, Unsettled
<1>. QED
  BY <1>1, SettleTypes, RemainsActive DEF SInv, Remaining, Expired

\* A step that leaves the clock and the last end alone and may finish the
\* settlement if it has expired.
LEMMA SettlingKeeps ==
    ASSUME IInv, SInv, phase # "off", phase' # "off", now' = now, lastStop' = lastStop,
           rt'.settlement <=> SettledRt(now).settlement, guardUntil' = SettledUntil(now)
    PROVE  SInv'
<1>1. rt'.settlement <=> rt.settlement /\ ~Expired(now)
  BY SettledKeeps
<1>2. ~Expired(now) => guardUntil' = guardUntil
  BY DEF SettledUntil
<1>3. ~Expired(now)'
  BY <1>1, <1>2 DEF Expired
<1>4. Unsettled' => rt'.settlement /\ guardUntil' = guardUntil /\ Unsettled
  BY <1>1, <1>2, UnsettledIsActive DEF Unsettled
<1>. QED
  BY <1>3, <1>4 DEF SInv, Remaining

\* A step that leaves clock, settlement and deadline alone.
LEMMA IdleKeeps ==
    ASSUME SInv, phase # "off", phase' # "off",
           UNCHANGED <<now, lastAction, guardUntil, lastStop>>,
           rt'.settlement <=> rt.settlement
    PROVE  SInv'
BY DEF SInv, Remaining, Unsettled, Expired

\* The session has ended at time t.
LEMMA CaptureKeeps ==
    ASSUME NEW t \in Clock, CaptureAt(t), now' = t, rt'.settlement, phase' # "off",
           lastAction' = t \/ t = 0
    PROVE  SInv'
<1>1. /\ guardUntil' = (t + StopGuard) % TimeMod
      /\ lastStop' = [age |-> 0, edge |-> guardUntil' = 0]
  BY DEF CaptureAt
<1>2. guardUntil' \in Clock
  BY CaptureAtRange
<1>3. (guardUntil' - now') % TimeMod = StopGuard /\ (t = 0 => guardUntil' # 0)
  BY <1>1, CaptureRemains
<1>4. guardUntil' # 0 => DeadlineActive(guardUntil', now')
  BY <1>2, <1>3, RemainsActive, TimeAssumption
<1>5. Expired(now)' => lastAction' = now' /\ now' # 0
  BY <1>3, <1>4 DEF Expired
<1>6. Unsettled' => guardUntil' # 0
  BY <1>1 DEF Unsettled
<1>. QED
  BY <1>1, <1>3, <1>5, <1>6, TimeAssumption DEF SInv, Remaining

LEMMA SettleStep ==
    ASSUME IInv, IInv', RecoveryDataDurable, SInv, [Next]_vars
    PROVE  SInv'
<1>0. now \in Clock /\ rt \in Runtime /\ rt' \in Runtime
  BY DEF IInv, TypeOK, Clock
<1>1. CASE PowerLoss
  <2>1. /\ phase' = "off" /\ now' = 0 /\ ~rt'.settlement
        /\ flash' = flash /\ phase # "off"
        /\ lastStop' = IF saved THEN lastStop ELSE LongAgo
    BY <1>1 DEF PowerLoss, BlankRuntime
  <2>2. Unsettled' => flash' # NoRecord /\ flash'.settlement
    <3>1. ASSUME Unsettled'  PROVE saved /\ lastStop' = lastStop
      BY <2>1, <3>1, TimeAssumption DEF Unsettled, LongAgo
    <3>. QED
      BY <2>1, <3>1 DEF Unsettled, SInv, RecoveryDataDurable
  <2>. QED
    BY <2>1, <2>2 DEF SInv, Expired
<1>2. CASE BootBlank
  <2>1. /\ phase = "off" /\ phase' = "report" /\ ~rt'.settlement
        /\ lastStop' = IF flash = NoRecord THEN lastStop ELSE LongAgo
    BY <1>2 DEF BootBlank, BlankRuntime
  <2>2. ~Unsettled'
    BY <2>1, TimeAssumption DEF SInv, Unsettled, LongAgo
  <2>. QED
    BY <2>1, <2>2 DEF SInv, Expired
<1>3. CASE BootRestore
  <2>1. GoodRecord(flash) /\ rt' = Promoted(flash) /\ phase' = "report" /\ now = 0 /\ now' = 0
    BY <1>3 DEF BootRestore, IInv, GoodFlash, SInv
  <2>2. CASE flash.active # NoRef
    <3>1. rt'.settlement
      BY <2>1, <2>2 DEF Promoted, Captured, GoodRecord, Runtime
    <3>. QED
      BY <1>0, <1>3, <2>1, <2>2, <3>1, CaptureKeeps DEF BootRestore
  <2>3. CASE flash.active = NoRef
    <3>1. /\ rt' = flash /\ lastStop' = lastStop
          /\ guardUntil' = IF flash.settlement THEN StopGuard ELSE 0
      BY <1>3, <2>1, <2>3 DEF BootRestore, Promoted
    <3>2. rt'.settlement => (guardUntil' - now') % TimeMod = StopGuard /\ guardUntil' # 0
      BY <2>1, <3>1, TimeAssumption
    <3>3. rt'.settlement => DeadlineActive(guardUntil', now')
      BY <2>1, <3>1, <3>2, RemainsActive, ClockConstants, TimeAssumption DEF Clock
    <3>4. Unsettled' => rt'.settlement /\ Unsettled
      BY <1>3, <2>3, <3>1 DEF Unsettled, SInv, BootRestore
    <3>. QED
      BY <2>1, <3>1, <3>2, <3>3, <3>4, SettleTypes, TimeAssumption
         DEF SInv, Remaining, Expired
  <2>. QED
    BY <2>2, <2>3
<1>4. ASSUME NEW sent \in BOOLEAN, ReportRecovery(sent)
      PROVE  SInv'
  BY <1>4, IdleKeeps DEF ReportRecovery, clocks
<1>5. CASE MarkRecoveryReported
  <2>1. rt'.settlement <=> rt.settlement
    BY <1>0, <1>5 DEF MarkRecoveryReported, Runtime
  <2>. QED
    BY <1>5, <2>1, IdleKeeps DEF MarkRecoveryReported, clocks
<1>6. CASE Tick
  <2>1. /\ phase = "loop" /\ phase' = "loop" /\ now' = (now + 1) % TimeMod
        /\ rt' = SettledRt(now') /\ guardUntil' = SettledUntil(now')
        /\ lastStop' = [lastStop EXCEPT !.age = IF @ < StopGuard THEN @ + 1 ELSE @]
    BY <1>6 DEF Tick, FinishSettlementIfExpired
  <2>2. rt'.settlement <=> rt.settlement /\ ~Expired(now')
    BY <2>1, SettledKeeps
  <2>3. ~Expired(now)'
    BY <2>1, <2>2 DEF Expired, SettledUntil
  <2>4. ASSUME Unsettled'
        PROVE  /\ rt'.settlement /\ guardUntil' # 0
               /\ Remaining' >= StopGuard - lastStop'.age /\ Remaining' <= StopGuard
    <3>1. Unsettled /\ lastStop'.age = lastStop.age + 1 /\ lastStop'.age < StopGuard
      BY <2>1, <2>4, TimeAssumption DEF Unsettled, IInv, TypeOK
    <3>2. /\ rt.settlement /\ guardUntil # 0
          /\ Remaining >= StopGuard - lastStop.age /\ Remaining <= StopGuard
      BY <2>1, <3>1 DEF SInv
    <3>3. (guardUntil - now') % TimeMod = Remaining - 1
      BY <2>1, <3>1, <3>2, SettleTypes, TickRemains, TimeAssumption DEF Remaining
    <3>4. DeadlineActive(guardUntil, now')
      <4>1. now' \in Clock /\ guardUntil \in Clock
        BY DEF IInv, TypeOK, Clock
      <4>2. Remaining - 1 \in 1 .. StopGuard
        BY <3>1, <3>2, SettleTypes, TimeAssumption
      <4>. QED
        BY <3>2, <3>3, <4>1, <4>2, RemainsActive
    <3>5. ~Expired(now') /\ guardUntil' = guardUntil
      BY <2>1, <3>4 DEF Expired, SettledUntil
    <3>. QED
      BY <2>2, <3>1, <3>2, <3>3, <3>5, SettleTypes, TimeAssumption DEF Remaining
  <2>. QED
    BY <2>1, <2>3, <2>4 DEF SInv
<1>7. CASE Environment
  BY <1>7, IdleKeeps DEF Environment, clocks
<1>8. CASE PollReady
  <2>1. rt'.settlement <=> SettledRt(now).settlement
    BY <1>8, SettledKeeps DEF PollReady, Runtime
  <2>. QED
    BY <1>8, <2>1, SettlingKeeps DEF PollReady
<1>9. ASSUME NEW ref \in Ref, StartSession(ref)
      PROVE  SInv'
  <2>1. StartBase(ref).settlement = SettledRt(now).settlement /\ StartBase(ref) \in Runtime
    BY StartBaseKeeps DEF Kept
  <2>2. rt'.settlement <=> SettledRt(now).settlement
    BY <1>9, <2>1 DEF StartSession, Runtime
  <2>3. guardUntil' = SettledUntil(now)
    BY <1>9 DEF StartSession, FinishSettlementIfExpired
  <2>. QED
    BY <1>9, <2>2, <2>3, SettlingKeeps DEF StartSession
<1>10. ASSUME NEW ref \in Ref \cup {NoRef}, StopSession(ref)
       PROVE  SInv'
  <2>1. CASE StopAllowed(ref)
    <3>1. rt'.settlement
      BY <1>10, <2>1, SettledKeeps DEF StopSession, Captured, Runtime
    <3>. QED
      BY <1>0, <1>10, <2>1, <3>1, CaptureKeeps DEF StopSession
  <2>2. CASE ~StopAllowed(ref)
    BY <1>10, <2>2, SettlingKeeps DEF StopSession, FinishSettlementIfExpired
  <2>. QED
    BY <2>1, <2>2
<1>11. CASE PauseSession \/ ResumeSession
  <2>1. ~rt.settlement /\ ~rt'.settlement
    BY <1>0, <1>11 DEF PauseSession, ResumeSession, PauseResume, IInv, GoodRecord, Coherent, Runtime
  <2>2. phase = "loop" /\ phase' = "loop" /\ lastStop' = lastStop
    BY <1>11 DEF PauseSession, ResumeSession, PauseResume
  <2>3. ~Unsettled /\ ~Unsettled'
    BY <2>1, <2>2 DEF SInv, Unsettled
  <2>4. ~Expired(now)'
    BY <2>1 DEF Expired
  <2>. QED
    BY <2>2, <2>3, <2>4 DEF SInv
<1>12. CASE UNCHANGED vars
  BY <1>12 DEF vars, clocks, sector, SInv, Unsettled, Remaining, Expired
<1>. QED
  BY <1>1, <1>2, <1>3, <1>4, <1>5, <1>6, <1>7, <1>8, <1>9, <1>10, <1>11, <1>12
     DEF Next, Boot, Request

LEMMA InitIsSettled == Init => SInv
BY TimeAssumption DEF Init, LongAgo, BlankRuntime, SInv, Unsettled, Expired

LEMMA SettleInvariance == Spec => []SInv
<1>1. IInv /\ IInv' /\ KInv /\ SInv /\ [Next]_vars => SInv'
  BY SettleStep DEF KInv
<1>. QED
  BY <1>1, InitIsSettled, Invariance, KeptInvariance, PTL DEF Spec

LEMMA BeginStep ==
    ASSUME IInv, [Next]_vars, rt.active = NoRef, rt'.active # NoRef
    PROVE  \E ref \in Ref : StartSession(ref) /\ StartAllowed(ref)
<1>1. ~PowerLoss /\ ~UNCHANGED vars
  BY DEF PowerLoss, BlankRuntime, vars
<1>2. ~Boot /\ ~Tick /\ ~Environment /\ ~PollReady /\ ~PauseSession /\ ~ResumeSession
  BY TickEffect, IdleEffect, PauseResumeEffect
<1>3. ASSUME NEW ref \in Ref \cup {NoRef}, StopSession(ref)
      PROVE  FALSE
  BY <1>3, StopEffect
<1>4. PICK ref \in Ref : StartSession(ref)
  BY <1>1, <1>2, <1>3 DEF Next, Request
<1>. QED
  BY <1>4, StartEffect

\* When a begin is allowed, the last session is accounted for.
LEMMA AllowedIsAccounted ==
    ASSUME IInv, KInv, SInv, phase # "off", NEW ref, StartAllowed(ref)
    PROVE  ~Unsettled /\ owed = NoRef
<1>1. ~rt.recovery /\ ~SettledRt(now).settlement
  BY DEF StartAllowed, StartBlocked
<1>2. ~Unsettled
  BY <1>1, UnsettledIsActive, SettledKeeps
<1>3. owed = NoRef
  BY <1>1, OwedIsPending
<1>. QED
  BY <1>2, <1>3

\* No session begins before the last one has been settled for StopGuard ticks
\* and, if it was interrupted, reported, across turns of the counter and all
\* restarts but those that lost the record to a failed save or read
\* (workflow_engine.c:52,62-75,160-161,201).
THEOREM NoneBeginsEarly == Spec => AccountedBeforeRestart
<1>1. ASSUME IInv, KInv, SInv, [Next]_vars, rt.active = NoRef, rt'.active # NoRef
      PROVE  (lastStop.age = StopGuard \/ lastStop.edge) /\ owed = NoRef
  <2>1. PICK ref \in Ref : StartSession(ref) /\ StartAllowed(ref)
    BY <1>1, BeginStep
  <2>2. ~Unsettled /\ owed = NoRef
    BY <1>1, <2>1, AllowedIsAccounted DEF StartSession
  <2>. QED
    BY <1>1, <2>2, SettleTypes, TimeAssumption DEF Unsettled
<1>2. IInv /\ KInv /\ SInv /\ [Next]_vars =>
          (rt.active = NoRef /\ rt'.active # NoRef
               => (lastStop.age = StopGuard \/ lastStop.edge) /\ owed = NoRef)
  BY <1>1
<1>. QED
  BY <1>2, Invariance, KeptInvariance, SettleInvariance, PTL
     DEF Spec, AccountedBeforeRestart
-----------------------------------------------------------------------------
(* The refinement.  The mapping is that of WorkflowEngine: Mode, rt.active,*)
(* owed and Settling.  One lemma says what they are, one shows the steps   *)
(* that only settle, and the proof goes through the actions.               *)

MapFacts ==
    /\ Mode = "none" <=> rt.active = NoRef
    /\ rt.active # NoRef => ~Settling
    /\ Mode = "running" <=> rt.state = "RUNNING"
    /\ Mode = "paused" <=> rt.state = "PAUSED"
    /\ Mode \in {"none", "running", "paused"}
    /\ Settling \in BOOLEAN
    /\ phase # "off" => Settling = rt.settlement
    /\ phase = "off" => (Settling <=> flash # NoRecord
                                        /\ (flash.settlement \/ flash.active # NoRef))

LEMMA StateMapped == IInv => MapFacts
<1>. SUFFICES ASSUME IInv
              PROVE  MapFacts
  OBVIOUS
<1>1. /\ Mode = "none" <=> rt.active = NoRef
      /\ Mode = "running" <=> rt.state = "RUNNING"
      /\ Mode = "paused" <=> rt.state = "PAUSED"
      /\ Mode \in {"none", "running", "paused"}
  BY DEF Mode, IInv, GoodRecord, Coherent
<1>2. rt.settlement \in BOOLEAN
  BY DEF IInv, TypeOK, Runtime
<1>3. phase = "off" => rt.active = NoRef
  BY DEF IInv, GuardFits, BlankGuard
<1>4. rt.active # NoRef => ~Settling
  BY <1>3 DEF Settling, IInv, GoodRecord, Coherent
<1>. QED
  BY <1>1, <1>2, <1>4 DEF Settling, MapFacts

\* The facts hold before and after a step.
LEMMA MappedState ==
    /\ IInv => MapFacts
    /\ IInv' => MapFacts'
BY StateMapped, PTL

\* A step that neither begins nor ends a session nor reports one.
LEMMA QuietRefines ==
    ASSUME IInv, IInv', UNCHANGED <<Mode, rt.active, owed>>, Settling' => Settling
    PROVE  [Lifecycle!Next]_(Lifecycle!vars)
BY MappedState DEF MapFacts, Lifecycle!Next, Lifecycle!vars, Lifecycle!Settle

\* Such a step of the superloop.
LEMMA LoopRefines ==
    ASSUME IInv, IInv', phase # "off", phase' # "off", owed' = owed, rt'.active = rt.active,
           rt.active # NoRef => rt'.state = rt.state,
           rt'.settlement => rt.settlement
    PROVE  [Lifecycle!Next]_(Lifecycle!vars)
BY MappedState, QuietRefines DEF MapFacts

LEMMA RefinementStep ==
    ASSUME Debounce # 0, IInv, IInv', KInv, KInv', SInv, [Next]_vars
    PROVE  [Lifecycle!Next]_(Lifecycle!vars)
<1>1. CASE PowerLoss
  <2>1. /\ phase # "off" /\ phase' = "off" /\ flash' = flash /\ rt'.active = NoRef
        /\ owed' = IF ~saved THEN NoRef ELSE IF rt.active # NoRef THEN rt.active ELSE owed
    BY <1>1 DEF PowerLoss, BlankRuntime
  <2>2. CASE saved /\ rt.active # NoRef
    <3>1. Mode # "none" /\ Mode' = "none" /\ owed' = rt.active /\ Settling' = TRUE
      BY <2>1, <2>2, MappedState DEF MapFacts, KInv, RecoveryDataDurable
    <3>. QED
      BY <2>1, <2>2, <3>1 DEF Lifecycle!Next, Lifecycle!Interrupt
  <2>3. CASE saved /\ rt.active = NoRef
    <3>1. Settling' => Settling
      BY <2>1, <2>3, MappedState DEF MapFacts, KInv, RecoveryDataDurable
    <3>2. UNCHANGED <<Mode, rt.active, owed>>
      BY <2>1, <2>3, MappedState DEF MapFacts
    <3>. QED
      BY <3>1, <3>2, QuietRefines
  <2>4. CASE ~saved
    <3>1. Mode' = "none" /\ owed' = NoRef /\ Settling' \in BOOLEAN
      BY <2>1, <2>4, MappedState DEF MapFacts
    <3>. QED
      BY <2>1, <2>4, <3>1 DEF Lifecycle!Next, Lifecycle!Forget
  <2>. QED
    BY <2>2, <2>3, <2>4
<1>2. CASE BootBlank
  <2>1. phase = "off" /\ phase' = "report" /\ ~rt'.settlement /\ rt'.active = NoRef
    BY <1>2 DEF BootBlank, BlankRuntime
  <2>2. CASE flash = NoRecord
    <3>1. owed' = owed /\ rt.active = NoRef
      BY <1>2, <2>1, <2>2 DEF BootBlank, IInv, GuardFits, BlankGuard
    <3>. QED
      BY <2>1, <3>1, MappedState, QuietRefines DEF MapFacts
  <2>3. CASE flash # NoRecord
    <3>1. saved' = FALSE /\ owed' = NoRef
      BY <1>2, <2>3 DEF BootBlank
    <3>2. Mode' = "none" /\ Settling' \in BOOLEAN
      BY <2>1, MappedState DEF MapFacts
    <3>. QED
      BY <2>1, <3>1, <3>2 DEF Lifecycle!Next, Lifecycle!Forget
  <2>. QED
    BY <2>2, <2>3
<1>12. CASE BootRestore
  <2>1. phase = "off" /\ phase' = "report" /\ rt'.active = rt.active /\ owed' = owed
    BY <1>12, IdleEffect DEF BootRestore, Boot
  <2>2. rt'.settlement => Settling
    BY <2>1, <1>12, MappedState DEF MapFacts, BootRestore, Promoted
  <2>3. rt.active = NoRef
    BY <2>1 DEF IInv, GuardFits, BlankGuard
  <2>. QED
    BY <2>1, <2>2, <2>3, MappedState, QuietRefines DEF MapFacts
<1>3. ASSUME NEW sent \in BOOLEAN, ReportRecovery(sent)
      PROVE  [Lifecycle!Next]_(Lifecycle!vars)
  <2>1. rt' = rt /\ phase # "off" /\ phase' # "off" /\ (owed' = owed \/ owed' = NoRef)
    BY <1>3 DEF ReportRecovery
  <2>2. CASE owed' = owed
    BY <2>1, <2>2, LoopRefines
  <2>3. CASE owed # NoRef /\ owed' = NoRef
    <3>1. UNCHANGED <<Mode, rt.active, Settling>>
      BY <2>1, MappedState DEF MapFacts, Mode
    <3>. QED
      BY <2>3, <3>1 DEF Lifecycle!Next, Lifecycle!Report
  <2>. QED
    BY <2>1, <2>2, <2>3
<1>4. CASE MarkRecoveryReported
  BY <1>4, LoopRefines DEF MarkRecoveryReported, IInv, TypeOK, Runtime
<1>5. CASE Tick
  BY <1>5, SettledKeeps, LoopRefines DEF Tick
<1>6. CASE Environment
  BY <1>6, LoopRefines DEF Environment
<1>7. CASE PollReady
  <2>1. /\ rt'.active = rt.active /\ (rt'.settlement => rt.settlement)
        /\ rt.state \in {"RUNNING", "PAUSED"} => rt'.state = rt.state
    BY <1>7, SettledKeeps DEF PollReady, Runtime
  <2>. QED
    BY <1>7, <2>1, LoopRefines DEF PollReady, IInv, GoodRecord, Coherent
<1>8. ASSUME NEW ref \in Ref, StartSession(ref)
      PROVE  [Lifecycle!Next]_(Lifecycle!vars)
  <2>0. /\ StartBase(ref) \in Runtime
        /\ StartBase(ref).active = rt.active
        /\ StartBase(ref).settlement = SettledRt(now).settlement
        /\ rt.state \in {"RUNNING", "PAUSED"} => StartBase(ref).state = rt.state
    BY StartBaseKeeps, SettledKeeps DEF Kept
  <2>1. CASE StartAllowed(ref)
    <3>1. /\ rt.active = NoRef /\ rt'.active = ref /\ rt'.state = "RUNNING"
          /\ owed' = owed /\ phase # "off" /\ phase' # "off" /\ ~Debounced
          /\ rt'.settlement = SettledRt(now).settlement
      BY <1>8, <2>0, <2>1 DEF StartSession, StartAllowed, Runtime
    <3>2. owed = NoRef /\ ~SettledRt(now).settlement
      BY <2>1, <3>1, AllowedIsAccounted DEF StartAllowed, StartBlocked
    <3>3. ~rt.settlement
      <4>1. ASSUME Expired(now)  PROVE FALSE
        <5>1. lastAction = now /\ now # 0 /\ now - now = 0
          BY <4>1, SettleTypes DEF SInv, Clock
        <5>2. (now - lastAction) % TimeMod = 0
          BY <5>1, TimeAssumption
        <5>. QED
          BY <3>1, <5>1, <5>2, TimeAssumption DEF Debounced
      <4>. QED
        BY <3>2, <4>1, SettledKeeps
    <3>4. Mode = "none" /\ Mode' = "running" /\ Settling = FALSE /\ Settling' = FALSE
      BY <3>1, <3>2, <3>3, MappedState DEF MapFacts
    <3>. QED
      BY <3>1, <3>2, <3>4 DEF Lifecycle!Next, Lifecycle!Begin
  <2>2. CASE ~StartAllowed(ref)
    <3>1. rt' = StartBase(ref) /\ owed' = owed /\ phase # "off" /\ phase' # "off"
      BY <1>8, <2>2 DEF StartSession
    <3>2. rt.active # NoRef => rt.state \in {"RUNNING", "PAUSED"}
      BY DEF IInv, GoodRecord, Coherent
    <3>. QED
      BY <2>0, <3>1, <3>2, SettledKeeps, LoopRefines
  <2>. QED
    BY <2>1, <2>2
<1>9. ASSUME NEW ref \in Ref \cup {NoRef}, StopSession(ref)
      PROVE  [Lifecycle!Next]_(Lifecycle!vars)
  <2>1. phase # "off" /\ phase' # "off" /\ owed' = owed
    BY <1>9 DEF StopSession
  <2>2. CASE StopAllowed(ref)
    <3>1. rt.active # NoRef
      BY <2>2 DEF StopAllowed, IInv, GoodRecord, Coherent
    <3>2. rt'.active = NoRef /\ rt'.settlement
      BY <1>9, <2>2, SettledKeeps DEF StopSession, Captured, Runtime
    <3>3. Mode # "none" /\ Mode' = "none" /\ Settling' = TRUE
      BY <2>1, <3>1, <3>2, MappedState DEF MapFacts
    <3>. QED
      BY <2>1, <3>2, <3>3 DEF Lifecycle!Next, Lifecycle!End
  <2>3. CASE ~StopAllowed(ref)
    BY <1>9, <2>1, <2>3, SettledKeeps, LoopRefines DEF StopSession
  <2>. QED
    BY <2>2, <2>3
<1>10. CASE PauseSession \/ ResumeSession
  <2>1. /\ phase # "off" /\ phase' # "off" /\ owed' = owed
        /\ rt'.active = rt.active /\ rt'.settlement = rt.settlement
        /\ \/ rt.state = "RUNNING" /\ rt'.state = "PAUSED"
           \/ rt.state = "PAUSED" /\ rt'.state = "RUNNING"
    BY <1>10 DEF PauseSession, ResumeSession, PauseResume, IInv, TypeOK, Runtime
  <2>2. /\ Settling' = Settling
        /\ \/ Mode = "running" /\ Mode' = "paused"
           \/ Mode = "paused" /\ Mode' = "running"
    BY <2>1, MappedState DEF MapFacts
  <2>. QED
    BY <2>1, <2>2 DEF Lifecycle!Next, Lifecycle!Pause, Lifecycle!Resume
<1>11. CASE UNCHANGED vars
  BY <1>11 DEF vars, sector, Lifecycle!vars, Mode, Settling
<1>. QED
  BY <1>1, <1>2, <1>3, <1>4, <1>5, <1>6, <1>7, <1>8, <1>9, <1>10, <1>11, <1>12
     DEF Next, Boot, Request

\* Over any sector, and with any debounce at all, the engine implements the
\* lifecycle the platform sees: one session at a time, each settled and, if
\* interrupted, reported before the next, through any number of power losses,
\* and forgotten only where the sector failed (workflow_engine.c as a whole).
THEOREM EngineImplementsLifecycle ==
    ASSUME Debounce # 0
    PROVE  Spec => ImplementsLifecycle
<1>1. Init => Lifecycle!Init
  BY DEF Init, BlankRuntime, Lifecycle!Init, Mode, Settling
<1>2. IInv /\ IInv' /\ KInv /\ KInv' /\ SInv /\ [Next]_vars
          => [Lifecycle!Next]_(Lifecycle!vars)
  BY RefinementStep
<1>. QED
  BY <1>1, <1>2, Invariance, KeptInvariance, SettleInvariance, PTL
     DEF Spec, ImplementsLifecycle, Lifecycle!Spec
-----------------------------------------------------------------------------
(* WorkflowControl. *)

\* One tick later the last action is at most one tick longer ago.
LEMMA TickAges ==
    ASSUME NEW n \in Clock, NEW a \in Clock
    PROVE  (((n + 1) % TimeMod) - a) % TimeMod <= ((n - a) % TimeMod) + 1
<1>1. \A x \in Clock : x % TimeMod = x
  BY TimeAssumption DEF Clock
<1>2. \A x \in Clock : (x - TimeMod) % TimeMod = x
  BY TimeAssumption DEF Clock
<1>3. TimeMod % TimeMod = 0
  BY TimeAssumption
<1>. QED
  BY <1>1, <1>2, <1>3, TimeAssumption DEF Clock
-----------------------------------------------------------------------------
(* The engine inside the composition. *)

\* Every step of the composition is a step of the engine or leaves it alone.
LEMMA ControlStepsEngine ==
    ASSUME IInv, [ControlNext]_allVars
    PROVE  [Next]_vars
<1>1. CASE ControlPowerLoss \/ ControlTick \/ ControlIdle
  BY <1>1 DEF ControlPowerLoss, ControlTick, ControlIdle, Next
<1>2. CASE \E ref \in Ref : PlatformStart(ref)
  BY <1>2 DEF PlatformStart, Next, Request
<1>3. CASE \E ref \in Ref \cup {NoRef} : PlatformStop(ref)
  BY <1>3 DEF PlatformStop, Next, Request
<1>4. CASE PlatformPause \/ PlatformResume
  BY <1>4 DEF PlatformPause, PlatformResume, Next, Request
<1>5. CASE \E cmd \in ModuleCommands : ModuleCommand(cmd)
  BY <1>5 DEF ModuleCommand
<1>6. ASSUME NEW t \in Tokens, SubmitToken(t)
      PROVE  [Next]_vars
  <2>1. CASE TokenStarts(t)
    BY <2>1 DEF TokenStarts, Ref, Next, Request
  <2>2. CASE TokenStops(t)
    BY <2>2 DEF TokenStops, Next, Request, IInv, TypeOK, Runtime
  <2>3. CASE TokenRefused(t)
    BY <2>3 DEF TokenRefused
  <2>. QED
    BY <1>6, <2>1, <2>2, <2>3 DEF SubmitToken
<1>7. CASE UNCHANGED allVars
  BY <1>7 DEF allVars
<1>. QED
  BY <1>1, <1>2, <1>3, <1>4, <1>5, <1>6, <1>7 DEF ControlNext

LEMMA EngineInvariance == ControlSpec => []IInv
<1>1. ControlInit => IInv
  BY InitIsGood DEF ControlInit
<1>2. IInv /\ [ControlNext]_allVars => IInv'
  BY ControlStepsEngine, StepKeeps
<1>. QED
  BY <1>1, <1>2, PTL DEF ControlSpec
-----------------------------------------------------------------------------
(* The invariant of the composition.                                       *)
(*                                                                         *)
(* That a held card cannot toggle rests on the debounce of the engine: for *)
(* as long as a session is young, its begin is the last action, and not    *)
(* longer ago than the session is old.                                     *)

YoungIsDebounced ==
    rt.active # NoRef /\ begun.age < Debounce /\ ~begun.edge
        => lastAction # 0 /\ (now - lastAction) % TimeMod <= begun.age

CInv == /\ ControlTypeOK
        /\ TokenBelongsToSession
        /\ PumpFollowsSession
        /\ YoungIsDebounced

LEMMA YoungBlocks ==
    ASSUME IInv, CInv, rt.active # NoRef, ~Debounced
    PROVE  begun.age = Debounce \/ begun.edge
<1>1. begun.age \in 0 .. Debounce /\ begun.edge \in BOOLEAN
  BY DEF CInv, ControlTypeOK
<1>2. (now - lastAction) % TimeMod \in Int
  BY ClockRange DEF IInv, TypeOK
<1>. QED
  BY <1>1, <1>2, TimeAssumption DEF CInv, YoungIsDebounced, Debounced

LEMMA ControlInitIsGood == ControlInit => CInv
<1>. SUFFICES ASSUME ControlInit
              PROVE  CInv
  OBVIOUS
<1>1. TypeOK /\ rt.active = NoRef
  BY InitIsGood DEF ControlInit, Init, BlankRuntime, IInv
<1>2. NotBegun \in [token : Tokens \cup {NoToken}, age : 0 .. Debounce, edge : BOOLEAN]
  BY TimeAssumption DEF NotBegun
<1>. QED
  BY <1>1, <1>2, ClockConstants
     DEF ControlInit, CInv, ControlTypeOK, TokenBelongsToSession, PumpFollowsSession,
         YoungIsDebounced

\* A begin by token t, which is the platform when t is none.
LEMMA BeginKeeps ==
    ASSUME IInv, TypeOK', CInv, NEW t \in Tokens \cup {NoToken},
           rt.active = NoRef, rt'.active # NoRef, lastAction' = now, now' = now,
           pump' = ExecuteAction("start_vfd"), activeToken' = t, BegunBy(t),
           lastToken' \in Tokens \cup {NoToken}, lastSeen' \in Clock
    PROVE  CInv'
<1>1. /\ pump' = "running" /\ direct' = "none"
      /\ begun' = [token |-> t, age |-> 0, edge |-> now = 0]
  BY DEF ExecuteAction, BegunBy
<1>2. ControlTypeOK'
  BY <1>1, TimeAssumption DEF ControlTypeOK, Clock
<1>3. TokenBelongsToSession' /\ PumpFollowsSession'
  BY <1>1 DEF TokenBelongsToSession, PumpFollowsSession
<1>4. YoungIsDebounced'
  <2>1. (now' - lastAction') % TimeMod = 0
    <3>1. now' - lastAction' = 0
      BY DEF IInv, TypeOK
    <3>. QED
      BY <3>1, TimeAssumption
  <2>2. begun'.age = 0 /\ (lastAction' = 0 => begun'.edge)
    BY <1>1
  <2>. QED
    BY <2>1, <2>2 DEF YoungIsDebounced
<1>. QED
  BY <1>2, <1>3, <1>4 DEF CInv

\* An end, by a stop or by the supply.
LEMMA EndKeeps ==
    ASSUME TypeOK', CInv, rt'.active = NoRef,
           pump' = "idle", activeToken' = NoToken, EndedNow,
           lastToken' \in Tokens \cup {NoToken}, lastSeen' \in Clock
    PROVE  CInv'
<1>1. begun' \in [token : Tokens \cup {NoToken}, age : 0 .. Debounce, edge : BOOLEAN]
  BY TimeAssumption DEF EndedNow, NotBegun
<1>. QED
  BY <1>1 DEF CInv, ControlTypeOK, TokenBelongsToSession, PumpFollowsSession,
              YoungIsDebounced, EndedNow, Clock

\* A step that neither begins nor ends a session nor commands the pump.
LEMMA QuietKeeps ==
    ASSUME TypeOK', CInv, rt'.active = rt.active, now' = now,
           lastAction' = lastAction \/ begun.age = Debounce \/ begun.edge,
           UNCHANGED <<pump, activeToken, begun, direct>>,
           lastToken' \in Tokens \cup {NoToken}, lastSeen' \in Clock
    PROVE  CInv'
BY TimeAssumption
   DEF CInv, ControlTypeOK, TokenBelongsToSession, PumpFollowsSession, YoungIsDebounced, Clock

LEMMA ControlKeeps ==
    ASSUME IInv, IInv', CInv, [ControlNext]_allVars
    PROVE  CInv'
<1>1. /\ TypeOK' /\ now \in Clock
      /\ lastToken \in Tokens \cup {NoToken} /\ lastSeen \in Clock
      /\ rt.active = NoRef => activeToken = NoToken
  BY DEF IInv, TypeOK, CInv, ControlTypeOK, TokenBelongsToSession, Clock
<1>2. CASE ControlPowerLoss
  <2>1. rt'.active = NoRef
    BY <1>2 DEF ControlPowerLoss, PowerLoss, BlankRuntime
  <2>. QED
    BY <1>1, <1>2, <2>1, EndKeeps, ClockConstants DEF ControlPowerLoss, Clock
<1>3. CASE ControlTick
  <2>1. /\ rt'.active = rt.active /\ now' = (now + 1) % TimeMod
        /\ lastAction' = lastAction
    BY <1>3, TickEffect DEF ControlTick
  <2>2. /\ begun \in [token : Tokens \cup {NoToken}, age : 0 .. Debounce, edge : BOOLEAN]
        /\ begun' = [begun EXCEPT !.age = IF @ < Debounce THEN @ + 1 ELSE @]
        /\ UNCHANGED <<pump, access, direct>>
    BY <1>3 DEF ControlTick, CInv, ControlTypeOK
  <2>3. /\ begun' \in [token : Tokens \cup {NoToken}, age : 0 .. Debounce, edge : BOOLEAN]
        /\ begun'.token = begun.token /\ begun'.edge = begun.edge
        /\ begun'.age < Debounce => begun.age < Debounce /\ begun'.age = begun.age + 1
    BY <2>2, TimeAssumption
  <2>4. ControlTypeOK' /\ TokenBelongsToSession' /\ PumpFollowsSession'
    BY <1>1, <2>1, <2>2, <2>3
       DEF CInv, ControlTypeOK, TokenBelongsToSession, PumpFollowsSession, access
  <2>5. YoungIsDebounced'
    <3>1. (now' - lastAction) % TimeMod <= ((now - lastAction) % TimeMod) + 1
      BY <1>1, <2>1, TickAges DEF IInv, TypeOK, Clock
    <3>2. /\ (now' - lastAction) % TimeMod \in Int
          /\ (now - lastAction) % TimeMod \in Int
      BY ClockRange DEF IInv, TypeOK
    <3>. QED
      BY <2>1, <2>2, <2>3, <3>1, <3>2 DEF CInv, YoungIsDebounced
  <2>. QED
    BY <2>4, <2>5 DEF CInv
<1>4. CASE ControlIdle
  BY <1>1, <1>4, IdleEffect, QuietKeeps DEF ControlIdle, controlVars, access
<1>5. ASSUME NEW ref \in Ref, PlatformStart(ref)
      PROVE  CInv'
  <2>1. CASE StartAccepted
    BY <1>1, <1>5, <2>1, StartEffect, BeginKeeps
       DEF PlatformStart, StartAccepted, access
  <2>2. CASE ~StartAccepted
    BY <1>1, <1>5, <2>2, StartEffect, QuietKeeps
       DEF PlatformStart, StartAccepted, access
  <2>. QED
    BY <2>1, <2>2
<1>6. ASSUME NEW ref \in Ref \cup {NoRef}, PlatformStop(ref)
      PROVE  CInv'
  <2>1. CASE StopAccepted
    BY <1>1, <1>6, <2>1, EndKeeps
       DEF PlatformStop, StopAccepted, ExecuteAction
  <2>2. CASE ~StopAccepted
    BY <1>1, <1>6, <2>2, StopEffect, QuietKeeps
       DEF PlatformStop, StopAccepted
  <2>. QED
    BY <2>1, <2>2
<1>7. CASE PlatformPause \/ PlatformResume
  <2>1. PauseSession \/ ResumeSession
    BY <1>7 DEF PlatformPause, PlatformResume
  <2>2. rt.active # NoRef
    BY <2>1 DEF PauseSession, ResumeSession, PauseResume, IInv, GoodRecord, Coherent
  <2>3. begun.age = Debounce \/ begun.edge
    BY <2>1, <2>2, PauseResumeEffect, YoungBlocks
  <2>. QED
    BY <1>1, <1>7, <2>1, <2>3, PauseResumeEffect, QuietKeeps
       DEF PlatformPause, PlatformResume, controlVars, access
<1>8. ASSUME NEW cmd \in ModuleCommands, ModuleCommand(cmd)
      PROVE  CInv'
  <2>1. /\ UNCHANGED <<rt, now, lastAction, activeToken, lastToken, lastSeen, begun>>
        /\ direct' = cmd /\ pump' = ExecuteAction(cmd)
        /\ cmd \in {"start_vfd", "stop_vfd"}
    BY <1>8, ModuleAssumption DEF ModuleCommand, vars, clocks, access
  <2>. QED
    BY <1>1, <2>1
       DEF CInv, ControlTypeOK, TokenBelongsToSession, PumpFollowsSession,
           YoungIsDebounced, ExecuteAction
<1>9. ASSUME NEW t \in Tokens, SubmitToken(t)
      PROVE  CInv'
  <2>1. lastToken' \in Tokens \cup {NoToken} /\ lastSeen' \in Clock
    BY <1>1, <1>9 DEF SubmitToken, TokenStarts, TokenStops, TokenRefused, Seen
  <2>2. CASE TokenStarts(t)
    <3>1. StartSession(GenRef) /\ GenRef \in Ref
      BY <2>2 DEF TokenStarts, Ref
    <3>2. CASE StartAccepted
      BY <2>1, <2>2, <3>1, <3>2, <1>1, StartEffect, BeginKeeps
         DEF TokenStarts, StartAccepted
    <3>3. CASE ~StartAccepted
      BY <2>1, <2>2, <3>1, <3>3, <1>1, StartEffect, QuietKeeps
         DEF TokenStarts, StartAccepted
    <3>. QED
      BY <3>2, <3>3
  <2>3. CASE TokenStops(t)
    <3>1. StopSession(rt.active) /\ rt.active \in Ref \cup {NoRef}
      BY <2>3 DEF TokenStops, IInv, TypeOK, Runtime
    <3>2. CASE StopAccepted
      BY <2>1, <2>3, <3>2, <1>1, EndKeeps
         DEF TokenStops, StopAccepted, ExecuteAction
    <3>3. CASE ~StopAccepted
      BY <2>1, <2>3, <3>1, <3>3, <1>1, StopEffect, QuietKeeps
         DEF TokenStops, StopAccepted
    <3>. QED
      BY <3>2, <3>3
  <2>4. CASE TokenRefused(t)
    BY <1>1, <2>1, <2>4, QuietKeeps DEF TokenRefused, vars, clocks
  <2>. QED
    BY <1>9, <2>2, <2>3, <2>4 DEF SubmitToken
<1>10. CASE UNCHANGED allVars
  BY <1>1, <1>10, QuietKeeps DEF allVars, vars, clocks, controlVars, access
<1>. QED
  BY <1>2, <1>3, <1>4, <1>5, <1>6, <1>7, <1>8, <1>9, <1>10 DEF ControlNext

LEMMA ControlInvariance == ControlSpec => []CInv
<1>1. IInv /\ IInv' /\ CInv /\ [ControlNext]_allVars => CInv'
  BY ControlKeeps
<1>. QED
  BY <1>1, ControlInitIsGood, EngineInvariance, PTL DEF ControlSpec
-----------------------------------------------------------------------------
(* The theorems. *)

\* The composition implements the engine: whatever platform, cards and module
\* commands do, the engine takes only its own steps, so that every theorem
\* about the engine holds in the whole controller (workflow_control.c,
\* workflow_local_access.c, proto_execute_action.c).
THEOREM ControlImplementsEngine == ControlSpec => Spec
<1>1. ControlInit => Init
  BY DEF ControlInit
<1>2. IInv /\ [ControlNext]_allVars => [Next]_vars
  BY ControlStepsEngine
<1>. QED
  BY <1>1, <1>2, EngineInvariance, PTL DEF ControlSpec, Spec

\* The variables of platform control and card access keep their types: among
\* other things no pump state but the two of module_pump_vfd.c occurs.
THEOREM ControlTypeCorrect == ControlSpec => []ControlTypeOK
<1>1. CInv => ControlTypeOK
  BY DEF CInv
<1>. QED
  BY <1>1, ControlInvariance, PTL

\* The token held is always the one that began the session in progress, for
\* every set of tokens (workflow_local_access.c:227-231,395-414).
THEOREM TokenOwnership == ControlSpec => []TokenBelongsToSession
<1>1. CInv => TokenBelongsToSession
  BY DEF CInv
<1>. QED
  BY <1>1, ControlInvariance, PTL

\* The pump follows the session, up to module commands, whoever begins and
\* ends it and whatever the flash sector does (workflow_control.c:8-24,99-117).
THEOREM PumpUnderControl == ControlSpec => []PumpFollowsSession
<1>1. CInv => PumpFollowsSession
  BY DEF CInv
<1>. QED
  BY <1>1, ControlInvariance, PTL

\* A card kept on the reader does not end the session it began, for every
\* length of the debounce windows and of the counter
\* (workflow_local_access.c:247-258, workflow_engine.c:242-247).
THEOREM HeldCard == ControlSpec => HeldCardDoesNotToggle
<1>1. ASSUME IInv, CInv, NEW t \in Tokens, TokenStops(t), StopAccepted
      PROVE  begun.age = Debounce \/ begun.edge
  <2>1. StopSession(rt.active) /\ rt.active \in Ref \cup {NoRef}
    BY <1>1 DEF TokenStops, IInv, TypeOK, Runtime
  <2>2. rt.active # NoRef /\ ~Debounced
    BY <1>1, <2>1, StopEffect DEF StopAccepted
  <2>. QED
    BY <1>1, <2>2, YoungBlocks
<1>2. IInv /\ CInv => \A t \in Tokens :
          TokenStops(t) /\ StopAccepted => begun.age = Debounce \/ begun.edge
  BY <1>1
<1>. QED
  BY <1>2, EngineInvariance, ControlInvariance, PTL DEF HeldCardDoesNotToggle

\* A card other than the one that began the session leaves engine, pump and
\* token alone (workflow_local_access.c:272-280).
THEOREM OtherCard == ControlSpec => OtherCardHasNoEffect
<1>1. ASSUME IInv, CInv, NEW t \in Tokens, SubmitToken(t), rt.active # NoRef, begun.token # t
      PROVE  UNCHANGED <<vars, pump, activeToken>>
  <2>1. ~MayStart(t)
    BY <1>1 DEF MayStart, IInv, GoodRecord, Coherent
  <2>2. ~MayStop(t)
    BY <1>1 DEF MayStop, CInv, TokenBelongsToSession
  <2>. QED
    BY <1>1, <2>1, <2>2 DEF SubmitToken, TokenStarts, TokenStops, TokenRefused
<1>2. IInv /\ CInv => \A t \in Tokens :
          SubmitToken(t) /\ rt.active # NoRef /\ begun.token # t
              => UNCHANGED <<vars, pump, activeToken>>
  BY <1>1
<1>. QED
  BY <1>2, EngineInvariance, ControlInvariance, PTL DEF OtherCardHasNoEffect
=============================================================================
