--------------------------- MODULE WorkflowEngine ---------------------------
(***************************************************************************)
(* The irrigation workflow engine (workflow_engine.c) with the parts of    *)
(* the controller it cannot be understood without: the runtime record that *)
(* storage_runtime.c keeps on flash, the upgrade guard it mirrors its state*)
(* into (workflow_upgrade_guard.c), the readiness poll, and the boot path  *)
(* that turns a session cut by a power loss into a recovery report         *)
(* (workflow_recovery.c).                                                  *)
(*                                                                         *)
(* The firmware is one superloop, so a handler runs to completion and is   *)
(* one action.  What is concurrent with it is the power supply: PowerLoss  *)
(* may strike between any two handlers and between the three steps of the  *)
(* boot path that leave a trace outside RAM (restore, report, mark).  A    *)
(* save erases the sector and then writes it: a supply that fails in the   *)
(* gap is an attempt with outcome "write_failed" followed by PowerLoss.    *)
(*                                                                         *)
(* Nobody looks at the outcome of a save, and the flash driver linked today*)
(* refuses every call.  What is promised across power losses is therefore  *)
(* said with saved, which tells whether the last save succeeded.           *)
(*                                                                         *)
(* Time is s_now_ms, an unsigned counter of width w: all of its arithmetic *)
(* is modulo TimeMod.  The values 0 of s_last_action_ms and                *)
(* s_stop_guard_until_ms mean "none", as in the code.                      *)
(***************************************************************************)
EXTENDS Integers

CONSTANTS
    PlatformRefs,   \* session references the platform may name in a command
    GenRef,         \* the reference workflow_session_generate_id yields
    NoRef,          \* the empty string of session_id
    NoRecord,       \* a flash sector that holds no valid record
    TimeMod,        \* 2^w, the number of values of the millisecond counter
    Debounce,       \* WORKFLOW_ACTION_DEBOUNCE_MS
    StopGuard,      \* WORKFLOW_STOP_GUARD_MS
    FlashOutcomes   \* what an attempt to write the record may do

Ref == PlatformRefs \cup {GenRef}

ASSUME RefAssumption == NoRef \notin Ref
ASSUME TimeAssumption == /\ TimeMod \in Nat
                         /\ StopGuard \in Nat \ {0}
                         /\ Debounce \in Nat
                         /\ TimeMod > 2 * StopGuard
ASSUME FlashAssumption ==
    FlashOutcomes \subseteq {"written", "erase_failed", "write_failed"}

WfState == {"BOOTING", "ONLINE_NOT_READY", "READY_IDLE", "STARTING", "RUNNING",
            "PAUSING", "PAUSED", "RESUMING", "STOPPING", "STOPPED", "ERROR_STOP"}

\* The states in which set_state tells the upgrade guard that a session runs.
InSession == {"STARTING", "RUNNING", "PAUSING", "PAUSED", "RESUMING", "STOPPING"}

\* device_runtime_t: the workflow state, the active session and the recovery
\* context.  Time stamps, hints and totals carry no control and are left out.
Runtime == [state      : WfState,
            active     : Ref \cup {NoRef},
            recovery   : BOOLEAN,
            settlement : BOOLEAN,
            lastId     : Ref \cup {NoRef},
            reason     : {"none", "manual", "power_loss"}]

BlankRuntime == [state |-> "BOOTING", active |-> NoRef, recovery |-> FALSE,
                 settlement |-> FALSE, lastId |-> NoRef, reason |-> "none"]

ASSUME RecordAssumption == NoRecord \notin Runtime

VARIABLES
    phase,       \* "off", the boot steps "report" and "mark", then "loop"
    rt,          \* s_rt
    now,         \* s_now_ms
    lastAction,  \* s_last_action_ms
    guardUntil,  \* s_stop_guard_until_ms
    guard,       \* s_workflow_running and s_settlement_pending
    ready,       \* common_status.ready
    net,         \* online, TCP connected and registered
    modulesOk,   \* configuration loaded and workflow_ready_key_modules_ok
    flash,       \* the valid record in the sector, or NoRecord
    saved,       \* history: the last save since start-up succeeded, or none was
                 \* made and the record, if there is one, was read
    owed,        \* history: interrupted session not yet reported, or NoRef
    lastStop     \* history: ticks since the last capture (at most StopGuard),
                 \* and whether its deadline fell on the reserved value 0

sector == <<flash, saved>>
clocks == <<now, lastAction, guardUntil>>
env    == <<net, modulesOk>>
vars   == <<phase, rt, clocks, guard, ready, env, sector, owed, lastStop>>
-----------------------------------------------------------------------------
(* Clock arithmetic and storage. *)

\* Faulty variant: the deadline compared as a plain number, which is wrong
\* once the counter has wrapped.
UnsignedDeadlineActive(d, t) == d # 0 /\ d > t

\* (int32_t)(d - t) > 0, for a deadline that is set.
DeadlineActive(d, t) == d # 0 /\ (d - t) % TimeMod \in 1 .. (TimeMod - 1) \div 2

\* Faulty variant: the difference is taken the wrong way round.
DebouncedBackwards == lastAction # 0 /\ (lastAction - now) % TimeMod < Debounce

Debounced == lastAction # 0 /\ (now - lastAction) % TimeMod < Debounce

\* What trying to replace record old by r may come to: the erase may fail, or
\* the write after it, which leaves no valid record.
FlashAfter(old, r) ==
    {[record |-> CASE o = "written"      -> r
                   [] o = "erase_failed" -> old
                   [] OTHER              -> NoRecord,
      ok     |-> o = "written"] : o \in FlashOutcomes}

\* The sector is left in one of the given states.
SectorBecomes(states) == \E s \in states : flash' = s.record /\ saved' = s.ok

\* storage_runtime_save drops the outcome, as does every caller of it.
Save(r) == SectorBecomes(FlashAfter(flash, r))

\* Faulty variant: a settlement without a deadline is taken for unexpired.
ExpiredWithDeadline(t) ==
    rt.settlement /\ guardUntil # 0 /\ ~DeadlineActive(guardUntil, t)

\* A settlement whose deadline has passed is finished by whichever handler
\* looks first; at time t, what that makes of the runtime, the deadline, the
\* sector and the mirrored flag.
Expired(t)      == rt.settlement /\ ~DeadlineActive(guardUntil, t)
SettledRt(t)    == [rt EXCEPT !.settlement = @ /\ ~Expired(t)]
SettledUntil(t) == IF Expired(t) THEN 0 ELSE guardUntil
\* Faulty variant: the mirrored flag is forgotten.
SettledGuardStale(t) == guard

SettledGuard(t) == [guard EXCEPT !.settlement = @ /\ ~Expired(t)]
SettledFlash(t) == IF Expired(t) THEN FlashAfter(flash, SettledRt(t))
                                 ELSE {[record |-> flash, ok |-> saved]}

FinishSettlementIfExpired(t) ==
    /\ guardUntil' = SettledUntil(t)
    /\ guard' = SettledGuard(t)
    /\ SectorBecomes(SettledFlash(t))

\* Faulty variant: the handler does not persist its own changes.
PersistSettlementOnly == SectorBecomes(SettledFlash(now))

\* workflow_persist, in a handler that began with the settlement check.
Persist == SectorBecomes(UNION {FlashAfter(s.record, rt') : s \in SettledFlash(now)})

\* Faulty variant: no settlement is opened.
CapturedWithoutSettlement(r, why) ==
    [r EXCEPT !.lastId = IF r.active = NoRef THEN @ ELSE r.active,
              !.reason = why, !.active = NoRef, !.state = "STOPPED"]

\* The session r.active ends for the given reason: remembered for settlement.
Captured(r, why) ==
    [r EXCEPT !.lastId = IF r.active = NoRef THEN @ ELSE r.active,
              !.reason = why, !.settlement = TRUE, !.active = NoRef,
              !.state = "STOPPED"]

\* Faulty variant: the sum is kept wider than the counter.
CaptureAtWide(t) == /\ guardUntil' = t + StopGuard
                    /\ lastStop' = [age |-> 0, edge |-> FALSE]

CaptureAt(t) == /\ guardUntil' = (t + StopGuard) % TimeMod
                /\ lastStop' = [age |-> 0, edge |-> guardUntil' = 0]
-----------------------------------------------------------------------------
(* Power and boot. *)

BlankGuard == [running |-> FALSE, settlement |-> FALSE]

\* The last end is further back than any guard.
LongAgo == [age |-> StopGuard, edge |-> FALSE]

\* The supply fails.  RAM is gone; a running session has been interrupted.  If
\* the last save failed, what it was to keep is gone as well and with it the
\* promise: the histories start anew.
PowerLoss ==
    /\ phase # "off"
    /\ phase' = "off"
    /\ owed' = IF ~saved THEN NoRef
               ELSE IF rt.active # NoRef THEN rt.active ELSE owed
    /\ lastStop' = IF saved THEN lastStop ELSE LongAgo
    /\ saved' = TRUE
    /\ rt' = BlankRuntime
    /\ now' = 0 /\ lastAction' = 0 /\ guardUntil' = 0
    /\ guard' = BlankGuard
    /\ ready' = FALSE
    /\ net' = FALSE
    /\ UNCHANGED <<modulesOk, flash>>

\* Faulty variants: the session is marked as stopped but not as a recovery,
\* or the restored state is left as it was.
PromotedWithoutRecovery(r) ==
    IF r.active = NoRef THEN r ELSE Captured(r, "power_loss")

PromotedInPlace(r) ==
    IF r.active = NoRef THEN r
    ELSE [Captured(r, "power_loss") EXCEPT !.recovery = TRUE, !.state = r.state]

\* A dirty session found at boot becomes a recovery to report.
Promoted(r) ==
    IF r.active = NoRef THEN r
    ELSE [Captured(r, "power_loss") EXCEPT !.recovery = TRUE]

\* Boot with no valid record, or with one that cannot be read: the engine
\* starts from nothing.
BootBlank ==
    /\ phase = "off"
    /\ phase' = "report"
    /\ IF flash = NoRecord
       THEN UNCHANGED <<saved, owed, lastStop>>
       ELSE saved' = FALSE /\ owed' = NoRef /\ lastStop' = LongAgo
    /\ rt' = BlankRuntime
    /\ net' \in BOOLEAN
    /\ modulesOk' = TRUE
    /\ UNCHANGED <<clocks, guard, ready, flash>>

\* Boot with a record: restore it, promote a dirty session, mirror, persist.
BootRestore ==
    /\ phase = "off" /\ flash # NoRecord
    /\ phase' = "report"
    /\ rt' = Promoted(flash)
    /\ IF flash.active # NoRef
       THEN CaptureAt(0)
       ELSE /\ guardUntil' = IF flash.settlement THEN StopGuard ELSE 0
            /\ UNCHANGED lastStop
    /\ guard' = [running |-> rt'.state \in InSession, settlement |-> rt'.settlement]
    /\ Save(rt')
    /\ net' \in BOOLEAN
    /\ modulesOk' = TRUE
    /\ UNCHANGED <<now, lastAction, ready, owed>>

\* Faulty variant: a failed send is taken for a success.
ReportRecoveryIgnoringSend(sent) ==
    /\ phase = "report"
    /\ sent => net
    /\ phase' = IF rt.recovery THEN "mark" ELSE "loop"
    /\ owed' = IF rt.recovery /\ sent THEN NoRef ELSE owed
    /\ UNCHANGED <<rt, clocks, guard, ready, env, sector, lastStop>>

\* workflow_recovery_boot_check: one attempt to report a pending recovery.  A
\* send succeeds only on a connection that came up during initialisation.
ReportRecovery(sent) ==
    /\ phase = "report"
    /\ sent => net
    /\ IF rt.recovery /\ (rt.lastId = NoRef \/ sent)
       THEN phase' = "mark" /\ owed' = NoRef
       ELSE phase' = "loop" /\ UNCHANGED owed
    /\ UNCHANGED <<rt, clocks, guard, ready, env, sector, lastStop>>

MarkRecoveryReported ==
    /\ phase = "mark"
    /\ phase' = "loop"
    /\ rt' = [rt EXCEPT !.recovery = FALSE]
    /\ Save(rt')
    /\ UNCHANGED <<clocks, guard, ready, env, owed, lastStop>>
-----------------------------------------------------------------------------
(* The superloop. *)

\* workflow_engine_tick_ms.
Tick ==
    /\ phase = "loop"
    /\ now' = (now + 1) % TimeMod
    /\ rt' = SettledRt(now')
    /\ FinishSettlementIfExpired(now')
    /\ lastStop' = [lastStop EXCEPT !.age = IF @ < StopGuard THEN @ + 1 ELSE @]
    /\ UNCHANGED <<phase, lastAction, ready, env, owed>>

\* Connectivity comes and goes; SYNC_CONFIG may disable every actuator.
Environment ==
    /\ phase = "loop"
    /\ net' \in BOOLEAN
    /\ modulesOk' \in BOOLEAN
    /\ UNCHANGED <<phase, rt, clocks, guard, ready, sector, owed, lastStop>>

\* Faulty variant: a recovery does not count against readiness.
IsReadyDespiteRecovery(r) == net /\ modulesOk /\ ~r.settlement

IsReady(r) == net /\ modulesOk /\ ~r.recovery /\ ~r.settlement

\* workflow_engine_poll_ready, from the scheduler's one-second branch.
PollReady ==
    LET base    == SettledRt(now)
        isReady == IsReady(base)
        next    == IF isReady /\ base.state \in {"BOOTING", "ONLINE_NOT_READY", "STOPPED"}
                   THEN "READY_IDLE"
                   ELSE IF ~isReady /\ net /\ base.state = "BOOTING"
                   THEN "ONLINE_NOT_READY" ELSE base.state
    IN  /\ phase = "loop"
        /\ ready' = isReady
        /\ rt' = [base EXCEPT !.state = next]
        /\ guard' = [SettledGuard(now) EXCEPT !.running = IF next = base.state THEN @
                                                         ELSE next \in InSession]
        /\ guardUntil' = SettledUntil(now)
        /\ SectorBecomes(SettledFlash(now))
        /\ UNCHANGED <<phase, now, lastAction, env, owed, lastStop>>
-----------------------------------------------------------------------------
(* Requests.  Each handler answers "ok", "idempotent" or an error; only "ok" *)
(* does more than finish an expired settlement.                              *)

StartIsRepeat(ref) == ref = rt.active /\ rt.state \in InSession \ {"STOPPING"}

StartBlocked == DeadlineActive(SettledUntil(now), now)
                    \/ rt.recovery \/ SettledRt(now).settlement

\* The runtime when the readiness check of the start request is reached.
StartBase(ref) ==
    IF /\ ~StartIsRepeat(ref) /\ ~Debounced /\ ~StartBlocked
       /\ ready /\ rt.state = "STOPPED"
    THEN [SettledRt(now) EXCEPT !.state = "READY_IDLE"]
    ELSE SettledRt(now)

StartAllowed(ref) ==
    /\ ~StartIsRepeat(ref) /\ ~Debounced /\ ~StartBlocked
    /\ ready /\ StartBase(ref).state = "READY_IDLE"
    /\ rt.active = NoRef

\* workflow_engine_request_start_session.
StartSession(ref) ==
    /\ phase = "loop"
    /\ IF StartAllowed(ref)
       THEN /\ rt' = [StartBase(ref) EXCEPT !.active = ref, !.state = "RUNNING"]
            /\ guardUntil' = SettledUntil(now)
            /\ guard' = [SettledGuard(now) EXCEPT !.running = TRUE]
            /\ lastAction' = now
            /\ Persist
       ELSE /\ rt' = StartBase(ref)
            /\ FinishSettlementIfExpired(now)
            /\ UNCHANGED lastAction
    /\ UNCHANGED <<phase, now, ready, env, owed, lastStop>>

\* ref is NoRef when the command names no session.
StopIsRepeat(ref) == rt.state \in {"STOPPING", "STOPPED"}
                         /\ ref \in {NoRef, rt.lastId, rt.active}

StopAllowed(ref) ==
    /\ ~StopIsRepeat(ref) /\ ~Debounced
    /\ rt.state \in {"RUNNING", "PAUSED"}
    /\ ref \in {NoRef, rt.active}

\* workflow_engine_request_stop_session.
StopSession(ref) ==
    /\ phase = "loop"
    /\ IF StopAllowed(ref)
       THEN /\ rt' = Captured(SettledRt(now), "manual")
            /\ CaptureAt(now)
            /\ guard' = [running |-> FALSE, settlement |-> TRUE]
            /\ lastAction' = now
            /\ Persist
       ELSE /\ rt' = SettledRt(now)
            /\ FinishSettlementIfExpired(now)
            /\ UNCHANGED <<lastAction, lastStop>>
    /\ UNCHANGED <<phase, now, ready, env, owed>>

\* workflow_engine_request_pause_session and ..._resume_session: neither looks
\* at the settlement; a request that is refused changes nothing.
PauseResume(from, to) ==
    /\ phase = "loop" /\ ~Debounced /\ rt.state = from
    /\ rt' = [rt EXCEPT !.state = to]
    /\ guard' = [guard EXCEPT !.running = to \in InSession]
    /\ lastAction' = now
    /\ Save(rt')
    /\ UNCHANGED <<phase, now, guardUntil, ready, env, owed, lastStop>>

PauseSession  == PauseResume("RUNNING", "PAUSED")
ResumeSession == PauseResume("PAUSED", "RUNNING")

-----------------------------------------------------------------------------
Init ==
    /\ phase = "off"
    /\ rt = BlankRuntime
    /\ now = 0 /\ lastAction = 0 /\ guardUntil = 0
    /\ guard = BlankGuard
    /\ ready = FALSE
    /\ net = FALSE /\ modulesOk = TRUE
    /\ flash = NoRecord /\ saved = TRUE
    /\ owed = NoRef
    /\ lastStop = LongAgo

Boot == \/ BootBlank
        \/ BootRestore
        \/ \E sent \in BOOLEAN : ReportRecovery(sent)
        \/ MarkRecoveryReported

Request == \/ \E ref \in Ref : StartSession(ref)
           \/ \E ref \in Ref \cup {NoRef} : StopSession(ref)
           \/ PauseSession
           \/ ResumeSession

Next == PowerLoss \/ Boot \/ Tick \/ Environment \/ PollReady \/ Request

Spec == Init /\ [][Next]_vars

\* A powered controller gets through its boot path, the superloop never
\* blocks, and the one-second branch of its scheduler keeps running.  Nothing
\* is promised of the supply, the network or the requests.
Fairness == WF_vars(Boot) /\ WF_vars(Tick) /\ WF_vars(PollReady)

FairSpec == Spec /\ Fairness
-----------------------------------------------------------------------------
(* Properties. *)

TypeOK ==
    /\ phase \in {"off", "report", "mark", "loop"}
    /\ rt \in Runtime
    /\ now \in 0 .. TimeMod - 1
    /\ lastAction \in 0 .. TimeMod - 1
    /\ guardUntil \in 0 .. TimeMod - 1
    /\ guard \in [running : BOOLEAN, settlement : BOOLEAN]
    /\ ready \in BOOLEAN
    /\ net \in BOOLEAN /\ modulesOk \in BOOLEAN
    /\ flash \in Runtime \cup {NoRecord} /\ saved \in BOOLEAN
    /\ owed \in Ref \cup {NoRef}
    /\ lastStop \in [age : 0 .. StopGuard, edge : BOOLEAN]

\* What is true of the runtime in RAM and of any record a boot may restore: a
\* session is named exactly while one runs or is paused; a settlement in
\* progress holds the engine in STOPPED with no session; and while a recovery
\* waits to be reported nothing can have replaced the session it is about.
Coherent(r) ==
    /\ r.active # NoRef <=> r.state \in {"RUNNING", "PAUSED"}
    /\ r.settlement => r.state = "STOPPED"
    /\ r.recovery => /\ r.state = "STOPPED"
                     /\ r.lastId # NoRef
                     /\ r.reason = "power_loss"

\* The engine's record and the one on flash stay coherent through requests,
\* polls, power losses and failed writes (workflow_engine.c:77-176, 201-270):
\* otherwise a restart could run without a session or report the wrong one.
RuntimeCoherent ==
    /\ Coherent(rt)
    /\ flash # NoRecord => Coherent(flash)

\* The upgrade guard's copies agree with the engine after every handler
\* (workflow_engine.c:51,72,100,114,143): an update is refused exactly while
\* a session is in progress or its settlement is.
UpgradeGuardAgrees ==
    phase # "off" => /\ guard.running <=> rt.active # NoRef
                     /\ guard.settlement <=> rt.settlement

\* Whatever a restart needs is on flash when the handler that changed it
\* returns, unless the last save failed; and one save that succeeds makes up
\* for every one before it that did not (the workflow_persist calls of
\* workflow_engine.c; storage_runtime.c:104-107,131-143).
RecoveryDataDurable ==
    phase # "off" /\ saved =>
        \/ flash = NoRecord /\ rt.active = NoRef /\ ~rt.settlement /\ ~rt.recovery
        \/ /\ flash # NoRecord
           /\ <<flash.active, flash.recovery, flash.settlement, flash.lastId, flash.reason>>
                = <<rt.active, rt.recovery, rt.settlement, rt.lastId, rt.reason>>

\* A session that was on flash when a power loss cut it is not forgotten until
\* the platform has been sent its report: the record holds it while power is
\* off, the engine as the pending recovery afterwards, and the record again
\* once a save has succeeded, whatever further power losses hit the boot path.
\* The promise ends with a power loss that follows a failed save, and with a
\* record that cannot be read (workflow_engine.c:77-117, workflow_recovery.c:
\* 10-60, storage_runtime.c:71-83,96-109).
InterruptedSessionKept ==
    LET Holds(r) == r.recovery /\ r.lastId = owed
    IN  owed # NoRef =>
            IF phase = "off"
            THEN flash # NoRecord /\ (flash.active = owed \/ Holds(flash))
            ELSE Holds(rt) /\ (saved => flash # NoRecord /\ Holds(flash))

\* A new session begins only when the last one is accounted for.  It has been
\* settled, StopGuard ticks long since its end by a stop or by a power loss,
\* whichever handler finished the settlement and however often the controller
\* restarted in between; and if it was interrupted it has been reported.  The
\* exceptions are a stop whose deadline is the reserved value 0 of a wrapping
\* counter, and a restart that has lost the record to a failed save, erase or
\* read (workflow_engine.c:52,62-75,160-161,201).
AccountedBeforeRestart ==
    [][rt.active = NoRef /\ rt'.active # NoRef
           => (lastStop.age = StopGuard \/ lastStop.edge) /\ owed = NoRef]_vars

\* The loop has no second attempt at a recovery report: one left pending by
\* the boot path keeps the engine stopped and not startable until the next
\* restart, whatever the network and the operators do (workflow_recovery.c:
\* 49-55 and its one caller, app_main.c:207).
PendingRecoveryStopsUntilRestart ==
    [][phase = "loop" /\ phase' = "loop" /\ rt.recovery
           => rt'.recovery /\ rt'.state = "STOPPED" /\ rt'.active = NoRef]_vars

\* Once power stays on, every settlement ends: the deadline is reached even
\* across the wrap of the counter; and with a lasting connection, working modules
\* and no recovery pending the controller keeps being found ready
\* (workflow_engine.c:27-30,62-75,152-176).
ReturnsToService ==
    /\ <>[](phase # "off") => (rt.settlement ~> ~rt.settlement)
    /\ <>[](phase # "off" /\ net /\ modulesOk /\ ~rt.recovery) => []<>ready

\* What the engine promises of a session's life, and the state it maps to.
\* While the controller is off the promise rests on the flash record.
Mode == CASE rt.state = "RUNNING" -> "running"
          [] rt.state = "PAUSED"  -> "paused"
          [] OTHER                -> "none"

Settling == IF phase # "off" THEN rt.settlement
            ELSE flash # NoRecord /\ (flash.settlement \/ flash.active # NoRef)

Lifecycle == INSTANCE SessionLifecycle WITH
    mode <- Mode, session <- rt.active, debt <- owed, settling <- Settling,
    sound <- saved, power <- phase # "off"

\* Over any sector the engine implements the lifecycle, power losses included;
\* what it forgets, it forgets because the sector failed (workflow_engine.c as
\* a whole).
ImplementsLifecycle == Lifecycle!Spec
=============================================================================
