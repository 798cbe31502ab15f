--------------------------- MODULE WorkflowControl ---------------------------
(***************************************************************************)
(* The two ways an irrigation session is commanded, composed with the      *)
(* engine: EXECUTE_ACTION requests of the platform (workflow_control.c,    *)
(* proto_execute_action.c) and access tokens, read by the card reader or   *)
(* forwarded by the platform (workflow_local_access.c).  Both drive the    *)
(* pump (module_pump_vfd.c), which module-scope commands reach directly.   *)
(*                                                                         *)
(* The engine calls workflow_local_access_clear_active_token when it ends  *)
(* a session; that call is part of the actions here, where the token is.   *)
(***************************************************************************)
EXTENDS WorkflowEngine

CONSTANTS
    Tokens,             \* access tokens
    NoToken,            \* the empty string of s_active_token and s_last_token
    GlobalDebounce,     \* WORKFLOW_LOCAL_ACCESS_GLOBAL_DEBOUNCE_MS
    SameTokenDebounce,  \* WORKFLOW_LOCAL_ACCESS_SAME_TOKEN_DEBOUNCE_MS
    ModuleCommands      \* pump commands the platform sends with scope "module"

ASSUME TokenAssumption == NoToken \notin Tokens
ASSUME AccessTimeAssumption == GlobalDebounce \in Nat /\ SameTokenDebounce \in Nat
ASSUME ModuleAssumption == ModuleCommands \subseteq {"start_vfd", "stop_vfd"}

VARIABLES
    pump,         \* module_pump_vfd.c s_st: "idle" or "running"
    activeToken,  \* s_active_token
    lastToken,    \* s_last_token
    lastSeen,     \* s_last_seen_at_ms
    begun,        \* history: the token that began the session (or NoToken), its
                  \* age (at most Debounce) and whether it began at clock 0
    direct        \* history: the last module command since a session began or
                  \* ended or the controller was started, or "none"

access      == <<activeToken, lastToken, lastSeen>>
controlVars == <<pump, access, begun, direct>>
allVars     == <<vars, controlVars>>

NotBegun == [token |-> NoToken, age |-> Debounce, edge |-> FALSE]

StartAccepted == rt.active = NoRef /\ rt'.active # NoRef
StopAccepted  == rt.active # NoRef /\ rt'.active = NoRef

\* The bookkeeping of a begin by token t (NoToken for the platform).
BegunBy(t) == /\ begun' = [token |-> t, age |-> 0, edge |-> now = 0]
              /\ direct' = "none"

EndedNow == begun' = NotBegun /\ direct' = "none"
\* module_pump_vfd_execute_action: a command is carried out in whatever state.
ExecuteAction(cmd) == IF cmd = "start_vfd" THEN "running" ELSE "idle"
-----------------------------------------------------------------------------
(* Requests of the platform. *)

\* workflow_control_start_session, with ref = GenRef when none is named.
PlatformStart(ref) ==
    /\ StartSession(ref)
    /\ IF StartAccepted THEN pump' = ExecuteAction("start_vfd") /\ BegunBy(NoToken)
                        ELSE UNCHANGED <<pump, begun, direct>>
    /\ UNCHANGED access

\* Faulty variant: the engine alone ends the session; neither the pump nor
\* the token hears of it.
PlatformStopEngineOnly(ref) ==
    /\ StopSession(ref)
    /\ IF StopAccepted THEN EndedNow ELSE UNCHANGED <<begun, direct>>
    /\ UNCHANGED <<pump, access>>

\* workflow_control_stop_session.
PlatformStop(ref) ==
    /\ StopSession(ref)
    /\ IF StopAccepted
       THEN pump' = ExecuteAction("stop_vfd") /\ activeToken' = NoToken /\ EndedNow
       ELSE UNCHANGED <<pump, begun, direct, activeToken>>
    /\ UNCHANGED <<lastToken, lastSeen>>

\* Pausing leaves the pump as it is.
PlatformPause  == PauseSession  /\ UNCHANGED controlVars
PlatformResume == ResumeSession /\ UNCHANGED controlVars

\* EXECUTE_ACTION with scope "module" goes past the workflow to the pump.
ModuleCommand(cmd) ==
    /\ phase = "loop"
    /\ pump' = ExecuteAction(cmd)
    /\ direct' = cmd
    /\ UNCHANGED <<vars, access, begun>>
-----------------------------------------------------------------------------
(* Tokens.  A debounced token changes nothing and is no step here.  Any     *)
(* other is noted as seen before the decision, also when it is refused.     *)

TokenDebounced(t) ==
    /\ lastSeen # 0
    /\ \/ (now - lastSeen) % TimeMod < GlobalDebounce
       \/ t = lastToken /\ (now - lastSeen) % TimeMod < SameTokenDebounce

Seen(t) == /\ phase = "loop" /\ ~TokenDebounced(t)
           /\ lastToken' = t /\ lastSeen' = now

\* workflow_local_access_evaluate reads the settlement without finishing it.
AccessGuarded == DeadlineActive(guardUntil, now) \/ rt.recovery \/ rt.settlement

\* Faulty variant: any card ends the session in progress.
AnyCardMayStop(t) == ~AccessGuarded /\ rt.state \in {"RUNNING", "PAUSED"} /\ t # NoToken

MayStop(t) == ~AccessGuarded /\ rt.state \in {"RUNNING", "PAUSED"} /\ t = activeToken

MayStart(t) == ~AccessGuarded /\ ready /\ rt.state = "READY_IDLE"

TokenStarts(t) ==
    /\ Seen(t) /\ MayStart(t)
    /\ StartSession(GenRef)
    /\ IF StartAccepted THEN pump' = ExecuteAction("start_vfd") /\ activeToken' = t /\ BegunBy(t)
                        ELSE UNCHANGED <<pump, activeToken, begun, direct>>

TokenStops(t) ==
    /\ Seen(t) /\ MayStop(t)
    /\ StopSession(rt.active)
    /\ IF StopAccepted THEN pump' = ExecuteAction("stop_vfd") /\ activeToken' = NoToken /\ EndedNow
                       ELSE UNCHANGED <<pump, activeToken, begun, direct>>

TokenRefused(t) ==
    /\ Seen(t) /\ ~MayStart(t) /\ ~MayStop(t)
    /\ UNCHANGED <<vars, pump, activeToken, begun, direct>>

\* workflow_local_access_submit_token.
SubmitToken(t) == TokenStarts(t) \/ TokenStops(t) \/ TokenRefused(t)
-----------------------------------------------------------------------------
(* The rest of the controller. *)

ControlPowerLoss ==
    /\ PowerLoss
    /\ pump' = "idle" /\ EndedNow
    /\ activeToken' = NoToken /\ lastToken' = NoToken /\ lastSeen' = 0

ControlTick ==
    /\ Tick
    /\ begun' = [begun EXCEPT !.age = IF @ < Debounce THEN @ + 1 ELSE @]
    /\ UNCHANGED <<pump, access, direct>>

ControlIdle == (Boot \/ Environment \/ PollReady) /\ UNCHANGED controlVars

ControlInit ==
    /\ Init
    /\ pump = "idle" /\ begun = NotBegun /\ direct = "none"
    /\ activeToken = NoToken /\ lastToken = NoToken /\ lastSeen = 0

ControlNext ==
    \/ ControlPowerLoss \/ ControlTick \/ ControlIdle
    \/ \E ref \in Ref : PlatformStart(ref)
    \/ \E ref \in Ref \cup {NoRef} : PlatformStop(ref)
    \/ PlatformPause \/ PlatformResume
    \/ \E cmd \in ModuleCommands : ModuleCommand(cmd)
    \/ \E t \in Tokens : SubmitToken(t)

ControlSpec == ControlInit /\ [][ControlNext]_allVars
-----------------------------------------------------------------------------
(* Properties. *)

ControlTypeOK ==
    /\ TypeOK
    /\ pump \in {"idle", "running"}
    /\ activeToken \in Tokens \cup {NoToken}
    /\ lastToken \in Tokens \cup {NoToken}
    /\ lastSeen \in 0 .. TimeMod - 1
    /\ begun \in [token : Tokens \cup {NoToken}, age : 0 .. Debounce, edge : BOOLEAN]
    /\ direct \in ModuleCommands \cup {"none"}

\* The token the controller holds is the one that began the session in
\* progress, and it holds none for a session the platform began or when there
\* is no session, whoever ended it (workflow_local_access.c:227-231,395-414,
\* workflow_engine.c:86,262): a stale token would let a card end a session
\* that is not its own.
TokenBelongsToSession ==
    activeToken = IF rt.active = NoRef THEN NoToken ELSE begun.token

\* The pump runs during a session and stands still without one, whichever of
\* platform, card or supply began or ended it, until a module command says
\* otherwise; what such a command did lasts until the next session begins or
\* ends, and no longer (workflow_control.c:8-24,99-117;
\* proto_execute_action.c:305-317; module_pump_vfd.c:64-76).
PumpFollowsSession ==
    pump = "running" <=> CASE direct = "start_vfd" -> TRUE
                           [] direct = "stop_vfd"  -> FALSE
                           [] OTHER                -> rt.active # NoRef

\* A card kept on the reader does not end the session it just began: between
\* a begin by a token and an end by a token lie Debounce ticks, unless the
\* session began at the value 0 of the clock, where both debounce windows
\* read their time stamp as "none" (workflow_local_access.c:247-258,
\* workflow_engine.c:242-247).
HeldCardDoesNotToggle ==
    [][\A t \in Tokens :
           TokenStops(t) /\ StopAccepted => begun.age = Debounce \/ begun.edge]_allVars

\* Two different cards: a card other than the one that began the session has
\* no effect on it, only on the debounce time stamps
\* (workflow_local_access.c:272-280).
OtherCardHasNoEffect ==
    [][\A t \in Tokens :
           SubmitToken(t) /\ rt.active # NoRef /\ begun.token # t
               => UNCHANGED <<vars, pump, activeToken>>]_allVars
=============================================================================
