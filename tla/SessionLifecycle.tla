-------------------------- MODULE SessionLifecycle --------------------------
(***************************************************************************)
(* What the controller promises about irrigation sessions, seen from the   *)
(* platform.  There is one session at a time.  It runs, may be paused and  *)
(* resumed, and ends by a stop or by an interruption of the supply.  Every *)
(* end is followed by a settlement, and an interrupted session leaves a    *)
(* debt: its report.  No session begins while either is outstanding.  Both *)
(* survive power losses, except that a sector which has failed may forget  *)
(* all there was when power goes or comes.  When that happens, and whether *)
(* the sector fails, is not the lifecycle's to decide.                     *)
(***************************************************************************)
CONSTANTS Ref, NoRef

VARIABLES
    mode,       \* "none", "running" or "paused"
    session,    \* the session in progress, or NoRef
    debt,       \* an interrupted session the platform has not heard of, or NoRef
    settling,   \* the last session is still being settled
    sound,      \* the sector did as it was told when last used; changes freely
    power       \* the controller is supplied; changes freely

vars == <<mode, session, debt, settling>>

Init == mode = "none" /\ session = NoRef /\ debt = NoRef /\ settling = FALSE

Begin(ref) ==
    /\ mode = "none" /\ debt = NoRef /\ ~settling
    /\ mode' = "running" /\ session' = ref
    /\ UNCHANGED <<debt, settling>>

Pause  == mode = "running" /\ mode' = "paused"  /\ UNCHANGED <<session, debt, settling>>
Resume == mode = "paused"  /\ mode' = "running" /\ UNCHANGED <<session, debt, settling>>

End ==
    /\ mode # "none"
    /\ mode' = "none" /\ session' = NoRef /\ settling' = TRUE
    /\ UNCHANGED debt

Interrupt ==
    /\ power /\ ~power' /\ sound
    /\ mode # "none"
    /\ mode' = "none" /\ session' = NoRef /\ settling' = TRUE
    /\ debt' = session

Report == debt # NoRef /\ debt' = NoRef /\ UNCHANGED <<mode, session, settling>>

\* The supply fails after a save that failed, or comes back to a record that
\* cannot be read: whatever there was may be forgotten.
Forget ==
    /\ \/ power /\ ~power' /\ ~sound
       \/ ~power /\ power' /\ ~sound'
    /\ mode' = "none" /\ session' = NoRef /\ debt' = NoRef /\ settling' \in BOOLEAN

Settle == settling /\ settling' = FALSE /\ UNCHANGED <<mode, session, debt>>

Next == (\E ref \in Ref : Begin(ref)) \/ Pause \/ Resume
            \/ End \/ Interrupt \/ Forget \/ Report \/ Settle

Spec == Init /\ [][Next]_vars
=============================================================================
