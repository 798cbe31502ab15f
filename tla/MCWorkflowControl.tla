-------------------------- MODULE MCWorkflowControl --------------------------
(***************************************************************************)
(* TLC instances of WorkflowControl: two cards, sessions of the platform   *)
(* and of cards sharing the generated reference, and the clock scaled as   *)
(* far down as keeps the order of the windows: global debounce below same  *)
(* token debounce, at most the action debounce, below the stop guard.      *)
(***************************************************************************)
EXTENDS WorkflowControl, TLC
CONSTANTS t1, t2

MCTokens == {t1, t2}
NoRefs == {}

\* A sector that takes every record, so that restarts with a session or a
\* recovery on flash are met, and without one where the read fails.  What the
\* sector keeps matters to none of the properties checked here.
TakingSector == {"written"}

BothCommands == {"start_vfd", "stop_vfd"}
Symmetry == Permutations(MCTokens)
=============================================================================
