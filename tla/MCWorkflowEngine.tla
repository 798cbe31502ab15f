-------------------------- MODULE MCWorkflowEngine --------------------------
(***************************************************************************)
(* TLC instance of WorkflowEngine.  The milliseconds of the source are     *)
(* scaled: the debounce window is 2 ticks, the stop guard 3, and the       *)
(* counter wraps after 7, so that both sentinel values and both halves of  *)
(* the signed comparison are met.                                          *)
(***************************************************************************)
EXTENDS WorkflowEngine
CONSTANTS r1

MCPlatformRefs == {r1}

\* A sector that may take a record, refuse the erase or refuse the write after
\* it.  It includes the driver linked today, which refuses every erase.
AnySector == {"written", "erase_failed", "write_failed"}
=============================================================================
