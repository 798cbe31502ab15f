----------------------------- MODULE MCReporting -----------------------------
(***************************************************************************)
(* TLC instance of Reporting.  The intervals keep the order of the source: *)
(* boot < slow < gap < heartbeat = ping < snapshot < vitals, within one    *)
(* turn of the clock.  One SYNC_CONFIG makes snapshots rarer than vitals,  *)
(* another turns pings off and with them the division of the layers.       *)
(***************************************************************************)
EXTENDS Reporting

MCDefault  == [ping |-> 4, vitals |-> 6, snapshot |-> 5, heartbeat |-> 0, delta |-> 2]
MCFallback == [vitals |-> 6, snapshot |-> 4, heartbeat |-> 4, delta |-> 1]
MCRequests == {[ping |-> 5, vitals |-> 5, snapshot |-> 7, heartbeat |-> 0, delta |-> 0],
               [ping |-> 0, vitals |-> 0, snapshot |-> 0, heartbeat |-> 0, delta |-> 0]}
=============================================================================
