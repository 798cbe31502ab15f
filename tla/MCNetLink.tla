------------------------------ MODULE MCNetLink ------------------------------
(***************************************************************************)
(* TLC instances of NetLink: another host, a port given up, and both       *)
(* emptied; the clock wraps when the backoff has run out twice.            *)
(***************************************************************************)
EXTENDS NetLink
CONSTANTS h0, h1, p0, empty, zero, kept

MCHosts == {empty, h0, h1}
MCPorts == {zero, p0}
MCUpdates == {[host |-> h1, port |-> kept], [host |-> empty, port |-> zero]}
NoUpdates == {}
=============================================================================
