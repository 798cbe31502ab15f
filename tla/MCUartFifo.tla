------------------------------ MODULE MCUartFifo ------------------------------
(***************************************************************************)
(* TLC instance of UartFifo: a ring of three bytes, filled twice over.     *)
(***************************************************************************)
EXTENDS UartFifo
=============================================================================
