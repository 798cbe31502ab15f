---------------------------- MODULE MCFrameStream ----------------------------
(***************************************************************************)
(* TLC instances of FrameStream.  A length has two digits of base 16, the  *)
(* buffer 11 bytes and s_nc_json room for 2: a frame of 1 byte just fits   *)
(* it with its terminator, one of 2 does not; one of 8 just fits the       *)
(* buffer, and the bytes behind it may make it overflow.                   *)
(***************************************************************************)
EXTENDS FrameStream

MCSizes == {1, 2, 8}
=============================================================================
