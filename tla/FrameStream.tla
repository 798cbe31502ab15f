----------------------------- MODULE FrameStream -----------------------------
(***************************************************************************)
(* The receiving side of the platform link: bytes of the modem, gathered   *)
(* by net_socket_client.c into length-prefixed frames and handed one by    *)
(* one to proto_dispatch_handle_inbound by the loop of                     *)
(* net_connectivity_poll.                                                  *)
(*                                                                         *)
(* A byte is its value together with the frame and the place it was sent   *)
(* at; only the value is read by the code.  A poll finds at most Burst     *)
(* bytes: those UART4 holds (31 of UART4_RX_FIFO_CAP) and the few that     *)
(* arrive while they are read.  One pop of the modem's own queue takes     *)
(* more (512 of TCP_RX_FIFO_CAP), so a poll pops once and that queue is    *)
(* empty between polls.                                                    *)
(***************************************************************************)
EXTENDS Integers, Sequences

CONSTANTS
    Sizes,      \* payload lengths of the frames the platform sends
    MaxFrames,  \* bound: frames sent in a behaviour
    MaxLosses,  \* bound: bytes UART4 overwrites unread or delivers twice
    Prefix,     \* PROTO_LENGTH_PREFIX_BYTES
    Base,       \* number of values of a byte
    Printable,  \* value of a payload byte
    Burst,      \* bytes that may be waiting when a poll reads UART4
    RxCap,      \* sizeof c->rx
    OutCap      \* sizeof s_nc_json

\* n, cut by one digit after the other.
Cut(n) == LET cut[i \in 0..Prefix] == IF i = 0 THEN n ELSE cut[i - 1] \div Base IN cut

ASSUME BoundAssumption == MaxFrames \in Nat /\ MaxLosses \in Nat
ASSUME PrefixAssumption == Prefix \in Nat \ {0, 1} /\ Base \in Nat \ {0, 1}
ASSUME CapAssumption == RxCap \in Nat /\ OutCap \in Nat /\ Burst \in 1..RxCap
\* A length does not need its first digit.
ASSUME SizesAssumption == \A n \in Sizes : n \in Nat \ {0} /\ Cut(n)[Prefix - 1] = 0
\* Payload bytes are printable, hence large: where a length is read they give one
\* no buffer holds, and so does the last byte of a length before one of them.
ASSUME PrintableAssumption ==
    /\ Printable \in 1..(Base - 1) /\ Prefix + Printable * Base > RxCap
    /\ \A n \in Sizes : Prefix + n * Base + Printable > RxCap

VARIABLES
    sent,    \* payload lengths of the frames sent so far
    wire,    \* bytes sent and not yet read by the poll
    rx,      \* c->rx[0 .. c->rx_len)
    taken,   \* history: payloads taken off rx, each handed over or not
    losses   \* history: bytes lost or doubled

vars == <<sent, wire, rx, taken, losses>>

Bytes == [v : 0..(Base - 1), of : 1..MaxFrames, at : Nat \ {0}]

Header(n) == [i \in 1..Prefix |-> Cut(n)[Prefix - i] % Base]

\* proto_envelope_encode on the platform's side.
Frame(k, n) == [i \in 1..(Prefix + n) |->
    [v |-> IF i <= Prefix THEN Header(n)[i] ELSE Printable, of |-> k, at |-> i]]

Payload(f) == SubSeq(f, Prefix + 1, Len(f))

LengthOf(s) ==
    LET digits[i \in 0..Prefix] == IF i = 0 THEN 0 ELSE digits[i - 1] * Base + s[i].v
    IN  digits[Prefix]
-----------------------------------------------------------------------------
(* net_socket_client_feed.  Its result is what remains in rx and the        *)
(* payload extracted, as a sequence of at most one.                        *)

ShiftLeft(s, n) == SubSeq(s, n + 1, Len(s))

\* Faulty variants: an impossible length is left at the head of the buffer;
\* no room is kept for the terminator.
ExtractKeepingGarbage(s) ==
    LET size == Prefix + LengthOf(s)
    IN  IF Len(s) < Prefix \/ size > RxCap \/ Len(s) < size THEN [rx |-> s, got |-> <<>>]
        ELSE [rx |-> ShiftLeft(s, size),
              got |-> IF LengthOf(s) + 1 > OutCap THEN <<>> ELSE <<Payload(SubSeq(s, 1, size))>>]

ExtractWithoutTerminator(s) ==
    LET size == Prefix + LengthOf(s)
    IN  IF Len(s) < Prefix THEN [rx |-> s, got |-> <<>>]
        ELSE IF size > RxCap THEN [rx |-> ShiftLeft(s, 1), got |-> <<>>]
        ELSE IF Len(s) < size THEN [rx |-> s, got |-> <<>>]
        ELSE [rx |-> ShiftLeft(s, size),
              got |-> IF LengthOf(s) > OutCap THEN <<>> ELSE <<Payload(SubSeq(s, 1, size))>>]

Extract(s) ==
    LET size == Prefix + LengthOf(s)
    IN  CASE Len(s) < Prefix -> [rx |-> s, got |-> <<>>]
          [] Len(s) >= Prefix /\ size > RxCap -> [rx |-> ShiftLeft(s, 1), got |-> <<>>]
          [] Len(s) >= Prefix /\ size <= RxCap /\ Len(s) < size -> [rx |-> s, got |-> <<>>]
          [] OTHER -> [rx |-> ShiftLeft(s, size),
                       got |-> IF LengthOf(s) + 1 > OutCap THEN <<>>
                               ELSE <<Payload(SubSeq(s, 1, size))>>]

Feed(s, chunk) == IF chunk # <<>> /\ Len(s) + Len(chunk) > RxCap
                  THEN [rx |-> <<>>, got |-> <<>>]
                  ELSE Extract(s \o chunk)

\* The loop's variables: the receive buffer, the messages out of it, the calls left.
Dispatching == [rx : Seq(Bytes), out : Seq(Seq(Bytes)), left : Nat]

\* The loop of net_connectivity_poll: frames are extracted and dispatched until
\* a call yields none, or until the last dispatched message (no more are left to
\* go) has closed the connection.
Dispatched[d \in Dispatching] ==
    LET e == Extract(d.rx)
    IN  IF d.left = 0 THEN d
        ELSE IF e.got = <<>> THEN [d EXCEPT !.rx = e.rx]
        ELSE Dispatched[[rx |-> e.rx, out |-> d.out \o e.got, left |-> d.left - 1]]

Dispatch(s, limit) == Dispatched[[rx |-> s, out |-> <<>>, left |-> limit]]
-----------------------------------------------------------------------------
History(payloads, handed) ==
    [i \in DOMAIN payloads |-> [bytes |-> payloads[i], handed |-> handed]]

Init ==
    /\ sent = <<>> /\ wire = <<>> /\ rx = <<>> /\ taken = <<>>
    /\ losses = 0

PlatformSend(n) ==
    /\ Len(sent) < MaxFrames
    /\ sent' = Append(sent, n)
    /\ wire' = wire \o Frame(Len(sent) + 1, n)
    /\ UNCHANGED <<rx, taken, losses>>

\* A superloop too slow for the line: uart4_fifo_push overwrites the oldest.
Overwrite ==
    /\ wire # <<>> /\ losses < MaxLosses
    /\ wire' = Tail(wire)
    /\ losses' = losses + 1
    /\ UNCHANGED <<sent, rx, taken>>

\* bsp_uart_read reads the register the interrupt handler has just queued
\* (UartFifo shows how): the byte is delivered twice.
Repeat ==
    /\ wire # <<>> /\ losses < MaxLosses
    /\ Len(wire) > 1 => wire[2] # wire[1]
    /\ wire' = <<Head(wire)>> \o wire
    /\ losses' = losses + 1
    /\ UNCHANGED <<sent, rx, taken>>

\* Faulty variant: closing the connection leaves rx_len alone.
PollKeepingRx(n, limit) ==
    /\ n <= Len(wire)
    /\ LET first == IF n = 0 THEN [rx |-> rx, got |-> <<>>] ELSE Feed(rx, SubSeq(wire, 1, n))
           rest  == Dispatch(first.rx, limit)
       IN  /\ taken' = taken \o History(first.got, FALSE) \o History(rest.out, TRUE)
           /\ rx' = rest.rx
           /\ wire' = IF rest.left = 0 THEN <<>> ELSE ShiftLeft(wire, n)
    /\ UNCHANGED <<sent, losses>>

\* net_connectivity_poll on a connected socket, with n bytes waiting.  The
\* call of feed that takes them in may extract a frame of its own; its result
\* is discarded.  A message that closes the connection (SYNC_CONFIG) empties
\* rx and the UART, and what was in flight is gone.
Poll(n, limit) ==
    /\ n <= Len(wire)
    /\ LET first  == IF n = 0 THEN [rx |-> rx, got |-> <<>>] ELSE Feed(rx, SubSeq(wire, 1, n))
           rest   == Dispatch(first.rx, limit)
           closed == rest.left = 0
       IN  /\ taken' = taken \o History(first.got, FALSE) \o History(rest.out, TRUE)
           /\ rx' = IF closed THEN <<>> ELSE rest.rx
           /\ wire' = IF closed THEN <<>> ELSE ShiftLeft(wire, n)
    /\ UNCHANGED <<sent, losses>>

Next ==
    \/ \E n \in Sizes : PlatformSend(n)
    \/ Overwrite
    \/ Repeat
    \/ \E n \in 0..Burst, limit \in 1..(MaxFrames + 1) : Poll(n, limit)

\* The superloop polls again and again, and stream_push_from_uart reads until
\* nothing is waiting: of a silent line that is all, or a full burst.
PollAll == Poll(IF Len(wire) < Burst THEN Len(wire) ELSE Burst, MaxFrames + 1)

Fairness == WF_vars(PollAll)

Spec == Init /\ [][Next]_vars /\ Fairness
-----------------------------------------------------------------------------
\* Types, and the bounds of the buffers rx and s_nc_json: neither is written
\* beyond its end, the terminator behind a payload included, whatever the
\* losses make of the lengths read.
StreamTypeOK ==
    /\ sent \in Seq(Sizes) /\ Len(sent) <= MaxFrames
    /\ wire \in Seq(Bytes)
    /\ rx \in Seq(Bytes) /\ Len(rx) <= RxCap
    /\ \A i \in 1..Len(taken) :
           taken[i].bytes \in Seq(Bytes) /\ Len(taken[i].bytes) + 1 <= OutCap
    /\ losses \in 0..MaxLosses

\* As long as no byte is lost or doubled, each payload taken off the buffer is
\* the whole payload of one frame, and they come off in the order they were
\* sent, none twice: also across a buffer that overflows, frames too large for
\* s_nc_json, and connections closed half way through a frame.
TakenAsSent ==
    losses = 0 =>
        \E src \in [1..Len(taken) -> 1..Len(sent)] :
            /\ \A i \in 1..Len(taken) :
                   taken[i].bytes = Payload(Frame(src[i], sent[src[i]]))
            /\ \A i, j \in 1..Len(taken) : i < j => src[i] < src[j]

\* The buffer begins with less than a length, or a frame still incomplete.
Waiting ==
    \/ Len(rx) < Prefix
    \/ Prefix + LengthOf(rx) \in (Len(rx) + 1)..RxCap

\* However the losses cut the stream, the receiver works its way through it:
\* once the platform falls silent the buffer ends with nothing that a further
\* poll could take off it (net_socket_client_feed gives up one byte per call).
StreamSettles == <>[](wire = <<>> /\ Waiting)

\* net_socket_client.h:22,25: feed "returns 1 if one full JSON frame was
\* extracted into out_json", and poll is to "Drain modem RX into feed then try
\* extract one frame".  So no frame is taken off the buffer and discarded.
EveryFrameHandedOver == \A i \in 1..Len(taken) : taken[i].handed
=============================================================================
