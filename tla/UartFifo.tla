------------------------------- MODULE UartFifo -------------------------------
(***************************************************************************)
(* The receive path of UART4, the modem's line (bsp_uart.c): the interrupt *)
(* handler fills a ring that overwrites its oldest byte when full, and the *)
(* superloop empties it, without masking the interrupt.  Each access of    *)
(* the superloop to a volatile index, to a slot or to a register is a step *)
(* of its own; the handler runs between two of them as a whole.            *)
(*                                                                         *)
(* Bytes are numbered as they arrive.  At the line's speed at most one     *)
(* arrives while a call of bsp_uart_read runs; any number does between     *)
(* two calls, and the handler has run by the time a call begins.           *)
(***************************************************************************)
EXTENDS Naturals, Sequences, FiniteSets

CONSTANTS
    Cap,       \* UART4_RX_FIFO_CAP
    MaxBytes   \* bound: bytes that arrive

ASSUME CapAssumption == Cap \in Nat \ {0, 1}
ASSUME BytesAssumption == MaxBytes \in Nat \ {0}

VARIABLES
    fifo, head, tail, \* s_uart4_rx_fifo, s_uart4_rx_head, s_uart4_rx_tail
    dr, rxne,         \* UART4_DR and the flag RXNE of UART4_SR
    pc, idx, byte,    \* where bsp_uart_read is, the index it loaded, its byte
    calm,             \* no byte has arrived since the call began
    arrived,          \* number of bytes that arrived
    excess,           \* history: bytes that arrived at a full ring or register,
                      \* or were in one that was read to clear an error
    got               \* history: bytes the superloop was given

ring     == <<fifo, head, tail>>
register == <<dr, rxne>>
reader   == <<pc, idx, byte>>
vars     == <<ring, register, reader, calm, arrived, excess, got>>

\* Faulty variant: the comparison that replaces a modulo is off by one.
FollowingLate(i) == IF i = Cap THEN 0 ELSE i + 1

Following(i) == (i + 1) % Cap

Init ==
    /\ fifo = [i \in 0..(Cap - 1) |-> 0] /\ head = 0 /\ tail = 0
    /\ dr = 0 /\ rxne = FALSE
    /\ pc = "idle" /\ idx = 0 /\ byte = 0
    /\ calm = TRUE /\ arrived = 0 /\ excess = 0 /\ got = <<>>
-----------------------------------------------------------------------------
(* The line and the interrupt. *)

\* A byte reaches the data register, or is lost there when the previous one is
\* still in it: a flash erase stalls the handler, between two calls.
ByteArrives ==
    /\ arrived < MaxBytes
    /\ calm \/ pc = "idle"
    /\ rxne => pc = "idle"
    /\ arrived' = arrived + 1
    /\ calm' = (pc = "idle")
    /\ dr' = IF rxne THEN dr ELSE arrived + 1
    /\ rxne' = TRUE
    /\ excess' = IF rxne THEN excess + 1 ELSE excess
    /\ UNCHANGED <<ring, reader, got>>

\* Faulty variant: the oldest byte is not given up, the indices meet.
PushUnchecked(b) ==
    /\ excess' = IF Following(tail) = head THEN excess + 1 ELSE excess
    /\ fifo' = [fifo EXCEPT ![tail] = b]
    /\ tail' = Following(tail)
    /\ UNCHANGED head

\* uart4_fifo_push
Push(b) ==
    LET full == Following(tail) = head
    IN  /\ head' = IF full THEN Following(head) ELSE head
        /\ excess' = IF full THEN excess + 1 ELSE excess
        /\ fifo' = [fifo EXCEPT ![tail] = b]
        /\ tail' = Following(tail)

\* UART4_IRQHandler
Interrupt ==
    /\ rxne
    /\ Push(dr)
    /\ rxne' = FALSE
    /\ UNCHANGED <<dr, reader, calm, arrived, got>>
-----------------------------------------------------------------------------
(* bsp_uart_read(BOARD_HW_UART_PORT_MODEM_4G, ..) *)

Return == pc' = "idle"

\* uart4_fifo_pop: s_uart4_rx_head == s_uart4_rx_tail, two loads.
Call ==
    /\ pc = "idle" /\ ~rxne /\ calm' = TRUE
    /\ pc' = "compare" /\ idx' = head
    /\ UNCHANGED <<ring, register, byte, arrived, excess, got>>

\* Faulty variant: a byte in the register is taken before those in the ring.
CompareRegisterFirst ==
    /\ pc = "compare"
    /\ pc' = IF rxne THEN "dr" ELSE IF idx = tail THEN "idle" ELSE "index"
    /\ UNCHANGED <<ring, register, idx, byte, calm, arrived, excess, got>>

Compare ==
    /\ pc = "compare"
    /\ pc' = IF idx = tail THEN "sr" ELSE "index"
    /\ UNCHANGED <<ring, register, idx, byte, calm, arrived, excess, got>>

\* *out = s_uart4_rx_fifo[s_uart4_rx_head]
LoadIndex ==
    /\ pc = "index" /\ pc' = "slot" /\ idx' = head
    /\ UNCHANGED <<ring, register, byte, calm, arrived, excess, got>>

LoadSlot ==
    /\ pc = "slot" /\ pc' = "next" /\ byte' = fifo[idx]
    /\ UNCHANGED <<ring, register, idx, calm, arrived, excess, got>>

\* s_uart4_rx_head = (s_uart4_rx_head + 1) % CAP, a load and a store.
LoadHead ==
    /\ pc = "next" /\ pc' = "store" /\ idx' = head
    /\ UNCHANGED <<ring, register, byte, calm, arrived, excess, got>>

StoreHead ==
    /\ pc = "store" /\ Return
    /\ head' = Following(idx)
    /\ got' = Append(got, byte)
    /\ UNCHANGED <<fifo, tail, register, idx, byte, calm, arrived, excess>>

\* The ring seemed empty: a byte the handler has not taken yet is read here.
\* With none, ORE, FE, NE or PE may be set, which the line decides.
ReadStatus ==
    /\ pc = "sr"
    /\ pc' \in IF rxne THEN {"dr"} ELSE {"clear", "idle"}
    /\ UNCHANGED <<ring, register, idx, byte, calm, arrived, excess, got>>

\* The register keeps its value after the handler has read it.
ReadData ==
    /\ pc = "dr" /\ Return
    /\ rxne' = FALSE
    /\ got' = Append(got, dr)
    /\ UNCHANGED <<ring, dr, idx, byte, calm, arrived, excess>>

\* The register is read to clear the flag, and its value thrown away: also that
\* of a byte that arrived since the status was read.
ClearError ==
    /\ pc = "clear" /\ Return
    /\ rxne' = FALSE
    /\ excess' = IF rxne THEN excess + 1 ELSE excess
    /\ UNCHANGED <<ring, dr, idx, byte, calm, arrived, got>>

Read == Compare \/ LoadIndex \/ LoadSlot \/ LoadHead \/ StoreHead \/ ReadStatus \/ ReadData
        \/ ClearError

Next == ByteArrives \/ Interrupt \/ Call \/ Read

Spec == Init /\ [][Next]_vars
-----------------------------------------------------------------------------
UartTypeOK ==
    /\ fifo \in [0..(Cap - 1) -> 0..MaxBytes]
    /\ head \in 0..(Cap - 1) /\ tail \in 0..(Cap - 1) /\ idx \in 0..(Cap - 1)
    /\ dr \in 0..MaxBytes /\ rxne \in BOOLEAN /\ byte \in 0..MaxBytes
    /\ pc \in {"idle", "compare", "index", "slot", "next", "store", "sr", "dr", "clear"}
    /\ calm \in BOOLEAN /\ arrived \in 0..MaxBytes /\ excess \in 0..MaxBytes
    /\ \A i \in 1..Len(got) : got[i] \in 1..MaxBytes

\* The bytes between head and tail, and the one in the register.
InRing  == {fifo[(head + k) % Cap] : k \in 0..(((tail + Cap - head) % Cap) - 1)}
Pending == InRing \cup (IF rxne THEN {dr} ELSE {})
InHand  == IF pc \in {"next", "store"} THEN {byte} ELSE {}

\* Whatever the handler does between the accesses of uart4_fifo_pop, bytes come
\* out in the order they arrived.  One may come out twice (the superloop sees
\* RXNE, the handler queues the byte, the superloop reads the register), but
\* next to itself and never three times.
DeliveredInOrder ==
    \A i, j \in 1..Len(got) : i < j =>
        /\ got[i] <= got[j]
        /\ got[i] = got[j] => j = i + 1

\* No byte vanishes but where one arrives at a full ring or register, or is in
\* the register when an error is cleared, and then one: the head written by both
\* sides never skips a byte the handler has not already given up for another, and
\* the indices never pass each other.
LossOnlyByExcess ==
    Cardinality(1..arrived \ ({got[i] : i \in 1..Len(got)} \cup Pending \cup InHand)) <= excess
=============================================================================
