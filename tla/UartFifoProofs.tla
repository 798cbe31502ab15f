---------------------------- MODULE UartFifoProofs ----------------------------
(***************************************************************************)
(* Theorems about UartFifo for every size of the ring and any number of    *)
(* bytes: what the superloop is given keeps the order of arrival, although *)
(* it reads the ring, and the register behind it, in steps between any two *)
(* of which the interrupt handler may run.                                 *)
(***************************************************************************)
EXTENDS UartFifo, FiniteSetTheorems, TLAPS

Slots == 0 .. (Cap - 1)

LEMMA FollowingIs ==
    ASSUME NEW i \in Slots
    PROVE  /\ Following(i) = IF i = Cap - 1 THEN 0 ELSE i + 1
           /\ Following(i) \in Slots
BY CapAssumption DEF Following, Slots

(* The ring.  Pos counts the slots from the head; the slots the ring holds *)
(* are those before the tail.                                              *)

Pos(h, i) == IF i >= h THEN i - h ELSE i + Cap - h

Held(i) == Pos(head, i) < Pos(head, tail)

\* The bytes in the ring are in the order of arrival.
RingOrder ==
    \A i, j \in Slots : Held(j) /\ Pos(head, i) < Pos(head, j) => fifo[i] < fifo[j]

(* What was delivered.  A byte may follow if it is not older than the last *)
(* one, and if it is that one again, then for the first time.              *)

Last == IF got = <<>> THEN 0 ELSE got[Len(got)]

Twice == Len(got) > 1 /\ got[Len(got) - 1] = got[Len(got)]

MayFollow(b) == b \in 1 .. arrived /\ b >= Last /\ (b = Last => ~Twice)

(* The inductive invariant.  DeliveredInOrder speaks of bytes that are out;*)
(* what makes it hold is what may come next: each byte in the ring, the one*)
(* in the reader's hand, and the one in the register.                      *)

GotBytes == got \in Seq(Nat) /\ \A k \in 1 .. Len(got) : got[k] \in 1 .. arrived

RingBytes == \A i \in Slots : Held(i) => MayFollow(fifo[i]) /\ (rxne => fifo[i] < dr)

Register == rxne => dr \in 1 .. arrived /\ dr > Last

\* The handler has given up the slot the reader is at: it is now the gap.
Passed == head = Following(idx) /\ tail = idx /\ ~rxne /\ ~calm

InSlot == \/ idx = head
          \/ /\ Passed /\ MayFollow(fifo[idx])
             /\ \A i \in Slots : Held(i) => fifo[idx] < fifo[i]

HandBeforeRing == /\ MayFollow(byte) /\ (rxne => byte < dr)
                  /\ \A i \in Slots : Held(i) => byte <= fifo[i]

ReaderFits ==
    /\ pc # "idle" /\ calm => ~rxne
    /\ pc = "compare" => idx = head \/ Passed
    /\ pc \in {"index", "slot", "next", "store"} => head # tail
    /\ pc = "slot" => InSlot
    /\ pc \in {"next", "store"} => HandBeforeRing
    /\ pc = "store" => \/ idx = head
                       \/ Passed /\ \A i \in Slots : Held(i) => byte < fifo[i]
    /\ pc = "sr" /\ (rxne \/ calm) => head = tail
    /\ pc = "dr" => /\ ~calm
                    /\ dr \in 1 .. arrived /\ dr > Last
                    /\ \A i \in Slots : Held(i) => fifo[i] = dr /\ ~rxne

Counted == excess \in Nat /\ (IF rxne THEN excess + 1 ELSE excess) <= arrived

IInv == /\ UartTypeOK /\ GotBytes /\ Counted
        /\ RingOrder /\ RingBytes /\ Register /\ ReaderFits
        /\ DeliveredInOrder

LEMMA Types ==
    ASSUME IInv
    PROVE  /\ Cap \in Nat /\ Cap > 1 /\ MaxBytes \in Nat
           /\ head \in Slots /\ tail \in Slots /\ idx \in Slots
           /\ fifo \in [Slots -> Nat] /\ dr \in Nat /\ byte \in Nat /\ arrived \in Nat
           /\ rxne \in BOOLEAN /\ calm \in BOOLEAN
           /\ Last \in Nat /\ Last <= arrived /\ Twice \in BOOLEAN
<1>1. /\ Cap \in Nat /\ Cap > 1 /\ MaxBytes \in Nat
  BY CapAssumption, BytesAssumption
<1>2. got \in Seq(Nat) /\ \A k \in 1 .. Len(got) : got[k] \in 1 .. arrived
  BY DEF IInv, GotBytes
<1>3. arrived \in Nat
  BY <1>1 DEF IInv, UartTypeOK
<1>4. Last \in Nat /\ Last <= arrived
  <2>1. CASE got = <<>>
    BY <1>3, <2>1 DEF Last
  <2>2. CASE got # <<>>
    <3>1. Len(got) \in 1 .. Len(got)
      BY <1>2, <2>2
    <3>. QED
      BY <1>2, <1>3, <2>2, <3>1 DEF Last
  <2>. QED
    BY <2>1, <2>2
<1>. QED
  BY <1>1, <1>3, <1>4 DEF IInv, UartTypeOK, Slots, Twice
-----------------------------------------------------------------------------
(* Delivery. *)

\* A byte that may follow keeps the order, and is then the last one.
LEMMA Delivered ==
    ASSUME IInv, NEW b, MayFollow(b), got' = Append(got, b), arrived' = arrived
    PROVE  /\ GotBytes' /\ DeliveredInOrder'
           /\ Last' = b /\ (Twice' <=> b = Last)
           /\ \A i \in 1 .. Len(got') : got'[i] \in 1 .. MaxBytes
<1>1. /\ got \in Seq(Nat) /\ Len(got) \in Nat
      /\ \A k \in 1 .. Len(got) : got[k] \in 1 .. arrived
      /\ b \in 1 .. arrived /\ b >= Last /\ (b = Last => ~Twice)
      /\ arrived \in 0 .. MaxBytes /\ MaxBytes \in Nat
  BY BytesAssumption DEF IInv, GotBytes, MayFollow, UartTypeOK
<1>2. /\ got' \in Seq(Nat) /\ Len(got') = Len(got) + 1 /\ got' # <<>>
      /\ got'[Len(got) + 1] = b
      /\ \A k \in 1 .. Len(got) : got'[k] = got[k]
  BY <1>1
<1>3. Last' = b
  BY <1>2 DEF Last
<1>4. Len(got) > 0 => Last = got[Len(got)]
  BY <1>1 DEF Last
<1>5. Len(got) = 0 => Last = 0
  BY <1>1 DEF Last
<1>6. Twice' <=> b = Last
  <2>1. Twice' <=> Len(got) > 0 /\ got'[Len(got)] = b
    BY <1>1, <1>2 DEF Twice
  <2>2. Len(got) > 0 => got'[Len(got)] = Last
    BY <1>1, <1>2, <1>4
  <2>. QED
    BY <1>1, <1>5, <2>1, <2>2
<1>7. DeliveredInOrder'
  <2>. SUFFICES ASSUME NEW i \in 1 .. Len(got'), NEW j \in 1 .. Len(got'), i < j
                PROVE  got'[i] <= got'[j] /\ (got'[i] = got'[j] => j = i + 1)
    BY DEF DeliveredInOrder
  <2>1. i \in 1 .. Len(got) /\ got'[i] = got[i]
    BY <1>1, <1>2
  <2>2. CASE j <= Len(got)
    <3>1. j \in 1 .. Len(got) /\ got'[j] = got[j]
      BY <1>1, <1>2, <2>2
    <3>. QED
      BY <2>1, <3>1 DEF IInv, DeliveredInOrder
  <2>3. CASE j = Len(got) + 1
    <3>1. got'[j] = b
      BY <1>2, <2>3
    <3>2. CASE i = Len(got)
      BY <1>1, <1>4, <2>1, <2>3, <3>1, <3>2
    <3>3. CASE i < Len(got)
      <4>1. got[i] <= got[Len(got)] /\ (got[i] = got[Len(got)] => Len(got) = i + 1)
        BY <1>1, <2>1, <3>3 DEF IInv, DeliveredInOrder
      <4>2. got[i] = got[Len(got)] => Twice
        BY <1>1, <2>1, <3>3, <4>1, SMTT(20) DEF Twice
      <4>. QED
        BY <1>1, <1>4, <2>1, <3>1, <3>3, <4>1, <4>2
    <3>. QED
      <4>1. i = Len(got) \/ i < Len(got)
        BY <1>1, <2>1
      <4>. QED
        BY <3>2, <3>3, <4>1
  <2>4. j <= Len(got) \/ j = Len(got) + 1
    <3>1. \A n \in Nat : \A k \in 1 .. (n + 1) : k <= n \/ k = n + 1
      OBVIOUS
    <3>2. Len(got) \in Nat /\ Len(got') = Len(got) + 1
      BY <1>1, <1>2
    <3>. QED
      BY <3>1, <3>2
  <2>. QED
    BY <2>2, <2>3, <2>4
<1>8. GotBytes'
  <2>1. \A k \in 1 .. Len(got') : got'[k] \in 1 .. arrived
    BY <1>1, <1>2
  <2>. QED
    BY <1>2, <2>1 DEF GotBytes
<1>9. \A i \in 1 .. Len(got') : got'[i] \in 1 .. MaxBytes
  BY <1>1, <1>2
<1>. QED
  BY <1>3, <1>6, <1>7, <1>8, <1>9
-----------------------------------------------------------------------------
(* The handler's step on the ring, and the reader's. *)

\* Positions from the slot after h are those from h, less one; h comes last.
LEMMA PosFrom ==
    ASSUME NEW h \in Slots, NEW i \in Slots
    PROVE  /\ Pos(h, i) \in Slots /\ Pos(h, h) = 0
           /\ \A j \in Slots : Pos(h, i) = Pos(h, j) => i = j
           /\ i # h => Pos(h, i) > 0 /\ Pos(Following(h), i) = Pos(h, i) - 1
           /\ Pos(Following(h), h) = Cap - 1
           /\ i = Following(h) => Pos(h, i) = 1
<1>1. Following(h) = IF h = Cap - 1 THEN 0 ELSE h + 1
  BY FollowingIs
<1>. QED
  BY <1>1, CapAssumption DEF Slots, Pos

\* What uart4_fifo_push leaves is the ring without its oldest byte if it was
\* full, and the new byte behind the others.
LEMMA PushRing ==
    ASSUME IInv, Interrupt
    PROVE  /\ head' \in Slots /\ tail' \in Slots /\ head' # tail'
           /\ fifo' = [fifo EXCEPT ![tail] = dr]
           /\ \/ head' = head
              \/ head' = Following(head) /\ tail' = head
           /\ \A i \in Slots : Held(i)' => i = tail \/ Held(i)
           /\ \A i, j \in Slots : Held(j)' /\ Pos(head, i)' < Pos(head, j)'
                 => i # tail /\ (j = tail \/ Pos(head, i) < Pos(head, j))
<1>1. Cap \in Nat /\ Cap > 1 /\ head \in Slots /\ tail \in Slots
  BY Types
<1>2. /\ Following(head) \in Slots /\ Following(tail) \in Slots
      /\ Following(head) # head
  BY <1>1, FollowingIs DEF Slots
<1>3. fifo' = [fifo EXCEPT ![tail] = dr] /\ tail' = Following(tail)
  BY DEF Interrupt, Push
<1>4. CASE Following(tail) # head
  <2>1. head' = head
    BY <1>4 DEF Interrupt, Push
  <2>2. Pos(head, Following(tail)) = Pos(head, tail) + 1
    BY <1>1, <1>2, <1>4, FollowingIs DEF Slots, Pos
  <2>3. \A i \in Slots : Held(i)' => i = tail \/ Held(i)
    <3>. SUFFICES ASSUME NEW i \in Slots, Pos(head, i) < Pos(head, tail) + 1, i # tail
                  PROVE  Pos(head, i) < Pos(head, tail)
      BY <1>3, <2>1, <2>2 DEF Held
    <3>. QED
      BY <1>1 DEF Slots, Pos
  <2>4. \A i, j \in Slots : Held(j)' /\ Pos(head, i)' < Pos(head, j)' => i # tail
    <3>. SUFFICES ASSUME NEW i \in Slots, NEW j \in Slots,
                         Pos(head, j) < Pos(head, tail) + 1, Pos(head, i) < Pos(head, j)
                  PROVE  i # tail
      BY <1>3, <2>1, <2>2 DEF Held
    <3>. QED
      BY <1>1 DEF Slots, Pos
  <2>5. \A i, j \in Slots : Pos(head, i)' = Pos(head, i) /\ Pos(head, j)' = Pos(head, j)
    BY <2>1
  <2>. QED
    BY <1>1, <1>2, <1>3, <1>4, <2>1, <2>3, <2>4, <2>5
<1>5. CASE Following(tail) = head
  <2>1. head' = Following(head) /\ tail' = head
    BY <1>3, <1>5 DEF Interrupt, Push
  <2>2. Pos(head, tail) = Cap - 1
    BY <1>1, <1>5, FollowingIs DEF Slots, Pos
  <2>3. Pos(Following(head), head) = Cap - 1
    BY <1>1, PosFrom
  <2>4. \A i \in Slots : /\ Pos(head, i) \in Slots
                         /\ i # head => Pos(Following(head), i) = Pos(head, i) - 1
                         /\ Pos(head, i) = Pos(head, tail) => i = tail
    BY <1>1, PosFrom
  <2>5. \A i \in Slots : i # head /\ i # tail => Held(i)
    BY <1>1, <2>2, <2>4 DEF Held, Slots
  <2>6. \A i \in Slots : Held(i)' => i # head
    <3>1. ~(Cap - 1 < Cap - 1)
      BY <1>1
    <3>. QED
      BY <1>1, <2>1, <2>3, <3>1 DEF Held
  <2>7. \A i, j \in Slots : Held(j)' /\ Pos(head, i)' < Pos(head, j)'
             => i # tail /\ (j = tail \/ Pos(head, i) < Pos(head, j))
    <3>. SUFFICES ASSUME NEW i \in Slots, NEW j \in Slots, j # head,
                         Pos(Following(head), j) < Cap - 1,
                         Pos(Following(head), i) < Pos(Following(head), j)
                  PROVE  i # tail /\ Pos(head, i) < Pos(head, j)
      BY <2>1, <2>3, <2>6 DEF Held
    <3>1. i # head
      BY <1>1, <2>3, <2>4 DEF Slots
    <3>2. Pos(head, i) < Pos(head, j)
      BY <1>1, <2>4, <3>1 DEF Slots
    <3>. QED
      BY <1>1, <2>2, <2>4, <3>2 DEF Slots
  <2>. QED
    BY <1>1, <1>2, <1>3, <2>1, <2>5, <2>6, <2>7
<1>. QED
  BY <1>4, <1>5

\* What StoreHead leaves when the head has not moved is the ring without its
\* oldest byte.
LEMMA PopRing ==
    ASSUME NEW h \in Slots, NEW t \in Slots, h # t
    PROVE  /\ \A i \in Slots : Pos(Following(h), i) < Pos(Following(h), t)
                  => Pos(h, i) < Pos(h, t) /\ 0 < Pos(h, i)
           /\ \A i, j \in Slots :
                  /\ Pos(Following(h), j) < Pos(Following(h), t)
                  /\ Pos(Following(h), i) < Pos(Following(h), j)
                  => Pos(h, i) < Pos(h, j)
<1>1. Pos(Following(h), h) = Cap - 1 /\ Cap \in Nat
  BY PosFrom, CapAssumption
<1>2. \A i \in Slots : /\ Pos(h, i) \in Slots
                       /\ i # h => 0 < Pos(h, i) /\ Pos(Following(h), i) = Pos(h, i) - 1
  BY PosFrom
<1>3. \A i \in Slots : Pos(Following(h), i) <= Cap - 1
  BY <1>1, <1>2 DEF Slots
<1>4. \A i, j \in Slots : Pos(Following(h), i) < Pos(Following(h), j) => i # h
  BY <1>1, <1>2, <1>3 DEF Slots
<1>5. \A i, j \in Slots : i # h /\ j # h /\ Pos(Following(h), i) < Pos(Following(h), j)
          => Pos(h, i) < Pos(h, j)
  BY <1>1, <1>2 DEF Slots
<1>6. \A i, j \in Slots : Pos(Following(h), i) < Pos(Following(h), j) /\ j = h /\ i # h
          => ~(Pos(Following(h), j) < Pos(Following(h), t))
  BY <1>1, <1>3, <1>2 DEF Slots
<1>. QED
  BY <1>2, <1>4, <1>5, <1>6

\* The oldest byte of a ring that is not empty.
LEMMA Oldest ==
    ASSUME IInv, head # tail
    PROVE  /\ Held(head)
           /\ \A i \in Slots : Held(i) /\ i # head => fifo[head] < fifo[i]
           /\ \A i \in Slots : Held(i) => fifo[head] <= fifo[i]
<1>1. head \in Slots /\ tail \in Slots /\ fifo \in [Slots -> Nat]
  BY Types
<1>2. Pos(head, head) = 0 /\ \A i \in Slots : i # head => 0 < Pos(head, i)
  BY <1>1, PosFrom
<1>3. Held(head)
  BY <1>1, <1>2 DEF Held
<1>4. \A i \in Slots : Held(i) /\ i # head => fifo[head] < fifo[i]
  BY <1>1, <1>2, <1>3 DEF IInv, RingOrder
<1>5. \A i \in Slots : fifo[i] \in Nat
  BY <1>1
<1>6. \A i \in Slots : Held(i) => fifo[head] <= fifo[i]
  BY <1>1, <1>4, <1>5
<1>. QED
  BY <1>3, <1>4, <1>6
-----------------------------------------------------------------------------
(* The steps. *)

\* The parts of the invariant about what was delivered stay while nothing is.
LEMMA NothingDelivered ==
    ASSUME IInv, got' = got, arrived' \in Nat, arrived' >= arrived
    PROVE  /\ GotBytes' /\ DeliveredInOrder' /\ Last' = Last /\ Twice' = Twice
           /\ \A b \in Nat : MayFollow(b) => MayFollow(b)'
<1>1. arrived \in Nat
  BY Types
<1>2. GotBytes'
  BY <1>1 DEF IInv, GotBytes
<1>3. DeliveredInOrder'
  BY DEF IInv, DeliveredInOrder
<1>4. Last' = Last /\ Twice' = Twice
  BY DEF Last, Twice
<1>5. \A b \in Nat : MayFollow(b) => MayFollow(b)'
  BY <1>1, <1>4 DEF MayFollow
<1>. QED
  BY <1>2, <1>3, <1>4, <1>5

LEMMA ByteArrivesStep ==
    ASSUME IInv, ByteArrives
    PROVE  IInv'
<1>. USE Types
<1>1. /\ arrived' = arrived + 1 /\ rxne' = TRUE /\ calm' = (pc = "idle")
      /\ dr' = IF rxne THEN dr ELSE arrived + 1
      /\ excess' = IF rxne THEN excess + 1 ELSE excess
      /\ fifo' = fifo /\ head' = head /\ tail' = tail
      /\ pc' = pc /\ idx' = idx /\ byte' = byte /\ got' = got
  BY DEF ByteArrives, ring, reader
<1>2. /\ arrived < MaxBytes /\ (calm \/ pc = "idle") /\ (rxne => pc = "idle")
  BY DEF ByteArrives
<1>3. /\ GotBytes' /\ DeliveredInOrder' /\ Last' = Last
      /\ \A b \in Nat : MayFollow(b) => MayFollow(b)'
  BY <1>1, NothingDelivered
<1>4. Counted'
  BY <1>1 DEF IInv, Counted
<1>5. UartTypeOK'
  BY <1>1, <1>2, <1>4, SMTT(20) DEF IInv, UartTypeOK, Counted
<1>6. \A i \in Slots : Held(i)' = Held(i) /\ fifo'[i] = fifo[i] /\ fifo[i] \in Nat
  BY <1>1 DEF Held
<1>7. \A b \in Nat : MayFollow(b) /\ (rxne => b < dr) => b < dr'
  BY <1>1 DEF MayFollow
<1>8. RingOrder'
  BY <1>1 DEF IInv, RingOrder, Held
<1>9. RingBytes'
  BY <1>3, <1>6, <1>7 DEF IInv, RingBytes
<1>10. Register'
  BY <1>1, <1>3 DEF IInv, Register
<1>11. ReaderFits'
  <2>1. pc # "idle" => calm /\ ~rxne /\ calm' = FALSE
    BY <1>1, <1>2
  <2>2. pc # "idle" => ~Passed
    BY <2>1 DEF Passed
  <2>3. pc \in {"next", "store"} => HandBeforeRing'
    <3>1. pc \in {"next", "store"} => HandBeforeRing
      BY DEF IInv, ReaderFits
    <3>. QED
      BY <1>1, <1>3, <1>6, <1>7, <3>1 DEF HandBeforeRing
  <2>4. pc = "slot" => InSlot'
    BY <1>1, <2>2 DEF IInv, ReaderFits, InSlot
  <2>. QED
    BY <1>1, <2>1, <2>2, <2>3, <2>4 DEF IInv, ReaderFits
<1>. QED
  BY <1>3, <1>4, <1>5, <1>8, <1>9, <1>10, <1>11 DEF IInv

LEMMA InterruptStep ==
    ASSUME IInv, Interrupt
    PROVE  IInv'
<1>. USE Types
<1>1. /\ rxne /\ rxne' = FALSE /\ dr' = dr /\ calm' = calm /\ arrived' = arrived
      /\ pc' = pc /\ idx' = idx /\ byte' = byte /\ got' = got
      /\ excess' = (IF Following(tail) = head THEN excess + 1 ELSE excess)
  BY DEF Interrupt, Push, reader
<1>2. /\ head' \in Slots /\ tail' \in Slots /\ head' # tail'
      /\ fifo' = [fifo EXCEPT ![tail] = dr]
      /\ \/ head' = head
         \/ head' = Following(head) /\ tail' = head
      /\ \A i \in Slots : Held(i)' => i = tail \/ Held(i)
      /\ \A i, j \in Slots : Held(j)' /\ Pos(head, i)' < Pos(head, j)'
            => i # tail /\ (j = tail \/ Pos(head, i) < Pos(head, j))
  BY PushRing
<1>3. /\ GotBytes' /\ DeliveredInOrder' /\ Last' = Last
      /\ \A b \in Nat : MayFollow(b) => MayFollow(b)'
  BY <1>1, NothingDelivered
<1>4. dr \in 1 .. arrived /\ dr > Last
  BY <1>1 DEF IInv, Register
<1>5. MayFollow(dr)
  BY <1>4 DEF MayFollow
<1>6. Counted'
  BY <1>1 DEF IInv, Counted
<1>7. UartTypeOK'
  <2>1. fifo' \in [Slots -> 0 .. MaxBytes]
    BY <1>2 DEF IInv, UartTypeOK, Slots
  <2>. QED
    <3>1. excess' \in 0 .. MaxBytes /\ arrived' \in 0 .. MaxBytes
      BY <1>1, <1>6 DEF IInv, UartTypeOK, Counted
    <3>2. \A i \in 1 .. Len(got') : got'[i] \in 1 .. MaxBytes
      BY <1>1 DEF IInv, UartTypeOK
    <3>. QED
      BY <1>1, <1>2, <2>1, <3>1, <3>2 DEF IInv, UartTypeOK, Slots
<1>8. /\ fifo'[tail] = dr
      /\ \A i \in Slots : i # tail => fifo'[i] = fifo[i]
      /\ \A i \in Slots : fifo[i] \in Nat
  BY <1>2
<1>9. \A i \in Slots : Held(i) => MayFollow(fifo[i]) /\ fifo[i] < dr
  BY <1>1 DEF IInv, RingBytes
<1>10. ~Held(tail)
  <2>1. Pos(head, tail) \in Nat
    BY PosFrom DEF Slots
  <2>. QED
    BY <2>1 DEF Held
<1>11. \A i \in Slots : Held(i)' => \/ i = tail /\ fifo'[i] = dr
                                    \/ i # tail /\ Held(i) /\ fifo'[i] = fifo[i]
  BY <1>2, <1>8
<1>12. RingOrder'
  <2>. SUFFICES ASSUME NEW i \in Slots, NEW j \in Slots,
                       Held(j)', Pos(head, i)' < Pos(head, j)'
                PROVE  fifo'[i] < fifo'[j]
    BY DEF RingOrder
  <2>1. i # tail /\ (j = tail \/ Pos(head, i) < Pos(head, j))
    BY <1>2
  <2>2. Held(i)'
    <3>1. Pos(head', i) \in Slots /\ Pos(head', j) \in Slots /\ Pos(head', tail') \in Slots
      BY <1>2, PosFrom
    <3>. QED
      BY <3>1 DEF Held, Slots
  <2>3. Held(i) /\ fifo'[i] = fifo[i]
    BY <1>11, <2>1, <2>2
  <2>4. CASE j = tail
    BY <1>8, <1>9, <2>3, <2>4
  <2>5. CASE j # tail
    <3>1. Held(j) /\ fifo'[j] = fifo[j] /\ Pos(head, i) < Pos(head, j)
      BY <1>11, <2>1, <2>5
    <3>. QED
      BY <2>3, <3>1 DEF IInv, RingOrder
  <2>. QED
    BY <2>4, <2>5
<1>13. RingBytes'
  BY <1>1, <1>3, <1>5, <1>8, <1>9, <1>11 DEF RingBytes
<1>14. Register'
  BY <1>1 DEF Register
<1>15. ~Passed
  BY <1>1 DEF Passed
<1>16. idx = head /\ ~calm => idx' = head' \/ Passed'
  BY <1>1, <1>2 DEF Passed
<1>17. head # tail => /\ MayFollow(fifo[head]) /\ fifo'[head] = fifo[head]
                      /\ \A i \in Slots : Held(i)' /\ i # head => fifo'[head] < fifo'[i]
  <2>. SUFFICES ASSUME head # tail
                PROVE  /\ MayFollow(fifo[head]) /\ fifo'[head] = fifo[head]
                       /\ \A i \in Slots : Held(i)' /\ i # head => fifo'[head] < fifo'[i]
    OBVIOUS
  <2>1. /\ Held(head) /\ fifo'[head] = fifo[head]
        /\ \A i \in Slots : Held(i) /\ i # head => fifo[head] < fifo[i]
    BY <1>8, Oldest
  <2>. QED
    BY <1>8, <1>9, <1>11, <2>1
<1>18. tail' = head => \A i \in Slots : Held(i)' => i # head
  <2>1. Pos(head', head) \in Slots
    BY <1>2, PosFrom
  <2>. QED
    BY <2>1 DEF Held, Slots
<1>19. ReaderFits'
  <2>1. pc # "idle" => ~calm
    BY <1>1 DEF IInv, ReaderFits
  <2>2. pc = "compare" => idx' = head' \/ Passed'
    BY <1>15, <1>16, <2>1 DEF IInv, ReaderFits
  <2>3. pc = "slot" => InSlot'
    <3>. SUFFICES ASSUME pc = "slot" PROVE InSlot'
      OBVIOUS
    <3>1. idx = head /\ head # tail /\ ~calm
      BY <1>15, <2>1 DEF IInv, ReaderFits, InSlot
    <3>2. CASE head' = head
      BY <1>1, <3>1, <3>2 DEF InSlot
    <3>3. CASE tail' = head
      <4>1. MayFollow(fifo[idx])'
        BY <1>1, <1>3, <1>8, <1>17, <3>1
      <4>2. \A i \in Slots : Held(i)' => fifo'[idx'] < fifo'[i]
        BY <1>1, <1>17, <1>18, <3>1, <3>3
      <4>. QED
        BY <1>16, <3>1, <4>1, <4>2 DEF InSlot
    <3>. QED
      BY <1>2, <3>2, <3>3
  <2>4. pc \in {"next", "store"} => HandBeforeRing'
    <3>. SUFFICES ASSUME pc \in {"next", "store"} PROVE HandBeforeRing'
      OBVIOUS
    <3>1. HandBeforeRing
      BY DEF IInv, ReaderFits
    <3>2. MayFollow(byte)' /\ byte < dr /\ \A i \in Slots : Held(i) => byte <= fifo[i]
      BY <1>1, <1>3, <3>1 DEF HandBeforeRing, MayFollow
    <3>. QED
      BY <1>1, <1>4, <1>8, <1>11, <3>2 DEF HandBeforeRing
  <2>5. pc = "store" => \/ idx' = head'
                        \/ Passed' /\ \A i \in Slots : Held(i)' => byte < fifo'[i]
    <3>. SUFFICES ASSUME pc = "store"
                  PROVE  \/ idx' = head'
                         \/ Passed' /\ \A i \in Slots : Held(i)' => byte < fifo'[i]
      OBVIOUS
    <3>1. idx = head /\ head # tail /\ ~calm /\ HandBeforeRing
      BY <1>15, <2>1 DEF IInv, ReaderFits
    <3>2. byte <= fifo[head] /\ fifo'[head] = fifo[head] /\ byte < dr
      BY <1>1, <1>8, <3>1, Oldest DEF HandBeforeRing
    <3>3. CASE head' = head
      BY <1>1, <3>1, <3>3
    <3>4. CASE tail' = head
      <4>1. \A i \in Slots : Held(i)' => byte < fifo'[i]
        <5>. SUFFICES ASSUME NEW i \in Slots, Held(i)' PROVE byte < fifo'[i]
          OBVIOUS
        <5>1. fifo[head] < fifo'[i] /\ fifo'[i] \in Nat
          BY <1>8, <1>11, <1>17, <1>18, <3>1, <3>4
        <5>. QED
          BY <1>8, <3>2, <5>1
      <4>. QED
        BY <1>16, <3>1, <4>1
    <3>. QED
      BY <1>2, <3>3, <3>4
  <2>6. pc = "dr" => /\ ~calm
                     /\ \A i \in Slots : Held(i)' => fifo'[i] = dr
    BY <1>1, <1>11 DEF IInv, ReaderFits
  <2>. QED
    BY <1>1, <1>2, <1>3, <1>4, <2>1, <2>2, <2>3, <2>4, <2>5, <2>6 DEF ReaderFits
<1>. QED
  BY <1>3, <1>6, <1>7, <1>12, <1>13, <1>14, <1>19 DEF IInv

\* A step of the reader that delivers nothing leaves the ring, the register and
\* what was delivered as they are: what remains is where the reader is.
LEMMA ReaderOnly ==
    ASSUME IInv, UNCHANGED <<ring, register, arrived, excess, got>>,
           idx' \in Slots, byte' \in 0 .. MaxBytes, calm' \in BOOLEAN,
           pc' \in {"idle", "compare", "index", "slot", "next", "store", "sr", "dr", "clear"},
           ReaderFits'
    PROVE  IInv'
<1>1. /\ fifo' = fifo /\ head' = head /\ tail' = tail /\ dr' = dr /\ rxne' = rxne
      /\ arrived' = arrived /\ excess' = excess /\ got' = got
  BY DEF ring, register
<1>2. /\ GotBytes' /\ DeliveredInOrder' /\ Last' = Last
      /\ \A b \in Nat : MayFollow(b) => MayFollow(b)'
  BY <1>1, Types, NothingDelivered
<1>3. UartTypeOK' /\ Counted'
  <2>1. \A i \in 1 .. Len(got') : got'[i] \in 1 .. MaxBytes
    BY <1>1 DEF IInv, UartTypeOK
  <2>. QED
    BY <1>1, <2>1 DEF IInv, UartTypeOK, Counted, Slots
<1>4. \A i \in Slots : Held(i)' = Held(i) /\ fifo[i] \in Nat
  BY <1>1, Types DEF Held
<1>5. RingOrder' /\ RingBytes' /\ Register'
  BY <1>1, <1>2, <1>4 DEF IInv, RingOrder, RingBytes, Register, Held
<1>. QED
  BY <1>2, <1>3, <1>5 DEF IInv

LEMMA CallStep ==
    ASSUME IInv, Call
    PROVE  IInv'
<1>1. /\ UNCHANGED <<ring, register, arrived, excess, got>>
      /\ pc' = "compare" /\ idx' = head /\ byte' = byte /\ calm' = TRUE
      /\ head' = head /\ rxne' = FALSE
  BY Types DEF Call, ring, register
<1>2. ReaderFits'
  BY <1>1 DEF ReaderFits
<1>3. idx' \in Slots /\ byte' \in 0 .. MaxBytes
  BY <1>1, Types DEF IInv, UartTypeOK
<1>. QED
  BY <1>1, <1>2, <1>3, ReaderOnly

\* An index loaded before the handler moved the head still tells an empty ring
\* from one that is not: the handler never leaves the ring empty.
LEMMA CompareStep ==
    ASSUME IInv, Compare
    PROVE  IInv'
<1>1. /\ UNCHANGED <<ring, register, arrived, excess, got>>
      /\ pc = "compare" /\ pc' = IF idx = tail THEN "sr" ELSE "index"
      /\ idx' = idx /\ byte' = byte /\ calm' = calm
      /\ head' = head /\ tail' = tail /\ rxne' = rxne
  BY DEF Compare, ring, register
<1>2. idx = head \/ Passed
  BY <1>1 DEF IInv, ReaderFits
<1>3. ReaderFits'
  <2>1. calm' => ~rxne'
    BY <1>1 DEF IInv, ReaderFits
  <2>2. pc' = "index" => head' # tail'
    BY <1>1, <1>2 DEF Passed
  <2>3. pc' = "sr" /\ (rxne' \/ calm') => head' = tail'
    BY <1>1, <1>2 DEF Passed
  <2>. QED
    BY <1>1, <2>1, <2>2, <2>3 DEF ReaderFits
<1>4. idx' \in Slots /\ byte' \in 0 .. MaxBytes /\ calm' \in BOOLEAN
  BY <1>1, Types DEF IInv, UartTypeOK
<1>. QED
  BY <1>1, <1>3, <1>4, ReaderOnly

LEMMA LoadIndexStep ==
    ASSUME IInv, LoadIndex
    PROVE  IInv'
<1>1. /\ UNCHANGED <<ring, register, arrived, excess, got>>
      /\ pc = "index" /\ pc' = "slot" /\ idx' = head /\ byte' = byte /\ calm' = calm
      /\ head' = head /\ tail' = tail /\ rxne' = rxne
  BY DEF LoadIndex, ring, register
<1>2. ReaderFits'
  BY <1>1 DEF IInv, ReaderFits, InSlot
<1>3. idx' \in Slots /\ byte' \in 0 .. MaxBytes /\ calm' \in BOOLEAN
  BY <1>1, Types DEF IInv, UartTypeOK
<1>. QED
  BY <1>1, <1>2, <1>3, ReaderOnly

LEMMA LoadSlotStep ==
    ASSUME IInv, LoadSlot
    PROVE  IInv'
<1>1. /\ UNCHANGED <<ring, register, arrived, excess, got>>
      /\ pc = "slot" /\ pc' = "next" /\ idx' = idx /\ byte' = fifo[idx] /\ calm' = calm
      /\ fifo' = fifo /\ head' = head /\ tail' = tail /\ rxne' = rxne /\ dr' = dr
      /\ arrived' = arrived /\ got' = got
  BY DEF LoadSlot, ring, register
<1>2. head # tail /\ InSlot /\ (calm => ~rxne)
  BY <1>1 DEF IInv, ReaderFits
<1>3. fifo[idx] \in Nat /\ \A i \in Slots : fifo[i] \in Nat
  BY Types
<1>4. \A b \in Nat : MayFollow(b) => MayFollow(b)'
  BY <1>1, Types, NothingDelivered
<1>5. /\ MayFollow(fifo[idx]) /\ (rxne => fifo[idx] < dr)
      /\ \A i \in Slots : Held(i) => fifo[idx] <= fifo[i]
  <2>1. CASE idx = head
    BY <1>2, <2>1, Types, Oldest DEF IInv, RingBytes
  <2>2. CASE Passed /\ MayFollow(fifo[idx]) /\ \A i \in Slots : Held(i) => fifo[idx] < fifo[i]
    BY <1>3, <2>2 DEF Passed
  <2>. QED
    BY <1>2, <2>1, <2>2 DEF InSlot
<1>6. MayFollow(byte)'
  BY <1>1, <1>3, <1>4, <1>5 DEF MayFollow
<1>7. HandBeforeRing'
  BY <1>1, <1>5, <1>6 DEF HandBeforeRing, Held
<1>8. ReaderFits'
  BY <1>1, <1>2, <1>7 DEF ReaderFits
<1>9. idx' \in Slots /\ byte' \in 0 .. MaxBytes /\ calm' \in BOOLEAN
  BY <1>1, Types DEF IInv, UartTypeOK, Slots
<1>. QED
  BY <1>1, <1>8, <1>9, ReaderOnly

LEMMA LoadHeadStep ==
    ASSUME IInv, LoadHead
    PROVE  IInv'
<1>1. /\ UNCHANGED <<ring, register, arrived, excess, got>>
      /\ pc = "next" /\ pc' = "store" /\ idx' = head /\ byte' = byte /\ calm' = calm
      /\ fifo' = fifo /\ head' = head /\ tail' = tail /\ rxne' = rxne /\ dr' = dr
      /\ arrived' = arrived /\ got' = got
  BY DEF LoadHead, ring, register
<1>2. head # tail /\ HandBeforeRing /\ (calm => ~rxne)
  BY <1>1 DEF IInv, ReaderFits
<1>3. HandBeforeRing'
  BY <1>1, <1>2 DEF HandBeforeRing, MayFollow, Held, Last, Twice
<1>4. ReaderFits'
  BY <1>1, <1>2, <1>3 DEF ReaderFits
<1>5. idx' \in Slots /\ byte' \in 0 .. MaxBytes /\ calm' \in BOOLEAN
  BY <1>1, Types DEF IInv, UartTypeOK
<1>. QED
  BY <1>1, <1>4, <1>5, ReaderOnly

LEMMA ReadStatusStep ==
    ASSUME IInv, ReadStatus
    PROVE  IInv'
<1>1. /\ UNCHANGED <<ring, register, arrived, excess, got>>
      /\ pc = "sr" /\ pc' \in IF rxne THEN {"dr"} ELSE {"clear", "idle"}
      /\ idx' = idx /\ byte' = byte /\ calm' = calm
      /\ fifo' = fifo /\ head' = head /\ tail' = tail /\ rxne' = rxne /\ dr' = dr
      /\ arrived' = arrived /\ got' = got
  BY DEF ReadStatus, ring, register
<1>2. rxne => ~calm /\ head = tail /\ dr \in 1 .. arrived /\ dr > Last
  BY <1>1 DEF IInv, ReaderFits, Register
<1>3. head = tail => \A i \in Slots : ~Held(i)
  <2>1. \A i \in Slots : Pos(head, head) = 0 /\ Pos(head, i) \in Nat
    BY Types, PosFrom DEF Slots
  <2>. QED
    BY <2>1 DEF Held
<1>4. ReaderFits'
  BY <1>1, <1>2, <1>3 DEF ReaderFits, Held, Last
<1>5. idx' \in Slots /\ byte' \in 0 .. MaxBytes /\ calm' \in BOOLEAN
  BY <1>1, Types DEF IInv, UartTypeOK
<1>. QED
  BY <1>1, <1>4, <1>5, ReaderOnly

LEMMA StoreHeadStep ==
    ASSUME IInv, StoreHead
    PROVE  IInv'
<1>. USE Types
<1>1. /\ pc = "store" /\ pc' = "idle" /\ head' = Following(idx)
      /\ got' = Append(got, byte) /\ arrived' = arrived /\ excess' = excess
      /\ fifo' = fifo /\ tail' = tail /\ dr' = dr /\ rxne' = rxne
      /\ idx' = idx /\ byte' = byte /\ calm' = calm
  BY DEF StoreHead, Return, register
<1>2. /\ head # tail /\ HandBeforeRing
      /\ \/ idx = head
         \/ Passed /\ \A i \in Slots : Held(i) => byte < fifo[i]
  BY <1>1 DEF IInv, ReaderFits
<1>3. MayFollow(byte) /\ (rxne => byte < dr)
  BY <1>2 DEF HandBeforeRing
<1>4. /\ GotBytes' /\ DeliveredInOrder' /\ Last' = byte
      /\ \A i \in 1 .. Len(got') : got'[i] \in 1 .. MaxBytes
  BY <1>1, <1>3, Delivered
<1>5. \A i \in Slots : fifo[i] \in Nat
  OBVIOUS
<1>6. /\ \A i \in Slots : Held(i)' => Held(i) /\ byte < fifo[i]
      /\ \A i, j \in Slots : Held(j)' /\ Pos(head, i)' < Pos(head, j)'
            => Pos(head, i) < Pos(head, j)
  <2>1. CASE idx = head
    <3>1. /\ \A i \in Slots : Held(i)' => Held(i) /\ 0 < Pos(head, i)
          /\ \A i, j \in Slots : Held(j)' /\ Pos(head, i)' < Pos(head, j)'
                => Pos(head, i) < Pos(head, j)
      BY <1>1, <1>2, <2>1, PopRing DEF Held
    <3>2. ~(0 < Pos(head, head))
      BY PosFrom
    <3>3. byte <= fifo[head] /\ \A i \in Slots : Held(i) /\ i # head => fifo[head] < fifo[i]
      BY <1>2, Oldest DEF HandBeforeRing
    <3>4. \A i \in Slots : Held(i)' => byte < fifo[i]
      BY <1>5, <3>1, <3>2, <3>3
    <3>. QED
      BY <3>1, <3>4
  <2>2. CASE Passed /\ \A i \in Slots : Held(i) => byte < fifo[i]
    <3>1. head' = head
      BY <1>1, <2>2 DEF Passed
    <3>. QED
      BY <1>1, <2>2, <3>1 DEF Held
  <2>. QED
    BY <1>2, <2>1, <2>2
<1>7. RingOrder'
  <2>. SUFFICES ASSUME NEW i \in Slots, NEW j \in Slots,
                       Held(i)', Held(j)', Pos(head, i)' < Pos(head, j)'
                PROVE  fifo[i] < fifo[j]
    <3>1. head' \in Slots
      BY <1>1, FollowingIs
    <3>2. \A i, j \in Slots : Held(j)' /\ Pos(head, i)' < Pos(head, j)' => Held(i)'
      <4>1. \A i \in Slots : Pos(head', i) \in Nat
        BY <3>1, PosFrom DEF Slots
      <4>2. tail' \in Slots
        BY <1>1
      <4>. QED
        BY <4>1, <4>2 DEF Held
    <3>. QED
      BY <1>1, <3>2 DEF RingOrder
  <2>. QED
    BY <1>6 DEF IInv, RingOrder
<1>8. RingBytes'
  <2>. SUFFICES ASSUME NEW i \in Slots, Held(i)'
                PROVE  MayFollow(fifo[i])' /\ (rxne => fifo[i] < dr)
    BY <1>1 DEF RingBytes
  <2>1. /\ Held(i) /\ byte < fifo[i] /\ fifo[i] \in 1 .. arrived
        /\ (rxne => fifo[i] < dr)
    BY <1>6 DEF IInv, RingBytes, MayFollow
  <2>. QED
    BY <1>1, <1>4, <2>1 DEF MayFollow
<1>9. Register'
  BY <1>1, <1>3, <1>4 DEF IInv, Register
<1>10. ReaderFits'
  BY <1>1 DEF ReaderFits
<1>11. Counted'
  BY <1>1 DEF IInv, Counted
<1>12. UartTypeOK'
  BY <1>1, <1>4, FollowingIs DEF IInv, UartTypeOK, Slots
<1>. QED
  BY <1>4, <1>7, <1>8, <1>9, <1>10, <1>11, <1>12 DEF IInv

LEMMA ReadDataStep ==
    ASSUME IInv, ReadData
    PROVE  IInv'
<1>. USE Types
<1>1. /\ pc = "dr" /\ pc' = "idle" /\ rxne' = FALSE
      /\ got' = Append(got, dr) /\ arrived' = arrived /\ excess' = excess
      /\ fifo' = fifo /\ head' = head /\ tail' = tail /\ dr' = dr
      /\ idx' = idx /\ byte' = byte /\ calm' = calm
  BY DEF ReadData, Return, ring
<1>2. /\ dr \in 1 .. arrived /\ dr > Last
      /\ \A i \in Slots : Held(i) => fifo[i] = dr
  BY <1>1 DEF IInv, ReaderFits
<1>3. MayFollow(dr)
  BY <1>2 DEF MayFollow
<1>4. /\ GotBytes' /\ DeliveredInOrder' /\ Last' = dr /\ (Twice' <=> dr = Last)
      /\ \A i \in 1 .. Len(got') : got'[i] \in 1 .. MaxBytes
  BY <1>1, <1>3, Delivered
<1>5. ~Twice'
  BY <1>2, <1>4
<1>6. RingOrder'
  BY <1>1 DEF IInv, RingOrder, Held
<1>7. RingBytes'
  BY <1>1, <1>2, <1>4, <1>5 DEF RingBytes, MayFollow, Held
<1>8. Register' /\ ReaderFits'
  BY <1>1 DEF Register, ReaderFits
<1>9. Counted'
  BY <1>1 DEF IInv, Counted
<1>10. UartTypeOK'
  BY <1>1, <1>4 DEF IInv, UartTypeOK
<1>. QED
  BY <1>4, <1>6, <1>7, <1>8, <1>9, <1>10 DEF IInv

LEMMA ClearErrorStep ==
    ASSUME IInv, ClearError
    PROVE  IInv'
<1>. USE Types
<1>1. /\ pc = "clear" /\ pc' = "idle" /\ rxne' = FALSE
      /\ excess' = (IF rxne THEN excess + 1 ELSE excess)
      /\ arrived' = arrived /\ got' = got
      /\ fifo' = fifo /\ head' = head /\ tail' = tail /\ dr' = dr
      /\ idx' = idx /\ byte' = byte /\ calm' = calm
  BY DEF ClearError, Return, ring
<1>2. GotBytes' /\ DeliveredInOrder' /\ Last' = Last /\ Twice' = Twice
  BY <1>1, NothingDelivered
<1>3. RingOrder'
  BY <1>1 DEF IInv, RingOrder, Held
<1>4. RingBytes'
  BY <1>1, <1>2 DEF IInv, RingBytes, MayFollow, Held
<1>5. Register' /\ ReaderFits'
  BY <1>1 DEF Register, ReaderFits
<1>6. Counted'
  BY <1>1 DEF IInv, Counted
<1>7. excess' \in 0 .. MaxBytes
  BY <1>1, <1>6 DEF IInv, UartTypeOK, Counted
<1>8. UartTypeOK'
  BY <1>1, <1>7 DEF IInv, UartTypeOK
<1>. QED
  BY <1>2, <1>3, <1>4, <1>5, <1>6, <1>8 DEF IInv
-----------------------------------------------------------------------------
LEMMA InitIInv ==
    ASSUME Init
    PROVE  IInv
<1>1. /\ fifo = [i \in Slots |-> 0] /\ head = 0 /\ tail = 0 /\ dr = 0 /\ rxne = FALSE
      /\ pc = "idle" /\ idx = 0 /\ byte = 0 /\ calm = TRUE /\ arrived = 0 /\ excess = 0
      /\ got = <<>> /\ Len(got) = 0
  BY DEF Init, Slots
<1>2. Cap \in Nat /\ Cap > 1 /\ MaxBytes \in Nat
  BY CapAssumption, BytesAssumption
<1>3. \A i \in Slots : ~Held(i)
  BY <1>1, <1>2 DEF Held, Pos, Slots
<1>4. UartTypeOK
  <2>1. fifo \in [0 .. (Cap - 1) -> 0 .. MaxBytes]
    BY <1>1, <1>2 DEF Slots
  <2>2. \A i \in 1 .. Len(got) : got[i] \in 1 .. MaxBytes
    BY <1>1
  <2>. QED
    <3>1. 0 \in 0 .. (Cap - 1) /\ 0 \in 0 .. MaxBytes
      BY <1>2
    <3>2. /\ head = 0 /\ tail = 0 /\ dr = 0 /\ rxne = FALSE /\ pc = "idle"
          /\ idx = 0 /\ byte = 0 /\ calm = TRUE /\ arrived = 0 /\ excess = 0
      BY <1>1
    <3>. QED
      BY <2>1, <2>2, <3>1, <3>2 DEF UartTypeOK
<1>5. GotBytes /\ DeliveredInOrder
  BY <1>1 DEF GotBytes, DeliveredInOrder
<1>6. RingOrder
  BY <1>1, <1>2 DEF RingOrder, Held, Pos, Slots
<1>7. RingBytes /\ Register /\ ReaderFits /\ Counted
  BY <1>1, <1>3 DEF RingBytes, Register, ReaderFits, Counted
<1>. QED
  BY <1>4, <1>5, <1>6, <1>7 DEF IInv

LEMMA StepIInv ==
    ASSUME IInv, [Next]_vars
    PROVE  IInv'
<1>1. CASE ByteArrives
  BY <1>1, ByteArrivesStep
<1>2. CASE Interrupt
  BY <1>2, InterruptStep
<1>3. CASE Call
  BY <1>3, CallStep
<1>4. CASE Read
  BY <1>4, CompareStep, LoadIndexStep, LoadSlotStep, LoadHeadStep, StoreHeadStep,
     ReadStatusStep, ReadDataStep, ClearErrorStep DEF Read
<1>5. CASE UNCHANGED vars
  <2>1. /\ UNCHANGED <<ring, register, arrived, excess, got>>
        /\ pc' = pc /\ idx' = idx /\ byte' = byte /\ calm' = calm
        /\ fifo' = fifo /\ head' = head /\ tail' = tail /\ dr' = dr /\ rxne' = rxne
        /\ arrived' = arrived /\ got' = got
    BY <1>5 DEF vars, ring, register, reader
  <2>2. ReaderFits'
    BY <2>1 DEF IInv, ReaderFits, InSlot, HandBeforeRing, Passed, MayFollow, Held, Last, Twice
  <2>3. /\ idx' \in Slots /\ byte' \in 0 .. MaxBytes /\ calm' \in BOOLEAN
        /\ pc' \in {"idle", "compare", "index", "slot", "next", "store", "sr", "dr", "clear"}
    BY <2>1 DEF IInv, UartTypeOK, Slots
  <2>. QED
    BY <2>1, <2>2, <2>3, ReaderOnly
<1>. QED
  BY <1>1, <1>2, <1>3, <1>4, <1>5 DEF Next

\* The indices of s_uart4_rx_fifo stay in it, whichever side writes them and
\* wherever the interrupt falls, for every size of the ring.
THEOREM UartTypeCorrect == Spec => []UartTypeOK
<1>1. IInv => UartTypeOK
  BY DEF IInv
<1>. QED
  BY <1>1, InitIInv, StepIInv, PTL DEF Spec

\* bsp_uart_read hands out the modem's bytes in the order they arrived, and one
\* of them twice at most, whatever UART4_IRQHandler does between its accesses,
\* for every size of the ring and any number of bytes.
THEOREM OrderOfArrival == Spec => []DeliveredInOrder
<1>1. IInv => DeliveredInOrder
  BY DEF IInv
<1>. QED
  BY <1>1, InitIInv, StepIInv, PTL DEF Spec
-----------------------------------------------------------------------------
(* Loss.  A byte is lost when it is given up by the handler, or when the   *)
(* superloop moves the head past it.  It does so when the handler gave up  *)
(* the byte it is about to hand out: that one is delivered instead.  So    *)
(* the byte it will skip is counted as soon as the other is out of danger. *)

RingSet == {fifo[i] : i \in {s \in Slots : Held(s)}}

GotSet == {got[k] : k \in 1 .. Len(got)}

\* The byte the reader has, or is about to load.
Hand == IF pc = "slot" THEN {fifo[idx]} ELSE InHand

Skips == pc \in {"slot", "next"} \/ (pc = "store" /\ idx = head)

Skipped == IF Skips /\ fifo[head] \notin Hand THEN {fifo[head]} ELSE {}

InRegister == IF rxne THEN {dr} ELSE {}

Missing == 1 .. arrived \ (GotSet \cup RingSet \cup InRegister \cup Hand)

Lost == Missing \cup Skipped

LossInv ==
    /\ IsFiniteSet(Lost) /\ Cardinality(Lost) <= excess
    /\ Skipped # {} => ~rxne /\ ~calm

\* What a step may do: lose nothing, or a single byte and count it.
LosesOneAtMost ==
    \/ Lost' \subseteq Lost /\ excess' = excess
    \/ \E x : Lost' \subseteq Lost \cup {x} /\ excess' = excess + 1

LEMMA LossCounted ==
    ASSUME IInv, LossInv, LosesOneAtMost
    PROVE  IsFiniteSet(Lost') /\ Cardinality(Lost') <= excess'
<1>1. IsFiniteSet(Lost) /\ Cardinality(Lost) \in Nat /\ Cardinality(Lost) <= excess
  BY FS_CardinalityType DEF LossInv
<1>2. excess \in Nat
  BY DEF IInv, Counted
<1>3. CASE Lost' \subseteq Lost /\ excess' = excess
  <2>1. IsFiniteSet(Lost') /\ Cardinality(Lost') <= Cardinality(Lost)
    BY <1>1, <1>3, FS_Subset
  <2>2. Cardinality(Lost') \in Nat
    BY <2>1, FS_CardinalityType
  <2>. QED
    BY <1>1, <1>2, <1>3, <2>1, <2>2
<1>4. ASSUME NEW x, Lost' \subseteq Lost \cup {x}, excess' = excess + 1
      PROVE  IsFiniteSet(Lost') /\ Cardinality(Lost') <= excess'
  <2>1. /\ IsFiniteSet(Lost \cup {x})
        /\ Cardinality(Lost \cup {x}) = IF x \in Lost THEN Cardinality(Lost)
                                                     ELSE Cardinality(Lost) + 1
    BY <1>1, FS_AddElement
  <2>2. IsFiniteSet(Lost') /\ Cardinality(Lost') <= Cardinality(Lost \cup {x})
    BY <1>4, <2>1, FS_Subset
  <2>3. Cardinality(Lost') \in Nat
    BY <2>2, FS_CardinalityType
  <2>. QED
    BY <1>1, <1>2, <1>4, <2>1, <2>2, <2>3
<1>. QED
  BY <1>3, <1>4 DEF LosesOneAtMost

LEMMA ByteArrivesLoss ==
    ASSUME IInv, LossInv, ByteArrives
    PROVE  LosesOneAtMost /\ (Skipped' # {} => ~rxne' /\ ~calm')
<1>1. /\ arrived' = arrived + 1 /\ rxne' = TRUE /\ calm' = (pc = "idle")
      /\ dr' = IF rxne THEN dr ELSE arrived + 1
      /\ excess' = IF rxne THEN excess + 1 ELSE excess
      /\ fifo' = fifo /\ head' = head /\ tail' = tail
      /\ pc' = pc /\ idx' = idx /\ byte' = byte /\ got' = got
      /\ (calm \/ pc = "idle")
  BY DEF ByteArrives, ring, reader
<1>2. arrived \in Nat /\ rxne \in BOOLEAN
  BY Types
<1>3. Hand' = Hand /\ RingSet' = RingSet /\ GotSet' = GotSet /\ Skipped' = Skipped
  BY <1>1 DEF Hand, InHand, RingSet, Held, GotSet, Skipped, Skips
<1>4. Skipped = {}
  BY <1>1 DEF LossInv, Skipped, Skips
<1>5. Missing' \subseteq Missing \cup (IF rxne THEN {arrived + 1} ELSE {})
  <2>1. 1 .. (arrived + 1) = 1 .. arrived \cup {arrived + 1}
    BY <1>2
  <2>. QED
    BY <1>1, <1>2, <1>3, <2>1 DEF Missing, InRegister
<1>. QED
  BY <1>1, <1>2, <1>3, <1>4, <1>5 DEF LosesOneAtMost, Lost

\* The handler gives up the oldest byte of a full ring and no other.
LEMMA PushKeeps ==
    ASSUME IInv, Interrupt
    PROVE  /\ dr \in RingSet'
           /\ \A i \in Slots : Held(i) /\ (head' = head \/ i # head) => fifo[i] \in RingSet'
           /\ head' = head => excess' = excess
           /\ head' # head => excess' = excess + 1
<1>1. /\ fifo' = [fifo EXCEPT ![tail] = dr] /\ tail' = Following(tail)
      /\ head' = (IF Following(tail) = head THEN Following(head) ELSE head)
      /\ excess' = (IF Following(tail) = head THEN excess + 1 ELSE excess)
  BY DEF Interrupt, Push
<1>2. Cap \in Nat /\ Cap > 1 /\ head \in Slots /\ tail \in Slots
  BY Types
<1>3. /\ Following(head) \in Slots /\ Following(tail) \in Slots
      /\ Following(head) # head /\ Following(tail) # tail
  BY <1>2, FollowingIs DEF Slots
<1>4. \A i \in Slots : Pos(head, i) \in 0 .. (Cap - 1) /\ Pos(head, i) \in Nat
  BY <1>2, PosFrom DEF Slots
<1>5. \/ Following(tail) # head
      \/ Following(tail) = head /\ head' = Following(head) /\ tail' = head
  BY <1>1
<1>6. \A i \in Slots : i = tail \/ (Held(i) /\ (head' = head \/ i # head))
          => Pos(head', i) < Pos(head', tail')
  <2>1. CASE Following(tail) # head
    <3>1. Pos(head, Following(tail)) = Pos(head, tail) + 1
      BY <1>2, <1>3, <2>1, FollowingIs DEF Slots, Pos
    <3>2. head' = head /\ tail' = Following(tail)
      BY <1>1, <2>1
    <3>. QED
      BY <1>2, <1>4, <3>1, <3>2 DEF Held
  <2>2. CASE Following(tail) = head /\ head' = Following(head) /\ tail' = head
    <3>1. \A i \in Slots : i # head => Pos(Following(head), i) = Pos(head, i) - 1
      BY <1>2, PosFrom
    <3>2. Pos(Following(head), head) = Cap - 1
      BY <1>2, PosFrom
    <3>3. \A i \in Slots : i # head => Pos(head', i) < Pos(head', tail')
      BY <1>2, <1>4, <2>2, <3>1, <3>2
    <3>. QED
      BY <1>3, <2>2, <3>3
  <2>. QED
    BY <1>5, <2>1, <2>2
<1>7. \A i \in Slots : Pos(head', i) < Pos(head', tail') => fifo'[i] \in RingSet'
  BY DEF RingSet, Held
<1>8. fifo'[tail] = dr /\ \A i \in Slots : i # tail => fifo'[i] = fifo[i]
  BY <1>1, Types
<1>9. ~Held(tail)
  BY <1>2, <1>4 DEF Held
<1>10. dr \in RingSet'
  BY <1>2, <1>6, <1>7, <1>8
<1>11. \A i \in Slots : Held(i) /\ (head' = head \/ i # head) => fifo[i] \in RingSet'
  BY <1>6, <1>7, <1>8, <1>9
<1>. QED
  BY <1>1, <1>3, <1>10, <1>11

LEMMA InterruptLoss ==
    ASSUME IInv, LossInv, Interrupt
    PROVE  LosesOneAtMost /\ (Skipped' # {} => ~rxne' /\ ~calm')
<1>. USE Types
<1>1. /\ rxne /\ rxne' = FALSE /\ dr' = dr /\ calm' = calm /\ arrived' = arrived
      /\ pc' = pc /\ idx' = idx /\ byte' = byte /\ got' = got
  BY DEF Interrupt, reader
<1>2. /\ fifo' = [fifo EXCEPT ![tail] = dr]
      /\ head' = head \/ head' = Following(head)
  BY PushRing
<1>3. Skipped = {} /\ ~Passed
  BY <1>1 DEF LossInv, Passed
<1>4. pc # "idle" => ~calm
  BY <1>1 DEF IInv, ReaderFits
<1>5. /\ pc \in {"slot", "next", "store"} => head # tail
      /\ pc \in {"slot", "store"} => idx = head
  BY <1>3 DEF IInv, ReaderFits, InSlot
<1>6. Hand' = Hand /\ fifo'[head] = (IF head = tail THEN dr ELSE fifo[head])
  BY <1>1, <1>2, <1>5 DEF Hand, InHand
<1>7. pc \in {"slot", "next", "store"} => fifo[head] \in Hand
  BY <1>3, <1>5 DEF Skipped, Skips
<1>8. GotSet' = GotSet
  BY <1>1 DEF GotSet
<1>9. CASE head' = head
  <2>1. RingSet \cup InRegister \subseteq RingSet'
    BY <1>1, <1>9, PushKeeps DEF RingSet, InRegister
  <2>2. Missing' \subseteq Missing
    BY <1>1, <1>6, <1>8, <2>1 DEF Missing
  <2>3. Skipped' = {}
    BY <1>1, <1>5, <1>6, <1>7, <1>9 DEF Skipped, Skips
  <2>. QED
    BY <1>9, <2>2, <2>3, PushKeeps DEF LosesOneAtMost, Lost
<1>10. CASE head' # head
  <2>1. excess' = excess + 1
    BY <1>10, PushKeeps
  <2>2. RingSet \cup InRegister \subseteq RingSet' \cup {fifo[head]}
    BY <1>1, <1>10, PushKeeps DEF RingSet, InRegister
  <2>3. Missing' \subseteq Missing \cup {fifo[head]}
    BY <1>1, <1>6, <1>8, <2>2 DEF Missing
  <2>4. CASE pc \in {"slot", "next"}
    <3>1. Missing' \subseteq Missing
      BY <1>6, <1>7, <2>3, <2>4 DEF Missing
    <3>2. Skipped' \subseteq {fifo'[head']}
      BY DEF Skipped
    <3>3. Lost' \subseteq Lost \cup {fifo'[head']}
      BY <3>1, <3>2 DEF Lost
    <3>4. \E x : Lost' \subseteq Lost \cup {x}
      BY <3>3
    <3>. QED
      BY <1>1, <1>4, <2>1, <2>4, <3>4 DEF LosesOneAtMost
  <2>5. CASE pc \notin {"slot", "next"}
    <3>1. Skipped' = {}
      BY <1>1, <1>5, <1>10, <2>5 DEF Skipped, Skips
    <3>. QED
      BY <2>1, <2>3, <3>1 DEF LosesOneAtMost, Lost
  <2>. QED
    BY <2>4, <2>5
<1>. QED
  BY <1>9, <1>10

\* The reader's loads lose nothing.
LEMMA LoadLoss ==
    ASSUME IInv, LossInv, Call \/ Compare \/ LoadIndex \/ LoadSlot \/ LoadHead \/ ReadStatus
    PROVE  LosesOneAtMost /\ (Skipped' # {} => ~rxne' /\ ~calm')
<1>1. /\ fifo' = fifo /\ head' = head /\ tail' = tail /\ dr' = dr /\ rxne' = rxne
      /\ arrived' = arrived /\ excess' = excess /\ got' = got
  BY DEF Call, Compare, LoadIndex, LoadSlot, LoadHead, ReadStatus, ring, register
<1>2. RingSet' = RingSet /\ InRegister' = InRegister /\ GotSet' = GotSet
  BY <1>1 DEF RingSet, Held, InRegister, GotSet
<1>3. CASE LoadSlot \/ LoadHead
  <2>1. Hand' = Hand /\ Skipped' = Skipped /\ calm' = calm
    BY <1>1, <1>3 DEF LoadSlot, LoadHead, Hand, InHand, Skipped, Skips
  <2>. QED
    BY <1>1, <1>2, <2>1 DEF LosesOneAtMost, Lost, Missing, LossInv
<1>4. CASE Call \/ Compare \/ LoadIndex \/ ReadStatus
  <2>1. Hand = {} /\ Skipped' = {}
    BY <1>1, <1>4 DEF Call, Compare, LoadIndex, ReadStatus, Hand, InHand, Skipped, Skips
  <2>2. Missing' \subseteq Missing
    BY <1>1, <1>2, <2>1 DEF Missing
  <2>. QED
    BY <1>1, <2>1, <2>2 DEF LosesOneAtMost, Lost
<1>. QED
  BY <1>3, <1>4

\* The head goes past the byte handed out, or past the one that was skipped.
LEMMA StoreHeadLoss ==
    ASSUME IInv, LossInv, StoreHead
    PROVE  LosesOneAtMost /\ (Skipped' # {} => ~rxne' /\ ~calm')
<1>. USE Types
<1>1. /\ pc = "store" /\ pc' = "idle" /\ head' = Following(idx)
      /\ got' = Append(got, byte) /\ arrived' = arrived /\ excess' = excess
      /\ fifo' = fifo /\ tail' = tail /\ dr' = dr /\ rxne' = rxne
  BY DEF StoreHead, Return, register
<1>2. head # tail /\ (idx = head \/ Passed)
  BY <1>1 DEF IInv, ReaderFits
<1>3. Hand = {byte} /\ Hand' = {} /\ Skipped' = {} /\ InRegister' = InRegister
  BY <1>1 DEF Hand, InHand, Skipped, Skips, InRegister
<1>4. GotSet' = GotSet \cup {byte}
  <2>1. got \in Seq(Nat)
    BY DEF IInv, GotBytes
  <2>2. /\ Len(got) \in Nat /\ Len(got') = Len(got) + 1 /\ got'[Len(got) + 1] = byte
        /\ \A k \in 1 .. Len(got) : got'[k] = got[k]
    BY <1>1, <2>1
  <2>3. 1 .. Len(got') = 1 .. Len(got) \cup {Len(got) + 1}
    BY <2>2
  <2>4. GotSet' = {got'[k] : k \in 1 .. Len(got) \cup {Len(got) + 1}}
    BY <2>3 DEF GotSet
  <2>5. ASSUME NEW x PROVE x \in GotSet' <=> x \in GotSet \cup {byte}
    BY <2>2, <2>4 DEF GotSet
  <2>. QED
    BY <2>5
<1>5. RingSet \subseteq RingSet' \cup Skipped \cup {byte}
  <2>1. CASE idx = head
    <3>1. \A i \in Slots : i # head => Pos(Following(head), i) = Pos(head, i) - 1
      BY PosFrom
    <3>2. \A i \in Slots : Pos(head, i) \in 0 .. (Cap - 1)
      BY PosFrom DEF Slots
    <3>3. \A i \in Slots : Held(i) /\ i # head => Held(i)'
      BY <1>1, <1>2, <2>1, <3>1, <3>2 DEF Held
    <3>4. RingSet \subseteq RingSet' \cup {fifo[head]}
      BY <1>1, <3>3 DEF RingSet
    <3>5. fifo[head] \in Skipped \cup {byte}
      BY <1>1, <1>3, <2>1 DEF Skipped, Skips
    <3>. QED
      BY <3>4, <3>5
  <2>2. CASE Passed
    <3>1. head' = head
      BY <1>1, <2>2 DEF Passed
    <3>. QED
      BY <1>1, <3>1 DEF RingSet, Held
  <2>. QED
    BY <1>2, <2>1, <2>2
<1>6. Missing' \subseteq Missing \cup Skipped
  BY <1>1, <1>3, <1>4, <1>5 DEF Missing
<1>. QED
  BY <1>1, <1>3, <1>6 DEF LosesOneAtMost, Lost

LEMMA ReadDataLoss ==
    ASSUME IInv, LossInv, ReadData
    PROVE  LosesOneAtMost /\ (Skipped' # {} => ~rxne' /\ ~calm')
<1>1. /\ pc = "dr" /\ pc' = "idle" /\ rxne' = FALSE
      /\ got' = Append(got, dr) /\ arrived' = arrived /\ excess' = excess
      /\ fifo' = fifo /\ head' = head /\ tail' = tail
  BY DEF ReadData, Return, ring
<1>2. Hand = {} /\ Skipped' = {} /\ RingSet' = RingSet
  BY <1>1 DEF Hand, InHand, Skipped, Skips, RingSet, Held
<1>3. GotSet \cup {dr} \subseteq GotSet'
  <2>1. got \in Seq(Nat) /\ dr \in Nat
    BY Types DEF IInv, GotBytes
  <2>2. /\ Len(got) \in Nat /\ Len(got') = Len(got) + 1 /\ got'[Len(got) + 1] = dr
        /\ \A k \in 1 .. Len(got) : got'[k] = got[k]
    BY <1>1, <2>1
  <2>3. 1 .. Len(got') = 1 .. Len(got) \cup {Len(got) + 1}
    BY <2>2
  <2>. QED
    BY <2>2, <2>3 DEF GotSet
<1>4. Missing' \subseteq Missing
  BY <1>1, <1>2, <1>3 DEF Missing, InRegister
<1>. QED
  BY <1>1, <1>2, <1>4 DEF LosesOneAtMost, Lost

\* What is in the register is thrown away, and counted.
LEMMA ClearErrorLoss ==
    ASSUME IInv, LossInv, ClearError
    PROVE  LosesOneAtMost /\ (Skipped' # {} => ~rxne' /\ ~calm')
<1>1. /\ pc = "clear" /\ pc' = "idle" /\ rxne' = FALSE
      /\ excess' = (IF rxne THEN excess + 1 ELSE excess)
      /\ arrived' = arrived /\ got' = got
      /\ fifo' = fifo /\ head' = head /\ tail' = tail /\ dr' = dr
  BY DEF ClearError, Return, ring
<1>2. Hand = {} /\ Hand' = {} /\ Skipped' = {} /\ RingSet' = RingSet /\ GotSet' = GotSet
  BY <1>1 DEF Hand, InHand, Skipped, Skips, RingSet, Held, GotSet
<1>3. Missing' \subseteq Missing \cup InRegister
  BY <1>1, <1>2 DEF Missing
<1>4. LosesOneAtMost
  <2>1. CASE rxne
    BY <1>1, <1>2, <1>3, <2>1 DEF LosesOneAtMost, Lost, InRegister
  <2>2. CASE ~rxne
    BY <1>1, <1>2, <1>3, <2>2 DEF LosesOneAtMost, Lost, InRegister
  <2>. QED
    BY <2>1, <2>2
<1>. QED
  BY <1>2, <1>4

LEMMA StepLoss ==
    ASSUME IInv, LossInv, [Next]_vars
    PROVE  LossInv'
<1>1. CASE Next
  <2>1. LosesOneAtMost /\ (Skipped' # {} => ~rxne' /\ ~calm')
    BY <1>1, ByteArrivesLoss, InterruptLoss, LoadLoss, StoreHeadLoss, ReadDataLoss,
       ClearErrorLoss
       DEF Next, Read
  <2>2. IsFiniteSet(Lost') /\ Cardinality(Lost') <= excess'
    BY <2>1, LossCounted
  <2>. QED
    BY <2>1, <2>2 DEF LossInv
<1>2. CASE UNCHANGED vars
  <2>1. /\ fifo' = fifo /\ head' = head /\ tail' = tail /\ dr' = dr /\ rxne' = rxne
        /\ pc' = pc /\ idx' = idx /\ byte' = byte /\ calm' = calm
        /\ arrived' = arrived /\ excess' = excess /\ got' = got
    BY <1>2 DEF vars, ring, register, reader
  <2>2. Lost' = Lost /\ Skipped' = Skipped
    BY <2>1 DEF Lost, Missing, GotSet, RingSet, Held, InRegister, Hand, InHand, Skipped, Skips
  <2>. QED
    BY <2>1, <2>2 DEF LossInv
<1>. QED
  BY <1>1, <1>2

LEMMA InitLoss ==
    ASSUME Init
    PROVE  LossInv
<1>1. arrived = 0 /\ excess = 0 /\ pc = "idle"
  BY DEF Init
<1>2. Lost = {} /\ Skipped = {}
  BY <1>1 DEF Lost, Missing, Skipped, Skips
<1>. QED
  BY <1>1, <1>2, FS_EmptySet DEF LossInv

\* The slots a walk from the head reaches before the tail are those held.
LEMMA RingIs ==
    ASSUME IInv
    PROVE  InRing = RingSet
<1>0. Cap \in Nat /\ Cap > 1 /\ head \in Slots /\ tail \in Slots
  BY Types
<1>. DEFINE Wrap(a) == a % Cap
<1>1. \A a \in 0 .. (2 * Cap - 1) : Wrap(a) = IF a < Cap THEN a ELSE a - Cap
  BY CapAssumption
<1>2. InRing = {fifo[Wrap(head + k)] : k \in 0 .. (Wrap(tail + Cap - head) - 1)}
  BY DEF InRing
<1>. HIDE DEF Wrap
<1>3. Wrap(tail + Cap - head) = Pos(head, tail) /\ Pos(head, tail) \in Nat
  BY <1>0, <1>1 DEF Slots, Pos
<1>4. \A k \in 0 .. (Pos(head, tail) - 1) : /\ Wrap(head + k) \in Slots
                                            /\ Pos(head, Wrap(head + k)) = k
  BY <1>0, <1>1 DEF Slots, Pos
<1>5. \A i \in Slots : Pos(head, i) \in Nat /\ Wrap(head + Pos(head, i)) = i
  BY <1>0, <1>1 DEF Slots, Pos
<1>6. InRing \subseteq RingSet
  BY <1>2, <1>3, <1>4 DEF RingSet, Held
<1>7. RingSet \subseteq InRing
  <2>. SUFFICES ASSUME NEW i \in Slots, Held(i) PROVE fifo[i] \in InRing
    BY DEF RingSet
  <2>1. Pos(head, i) \in 0 .. (Pos(head, tail) - 1)
    BY <1>3, <1>5 DEF Held
  <2>. QED
    BY <1>2, <1>3, <1>5, <2>1
<1>. QED
  BY <1>6, <1>7

LEMMA LossBounded ==
    ASSUME IInv, LossInv
    PROVE  LossOnlyByExcess
<1>. DEFINE Gone == 1 .. arrived \ (GotSet \cup RingSet \cup InRegister \cup InHand)
<1>1. LossOnlyByExcess <=> Cardinality(Gone) <= excess
  BY RingIs DEF LossOnlyByExcess, Pending, GotSet, InRegister
<1>2. /\ IsFiniteSet(Lost) /\ Cardinality(Lost) \in Nat
      /\ Cardinality(Lost) <= excess /\ excess \in Nat
  BY FS_CardinalityType DEF LossInv, IInv, Counted
<1>3. CASE Gone \subseteq Lost
  <2>1. Cardinality(Gone) <= Cardinality(Lost) /\ IsFiniteSet(Gone)
    BY <1>2, <1>3, FS_Subset
  <2>2. Cardinality(Gone) \in Nat
    BY <2>1, FS_CardinalityType
  <2>. QED
    BY <1>1, <1>2, <2>1, <2>2
<1>4. CASE ~(Gone \subseteq Lost)
  <2>1. pc = "slot"
    BY <1>4 DEF Lost, Missing, Hand
  <2>2. Hand = {fifo[idx]} /\ InHand = {} /\ Gone \subseteq Missing \cup {fifo[idx]}
    BY <2>1 DEF Hand, InHand, Missing
  <2>3. fifo[idx] \in Gone
    BY <1>4, <2>2 DEF Lost
  <2>4. fifo[head] \in RingSet
    <3>1. head # tail
      BY <2>1 DEF IInv, ReaderFits
    <3>2. Held(head)
      BY <3>1, Oldest
    <3>. QED
      BY <3>2, Types DEF RingSet
  <2>5. fifo[head] \notin Gone /\ fifo[head] \in Skipped
    BY <2>1, <2>2, <2>3, <2>4 DEF Skipped, Skips
  <2>. DEFINE Rest == Gone \ {fifo[idx]}
  <2>6. Rest \cup {fifo[head]} \subseteq Lost /\ fifo[head] \notin Rest /\ fifo[idx] \notin Rest
    BY <2>2, <2>5 DEF Lost
  <2>7. IsFiniteSet(Rest) /\ Cardinality(Rest) \in Nat
    BY <1>2, <2>6, FS_Subset, FS_CardinalityType
  <2>8. Cardinality(Rest \cup {fifo[head]}) = Cardinality(Rest) + 1
    BY <2>6, <2>7, FS_AddElement
  <2>9. Cardinality(Rest \cup {fifo[idx]}) = Cardinality(Rest) + 1
    BY <2>6, <2>7, FS_AddElement
  <2>10. Gone = Rest \cup {fifo[idx]}
    BY <2>3
  <2>11. Cardinality(Rest \cup {fifo[head]}) <= Cardinality(Lost)
    BY <1>2, <2>6, FS_Subset
  <2>12. Cardinality(Gone) = Cardinality(Rest \cup {fifo[head]})
    BY <2>8, <2>9, <2>10
  <2>13. Cardinality(Rest \cup {fifo[head]}) \in Nat
    BY <2>7, <2>8
  <2>. HIDE DEF Gone, Rest
  <2>. QED
    BY <1>1, <1>2, <2>11, <2>12, <2>13
<1>. QED
  BY <1>3, <1>4

\* The head is written by both sides of the ring, yet no byte vanishes but for
\* one that arrives at a full ring or register, for every size of the ring.
THEOREM NothingElseLost == Spec => []LossOnlyByExcess
<1>1. IInv /\ LossInv => LossOnlyByExcess
  BY LossBounded
<1>. QED
  BY <1>1, InitIInv, StepIInv, InitLoss, StepLoss, PTL DEF Spec
=============================================================================
