--------------------------- MODULE FrameStreamProofs ---------------------------
(***************************************************************************)
(* What FrameStream's buffers keep, and what comes off the stream, for     *)
(* every length of frame, buffer, burst and prefix.                        *)
(*                                                                         *)
(* That frames come off whole and in their order is not inductive by       *)
(* itself: it needs that what is in rx and on the line is a stream, in     *)
(* which each byte tells the next (Stream), of frames sent after those     *)
(* taken (Taken).  At the head of a stream a length is read as what it     *)
(* says only where one is; inside a frame it is larger than any buffer     *)
(* (LengthRead), so that net_socket_client_feed finds the next frame by    *)
(* giving up one byte per call.  The loop of net_connectivity_poll is a    *)
(* recursive function, and what it keeps is shown by induction over the    *)
(* calls left (DispatchStays).                                             *)
(***************************************************************************)
EXTENDS FrameStream, Loops, SequenceTheorems

(* Sequences. *)

\* What is left when n are taken off the front.
LEMMA Shifted ==
    ASSUME NEW S, NEW s \in Seq(S), NEW n \in 0..Len(s)
    PROVE  /\ ShiftLeft(s, n) \in Seq(S) /\ Len(ShiftLeft(s, n)) = Len(s) - n
           /\ \A i \in 1..(Len(s) - n) : ShiftLeft(s, n)[i] = s[i + n]
BY DEF ShiftLeft

\* Of two sequences one after the other the front is in the first.
LEMMA ShiftedFront ==
    ASSUME NEW S, NEW s \in Seq(S), NEW t \in Seq(S), NEW n \in 0..Len(s)
    PROVE  ShiftLeft(s, n) \o t = ShiftLeft(s \o t, n)
<1>1. /\ s \o t \in Seq(S) /\ Len(s \o t) = Len(s) + Len(t)
      /\ \A i \in 1..(Len(s) + Len(t)) : (s \o t)[i] = IF i <= Len(s) THEN s[i] ELSE t[i - Len(s)]
  BY ConcatProperties
<1>2. n \in 0..Len(s \o t)
  BY <1>1
<1> DEFINE a == ShiftLeft(s, n)
           b == ShiftLeft(s \o t, n)
<1>3. a \in Seq(S) /\ Len(a) = Len(s) - n /\ \A i \in 1..(Len(s) - n) : a[i] = s[i + n]
  BY Shifted
<1>4. /\ b \in Seq(S) /\ Len(b) = Len(s) + Len(t) - n
      /\ \A i \in 1..(Len(s) + Len(t) - n) : b[i] = (s \o t)[i + n]
  <2> DEFINE c == s \o t
  <2>1. c \in Seq(S) /\ Len(c) = Len(s) + Len(t) /\ n \in 0..Len(c) /\ b = ShiftLeft(c, n)
    BY <1>1, <1>2
  <2> HIDE DEF b, c
  <2>2. /\ b \in Seq(S) /\ Len(b) = Len(c) - n
        /\ \A i \in 1..(Len(c) - n) : b[i] = c[i + n]
    BY <2>1, Shifted
  <2> QED BY <2>1, <2>2 DEF c
<1> HIDE DEF a, b
<1>5. /\ a \o t \in Seq(S) /\ Len(a \o t) = Len(a) + Len(t)
      /\ \A i \in 1..(Len(a) + Len(t)) : (a \o t)[i] = IF i <= Len(a) THEN a[i] ELSE t[i - Len(a)]
  BY <1>3, ConcatProperties
<1>6. Len(a \o t) = Len(b)
  BY <1>3, <1>4, <1>5
<1>7. ASSUME NEW i \in 1..Len(a \o t) PROVE (a \o t)[i] = b[i]
  <2>1. i + n \in 1..(Len(s) + Len(t)) /\ i \in 1..(Len(s) + Len(t) - n) /\ i \in 1..(Len(a) + Len(t))
    BY <1>3, <1>5
  <2>2. CASE i <= Len(a)
    BY <1>1, <1>3, <1>4, <1>5, <2>1, <2>2
  <2>3. CASE ~(i <= Len(a))
    <3>1. ~(i + n <= Len(s)) /\ i - Len(a) = (i + n) - Len(s)
      BY <1>3, <2>3, <2>1
    <3> QED BY <1>1, <1>4, <1>5, <2>1, <2>3, <3>1
  <2> QED BY <2>2, <2>3
<1>8. a \o t = b
  BY <1>4, <1>5, <1>6, <1>7, SeqEqual
<1> QED
  BY <1>8 DEF a, b

\* It does not matter which are joined first.
LEMMA Joined ==
    ASSUME NEW S, NEW s \in Seq(S), NEW t \in Seq(S), NEW u \in Seq(S)
    PROVE  (s \o t) \o u = s \o (t \o u)
<1> DEFINE a == s \o t
           b == t \o u
<1>1. /\ a \in Seq(S) /\ Len(a) = Len(s) + Len(t) /\ Len(s) \in Nat /\ Len(t) \in Nat /\ Len(u) \in Nat
      /\ \A i \in 1..(Len(s) + Len(t)) : a[i] = IF i <= Len(s) THEN s[i] ELSE t[i - Len(s)]
  BY ConcatProperties
<1>2. /\ b \in Seq(S) /\ Len(b) = Len(t) + Len(u)
      /\ \A i \in 1..(Len(t) + Len(u)) : b[i] = IF i <= Len(t) THEN t[i] ELSE u[i - Len(t)]
  BY ConcatProperties
<1> HIDE DEF a, b
<1> DEFINE x == a \o u
           y == s \o b
<1>3. /\ x \in Seq(S) /\ Len(x) = Len(a) + Len(u)
      /\ \A i \in 1..(Len(a) + Len(u)) : x[i] = IF i <= Len(a) THEN a[i] ELSE u[i - Len(a)]
  <2>1. a \in Seq(S)
    BY <1>1
  <2> QED BY <2>1, ConcatProperties
<1>4. /\ y \in Seq(S) /\ Len(y) = Len(s) + Len(b)
      /\ \A i \in 1..(Len(s) + Len(b)) : y[i] = IF i <= Len(s) THEN s[i] ELSE b[i - Len(s)]
  <2>1. b \in Seq(S)
    BY <1>2
  <2> QED BY <2>1, ConcatProperties
<1> HIDE DEF x, y
<1>5. Len(x) = Len(y)
  BY <1>1, <1>2, <1>3, <1>4
<1>6. ASSUME NEW i \in 1..Len(x) PROVE x[i] = y[i]
  <2>1. i \in 1..(Len(a) + Len(u)) /\ i \in 1..(Len(s) + Len(b))
    BY <1>3, <1>4, <1>5
  <2>2. CASE i <= Len(s)
    <3>1. i <= Len(a) /\ i \in 1..(Len(s) + Len(t))
      BY <1>1, <2>2
    <3> QED BY <1>1, <1>3, <1>4, <2>1, <2>2, <3>1
  <2>3. CASE ~(i <= Len(s)) /\ i <= Len(a)
    <3>1. i \in 1..(Len(s) + Len(t)) /\ i - Len(s) \in 1..(Len(t) + Len(u)) /\ i - Len(s) <= Len(t)
      BY <1>1, <2>3
    <3> QED BY <1>1, <1>2, <1>3, <1>4, <2>1, <2>3, <3>1
  <2>4. CASE ~(i <= Len(a))
    <3>1. /\ i - Len(s) \in 1..(Len(t) + Len(u)) /\ ~(i - Len(s) <= Len(t)) /\ ~(i <= Len(s))
          /\ i - Len(a) = (i - Len(s)) - Len(t)
      BY <1>1, <1>2, <2>1, <2>4
    <3> QED BY <1>2, <1>3, <1>4, <2>1, <2>4, <3>1
  <2> QED BY <2>2, <2>3, <2>4
<1>7. x = y
  BY <1>3, <1>4, <1>5, <1>6, SeqEqual
<1> QED
  BY <1>7 DEF a, b, x, y

AnyJoined(S) == \A s, t, u \in Seq(S) : (s \o t) \o u = s \o (t \o u)

LEMMA JoinedAll == \A S : AnyJoined(S)
BY Joined DEF AnyJoined

LEMMA BytesJoined ==
    ASSUME NEW s \in Seq(Bytes), NEW t \in Seq(Bytes), NEW u \in Seq(Bytes)
    PROVE  (s \o t) \o u = s \o (t \o u)
<1>1. AnyJoined(Bytes)
  BY JoinedAll
<1> QED
  BY <1>1 DEF AnyJoined

LEMMA PayloadsJoined ==
    ASSUME NEW s \in Seq(Seq(Bytes)), NEW t \in Seq(Seq(Bytes)), NEW u \in Seq(Seq(Bytes))
    PROVE  (s \o t) \o u = s \o (t \o u)
<1>1. AnyJoined(Seq(Bytes))
  BY JoinedAll
<1> QED
  BY <1>1 DEF AnyJoined

\* Front and rest.
LEMMA FrontAndRest ==
    ASSUME NEW S, NEW s \in Seq(S), NEW n \in 0..Len(s)
    PROVE  /\ SubSeq(s, 1, n) \in Seq(S) /\ Len(SubSeq(s, 1, n)) = n
           /\ \A i \in 1..n : SubSeq(s, 1, n)[i] = s[i]
           /\ SubSeq(s, 1, n) \o ShiftLeft(s, n) = s
<1>1. /\ SubSeq(s, 1, n) \in Seq(S) /\ Len(SubSeq(s, 1, n)) = n
      /\ \A i \in 1..n : SubSeq(s, 1, n)[i] = s[i]
  OBVIOUS
<1>2. SubSeq(s, 1, n) \o SubSeq(s, n + 1, Len(s)) = SubSeq(s, 1, Len(s))
  <2>1. 1 \in 1..(Len(s) + 1) /\ n \in (1 - 1)..Len(s) /\ Len(s) \in n..Len(s)
    OBVIOUS
  <2> QED BY <2>1, ConcatAdjacentSubSeq
<1>3. SubSeq(s, 1, Len(s)) = s
  BY SubSeqFull
<1> QED
  BY <1>1, <1>2, <1>3 DEF ShiftLeft
-----------------------------------------------------------------------------
(* Lengths. *)

LEMMA ByteFacts == \A x \in Bytes : x.v \in Nat /\ x.of \in 1..MaxFrames
BY DEF Bytes

\* The product of naturals.
LEMMA Times == \A a, b \in Nat : a * b \in Nat
OBVIOUS

\* Cut satisfies its equation.
LEMMA CutFacts ==
    ASSUME NEW n \in Nat
    PROVE  /\ \A i \in 0..Prefix : Cut(n)[i] \in Nat
           /\ Cut(n)[0] = n
           /\ \A i \in 1..Prefix : Cut(n)[i] = Cut(n)[i - 1] \div Base
<1> DEFINE step == [i \in 1..Prefix |-> [x \in Nat |-> x \div Base]]
<1>1. Prefix \in Nat /\ Base \in Nat \ {0}
  BY PrefixAssumption
<1>2. \A x \in Nat : x \div Base \in Nat
  BY <1>1
<1>3. step \in Turns(Prefix, Nat)
  BY <1>2 DEF Turns
<1> HIDE DEF step
<1>4. PICK g : IsLoop(g, Prefix, Nat, n, step)
  BY <1>1, <1>3, LoopExists
<1>5. g \in [0..Prefix -> Nat] /\ g[0] = n /\ \A i \in 1..Prefix : g[i] = step[i][g[i - 1]]
  BY <1>4 DEF IsLoop
<1>6. \A i \in 1..Prefix : g[i] = g[i - 1] \div Base
  <2> SUFFICES ASSUME NEW i \in 1..Prefix PROVE g[i] = g[i - 1] \div Base
    OBVIOUS
  <2>1. g[i - 1] \in Nat
    BY <1>1, <1>5
  <2> QED BY <1>5, <2>1 DEF step
<1> DEFINE cut == CHOOSE f : f = [i \in 0..Prefix |-> IF i = 0 THEN n ELSE f[i - 1] \div Base]
<1>7. g = [i \in 0..Prefix |-> IF i = 0 THEN n ELSE g[i - 1] \div Base]
  <2>1. \A i \in 0..Prefix : g[i] = IF i = 0 THEN n ELSE g[i - 1] \div Base
    <3> SUFFICES ASSUME NEW i \in 0..Prefix, i # 0 PROVE g[i] = g[i - 1] \div Base
      BY <1>5
    <3>1. i \in 1..Prefix
      BY <1>1
    <3> QED BY <1>6, <3>1
  <2> QED BY <1>5, <2>1
<1>8. cut = [i \in 0..Prefix |-> IF i = 0 THEN n ELSE cut[i - 1] \div Base]
  BY <1>7, Zenon
<1>9. Cut(n) = cut
  BY DEF Cut
<1> HIDE DEF cut
<1>10. cut[0] = n /\ \A i \in 1..Prefix : cut[i] = cut[i - 1] \div Base
  <2>1. 0 \in 0..Prefix /\ \A i \in 1..Prefix : i \in 0..Prefix /\ i # 0
    BY <1>1
  <2> QED BY <1>8, <2>1
<1>11. \A i \in 0..Prefix : cut[i] \in Nat
  <2> DEFINE T == {i \in 0..Prefix : cut[i] \in Nat}
  <2>1. 0 \in T
    BY <1>1, <1>10
  <2>2. ASSUME NEW i \in 1..Prefix, i - 1 \in T PROVE i \in T
    BY <1>1, <1>2, <1>10, <2>2
  <2>3. 0..Prefix \subseteq T
    <3> HIDE DEF T
    <3> QED BY <1>1, <2>1, <2>2, UpToInduction
  <2> QED BY <2>3
<1> QED
  BY <1>9, <1>10, <1>11

\* LengthOf is the last of its partial sums.
LEMMA LengthFacts ==
    ASSUME NEW s \in Seq(Bytes), Len(s) >= Prefix
    PROVE  \E g \in [0..Prefix -> Nat] :
               /\ g[0] = 0 /\ LengthOf(s) = g[Prefix]
               /\ \A i \in 1..Prefix : g[i] = g[i - 1] * Base + s[i].v
<1> DEFINE step == [i \in 1..Prefix |-> [x \in Nat |-> x * Base + s[i].v]]
<1>1. Prefix \in Nat /\ Base \in Nat \ {0}
  BY PrefixAssumption
<1>2. \A i \in 1..Prefix : s[i].v \in Nat
  <2> SUFFICES ASSUME NEW i \in 1..Prefix PROVE s[i].v \in Nat
    OBVIOUS
  <2>1. s[i] \in Bytes
    BY <1>1
  <2> QED BY <1>1, <2>1 DEF Bytes
<1>3. \A i \in 1..Prefix, x \in Nat : x * Base + s[i].v \in Nat
  <2> SUFFICES ASSUME NEW i \in 1..Prefix, NEW x \in Nat PROVE x * Base + s[i].v \in Nat
    OBVIOUS
  <2>1. x * Base \in Nat
    BY <1>1, Times
  <2> QED BY <1>2, <2>1
<1>4. step \in Turns(Prefix, Nat)
  BY <1>3 DEF Turns
<1> HIDE DEF step
<1>5. PICK g : IsLoop(g, Prefix, Nat, 0, step)
  BY <1>1, <1>4, LoopExists
<1>6. g \in [0..Prefix -> Nat] /\ g[0] = 0 /\ \A i \in 1..Prefix : g[i] = step[i][g[i - 1]]
  BY <1>5 DEF IsLoop
<1>7. \A i \in 1..Prefix : g[i] = g[i - 1] * Base + s[i].v
  <2> SUFFICES ASSUME NEW i \in 1..Prefix PROVE g[i] = g[i - 1] * Base + s[i].v
    OBVIOUS
  <2>1. g[i - 1] \in Nat
    BY <1>1, <1>6
  <2> QED BY <1>6, <2>1 DEF step
<1> DEFINE digits == CHOOSE f : f = [i \in 0..Prefix |-> IF i = 0 THEN 0 ELSE f[i - 1] * Base + s[i].v]
<1>8. g = [i \in 0..Prefix |-> IF i = 0 THEN 0 ELSE g[i - 1] * Base + s[i].v]
  <2>1. \A i \in 0..Prefix : g[i] = IF i = 0 THEN 0 ELSE g[i - 1] * Base + s[i].v
    <3> SUFFICES ASSUME NEW i \in 0..Prefix, i # 0 PROVE g[i] = g[i - 1] * Base + s[i].v
      BY <1>6
    <3>1. i \in 1..Prefix
      BY <1>1
    <3> QED BY <1>7, <3>1
  <2> QED BY <1>6, <2>1
<1>9. digits = [i \in 0..Prefix |-> IF i = 0 THEN 0 ELSE digits[i - 1] * Base + s[i].v]
  BY <1>8, Zenon
<1>10. LengthOf(s) = digits[Prefix]
  BY DEF LengthOf
<1> HIDE DEF digits
<1>11. digits[0] = 0 /\ \A i \in 1..Prefix : digits[i] = digits[i - 1] * Base + s[i].v
  <2>1. 0 \in 0..Prefix /\ \A i \in 1..Prefix : i \in 0..Prefix /\ i # 0
    BY <1>1
  <2> QED BY <1>9, <2>1
<1>12. \A i \in 0..Prefix : digits[i] \in Nat
  <2> DEFINE T == {i \in 0..Prefix : digits[i] \in Nat}
  <2>1. 0 \in T
    BY <1>1, <1>11
  <2>2. ASSUME NEW i \in 1..Prefix, i - 1 \in T PROVE i \in T
    <3>1. digits[i - 1] \in Nat
      BY <2>2
    <3>2. digits[i - 1] * Base + s[i].v \in Nat
      BY <1>3, <3>1
    <3> QED BY <1>11, <3>2
  <2>3. 0..Prefix \subseteq T
    <3> HIDE DEF T
    <3> QED BY <1>1, <2>1, <2>2, UpToInduction
  <2> QED BY <2>3
<1>13. DOMAIN digits = 0..Prefix /\ digits = [i \in 0..Prefix |-> digits[i]]
  BY <1>9
<1>14. digits \in [0..Prefix -> Nat]
  BY <1>12, <1>13
<1> QED
  BY <1>10, <1>11, <1>14
-----------------------------------------------------------------------------
(* Streams: the end of what was sent, from any byte on. *)

Size(f, k) == Prefix + f[k]

Byte(f, k, a) ==
    [v |-> IF a <= Prefix THEN Header(f[k])[a] ELSE Printable, of |-> k, at |-> a]

\* How many bytes of its frame follow the byte at i.
Ahead(z, f, i) == Size(f, z[i].of) - z[i].at

ByteInPlace(z, f, i) ==
    /\ z[i].of \in 1..Len(f) /\ z[i].at \in 1..Size(f, z[i].of)
    /\ z[i] = Byte(f, z[i].of, z[i].at)
    /\ i + Ahead(z, f, i) <= Len(z)
    /\ i < Len(z) /\ z[i].at = Size(f, z[i].of) => z[i + 1].at = 1

InOrder(z, f, i, j) ==
    IF j <= i + Ahead(z, f, i) THEN z[j].of = z[i].of /\ z[j].at = z[i].at + (j - i)
    ELSE z[j].of > z[i].of

\* Whole frames but for the first, of which the front may be missing, in the
\* order they were sent.
Stream(z, f) ==
    /\ z \in Seq(Bytes)
    /\ \A i \in 1..Len(z) : ByteInPlace(z, f, i)
    /\ \A i, j \in 1..Len(z) : i <= j => InOrder(z, f, i, j)

LEMMA AheadFacts ==
    ASSUME NEW f \in Seq(Sizes), NEW z, NEW i, ByteInPlace(z, f, i)
    PROVE  f[z[i].of] \in Nat /\ Size(f, z[i].of) \in Nat /\ Ahead(z, f, i) \in Nat
<1>1. z[i].of \in 1..Len(f) /\ z[i].at \in 1..Size(f, z[i].of)
  BY DEF ByteInPlace
<1>2. f[z[i].of] \in Nat
  <2>1. f[z[i].of] \in Sizes
    BY <1>1
  <2> QED BY <2>1, SizesAssumption
<1>3. Size(f, z[i].of) \in Nat
  BY <1>2, PrefixAssumption DEF Size
<1> QED
  BY <1>1, <1>2, <1>3 DEF Ahead

\* A stream that has lost its front is one.
LEMMA StreamShifted ==
    ASSUME NEW f \in Seq(Sizes), NEW z, Stream(z, f), NEW n \in 0..Len(z)
    PROVE  Stream(ShiftLeft(z, n), f)
<1> DEFINE y == ShiftLeft(z, n)
<1>1. z \in Seq(Bytes) /\ Len(z) \in Nat
  BY DEF Stream
<1>2. y \in Seq(Bytes) /\ Len(y) = Len(z) - n /\ \A i \in 1..(Len(z) - n) : y[i] = z[i + n]
  BY <1>1, Shifted
<1> HIDE DEF y
<1>3. \A i \in 1..Len(y) : y[i] = z[i + n] /\ i + n \in 1..Len(z)
  BY <1>1, <1>2
<1>4. ASSUME NEW i \in 1..Len(y) PROVE ByteInPlace(y, f, i) /\ Ahead(y, f, i) = Ahead(z, f, i + n)
  <2>1. y[i] = z[i + n] /\ i + n \in 1..Len(z)
    BY <1>3
  <2>2. ByteInPlace(z, f, i + n)
    BY <2>1 DEF Stream
  <2>3. Ahead(y, f, i) = Ahead(z, f, i + n)
    BY <2>1 DEF Ahead
  <2> DEFINE d == Ahead(z, f, i + n)
  <2>4. d \in Nat
    BY <2>2, AheadFacts
  <2>5. (i + n) + d <= Len(z)
    BY <2>2 DEF ByteInPlace
  <2> HIDE DEF d
  <2>6. i + d <= Len(y)
    BY <1>1, <1>2, <2>4, <2>5
  <2>7. i < Len(y) => i + 1 \in 1..Len(y) /\ i + n < Len(z) /\ (i + 1) + n = (i + n) + 1
    BY <1>1, <1>2
  <2>8. i < Len(y) => y[i + 1] = z[(i + n) + 1]
    BY <1>3, <2>7
  <2> QED BY <2>1, <2>2, <2>3, <2>6, <2>7, <2>8 DEF ByteInPlace, d
<1>5. ASSUME NEW i \in 1..Len(y), NEW j \in 1..Len(y), i <= j PROVE InOrder(y, f, i, j)
  <2>1. y[i] = z[i + n] /\ y[j] = z[j + n] /\ i + n \in 1..Len(z) /\ j + n \in 1..Len(z) /\ i + n <= j + n
    BY <1>3, <1>5
  <2>2. InOrder(z, f, i + n, j + n)
    BY <2>1 DEF Stream
  <2> DEFINE d == Ahead(z, f, i + n)
  <2>3. d = Ahead(y, f, i)
    BY <1>4
  <2>4. d \in Nat
    <3>1. ByteInPlace(z, f, i + n)
      BY <2>1 DEF Stream
    <3> QED BY <3>1, AheadFacts
  <2> HIDE DEF d
  <2>5. (j + n <= (i + n) + d) <=> (j <= i + d)
    BY <1>1, <2>4
  <2>6. (j + n) - (i + n) = j - i
    OBVIOUS
  <2> QED BY <2>1, <2>2, <2>3, <2>5, <2>6 DEF InOrder, d
<1> QED
  BY <1>2, <1>4, <1>5 DEF Stream, y

\* A frame, byte by byte.
LEMMA FrameBytes ==
    ASSUME NEW k \in 1..MaxFrames, NEW n \in Sizes
    PROVE  /\ Frame(k, n) \in Seq(Bytes) /\ Len(Frame(k, n)) = Prefix + n
           /\ \A f : f[k] = n => \A i \in 1..(Prefix + n) : Frame(k, n)[i] = Byte(f, k, i)
           /\ \A i \in 1..Prefix : Header(n)[i] = Cut(n)[Prefix - i] % Base
<1>1. Prefix \in Nat /\ n \in Nat /\ Base \in Nat \ {0} /\ Printable \in 0..(Base - 1)
  BY PrefixAssumption, SizesAssumption, PrintableAssumption
<1>2. \A i \in 1..Prefix : Header(n)[i] = Cut(n)[Prefix - i] % Base
  BY DEF Header
<1>3. \A i \in 1..Prefix : Header(n)[i] \in 0..(Base - 1)
  <2> SUFFICES ASSUME NEW i \in 1..Prefix PROVE Header(n)[i] \in 0..(Base - 1)
    OBVIOUS
  <2>1. Prefix - i \in 0..Prefix
    BY <1>1
  <2>2. Cut(n)[Prefix - i] \in Nat
    BY <1>1, <2>1, CutFacts
  <2> QED BY <1>1, <1>2, <2>2
<1> DEFINE x(i) == [v |-> IF i <= Prefix THEN Header(n)[i] ELSE Printable, of |-> k, at |-> i]
<1>4. \A i \in 1..(Prefix + n) : x(i) \in Bytes
  <2> SUFFICES ASSUME NEW i \in 1..(Prefix + n) PROVE x(i) \in Bytes
    OBVIOUS
  <2>1. i \in Nat \ {0}
    BY <1>1
  <2>2. (IF i <= Prefix THEN Header(n)[i] ELSE Printable) \in 0..(Base - 1)
    BY <1>1, <1>3
  <2> QED BY <2>1, <2>2 DEF Bytes
<1>5. Frame(k, n) = [i \in 1..(Prefix + n) |-> x(i)]
  BY DEF Frame
<1>6. Prefix + n \in Nat
  BY <1>1
<1> HIDE DEF x
<1>7. Frame(k, n) \in Seq(Bytes) /\ Len(Frame(k, n)) = Prefix + n
  BY <1>4, <1>5, <1>6
<1>8. ASSUME NEW f, f[k] = n PROVE \A i \in 1..(Prefix + n) : Frame(k, n)[i] = Byte(f, k, i)
  BY <1>5, <1>8 DEF Byte, x
<1> QED
  BY <1>2, <1>7, <1>8

LEMMA FrameOf ==
    ASSUME NEW f, NEW k \in 1..MaxFrames, f[k] \in Sizes
    PROVE  /\ Frame(k, f[k]) \in Seq(Bytes) /\ Len(Frame(k, f[k])) = Size(f, k)
           /\ \A i \in 1..Size(f, k) : Frame(k, f[k])[i] = Byte(f, k, i)
<1> DEFINE n == f[k]
<1>1. n \in Sizes /\ f[k] = n /\ Size(f, k) = Prefix + n
  BY DEF Size
<1> HIDE DEF n
<1>2. Frame(k, n) \in Seq(Bytes) /\ Len(Frame(k, n)) = Prefix + n
  BY <1>1, FrameBytes
<1>3. \A i \in 1..(Prefix + n) : Frame(k, n)[i] = Byte(f, k, i)
  BY <1>1, FrameBytes
<1> QED
  BY <1>1, <1>2, <1>3

\* What is sent next goes on with the stream.
LEMMA StreamAppended ==
    ASSUME NEW f \in Seq(Sizes), NEW z, Stream(z, f), NEW n \in Sizes, Len(f) < MaxFrames
    PROVE  Stream(z \o Frame(Len(f) + 1, n), Append(f, n))
<1> DEFINE k == Len(f) + 1
           h == Frame(k, n)
           y == z \o h
           g == Append(f, n)
           m == Prefix + n
<1>1. z \in Seq(Bytes) /\ Len(z) \in Nat /\ Len(f) \in Nat
  BY DEF Stream
<1>2. k \in 1..MaxFrames /\ k \in Nat
  BY <1>1, BoundAssumption
<1>3. g \in Seq(Sizes) /\ Len(g) = k /\ g[k] = n /\ \A i \in 1..Len(f) : g[i] = f[i]
  BY <1>1
<1>4. m \in Nat \ {0} /\ n \in Nat /\ Prefix \in Nat
  BY PrefixAssumption, SizesAssumption
<1> HIDE DEF k, g
<1>5. h \in Seq(Bytes) /\ Len(h) = m /\ \A i \in 1..m : h[i] = Byte(g, k, i)
  <2>1. h = Frame(k, g[k]) /\ g[k] \in Sizes /\ Size(g, k) = m
    BY <1>3 DEF Size
  <2> HIDE DEF h, m
  <2> QED BY <1>2, <2>1, FrameOf
<1> HIDE DEF h, m
<1>6. /\ y \in Seq(Bytes) /\ Len(y) = Len(z) + m
      /\ \A i \in 1..(Len(z) + m) : y[i] = IF i <= Len(z) THEN z[i] ELSE h[i - Len(z)]
  BY <1>1, <1>5, ConcatProperties
<1> HIDE DEF y
<1>7. \A i \in 1..Len(z) : y[i] = z[i]
  BY <1>1, <1>4, <1>6
<1>8. \A i \in (Len(z) + 1)..(Len(z) + m) : y[i] = Byte(g, k, i - Len(z))
  BY <1>1, <1>4, <1>5, <1>6
<1>9. Size(g, k) = m
  BY <1>3 DEF Size, m
<1>10. ASSUME NEW i \in 1..Len(z)
       PROVE  /\ Ahead(y, g, i) = Ahead(z, f, i) /\ Ahead(z, f, i) \in Nat
              /\ ByteInPlace(y, g, i) /\ z[i].of < k
  <2>1. ByteInPlace(z, f, i)
    BY DEF Stream
  <2>2. z[i].of \in 1..Len(f) /\ z[i].at \in 1..Size(f, z[i].of)
    BY <2>1 DEF ByteInPlace
  <2>3. g[z[i].of] = f[z[i].of] /\ f[z[i].of] \in Nat
    BY <1>3, <2>2, SizesAssumption
  <2>4. Size(g, z[i].of) = Size(f, z[i].of) /\ Byte(g, z[i].of, z[i].at) = Byte(f, z[i].of, z[i].at)
        /\ Size(f, z[i].of) \in Nat
    BY <1>4, <2>3 DEF Size, Byte
  <2>5. Ahead(y, g, i) = Ahead(z, f, i) /\ Ahead(z, f, i) \in Nat
    BY <1>7, <2>2, <2>4 DEF Ahead
  <2>6. z[i].of \in 1..Len(g) /\ z[i].of < k
    BY <1>1, <1>3, <2>2 DEF k
  <2>7. i + Ahead(y, g, i) <= Len(y)
    <3>1. i + Ahead(z, f, i) <= Len(z)
      BY <2>1 DEF ByteInPlace
    <3> DEFINE d == Ahead(z, f, i)
    <3>2. d \in Nat /\ i + d <= Len(z) /\ Ahead(y, g, i) = d
      BY <2>5, <3>1
    <3> HIDE DEF d
    <3> QED BY <1>1, <1>4, <1>6, <3>2
  <2>8. z[i].at = Size(f, z[i].of) => y[i + 1].at = 1
    <3>1. CASE i < Len(z)
      <4>1. y[i + 1] = z[i + 1]
        BY <1>1, <1>7, <3>1
      <4> QED BY <2>1, <3>1, <4>1 DEF ByteInPlace
    <3>2. CASE i = Len(z)
      <4>1. i + 1 \in (Len(z) + 1)..(Len(z) + m) /\ (i + 1) - Len(z) = 1
        BY <1>1, <1>4, <3>2
      <4>2. y[i + 1] = Byte(g, k, 1)
        BY <1>8, <4>1
      <4> QED BY <4>2 DEF Byte
    <3> QED BY <1>1, <3>1, <3>2
  <2> QED BY <1>7, <2>1, <2>2, <2>4, <2>5, <2>6, <2>7, <2>8 DEF ByteInPlace
<1>11. ASSUME NEW i \in (Len(z) + 1)..(Len(z) + m)
       PROVE  /\ ByteInPlace(y, g, i) /\ Ahead(y, g, i) = m - (i - Len(z))
              /\ y[i].of = k /\ y[i].at = i - Len(z)
  <2>1. y[i] = Byte(g, k, i - Len(z)) /\ i - Len(z) \in 1..m
    BY <1>1, <1>4, <1>8
  <2>2. y[i].of = k /\ y[i].at = i - Len(z)
    BY <2>1 DEF Byte
  <2>3. k \in 1..Len(g)
    BY <1>2, <1>3
  <2>4. Ahead(y, g, i) = m - (i - Len(z))
    BY <1>9, <2>2 DEF Ahead
  <2>5. i + (m - (i - Len(z))) <= Len(y)
    BY <1>1, <1>4, <1>6
  <2>6. ~(i < Len(y) /\ i - Len(z) = m)
    BY <1>1, <1>4, <1>6
  <2> QED BY <1>9, <2>1, <2>2, <2>3, <2>4, <2>5, <2>6 DEF ByteInPlace
<1>12. \A i \in 1..Len(y) : i \in 1..Len(z) \/ i \in (Len(z) + 1)..(Len(z) + m)
  BY <1>1, <1>4, <1>6
<1>13. \A i \in 1..Len(y) : ByteInPlace(y, g, i)
  BY <1>10, <1>11, <1>12
<1>14. ASSUME NEW i \in 1..Len(y), NEW j \in 1..Len(y), i <= j PROVE InOrder(y, g, i, j)
  <2>1. CASE i \in 1..Len(z) /\ j \in 1..Len(z)
    <3>1. InOrder(z, f, i, j)
      BY <1>14, <2>1 DEF Stream
    <3> QED BY <1>7, <1>10, <2>1, <3>1 DEF InOrder
  <2>2. CASE i \in 1..Len(z) /\ j \in (Len(z) + 1)..(Len(z) + m)
    <3>1. ByteInPlace(z, f, i)
      BY <2>2 DEF Stream
    <3>2. i + Ahead(z, f, i) <= Len(z)
      BY <3>1 DEF ByteInPlace
    <3> DEFINE d == Ahead(z, f, i)
    <3>3. d \in Nat /\ Ahead(y, g, i) = d /\ z[i].of < k
      BY <1>10, <2>2
    <3>4. i + d <= Len(z)
      BY <3>2
    <3> HIDE DEF d
    <3>5. ~(j <= i + d)
      BY <1>1, <2>2, <3>3, <3>4
    <3>6. y[i] = z[i] /\ y[j].of = k
      BY <1>7, <1>11, <2>2
    <3>7. z[i].of \in Int
      <4>1. ByteInPlace(z, f, i)
        BY <2>2 DEF Stream
      <4> QED BY <4>1 DEF ByteInPlace
    <3> QED BY <1>2, <3>3, <3>5, <3>6, <3>7 DEF InOrder
  <2>3. CASE i \in (Len(z) + 1)..(Len(z) + m) /\ j \in (Len(z) + 1)..(Len(z) + m)
    <3>1. /\ y[i].of = k /\ y[i].at = i - Len(z) /\ y[j].of = k /\ y[j].at = j - Len(z)
          /\ Ahead(y, g, i) = m - (i - Len(z))
      BY <1>11, <2>3
    <3>2. j <= i + (m - (i - Len(z))) /\ j - Len(z) = (i - Len(z)) + (j - i)
      BY <1>1, <1>4, <2>3
    <3> QED BY <3>1, <3>2 DEF InOrder
  <2> QED BY <1>1, <1>4, <1>12, <1>14, <2>1, <2>2, <2>3
<1>15. Stream(y, g)
  BY <1>6, <1>13, <1>14 DEF Stream
<1> QED
  BY <1>15 DEF y, h, k, g
-----------------------------------------------------------------------------
(* What a length reads as, at the head of a stream. *)

LEMMA QuotientAndRemainder ==
    \A x \in Nat : (x \div Base) * Base + (x % Base) = x
BY PrefixAssumption

\* Sums with the digits of a number, from any digit that is 0 and those before
\* it: they are the number cut so far.
LEMMA SumsAreCuts ==
    ASSUME NEW n \in Nat, NEW top \in 0..Prefix, Cut(n)[top] = 0,
           NEW g \in [0..Prefix -> Nat], g[0] = 0,
           \A i \in 1..top : g[i] = g[i - 1] * Base + (Cut(n)[top - i] % Base)
    PROVE  g[top] = n
<1> DEFINE T == {i \in 0..top : g[i] = Cut(n)[top - i]}
<1>1. Prefix \in Nat /\ top \in Nat
  BY PrefixAssumption
<1>2. 0 \in T
  BY <1>1
<1>3. ASSUME NEW i \in 1..top, i - 1 \in T PROVE i \in T
  <2>1. top - (i - 1) \in 1..Prefix /\ (top - (i - 1)) - 1 = top - i /\ top - i \in 0..Prefix
    BY <1>1
  <2>2. Cut(n)[top - (i - 1)] = Cut(n)[top - i] \div Base /\ Cut(n)[top - i] \in Nat
    BY <2>1, CutFacts
  <2>3. g[i - 1] = Cut(n)[top - i] \div Base
    BY <1>3, <2>2
  <2>4. g[i] = (Cut(n)[top - i] \div Base) * Base + (Cut(n)[top - i] % Base)
    BY <2>3
  <2>5. g[i] = Cut(n)[top - i]
    BY <2>2, <2>4, QuotientAndRemainder
  <2> QED BY <1>1, <2>5
<1>4. 0..top \subseteq T
  <2> HIDE DEF T
  <2> QED BY <1>1, <1>2, <1>3, UpToInduction
<1>5. top \in T /\ top - top = 0
  BY <1>1, <1>4
<1> QED
  BY <1>5, CutFacts

\* Sums do not fall.
LEMMA SumsRise ==
    ASSUME NEW g \in [0..Prefix -> Nat], NEW w \in [1..Prefix -> Nat],
           \A i \in 1..Prefix : g[i] = g[i - 1] * Base + w[i],
           NEW from \in 0..Prefix, NEW least \in Nat, g[from] >= least
    PROVE  g[Prefix] >= least
<1> DEFINE T == {i \in 0..Prefix : i >= from => g[i] >= least}
<1>1. Prefix \in Nat /\ Base \in Nat \ {0}
  BY PrefixAssumption
<1>2. 0 \in T
  BY <1>1
<1>3. ASSUME NEW i \in 1..Prefix, i - 1 \in T PROVE i \in T
  <2>1. \A x \in Nat : x * Base >= x
    BY <1>1
  <2>2. i - 1 \in 0..Prefix /\ i \in 0..Prefix
    BY <1>1
  <2>3. g[i - 1] \in Nat /\ w[i] \in Nat /\ g[i - 1] * Base \in Nat
    BY <1>1, <2>2, Times
  <2>4. g[i] >= g[i - 1]
    BY <2>1, <2>3
  <2>5. g[i] \in Nat
    BY <2>2
  <2>6. CASE i = from
    BY <2>2, <2>6
  <2>7. CASE i # from
    <3>1. i >= from => i - 1 >= from
      BY <1>1, <2>7
    <3>2. i >= from => g[i - 1] >= least
      BY <1>3, <3>1
    <3> QED BY <2>2, <2>3, <2>4, <2>5, <3>2
  <2> QED BY <2>6, <2>7
<1>4. 0..Prefix \subseteq T
  <2> HIDE DEF T
  <2> QED BY <1>1, <1>2, <1>3, UpToInduction
<1> QED
  BY <1>1, <1>4

\* A length is read as what it says only where one is; anywhere else it is one
\* that no buffer holds.
LEMMA LengthRead ==
    ASSUME NEW f \in Seq(Sizes), NEW z, Stream(z, f),
           NEW b \in Seq(Bytes), Len(b) >= Prefix, Len(b) <= Len(z),
           \A i \in 1..Len(b) : b[i] = z[i]
    PROVE  IF z[1].at = 1 THEN LengthOf(b) = f[z[1].of] ELSE Prefix + LengthOf(b) > RxCap
<1> DEFINE k == z[1].of
           a == z[1].at
           n == f[k]
           w == [i \in 1..Prefix |-> b[i].v]
<1>1. PICK g \in [0..Prefix -> Nat] :
          /\ g[0] = 0 /\ LengthOf(b) = g[Prefix]
          /\ \A i \in 1..Prefix : g[i] = g[i - 1] * Base + b[i].v
  BY LengthFacts
<1>2. Prefix \in Nat /\ Prefix >= 2 /\ Base \in Nat \ {0, 1} /\ RxCap \in Nat /\ Printable \in 1..(Base - 1)
  BY PrefixAssumption, CapAssumption, PrintableAssumption
<1>3. z \in Seq(Bytes) /\ 1 \in 1..Len(z) /\ Len(b) \in Nat /\ Len(z) \in Nat
  BY <1>2 DEF Stream
<1>4. ByteInPlace(z, f, 1)
  BY <1>3 DEF Stream
<1>5. k \in 1..Len(f) /\ a \in 1..(Prefix + n) /\ n \in Sizes /\ n \in Nat \ {0}
  <2>1. k \in 1..Len(f) /\ a \in 1..Size(f, k)
    BY <1>4 DEF ByteInPlace
  <2> QED BY <2>1, SizesAssumption DEF Size
<1>6. \A i \in 1..Prefix : b[i].v \in Nat
  <2> SUFFICES ASSUME NEW i \in 1..Prefix PROVE b[i].v \in Nat
    OBVIOUS
  <2>1. i \in 1..Len(b)
    BY <1>2, <1>3
  <2>2. b[i] \in Bytes
    BY <2>1
  <2> QED BY <2>2, ByteFacts
<1>7. w \in [1..Prefix -> Nat] /\ \A i \in 1..Prefix : w[i] = b[i].v
  BY <1>6
\* Where the frame goes on, the byte at i is the one i - 1 after the first.
<1>8. ASSUME NEW i \in 1..Prefix, a + (i - 1) <= Prefix + n
      PROVE  b[i].v = IF a + (i - 1) <= Prefix THEN Cut(n)[Prefix - (a + (i - 1))] % Base ELSE Printable
  <2>1. i \in 1..Len(z) /\ i \in 1..Len(b) /\ 1 <= i
    BY <1>2, <1>3
  <2>2. InOrder(z, f, 1, i) /\ ByteInPlace(z, f, i)
    BY <1>3, <2>1 DEF Stream
  <2>3. i <= 1 + Ahead(z, f, 1)
    <3>1. Ahead(z, f, 1) = (Prefix + n) - a
      BY DEF Ahead, Size
    <3> HIDE DEF a, n
    <3> QED BY <1>2, <1>5, <1>8, <3>1
  <2>4. z[i].of = k /\ z[i].at = a + (i - 1)
    BY <2>2, <2>3 DEF InOrder
  <2>5. z[i] = Byte(f, k, a + (i - 1))
    BY <2>2, <2>4 DEF ByteInPlace
  <2>6. b[i] = z[i]
    BY <2>1
  <2> DEFINE at == a + (i - 1)
  <2>7. b[i].v = IF at <= Prefix THEN Header(n)[at] ELSE Printable
    BY <2>5, <2>6 DEF Byte
  <2>8. at <= Prefix => at \in 1..Prefix
    <3>1. a \in Nat \ {0} /\ Prefix \in Nat /\ i \in Nat \ {0}
      BY <1>2, <1>5
    <3> HIDE DEF a
    <3> QED BY <3>1
  <2>9. at <= Prefix => Header(n)[at] = Cut(n)[Prefix - at] % Base
    BY <2>8 DEF Header
  <2> QED BY <2>7, <2>9
<1>9. Cut(n)[Prefix - 1] = 0 /\ Cut(n)[Prefix] = 0
  <2>1. Cut(n)[Prefix - 1] = 0
    BY <1>5, SizesAssumption
  <2>2. \A i \in 1..Prefix : Cut(n)[i] = Cut(n)[i - 1] \div Base
    BY <1>5, CutFacts
  <2>3. Prefix \in 1..Prefix
    BY <1>2
  <2>4. Cut(n)[Prefix] = 0 \div Base
    BY <2>1, <2>2, <2>3
  <2>5. 0 \div Base = 0
    BY <1>2
  <2> QED BY <2>1, <2>4, <2>5
<1> HIDE DEF k, a, n, w
<1>10. CASE a = 1
  <2>1. \A i \in 1..Prefix : b[i].v = Cut(n)[Prefix - i] % Base
    <3> SUFFICES ASSUME NEW i \in 1..Prefix PROVE b[i].v = Cut(n)[Prefix - i] % Base
      OBVIOUS
    <3>1. a + (i - 1) = i /\ i <= Prefix /\ i <= Prefix + n
      BY <1>2, <1>5, <1>10
    <3> QED BY <1>8, <3>1
  <2>2. \A i \in 1..Prefix : g[i] = g[i - 1] * Base + (Cut(n)[Prefix - i] % Base)
    BY <1>1, <2>1
  <2>3. Prefix \in 0..Prefix /\ n \in Nat
    BY <1>2, <1>5
  <2>4. g[Prefix] = n
    BY <1>1, <1>9, <2>2, <2>3, SumsAreCuts
  <2> QED BY <1>1, <1>10, <2>4 DEF a, n, k
<1>11. CASE a = 2
  <2>1. \A i \in 1..(Prefix - 1) : b[i].v = Cut(n)[(Prefix - 1) - i] % Base
    <3> SUFFICES ASSUME NEW i \in 1..(Prefix - 1) PROVE b[i].v = Cut(n)[(Prefix - 1) - i] % Base
      OBVIOUS
    <3>1. a + (i - 1) = i + 1 /\ i + 1 <= Prefix /\ i + 1 <= Prefix + n /\ i \in 1..Prefix
          /\ Prefix - (i + 1) = (Prefix - 1) - i
      BY <1>2, <1>5, <1>11
    <3> QED BY <1>8, <3>1
  <2>2. \A i \in 1..(Prefix - 1) : g[i] = g[i - 1] * Base + (Cut(n)[(Prefix - 1) - i] % Base)
    <3>1. \A i \in 1..(Prefix - 1) : i \in 1..Prefix
      BY <1>2
    <3> SUFFICES ASSUME NEW i \in 1..(Prefix - 1)
                 PROVE  g[i] = g[i - 1] * Base + (Cut(n)[(Prefix - 1) - i] % Base)
      OBVIOUS
    <3>2. i \in 1..Prefix /\ b[i].v = Cut(n)[(Prefix - 1) - i] % Base
      BY <2>1, <3>1
    <3>3. g[i] = g[i - 1] * Base + b[i].v
      BY <1>1, <3>2
    <3> QED BY <3>2, <3>3
  <2>3. Prefix - 1 \in 0..Prefix /\ n \in Nat
    BY <1>2, <1>5
  <2>4. g[Prefix - 1] = n
    BY <1>1, <1>9, <2>2, <2>3, SumsAreCuts
  <2>5. b[Prefix].v = Printable
    <3>1. a + (Prefix - 1) = Prefix + 1 /\ Prefix + 1 <= Prefix + n /\ Prefix \in 1..Prefix
          /\ ~(Prefix + 1 <= Prefix)
      BY <1>2, <1>5, <1>11
    <3> QED BY <1>8, <3>1
  <2>6. g[Prefix] = n * Base + Printable
    <3>1. Prefix \in 1..Prefix
      BY <1>2
    <3> QED BY <1>1, <2>4, <2>5, <3>1
  <2>7. Prefix + n * Base + Printable > RxCap
    BY <1>5, PrintableAssumption
  <2>8. n * Base \in Nat
    BY <1>2, <1>5, Times
  <2>9. Prefix + LengthOf(b) > RxCap
    BY <1>1, <1>2, <2>6, <2>7, <2>8
  <2> QED BY <1>11, <2>9 DEF a
<1>12. CASE a > 2
  <2>1. PICK i \in 1..(Prefix - 1) : a + (i - 1) <= Prefix + n /\ a + (i - 1) > Prefix
    <3>1. CASE a > Prefix
      <4>1. 1 \in 1..(Prefix - 1) /\ a + (1 - 1) <= Prefix + n /\ a + (1 - 1) > Prefix
        BY <1>2, <1>5, <3>1
      <4> QED BY <4>1
    <3>2. CASE ~(a > Prefix)
      <4>1. Prefix + 2 - a \in 1..(Prefix - 1)
        BY <1>2, <1>5, <1>12, <3>2
      <4>2. a + ((Prefix + 2 - a) - 1) = Prefix + 1 /\ Prefix + 1 <= Prefix + n
        BY <1>2, <1>5
      <4>3. Prefix + 1 > Prefix
        BY <1>2
      <4> QED BY <4>1, <4>2, <4>3
    <3> QED BY <3>1, <3>2
  <2>2. i \in 1..Prefix /\ i + 1 \in 1..Prefix /\ i \in 0..Prefix /\ i + 1 \in 0..Prefix /\ (i + 1) - 1 = i
        /\ i - 1 \in 0..Prefix
    BY <1>2
  <2>3. b[i].v = Printable
    <3>1. ~(a + (i - 1) <= Prefix)
      BY <1>2, <1>5, <2>1
    <3> QED BY <1>8, <2>1, <2>2, <3>1
  <2>4. g[i] >= Printable
    <3>1. g[i] = g[i - 1] * Base + Printable
      BY <1>1, <2>2, <2>3
    <3>2. g[i - 1] * Base \in Nat
      BY <1>2, <2>2, Times
    <3> QED BY <1>2, <3>1, <3>2
  <2>5. g[i + 1] >= Printable * Base
    <3>1. g[i + 1] = g[i] * Base + b[i + 1].v
      BY <1>1, <2>2
    <3>2. g[i] \in Nat /\ b[i + 1].v \in Nat
      BY <1>6, <2>2
    <3>3. \A x, y \in Nat : x >= y => x * Base >= y * Base
      BY <1>2
    <3>4. g[i] * Base >= Printable * Base
      <4>1. g[i] \in Nat /\ Printable \in Nat
        BY <1>2, <3>2
      <4> QED BY <2>4, <3>3, <4>1, Zenon
    <3>5. g[i] * Base \in Nat /\ Printable * Base \in Nat
      BY <1>2, <3>2, Times
    <3> QED BY <3>1, <3>2, <3>4, <3>5
  <2>6. Printable * Base \in Nat
    BY <1>2, Times
  <2> DEFINE least == Printable * Base
  <2>7. g[Prefix] >= least
    <3>1. \A j \in 1..Prefix : g[j] = g[j - 1] * Base + w[j]
      BY <1>1, <1>7
    <3>2. least \in Nat /\ g[i + 1] >= least
      BY <2>5, <2>6
    <3> HIDE DEF least
    <3> QED BY <1>7, <2>2, <3>1, <3>2, SumsRise
  <2>8. Prefix + least > RxCap
    BY PrintableAssumption
  <2>9. g[Prefix] \in Nat
    BY <1>2
  <2> HIDE DEF least
  <2>10. Prefix + LengthOf(b) > RxCap
    <3>1. Prefix \in Nat /\ RxCap \in Nat
      BY <1>2
    <3>2. least \in Nat
      BY <2>6 DEF least
    <3>3. LengthOf(b) = g[Prefix]
      BY <1>1
    <3> QED BY <2>7, <2>8, <2>9, <3>1, <3>2, <3>3
  <2> QED BY <1>12, <2>10 DEF a
<1>13. a = 1 \/ a = 2 \/ a > 2
  BY <1>5
<1> QED
  BY <1>10, <1>11, <1>12, <1>13
-----------------------------------------------------------------------------
(* net_socket_client_feed. *)

\* Extract takes a front off its bytes, and passes on what fits in s_nc_json.
LEMMA ExtractFacts ==
    ASSUME NEW s \in Seq(Bytes)
    PROVE  \/ /\ Extract(s).got = <<>>
              /\ \E j \in 0..Len(s) : Extract(s).rx = ShiftLeft(s, j)
           \/ /\ Len(s) >= Prefix /\ Prefix + LengthOf(s) <= Len(s)
              /\ LengthOf(s) \in Nat /\ LengthOf(s) + 1 <= OutCap
              /\ Extract(s).rx = ShiftLeft(s, Prefix + LengthOf(s))
              /\ Extract(s).got = <<Payload(SubSeq(s, 1, Prefix + LengthOf(s)))>>
<1>1. Len(s) \in Nat /\ Prefix \in Nat \ {0, 1} /\ RxCap \in Nat /\ OutCap \in Nat
  BY PrefixAssumption, CapAssumption
<1>2. ShiftLeft(s, 0) = s
  BY SubSeqFull DEF ShiftLeft
<1>3. CASE Len(s) < Prefix
  <2>1. Extract(s) = [rx |-> s, got |-> <<>>]
    BY <1>1, <1>3 DEF Extract
  <2>2. 0 \in 0..Len(s)
    BY <1>1
  <2> QED BY <1>2, <2>1, <2>2
<1>4. CASE ~(Len(s) < Prefix)
  <2>1. Len(s) >= Prefix
    BY <1>1, <1>4
  <2> DEFINE n == LengthOf(s)
             size == Prefix + n
  <2>2. n \in Nat
    BY <1>1, <2>1, LengthFacts
  <2>3. CASE size > RxCap
    <3>1. Extract(s) = [rx |-> ShiftLeft(s, 1), got |-> <<>>]
      <4>1. ~(size <= RxCap)
        BY <1>1, <2>2, <2>3
      <4> QED BY <1>4, <2>1, <2>3, <4>1 DEF Extract
    <3>2. 1 \in 0..Len(s)
      BY <1>1, <2>1
    <3> QED BY <3>1, <3>2
  <2>4. CASE ~(size > RxCap) /\ Len(s) < size
    <3>1. size <= RxCap
      BY <1>1, <2>2, <2>4
    <3>2. Extract(s) = [rx |-> s, got |-> <<>>]
      BY <1>4, <2>1, <2>4, <3>1 DEF Extract
    <3>3. 0 \in 0..Len(s)
      BY <1>1
    <3> QED BY <1>2, <3>2, <3>3
  <2>5. CASE ~(size > RxCap) /\ ~(Len(s) < size)
    <3>1. Extract(s) = [rx |-> ShiftLeft(s, size),
                        got |-> IF n + 1 > OutCap THEN <<>> ELSE <<Payload(SubSeq(s, 1, size))>>]
      BY <1>4, <2>1, <2>5 DEF Extract
    <3>2. size <= Len(s) /\ size \in 0..Len(s)
      BY <1>1, <2>2, <2>5
    <3>3. CASE n + 1 > OutCap
      BY <3>1, <3>2, <3>3
    <3>4. CASE ~(n + 1 > OutCap)
      <4>1. n + 1 <= OutCap
        BY <1>1, <2>2, <3>4
      <4> QED BY <2>1, <2>2, <3>1, <3>2, <3>4, <4>1
    <3> QED BY <3>3, <3>4
  <2> QED BY <2>3, <2>4, <2>5
<1> QED
  BY <1>3, <1>4

\* The payload of a whole frame.
LEMMA PayloadFacts ==
    ASSUME NEW s \in Seq(Bytes), NEW n \in Nat, Prefix + n <= Len(s)
    PROVE  /\ Payload(SubSeq(s, 1, Prefix + n)) \in Seq(Bytes)
           /\ Len(Payload(SubSeq(s, 1, Prefix + n))) = n
<1>1. Prefix \in Nat /\ Len(s) \in Nat
  BY PrefixAssumption
<1>2. Prefix + n \in 0..Len(s)
  BY <1>1
<1>3. PICK t : t = SubSeq(s, 1, Prefix + n)
  OBVIOUS
<1>4. t \in Seq(Bytes) /\ Len(t) = Prefix + n
  BY <1>2, <1>3, FrontAndRest
<1>5. SubSeq(t, Prefix + 1, Len(t)) \in Seq(Bytes) /\ Len(SubSeq(t, Prefix + 1, Len(t))) = n
  BY <1>1, <1>4
<1> QED
  BY <1>3, <1>5 DEF Payload

\* No payload passed on and its terminator exceed s_nc_json.
Fits(payloads) == \A i \in 1..Len(payloads) : Len(payloads[i]) + 1 <= OutCap

LEMMA ExtractTypes ==
    ASSUME NEW s \in Seq(Bytes)
    PROVE  /\ Extract(s).rx \in Seq(Bytes) /\ Len(Extract(s).rx) <= Len(s)
           /\ Extract(s).got \in Seq(Seq(Bytes)) /\ Fits(Extract(s).got)
<1> DEFINE e == Extract(s)
           n == LengthOf(s)
           p == Payload(SubSeq(s, 1, Prefix + n))
<1>1. Len(s) \in Nat /\ Prefix \in Nat
  BY PrefixAssumption
<1>2. \A j \in 0..Len(s) : ShiftLeft(s, j) \in Seq(Bytes) /\ Len(ShiftLeft(s, j)) <= Len(s)
  <2> SUFFICES ASSUME NEW j \in 0..Len(s)
               PROVE  ShiftLeft(s, j) \in Seq(Bytes) /\ Len(ShiftLeft(s, j)) <= Len(s)
    OBVIOUS
  <2>1. ShiftLeft(s, j) \in Seq(Bytes) /\ Len(ShiftLeft(s, j)) = Len(s) - j
    BY Shifted
  <2> QED BY <1>1, <2>1
<1>3. CASE e.got = <<>> /\ \E j \in 0..Len(s) : e.rx = ShiftLeft(s, j)
  <2>1. e.rx \in Seq(Bytes) /\ Len(e.rx) <= Len(s)
    BY <1>2, <1>3
  <2>2. <<>> \in Seq(Seq(Bytes)) /\ Fits(<<>>)
    BY DEF Fits
  <2> QED BY <1>3, <2>1, <2>2
<1>4. CASE /\ Prefix + n <= Len(s) /\ n \in Nat /\ n + 1 <= OutCap
           /\ e.rx = ShiftLeft(s, Prefix + n) /\ e.got = <<p>>
  <2>1. Prefix + n \in 0..Len(s)
    BY <1>1, <1>4
  <2>2. e.rx \in Seq(Bytes) /\ Len(e.rx) <= Len(s)
    BY <1>2, <1>4, <2>1
  <2>3. p \in Seq(Bytes) /\ Len(p) = n
    <3> HIDE DEF n
    <3> QED BY <1>4, PayloadFacts
  <2> HIDE DEF p, n
  <2>4. <<p>> \in Seq(Seq(Bytes)) /\ Len(<<p>>) = 1 /\ <<p>>[1] = p
    BY <2>3
  <2>5. Fits(<<p>>)
    BY <1>4, <2>3, <2>4 DEF Fits
  <2> QED BY <1>4, <2>2, <2>4, <2>5
<1> QED
  BY <1>3, <1>4, ExtractFacts

\* Payloads are those of whole frames sent before what is still to be read, in
\* the order they were sent.
Sources(o, z, f, src) ==
    /\ \A i \in 1..Len(o) : o[i] = Payload(Frame(src[i], f[src[i]]))
    /\ \A i, j \in 1..Len(o) : i < j => src[i] < src[j]
    /\ \A i \in 1..Len(o), j \in 1..Len(z) : src[i] < z[j].of

Taken(o, z, f) == \E src \in [1..Len(o) -> 1..Len(f)] : Sources(o, z, f, src)

LEMMA TakenShifted ==
    ASSUME NEW o, NEW f, NEW z \in Seq(Bytes), Taken(o, z, f), NEW n \in 0..Len(z)
    PROVE  Taken(o, ShiftLeft(z, n), f)
<1>1. PICK src \in [1..Len(o) -> 1..Len(f)] : Sources(o, z, f, src)
  BY DEF Taken
<1> DEFINE y == ShiftLeft(z, n)
<1>2. Len(y) = Len(z) - n /\ \A i \in 1..(Len(z) - n) : y[i] = z[i + n]
  BY Shifted
<1> HIDE DEF y
<1>3. \A j \in 1..Len(y) : y[j] = z[j + n] /\ j + n \in 1..Len(z)
  BY <1>2
<1>4. \A i \in 1..Len(o), j \in 1..Len(y) : src[i] < y[j].of
  BY <1>1, <1>3 DEF Sources
<1>5. Sources(o, y, f, src)
  BY <1>1, <1>4 DEF Sources
<1> QED
  BY <1>5 DEF Taken, y

LEMMA TakenAppended ==
    ASSUME NEW f \in Seq(Sizes), NEW o \in Seq(Seq(Bytes)), NEW z \in Seq(Bytes), Taken(o, z, f),
           Len(z) > 0, NEW k \in 1..Len(f), z[1].of = k,
           NEW y, Len(y) \in Nat, \A j \in 1..Len(y) : y[j].of \in Int /\ k < y[j].of
    PROVE  Taken(Append(o, Payload(Frame(k, f[k]))), y, f)
<1>1. PICK src \in [1..Len(o) -> 1..Len(f)] : Sources(o, z, f, src)
  BY DEF Taken
<1>2. PICK p : p = Payload(Frame(k, f[k]))
  OBVIOUS
<1> DEFINE q == Append(o, p)
           m == Len(o) + 1
           new == [i \in 1..m |-> IF i = m THEN k ELSE src[i]]
<1>3. Len(o) \in Nat /\ Len(f) \in Nat /\ Len(z) \in Nat
  OBVIOUS
<1>4. Len(q) = m /\ q[m] = p /\ \A i \in 1..Len(o) : q[i] = o[i]
  BY <1>3
<1>5. \A i \in 1..m : i # m => i \in 1..Len(o)
  BY <1>3
<1>6. new[m] = k /\ \A i \in 1..Len(o) : new[i] = src[i]
  BY <1>3
<1>7. new \in [1..m -> 1..Len(f)]
  BY <1>5
<1> HIDE DEF new, q
<1>8. \A i \in 1..Len(o) : src[i] \in Int /\ src[i] < k
  <2> SUFFICES ASSUME NEW i \in 1..Len(o) PROVE src[i] \in Int /\ src[i] < k
    OBVIOUS
  <2>1. 1 \in 1..Len(z)
    BY <1>3
  <2>2. src[i] < z[1].of
    BY <1>1, <2>1 DEF Sources
  <2>3. src[i] \in 1..Len(f)
    OBVIOUS
  <2> QED BY <2>2, <2>3
<1>9. \A i \in 1..m : q[i] = Payload(Frame(new[i], f[new[i]]))
  <2> SUFFICES ASSUME NEW i \in 1..m PROVE q[i] = Payload(Frame(new[i], f[new[i]]))
    OBVIOUS
  <2>1. CASE i = m
    BY <1>2, <1>4, <1>6, <2>1
  <2>2. CASE i # m
    <3>1. i \in 1..Len(o)
      BY <1>5, <2>2
    <3>2. o[i] = Payload(Frame(src[i], f[src[i]]))
      BY <1>1, <3>1 DEF Sources
    <3> QED BY <1>4, <1>6, <3>1, <3>2
  <2> QED BY <2>1, <2>2
<1>10. \A i, j \in 1..m : i < j => new[i] < new[j]
  <2> SUFFICES ASSUME NEW i \in 1..m, NEW j \in 1..m, i < j PROVE new[i] < new[j]
    OBVIOUS
  <2>1. i \in 1..Len(o)
    BY <1>3
  <2>2. CASE j = m
    BY <1>6, <1>8, <2>1, <2>2
  <2>3. CASE j # m
    <3>1. j \in 1..Len(o)
      BY <1>5, <2>3
    <3>2. src[i] < src[j]
      BY <1>1, <2>1, <3>1 DEF Sources
    <3> QED BY <1>6, <2>1, <3>1, <3>2
  <2> QED BY <2>2, <2>3
<1>11. \A i \in 1..m, j \in 1..Len(y) : new[i] < y[j].of
  <2> SUFFICES ASSUME NEW i \in 1..m, NEW j \in 1..Len(y) PROVE new[i] < y[j].of
    OBVIOUS
  <2>1. CASE i = m
    BY <1>6, <2>1
  <2>2. CASE i # m
    <3>1. src[i] \in Int /\ src[i] < k /\ new[i] = src[i]
      BY <1>5, <1>6, <1>8, <2>2
    <3> QED BY <3>1
  <2> QED BY <2>1, <2>2
<1>12. Sources(q, y, f, new)
  BY <1>4, <1>9, <1>10, <1>11 DEF Sources
<1>13. Taken(q, y, f)
  BY <1>4, <1>7, <1>12 DEF Taken
<1> QED
  BY <1>2, <1>13 DEF q

\* Off the front of a stream comes nothing but the whole payload of the frame it
\* begins with, if it begins with one.
LEMMA ExtractFromStream ==
    ASSUME NEW f \in Seq(Sizes), NEW s \in Seq(Bytes), NEW w \in Seq(Bytes), Len(s) <= RxCap,
           Stream(s \o w, f), NEW o \in Seq(Seq(Bytes)), Taken(o, s \o w, f)
    PROVE  /\ Stream(Extract(s).rx \o w, f)
           /\ Taken(o \o Extract(s).got, Extract(s).rx \o w, f)
<1> DEFINE z == s \o w
<1>1. /\ z \in Seq(Bytes) /\ Len(z) = Len(s) + Len(w) /\ Len(z) \in Nat /\ Len(s) \in Nat /\ Len(w) \in Nat
      /\ \A i \in 1..Len(s) : z[i] = s[i]
  <2>1. z \in Seq(Bytes) /\ Len(z) = Len(s) + Len(w) /\ \A i \in 1..(Len(s) + Len(w)) : z[i] = IF i <= Len(s) THEN s[i] ELSE w[i - Len(s)]
    BY ConcatProperties
  <2> HIDE DEF z
  <2> QED BY <2>1
<1>2. Stream(z, f) /\ Taken(o, z, f)
  OBVIOUS
<1>3. \A j \in 0..Len(s) : ShiftLeft(s, j) \o w = ShiftLeft(z, j) /\ j \in 0..Len(z)
  <2> SUFFICES ASSUME NEW j \in 0..Len(s)
               PROVE  ShiftLeft(s, j) \o w = ShiftLeft(z, j) /\ j \in 0..Len(z)
    OBVIOUS
  <2>1. ShiftLeft(s, j) \o w = ShiftLeft(z, j)
    BY ShiftedFront
  <2> HIDE DEF z
  <2> QED BY <1>1, <2>1
<1> HIDE DEF z
<1>4. ASSUME NEW j \in 0..Len(s), Extract(s).got = <<>>, Extract(s).rx = ShiftLeft(s, j)
      PROVE  /\ Stream(Extract(s).rx \o w, f)
             /\ Taken(o \o Extract(s).got, Extract(s).rx \o w, f)
  <2>1. Extract(s).rx \o w = ShiftLeft(z, j) /\ j \in 0..Len(z)
    BY <1>3, <1>4
  <2>2. Stream(ShiftLeft(z, j), f)
    BY <1>2, <2>1, StreamShifted
  <2>3. Taken(o, ShiftLeft(z, j), f)
    BY <1>1, <1>2, <2>1, TakenShifted
  <2>4. o \o <<>> = o
    OBVIOUS
  <2> QED BY <1>4, <2>1, <2>2, <2>3, <2>4
<1>5. ASSUME NEW n, n = LengthOf(s), NEW size, size = Prefix + n,
             Len(s) >= Prefix, size <= Len(s), n \in Nat,
             Extract(s).rx = ShiftLeft(s, size), Extract(s).got = <<Payload(SubSeq(s, 1, size))>>
      PROVE  /\ Stream(Extract(s).rx \o w, f)
             /\ Taken(o \o Extract(s).got, Extract(s).rx \o w, f)
  <2> DEFINE k == z[1].of
  <2>1. Prefix \in Nat \ {0, 1} /\ RxCap \in Nat
    BY PrefixAssumption, CapAssumption
  <2>2. Len(z) > 0 /\ 1 \in 1..Len(z) /\ size \in 0..Len(s) /\ size \in Nat
    BY <1>1, <1>5, <2>1
  <2>3. ByteInPlace(z, f, 1)
    BY <1>2, <2>2 DEF Stream
  <2>4. k \in 1..Len(f)
    BY <2>3 DEF ByteInPlace
  <2>5. k \in 1..MaxFrames
    <3>1. z[1] \in Bytes
      BY <1>1, <2>2
    <3> QED BY <3>1, ByteFacts
  <2>6. z[1].at = 1 /\ n = f[k]
    <3>1. Len(s) <= Len(z) /\ \A i \in 1..Len(s) : s[i] = z[i]
      BY <1>1
    <3>2. IF z[1].at = 1 THEN LengthOf(s) = f[k] ELSE Prefix + LengthOf(s) > RxCap
      BY <1>2, <1>5, <3>1, LengthRead
    <3>3. ~(Prefix + LengthOf(s) > RxCap)
      BY <1>1, <1>5, <2>1
    <3> HIDE DEF k
    <3> QED BY <1>5, <3>2, <3>3
  <2>7. f[k] \in Sizes
    BY <2>4
  <2>8. Size(f, k) = size /\ Ahead(z, f, 1) = size - 1
    BY <1>5, <2>6 DEF Size, Ahead
  <2>9. ASSUME NEW i \in 1..Len(z) PROVE InOrder(z, f, 1, i) /\ ByteInPlace(z, f, i)
    BY <1>2, <2>2 DEF Stream
  <2>10. SubSeq(s, 1, size) = Frame(k, f[k])
    <3> DEFINE t == SubSeq(s, 1, size)
    <3>1. t \in Seq(Bytes) /\ Len(t) = size /\ \A i \in 1..size : t[i] = s[i]
      BY <2>2, FrontAndRest
    <3> HIDE DEF t
    <3> DEFINE h == Frame(k, f[k])
    <3> HIDE DEF k
    <3>2. h \in Seq(Bytes) /\ Len(h) = size /\ \A i \in 1..size : h[i] = Byte(f, k, i)
      BY <2>5, <2>7, <2>8, FrameOf
    <3> HIDE DEF h
    <3>3. ASSUME NEW i \in 1..size PROVE t[i] = h[i]
      <4>1. i \in 1..Len(z) /\ i \in 1..Len(s) /\ i <= 1 + (size - 1) /\ 1 + (i - 1) = i
        BY <1>1, <2>2
      <4>2. z[i].of = k /\ z[i].at = i
        <5>1. InOrder(z, f, 1, i) /\ Ahead(z, f, 1) = size - 1 /\ z[1].at = 1
          BY <2>6, <2>8, <2>9, <4>1
        <5>2. z[i].of = z[1].of /\ z[i].at = 1 + (i - 1)
          BY <4>1, <5>1 DEF InOrder
        <5> QED BY <4>1, <5>2 DEF k
      <4>3. z[i] = Byte(f, k, i)
        BY <2>9, <4>1, <4>2 DEF ByteInPlace
      <4> QED BY <1>1, <3>1, <3>2, <4>1, <4>3
    <3>4. t = h
      BY <3>1, <3>2, <3>3, SeqEqual
    <3> QED BY <3>4 DEF t, h
  <2> DEFINE y == ShiftLeft(z, size)
  <2>11. size \in 0..Len(z) /\ Extract(s).rx \o w = y
    BY <1>3, <1>5, <2>2
  <2>12. y \in Seq(Bytes) /\ Len(y) = Len(z) - size /\ \A i \in 1..(Len(z) - size) : y[i] = z[i + size]
    BY <1>1, <2>11, Shifted
  <2>13. Stream(y, f)
    BY <1>2, <2>11, StreamShifted
  <2> HIDE DEF y, k
  <2>14. Len(y) \in Nat
    BY <2>12
  <2>15. ASSUME NEW j \in 1..Len(y) PROVE y[j].of \in Int /\ k < y[j].of
    <3>1. j + size \in 1..Len(z) /\ ~(j + size <= 1 + (size - 1)) /\ y[j] = z[j + size]
      <4>1. j \in 1..(Len(z) - size)
        BY <2>12
      <4>2. y[j] = z[j + size]
        BY <2>12, <4>1
      <4>3. Len(z) \in Nat /\ size \in Nat
        BY <1>1, <2>2
      <4>4. j + size \in 1..Len(z) /\ ~(j + size <= 1 + (size - 1))
        BY <4>1, <4>3
      <4> QED BY <4>2, <4>4
    <3>2. z[j + size].of > k
      BY <2>8, <2>9, <3>1 DEF InOrder, k
    <3>3. z[j + size].of \in Int
      <4>1. ByteInPlace(z, f, j + size)
        BY <2>9, <3>1
      <4> QED BY <4>1 DEF ByteInPlace
    <3> QED BY <2>4, <3>1, <3>2, <3>3
  <2>16. Taken(Append(o, Payload(Frame(k, f[k]))), y, f)
    BY <1>1, <1>2, <2>2, <2>4, <2>14, <2>15, TakenAppended DEF k
  <2>17. o \o <<Payload(Frame(k, f[k]))>> = Append(o, Payload(Frame(k, f[k])))
    OBVIOUS
  <2>18. Extract(s).got = <<Payload(Frame(k, f[k]))>>
    BY <1>5, <2>10
  <2> QED BY <2>11, <2>13, <2>16, <2>17, <2>18
<1> QED
  BY <1>4, <1>5, ExtractFacts
-----------------------------------------------------------------------------
(* The loop of net_connectivity_poll. *)

\* The state after a call that takes a frame off.
Turned(d) == [rx |-> Extract(d.rx).rx, out |-> d.out \o Extract(d.rx).got, left |-> d.left - 1]

\* The state after one that does not.
Ended(d) == [d EXCEPT !.rx = Extract(d.rx).rx]

LEMMA TurnTypes ==
    ASSUME NEW d \in Dispatching
    PROVE  /\ Ended(d) \in Dispatching /\ (d.left # 0 => Turned(d) \in Dispatching)
           /\ d.left \in Nat /\ (d.left # 0 => d.left - 1 \in Nat /\ d.left - 1 < d.left)
<1>1. d.rx \in Seq(Bytes) /\ d.out \in Seq(Seq(Bytes)) /\ d.left \in Nat
  BY DEF Dispatching
<1>2. Extract(d.rx).rx \in Seq(Bytes) /\ Extract(d.rx).got \in Seq(Seq(Bytes))
  BY <1>1, ExtractTypes
<1>3. d.out \o Extract(d.rx).got \in Seq(Seq(Bytes))
  BY <1>1, <1>2
<1>4. Ended(d) \in Dispatching
  BY <1>1, <1>2 DEF Dispatching, Ended
<1>5. ASSUME d.left # 0 PROVE Turned(d) \in Dispatching
  <2>1. d.left - 1 \in Nat
    BY <1>1, <1>5
  <2> QED BY <1>2, <1>3, <2>1 DEF Dispatching, Turned
<1> QED
  BY <1>1, <1>4, <1>5

\* Dispatched solves its equation: calls are left for finitely many turns only.
LEMMA DispatchedFacts ==
    \A d \in Dispatching :
        Dispatched[d] = IF d.left = 0 THEN d
                        ELSE IF Extract(d.rx).got = <<>> THEN Ended(d)
                        ELSE Dispatched[Turned(d)]
<1> DEFINE body(g, d) == IF d.left = 0 THEN d
                         ELSE IF Extract(d.rx).got = <<>> THEN Ended(d)
                         ELSE g[Turned(d)]
           measure == [d \in Dispatching |-> d.left]
           turn == [g \in [Dispatching -> Dispatching] |-> [d \in Dispatching |-> body(g, d)]]
<1>1. measure \in [Dispatching -> Nat] /\ \A d \in Dispatching : measure[d] = d.left
  BY TurnTypes
<1>2. ASSUME NEW g \in [Dispatching -> Dispatching], NEW d \in Dispatching
      PROVE  body(g, d) \in Dispatching
  BY TurnTypes
<1>3. turn \in Functionals(Dispatching, Dispatching)
  BY <1>2 DEF Functionals
<1>4. \A g \in [Dispatching -> Dispatching], d \in Dispatching : turn[g][d] = body(g, d)
  OBVIOUS
<1> HIDE DEF turn, measure
<1>5. LooksBelow(turn, Dispatching, Dispatching, measure)
  <2>1. ASSUME NEW f \in [Dispatching -> Dispatching], NEW g \in [Dispatching -> Dispatching],
               NEW d \in Dispatching, \A u \in Dispatching : measure[u] < measure[d] => f[u] = g[u]
        PROVE  turn[f][d] = turn[g][d]
    <3>1. CASE d.left = 0 \/ Extract(d.rx).got = <<>>
      BY <1>4, <3>1
    <3>2. CASE ~(d.left = 0 \/ Extract(d.rx).got = <<>>)
      <4>1. Turned(d) \in Dispatching /\ d.left - 1 < d.left
        BY <3>2, TurnTypes
      <4>2. Turned(d).left = d.left - 1
        BY DEF Turned
      <4>3. measure[Turned(d)] < measure[d]
        BY <1>1, <4>1, <4>2
      <4>4. f[Turned(d)] = g[Turned(d)]
        BY <2>1, <4>1, <4>3
      <4>5. turn[f][d] = f[Turned(d)] /\ turn[g][d] = g[Turned(d)]
        BY <1>4, <3>2
      <4> QED BY <4>4, <4>5
    <3> QED BY <3>1, <3>2
  <2> QED BY <2>1 DEF LooksBelow
<1>6. \E d : d \in Dispatching
  <2>1. [rx |-> <<>>, out |-> <<>>, left |-> 0] \in Dispatching
    BY DEF Dispatching
  <2> QED BY <2>1
<1>7. PICK g \in [Dispatching -> Dispatching] : g = turn[g]
  BY <1>1, <1>3, <1>5, <1>6, RecursionExists
<1>8. g = [d \in Dispatching |-> body(g, d)]
  BY <1>7 DEF turn
<1> DEFINE it == CHOOSE f : f = [d \in Dispatching |-> body(f, d)]
<1>9. it = [d \in Dispatching |-> body(it, d)]
  <2> HIDE DEF body
  <2> QED BY <1>8, Zenon
<1>10. Dispatched = it
  BY DEF Dispatched, Ended, Turned
<1> HIDE DEF it
<1> QED
  BY <1>9, <1>10

\* What each turn preserves the loop does.
LEMMA DispatchStays ==
    ASSUME NEW G,
           \A d \in Dispatching :
               d \in G /\ d.left # 0 =>
                   IF Extract(d.rx).got = <<>> THEN Ended(d) \in G ELSE Turned(d) \in G
    PROVE  \A d \in Dispatching : d \in G => Dispatched[d] \in Dispatching /\ Dispatched[d] \in G
<1> DEFINE measure == [d \in Dispatching |-> d.left]
           H == {d \in Dispatching : d \in G => Dispatched[d] \in Dispatching /\ Dispatched[d] \in G}
<1>1. measure \in [Dispatching -> Nat] /\ \A d \in Dispatching : measure[d] = d.left
  BY TurnTypes
<1> HIDE DEF measure
<1>2. ASSUME NEW d \in Dispatching, \A u \in Dispatching : measure[u] < measure[d] => u \in H
      PROVE  d \in H
  <2> SUFFICES ASSUME d \in G PROVE Dispatched[d] \in Dispatching /\ Dispatched[d] \in G
    OBVIOUS
  <2>1. CASE d.left = 0
    BY <2>1, DispatchedFacts
  <2>2. CASE d.left # 0 /\ Extract(d.rx).got = <<>>
    BY <2>2, DispatchedFacts, TurnTypes
  <2>3. CASE d.left # 0 /\ Extract(d.rx).got # <<>>
    <3>1. Turned(d) \in Dispatching /\ Turned(d) \in G /\ d.left - 1 < d.left
      BY <2>3, TurnTypes
    <3>2. measure[Turned(d)] < measure[d]
      <4>1. Turned(d).left = d.left - 1
        BY DEF Turned
      <4> QED BY <1>1, <3>1, <4>1
    <3>3. Dispatched[Turned(d)] \in Dispatching /\ Dispatched[Turned(d)] \in G
      BY <1>2, <3>1, <3>2
    <3> QED BY <2>3, <3>3, DispatchedFacts
  <2> QED BY <2>1, <2>2, <2>3
<1>3. Dispatching \subseteq H
  <2> HIDE DEF H
  <2> QED BY <1>1, <1>2, MeasureInduction
<1> QED
  BY <1>3

LEMMA FitsAppended ==
    ASSUME NEW o \in Seq(Seq(Bytes)), NEW p \in Seq(Seq(Bytes)), Fits(o), Fits(p)
    PROVE  Fits(o \o p)
<1>1. /\ Len(o \o p) = Len(o) + Len(p) /\ Len(o) \in Nat /\ Len(p) \in Nat
      /\ \A i \in 1..(Len(o) + Len(p)) : (o \o p)[i] = IF i <= Len(o) THEN o[i] ELSE p[i - Len(o)]
  BY ConcatProperties
<1> SUFFICES ASSUME NEW i \in 1..(Len(o) + Len(p)) PROVE Len((o \o p)[i]) + 1 <= OutCap
  BY <1>1 DEF Fits
<1>2. CASE i <= Len(o)
  <2>1. i \in 1..Len(o)
    BY <1>1, <1>2
  <2> QED BY <1>1, <1>2, <2>1 DEF Fits
<1>3. CASE ~(i <= Len(o))
  <2>1. i - Len(o) \in 1..Len(p)
    BY <1>1, <1>3
  <2> QED BY <1>1, <1>3, <2>1 DEF Fits
<1> QED
  BY <1>2, <1>3

\* What the loop leaves in the buffers, whatever it began with.
LEMMA DispatchTypes ==
    ASSUME NEW s \in Seq(Bytes), Len(s) <= RxCap, NEW limit \in Nat
    PROVE  /\ Dispatch(s, limit) \in Dispatching
           /\ Len(Dispatch(s, limit).rx) <= RxCap /\ Fits(Dispatch(s, limit).out)
<1> DEFINE G == {d \in Dispatching : Len(d.rx) <= RxCap /\ Fits(d.out)}
           first == [rx |-> s, out |-> <<>>, left |-> limit]
<1>1. first \in G
  BY DEF Dispatching, Fits
<1>2. ASSUME NEW d \in Dispatching, d \in G, d.left # 0
      PROVE  IF Extract(d.rx).got = <<>> THEN Ended(d) \in G ELSE Turned(d) \in G
  <2>1. d.rx \in Seq(Bytes) /\ d.out \in Seq(Seq(Bytes)) /\ Len(d.rx) <= RxCap /\ Fits(d.out)
    BY <1>2 DEF Dispatching
  <2>2. /\ Extract(d.rx).rx \in Seq(Bytes) /\ Len(Extract(d.rx).rx) <= Len(d.rx)
        /\ Extract(d.rx).got \in Seq(Seq(Bytes)) /\ Fits(Extract(d.rx).got)
    BY <2>1, ExtractTypes
  <2>3. Len(Extract(d.rx).rx) <= RxCap
    BY <2>1, <2>2, CapAssumption
  <2>4. Fits(d.out \o Extract(d.rx).got)
    BY <2>1, <2>2, FitsAppended
  <2>5. Ended(d) \in Dispatching /\ Turned(d) \in Dispatching
    BY <1>2, TurnTypes
  <2>6. Ended(d).rx = Extract(d.rx).rx /\ Ended(d).out = d.out
    BY DEF Ended, Dispatching
  <2>7. Turned(d).rx = Extract(d.rx).rx /\ Turned(d).out = d.out \o Extract(d.rx).got
    BY DEF Turned
  <2> QED BY <2>1, <2>3, <2>4, <2>5, <2>6, <2>7
<1>3. first \in Dispatching
  BY <1>1
<1>4. G \subseteq Dispatching /\ \A d \in G : Len(d.rx) <= RxCap /\ Fits(d.out)
  OBVIOUS
<1> HIDE DEF G, first
<1>5. Dispatched[first] \in Dispatching /\ Dispatched[first] \in G
  BY <1>1, <1>2, <1>3, DispatchStays
<1>6. Dispatch(s, limit) = Dispatched[first]
  BY DEF Dispatch, first
<1> QED
  BY <1>4, <1>5, <1>6

\* What the loop takes off a stream: whole frames in their order, and what is
\* left is a stream again.
LEMMA DispatchFromStream ==
    ASSUME NEW f \in Seq(Sizes), NEW s \in Seq(Bytes), NEW w \in Seq(Bytes), Len(s) <= RxCap,
           Stream(s \o w, f), NEW o \in Seq(Seq(Bytes)), Taken(o, s \o w, f), NEW limit \in Nat
    PROVE  /\ Stream(Dispatch(s, limit).rx \o w, f)
           /\ Taken(o \o Dispatch(s, limit).out, Dispatch(s, limit).rx \o w, f)
<1> DEFINE Good(d) == /\ Len(d.rx) <= RxCap /\ Stream(d.rx \o w, f)
                      /\ Taken(o \o d.out, d.rx \o w, f)
           G == {d \in Dispatching : Good(d)}
           first == [rx |-> s, out |-> <<>>, left |-> limit]
<1>1. first \in G
  <2>1. first \in Dispatching
    BY DEF Dispatching
  <2>2. o \o <<>> = o
    OBVIOUS
  <2> QED BY <2>1, <2>2
<1>2. ASSUME NEW d \in Dispatching, d \in G, d.left # 0
      PROVE  IF Extract(d.rx).got = <<>> THEN Ended(d) \in G ELSE Turned(d) \in G
  <2>1. d.rx \in Seq(Bytes) /\ d.out \in Seq(Seq(Bytes)) /\ Good(d)
    BY <1>2 DEF Dispatching
  <2>2. /\ Extract(d.rx).rx \in Seq(Bytes) /\ Len(Extract(d.rx).rx) <= Len(d.rx)
        /\ Extract(d.rx).got \in Seq(Seq(Bytes))
    BY <2>1, ExtractTypes
  <2>3. Len(Extract(d.rx).rx) <= RxCap
    BY <2>1, <2>2, CapAssumption
  <2>4. PICK a : a = o \o d.out
    OBVIOUS
  <2>5. a \in Seq(Seq(Bytes)) /\ Taken(a, d.rx \o w, f) /\ Stream(d.rx \o w, f) /\ Len(d.rx) <= RxCap
    BY <2>1, <2>4
  <2>6. Stream(Extract(d.rx).rx \o w, f) /\ Taken(a \o Extract(d.rx).got, Extract(d.rx).rx \o w, f)
    BY <2>1, <2>5, ExtractFromStream
  <2>7. a \o Extract(d.rx).got = o \o (d.out \o Extract(d.rx).got)
    <3>1. d.out \in Seq(Seq(Bytes)) /\ Extract(d.rx).got \in Seq(Seq(Bytes))
      BY <2>1, <2>2
    <3>2. (o \o d.out) \o Extract(d.rx).got = o \o (d.out \o Extract(d.rx).got)
      BY <3>1, PayloadsJoined
    <3> QED BY <2>4, <3>2
  <2>8. Ended(d) \in Dispatching /\ Turned(d) \in Dispatching
    BY <1>2, TurnTypes
  <2>9. Ended(d).rx = Extract(d.rx).rx /\ Ended(d).out = d.out
    BY DEF Ended, Dispatching
  <2>10. Turned(d).rx = Extract(d.rx).rx /\ Turned(d).out = d.out \o Extract(d.rx).got
    BY DEF Turned
  <2>11. Turned(d) \in G
    BY <2>3, <2>6, <2>7, <2>8, <2>10
  <2>12. ASSUME Extract(d.rx).got = <<>> PROVE Ended(d) \in G
    <3>1. a \o <<>> = a
      BY <2>5
    <3>2. Taken(a, Extract(d.rx).rx \o w, f)
      BY <2>6, <2>12, <3>1
    <3> QED BY <2>3, <2>4, <2>6, <2>8, <2>9, <3>2
  <2> QED BY <2>11, <2>12
<1>3. first \in Dispatching
  BY <1>1
<1>4. \A d \in G : Stream(d.rx \o w, f) /\ Taken(o \o d.out, d.rx \o w, f)
  OBVIOUS
<1> HIDE DEF G, first
<1>5. Dispatched[first] \in G
  BY <1>1, <1>2, <1>3, DispatchStays
<1>6. Dispatch(s, limit) = Dispatched[first]
  BY DEF Dispatch, first
<1> QED
  BY <1>4, <1>5, <1>6

\* The call of feed that takes in what the UART held.
LEMMA FeedTypes ==
    ASSUME NEW s \in Seq(Bytes), Len(s) <= RxCap, NEW chunk \in Seq(Bytes)
    PROVE  /\ Feed(s, chunk).rx \in Seq(Bytes) /\ Len(Feed(s, chunk).rx) <= RxCap
           /\ Feed(s, chunk).got \in Seq(Seq(Bytes)) /\ Fits(Feed(s, chunk).got)
<1>1. Len(s) \in Nat /\ Len(chunk) \in Nat /\ RxCap \in Nat
  BY CapAssumption
<1>2. CASE chunk # <<>> /\ Len(s) + Len(chunk) > RxCap
  <2>1. Feed(s, chunk) = [rx |-> <<>>, got |-> <<>>]
    BY <1>2 DEF Feed
  <2> QED BY <1>1, <2>1 DEF Fits
<1>3. CASE ~(chunk # <<>> /\ Len(s) + Len(chunk) > RxCap)
  <2>1. Feed(s, chunk) = Extract(s \o chunk)
    BY <1>3 DEF Feed
  <2>2. PICK t : t = s \o chunk
    OBVIOUS
  <2>3. t \in Seq(Bytes) /\ Len(t) = Len(s) + Len(chunk)
    BY <2>2
  <2>4. Len(t) <= RxCap
    BY <1>1, <1>3, <2>3
  <2>5. /\ Extract(t).rx \in Seq(Bytes) /\ Len(Extract(t).rx) <= Len(t)
        /\ Extract(t).got \in Seq(Seq(Bytes)) /\ Fits(Extract(t).got)
    BY <2>3, ExtractTypes
  <2>6. Len(Extract(t).rx) <= RxCap
    BY <1>1, <2>3, <2>4, <2>5
  <2> QED BY <2>1, <2>2, <2>5, <2>6
<1> QED
  BY <1>2, <1>3

\* A buffer that overflows is emptied with the chunk: what follows is a stream
\* that begins inside a frame.
LEMMA FeedFromStream ==
    ASSUME NEW f \in Seq(Sizes), NEW s \in Seq(Bytes), Len(s) <= RxCap,
           NEW chunk \in Seq(Bytes), NEW w \in Seq(Bytes), Stream(s \o (chunk \o w), f),
           NEW o \in Seq(Seq(Bytes)), Taken(o, s \o (chunk \o w), f)
    PROVE  /\ Stream(Feed(s, chunk).rx \o w, f)
           /\ Taken(o \o Feed(s, chunk).got, Feed(s, chunk).rx \o w, f)
<1>1. PICK t : t = s \o chunk
  OBVIOUS
<1>2. t \in Seq(Bytes) /\ Len(t) = Len(s) + Len(chunk) /\ Len(s) \in Nat /\ Len(chunk) \in Nat
  BY <1>1
<1>3. s \o (chunk \o w) = t \o w
  <2>1. (s \o chunk) \o w = s \o (chunk \o w)
    BY BytesJoined
  <2> QED BY <1>1, <2>1
<1>4. Stream(t \o w, f) /\ Taken(o, t \o w, f)
  BY <1>3
<1>5. CASE chunk # <<>> /\ Len(s) + Len(chunk) > RxCap
  <2>1. Feed(s, chunk) = [rx |-> <<>>, got |-> <<>>]
    BY <1>5 DEF Feed
  <2>2. Len(t) \in 0..Len(t)
    BY <1>2
  <2>3. ShiftLeft(t, Len(t)) = <<>>
    <3>1. ShiftLeft(t, Len(t)) \in Seq(Bytes) /\ Len(ShiftLeft(t, Len(t))) = 0
      <4>1. ShiftLeft(t, Len(t)) \in Seq(Bytes) /\ Len(ShiftLeft(t, Len(t))) = Len(t) - Len(t)
        BY <1>2, <2>2, Shifted
      <4> QED BY <1>2, <4>1
    <3> QED BY <3>1
  <2>4. <<>> \o w = ShiftLeft(t \o w, Len(t))
    <3>1. t \in Seq(Bytes)
      BY <1>2
    <3>2. ShiftLeft(t, Len(t)) \o w = ShiftLeft(t \o w, Len(t))
      BY <2>2, <3>1, ShiftedFront
    <3> QED BY <2>3, <3>2
  <2>5. PICK z : z = t \o w
    OBVIOUS
  <2>6. z \in Seq(Bytes) /\ Len(t) \in 0..Len(z)
    BY <1>2, <2>5
  <2>7. Stream(ShiftLeft(z, Len(t)), f)
    BY <1>4, <2>5, <2>6, StreamShifted
  <2>8. Taken(o, ShiftLeft(z, Len(t)), f)
    BY <1>4, <2>5, <2>6, TakenShifted
  <2>9. o \o <<>> = o
    OBVIOUS
  <2> QED BY <2>1, <2>4, <2>5, <2>7, <2>8, <2>9
<1>6. CASE ~(chunk # <<>> /\ Len(s) + Len(chunk) > RxCap)
  <2>1. Feed(s, chunk) = Extract(t)
    BY <1>1, <1>6 DEF Feed
  <2>2. Len(t) <= RxCap
    BY <1>2, <1>6, CapAssumption
  <2> QED BY <1>2, <1>4, <2>1, <2>2, ExtractFromStream
<1> QED
  BY <1>5, <1>6
-----------------------------------------------------------------------------
(* The history. *)

Takings == [bytes : Seq(Bytes), handed : BOOLEAN]

PayloadsOf(t) == [i \in 1..Len(t) |-> t[i].bytes]

LEMMA HistoryAppended ==
    ASSUME NEW t \in Seq(Takings), NEW p \in Seq(Seq(Bytes)), NEW h \in BOOLEAN
    PROVE  /\ t \o History(p, h) \in Seq(Takings)
           /\ PayloadsOf(t) \in Seq(Seq(Bytes))
           /\ PayloadsOf(t \o History(p, h)) = PayloadsOf(t) \o p
<1> DEFINE a == History(p, h)
           b == PayloadsOf(t)
           c == t \o a
           x == PayloadsOf(c)
           y == b \o p
<1>1. a = [i \in 1..Len(p) |-> [bytes |-> p[i], handed |-> h]]
  BY DEF History
<1>2. \A i \in 1..Len(p) : [bytes |-> p[i], handed |-> h] \in Takings
  <2> SUFFICES ASSUME NEW i \in 1..Len(p) PROVE [bytes |-> p[i], handed |-> h] \in Takings
    OBVIOUS
  <2>1. p[i] \in Seq(Bytes)
    OBVIOUS
  <2> QED BY <2>1 DEF Takings
<1> HIDE DEF a
<1>3. a \in Seq(Takings) /\ Len(a) = Len(p) /\ \A i \in 1..Len(p) : a[i].bytes = p[i]
  BY <1>1, <1>2
<1>4. \A i \in 1..Len(t) : t[i].bytes \in Seq(Bytes)
  <2> SUFFICES ASSUME NEW i \in 1..Len(t) PROVE t[i].bytes \in Seq(Bytes)
    OBVIOUS
  <2>1. t[i] \in Takings
    OBVIOUS
  <2> QED BY <2>1 DEF Takings
<1>5. b \in Seq(Seq(Bytes)) /\ Len(b) = Len(t) /\ \A i \in 1..Len(t) : b[i] = t[i].bytes
  BY <1>4 DEF PayloadsOf
<1> HIDE DEF b
<1>6. /\ c \in Seq(Takings) /\ Len(c) = Len(t) + Len(a)
      /\ \A i \in 1..(Len(t) + Len(a)) : c[i] = IF i <= Len(t) THEN t[i] ELSE a[i - Len(t)]
  <2>1. a \in Seq(Takings)
    BY <1>3
  <2> QED BY <2>1, ConcatProperties
<1> HIDE DEF c
<1>7. /\ y \in Seq(Seq(Bytes)) /\ Len(y) = Len(b) + Len(p)
      /\ \A i \in 1..(Len(b) + Len(p)) : y[i] = IF i <= Len(b) THEN b[i] ELSE p[i - Len(b)]
  <2>1. b \in Seq(Seq(Bytes))
    BY <1>5
  <2> QED BY <2>1, ConcatProperties
<1> HIDE DEF y
<1>8. \A i \in 1..Len(c) : c[i].bytes \in Seq(Bytes)
  <2> SUFFICES ASSUME NEW i \in 1..Len(c) PROVE c[i].bytes \in Seq(Bytes)
    OBVIOUS
  <2>1. c[i] \in Takings
    BY <1>6
  <2> QED BY <2>1 DEF Takings
<1>9. x \in Seq(Seq(Bytes)) /\ Len(x) = Len(c) /\ \A i \in 1..Len(c) : x[i] = c[i].bytes
  <2>1. Len(c) \in Nat
    BY <1>6
  <2> QED BY <1>8, <2>1 DEF PayloadsOf
<1> HIDE DEF x
<1>10. Len(t) \in Nat /\ Len(p) \in Nat /\ Len(x) = Len(y)
  BY <1>3, <1>5, <1>6, <1>7, <1>9
<1>11. ASSUME NEW i \in 1..Len(x) PROVE x[i] = y[i]
  <2>1. i \in 1..(Len(t) + Len(p)) /\ x[i] = c[i].bytes
    BY <1>3, <1>6, <1>9
  <2>2. CASE i <= Len(t)
    <3>1. i \in 1..Len(t)
      BY <1>10, <2>1, <2>2
    <3> QED BY <1>3, <1>5, <1>6, <1>7, <2>1, <2>2, <3>1
  <2>3. CASE ~(i <= Len(t))
    <3>1. i - Len(t) \in 1..Len(p)
      BY <1>10, <2>1, <2>3
    <3> QED BY <1>3, <1>5, <1>6, <1>7, <2>1, <2>3, <3>1
  <2> QED BY <2>2, <2>3
<1>12. x = y
  BY <1>7, <1>9, <1>10, <1>11, SeqEqual
<1> QED
  BY <1>5, <1>6, <1>12 DEF a, b, c, x, y
-----------------------------------------------------------------------------
(* The buffers. *)

\* StreamTypeOK with the type of the history.
BufferInv ==
    /\ sent \in Seq(Sizes) /\ Len(sent) <= MaxFrames
    /\ wire \in Seq(Bytes)
    /\ rx \in Seq(Bytes) /\ Len(rx) <= RxCap
    /\ taken \in Seq(Takings) /\ Fits(PayloadsOf(taken))
    /\ losses \in 0..MaxLosses

\* As long as nothing is lost the buffer and the line are a stream, and what has
\* been taken off came before it.
OrderInv ==
    losses = 0 => Stream(rx \o wire, sent) /\ Taken(PayloadsOf(taken), rx \o wire, sent)

IInv == BufferInv /\ OrderInv

LEMMA Start ==
    ASSUME Init PROVE IInv
<1>1. PayloadsOf(<<>>) = <<>>
  BY DEF PayloadsOf
<1>2. BufferInv
  BY <1>1, BoundAssumption, CapAssumption DEF Init, BufferInv, Fits
<1>3. <<>> \o <<>> = <<>>
  OBVIOUS
<1>4. Stream(<<>>, <<>>)
  BY DEF Stream
<1>5. Taken(<<>>, <<>>, <<>>)
  <2>1. Sources(<<>>, <<>>, <<>>, [i \in 1..0 |-> 1])
    BY DEF Sources
  <2>2. [i \in 1..0 |-> 1] \in [1..0 -> 1..0]
    OBVIOUS
  <2>3. Len(<<>>) = 0
    OBVIOUS
  <2> QED BY <2>1, <2>2, <2>3 DEF Taken
<1> QED
  BY <1>1, <1>2, <1>3, <1>4, <1>5 DEF Init, IInv, OrderInv

LEMMA SendStep ==
    ASSUME IInv, NEW n \in Sizes, PlatformSend(n) PROVE IInv'
<1> DEFINE k == Len(sent) + 1
           h == Frame(k, n)
           z == rx \o wire
<1>1. BufferInv /\ OrderInv /\ Len(sent) < MaxFrames /\ Len(sent) \in Nat
  BY DEF IInv, PlatformSend, BufferInv
<1>2. sent' = Append(sent, n) /\ wire' = wire \o h /\ UNCHANGED <<rx, taken, losses>>
  BY DEF PlatformSend
<1>3. k \in 1..MaxFrames
  BY <1>1, BoundAssumption
<1>4. h \in Seq(Bytes)
  BY <1>3, FrameBytes
<1> HIDE DEF h
<1>5. BufferInv'
  <2>1. wire' \in Seq(Bytes) /\ sent' \in Seq(Sizes) /\ Len(sent') <= MaxFrames
    BY <1>1, <1>2, <1>4, BoundAssumption DEF BufferInv
  <2> QED BY <1>1, <1>2, <2>1 DEF BufferInv
<1>6. ASSUME losses = 0
      PROVE  Stream(rx \o wire', sent') /\ Taken(PayloadsOf(taken), rx \o wire', sent')
  <2>1. rx \in Seq(Bytes) /\ wire \in Seq(Bytes) /\ sent \in Seq(Sizes)
    BY <1>1 DEF BufferInv
  <2>2. rx \o wire' = z \o h
    <3>1. (rx \o wire) \o h = rx \o (wire \o h)
      BY <1>4, <2>1, BytesJoined
    <3> QED BY <1>2, <3>1
  <2>3. Stream(z, sent) /\ Taken(PayloadsOf(taken), z, sent)
    BY <1>1, <1>6 DEF OrderInv
  <2>4. z \in Seq(Bytes)
    BY <2>1
  <2> HIDE DEF z
  <2>5. Stream(z \o h, sent')
    BY <1>1, <1>2, <2>1, <2>3, StreamAppended DEF h
  <2>6. PICK src \in [1..Len(PayloadsOf(taken)) -> 1..Len(sent)] : Sources(PayloadsOf(taken), z, sent, src)
    BY <2>3 DEF Taken
  <2>7. Len(sent') = k /\ \A i \in 1..Len(sent) : sent'[i] = sent[i]
    BY <1>1, <1>2, <2>1
  <2> DEFINE o == PayloadsOf(taken)
             y == z \o h
  <2>8. Len(y) = Len(z) + Len(h) /\ Len(z) \in Nat /\ Len(h) \in Nat
        /\ \A j \in 1..(Len(z) + Len(h)) : y[j] = IF j <= Len(z) THEN z[j] ELSE h[j - Len(z)]
    BY <1>4, <2>4, ConcatProperties
  <2>9. \A i \in 1..Len(h) : h[i].of = k
    <3>1. Len(h) = Prefix + n
      BY <1>3, FrameBytes DEF h
    <3> QED BY <3>1 DEF h, Frame
  <2> HIDE DEF y, o
  <2>10. src \in [1..Len(o) -> 1..Len(sent)] /\ Sources(o, z, sent, src)
    BY <2>6 DEF o
  <2> HIDE DEF k
  <2>11. src \in [1..Len(o) -> 1..k]
    BY <1>1, <2>10 DEF k
  <2>12. ASSUME NEW i \in 1..Len(o), NEW j \in 1..Len(y) PROVE src[i] < y[j].of
    <3>1. src[i] \in 1..Len(sent)
      BY <2>10
    <3>2. CASE j <= Len(z)
      <4>1. j \in 1..Len(z) /\ y[j] = z[j]
        BY <2>8, <3>2
      <4> QED BY <2>10, <4>1 DEF Sources
    <3>3. CASE ~(j <= Len(z))
      <4>1. j - Len(z) \in 1..Len(h) /\ y[j] = h[j - Len(z)]
        BY <2>8, <3>3
      <4>2. y[j].of = k
        BY <2>9, <4>1
      <4> QED BY <1>1, <3>1, <4>2 DEF k
    <3> QED BY <3>2, <3>3
  <2>13. \A i \in 1..Len(o) : sent'[src[i]] = sent[src[i]]
    BY <2>7, <2>10
  <2>14. Sources(o, y, sent', src)
    BY <2>10, <2>12, <2>13 DEF Sources
  <2>15. Taken(o, y, sent')
    BY <2>7, <2>11, <2>14 DEF Taken
  <2> QED BY <2>2, <2>5, <2>15 DEF o, y
<1> QED
  BY <1>2, <1>5, <1>6 DEF IInv, OrderInv

LEMMA LossStep ==
    ASSUME IInv, Overwrite \/ Repeat PROVE IInv'
<1>1. BufferInv /\ wire # <<>> /\ losses < MaxLosses /\ losses' = losses + 1
  BY DEF IInv, Overwrite, Repeat
<1>2. UNCHANGED <<sent, rx, taken>>
  BY DEF Overwrite, Repeat
<1>3. losses \in Nat /\ losses' \in 0..MaxLosses /\ losses' # 0
  BY <1>1, BoundAssumption DEF BufferInv
<1>4. wire \in Seq(Bytes)
  BY <1>1 DEF BufferInv
<1>5. wire' \in Seq(Bytes)
  <2>1. CASE Overwrite
    BY <1>1, <1>4, <2>1 DEF Overwrite
  <2>2. CASE Repeat
    BY <1>1, <1>4, <2>2 DEF Repeat
  <2> QED BY <2>1, <2>2
<1> QED
  BY <1>1, <1>2, <1>3, <1>5 DEF IInv, BufferInv, OrderInv

LEMMA PollStep ==
    ASSUME IInv, NEW n \in 0..Burst, NEW limit \in Nat, Poll(n, limit) PROVE IInv'
<1>1. PICK first : first = IF n = 0 THEN [rx |-> rx, got |-> <<>>] ELSE Feed(rx, SubSeq(wire, 1, n))
  OBVIOUS
<1>2. PICK rest : rest = Dispatch(first.rx, limit)
  OBVIOUS
<1>3. /\ n <= Len(wire)
      /\ taken' = (taken \o History(first.got, FALSE)) \o History(rest.out, TRUE)
      /\ rx' = IF rest.left = 0 THEN <<>> ELSE rest.rx
      /\ wire' = IF rest.left = 0 THEN <<>> ELSE ShiftLeft(wire, n)
      /\ UNCHANGED <<sent, losses>>
  BY <1>1, <1>2 DEF Poll
<1>4. /\ sent \in Seq(Sizes) /\ wire \in Seq(Bytes) /\ rx \in Seq(Bytes) /\ Len(rx) <= RxCap
      /\ taken \in Seq(Takings) /\ Fits(PayloadsOf(taken))
  BY DEF IInv, BufferInv
<1> DEFINE chunk == SubSeq(wire, 1, n)
           w == ShiftLeft(wire, n)
           a == taken \o History(first.got, FALSE)
           o == PayloadsOf(taken)
           p == PayloadsOf(a)
<1>5. n \in 0..Len(wire)
  BY <1>3, <1>4, CapAssumption
<1>6. chunk \in Seq(Bytes) /\ chunk \o w = wire
  BY <1>4, <1>5, FrontAndRest
<1>7. w \in Seq(Bytes) /\ (n = 0 => w = wire)
  <2>1. w \in Seq(Bytes)
    BY <1>4, <1>5, Shifted
  <2>2. ASSUME n = 0 PROVE w = wire
    BY <1>4, <2>2, SubSeqFull DEF ShiftLeft
  <2> QED BY <2>1, <2>2
<1> HIDE DEF chunk, w
<1>8. /\ first.rx \in Seq(Bytes) /\ Len(first.rx) <= RxCap
      /\ first.got \in Seq(Seq(Bytes)) /\ Fits(first.got)
  <2>1. CASE n = 0
    BY <1>1, <1>4, <2>1 DEF Fits
  <2>2. CASE n # 0
    BY <1>1, <1>4, <1>6, <2>2, FeedTypes DEF chunk
  <2> QED BY <2>1, <2>2
<1>9. rest \in Dispatching /\ Len(rest.rx) <= RxCap /\ Fits(rest.out)
  BY <1>2, <1>8, DispatchTypes
<1>10. rest.rx \in Seq(Bytes) /\ rest.out \in Seq(Seq(Bytes))
  BY <1>9 DEF Dispatching
<1>11. a \in Seq(Takings) /\ o \in Seq(Seq(Bytes)) /\ p = o \o first.got
  BY <1>4, <1>8, HistoryAppended
<1> HIDE DEF a
<1>12. taken' \in Seq(Takings) /\ p \in Seq(Seq(Bytes)) /\ PayloadsOf(taken') = p \o rest.out
  BY <1>3, <1>10, <1>11, HistoryAppended DEF a
<1> HIDE DEF o, p
<1>13. BufferInv'
  <2>1. Fits(p)
    BY <1>4, <1>8, <1>11, FitsAppended DEF o
  <2>2. Fits(PayloadsOf(taken'))
    BY <1>9, <1>10, <1>12, <2>1, FitsAppended
  <2>3. rx' \in Seq(Bytes) /\ Len(rx') <= RxCap
    <3>1. CASE rest.left = 0
      BY <1>3, <3>1, CapAssumption
    <3>2. CASE rest.left # 0
      BY <1>3, <1>9, <1>10, <3>2
    <3> QED BY <3>1, <3>2
  <2>4. wire' \in Seq(Bytes)
    BY <1>3, <1>7 DEF w
  <2>5. BufferInv
    BY DEF IInv
  <2> QED BY <1>3, <1>12, <2>2, <2>3, <2>4, <2>5 DEF BufferInv
<1>14. ASSUME losses = 0
       PROVE  Stream(rx' \o wire', sent) /\ Taken(p \o rest.out, rx' \o wire', sent)
  <2>1. Stream(rx \o wire, sent) /\ Taken(o, rx \o wire, sent)
    BY <1>14 DEF IInv, OrderInv, o
  <2>2. Stream(first.rx \o w, sent) /\ Taken(p, first.rx \o w, sent)
    <3>1. CASE n = 0
      <4>1. first.rx = rx /\ first.got = <<>> /\ w = wire
        BY <1>1, <1>7, <3>1
      <4>2. p = o
        BY <1>11, <4>1
      <4> QED BY <2>1, <4>1, <4>2
    <3>2. CASE n # 0
      <4>1. first = Feed(rx, chunk)
        BY <1>1, <3>2 DEF chunk
      <4>2. Stream(rx \o (chunk \o w), sent) /\ Taken(o, rx \o (chunk \o w), sent)
        BY <1>6, <2>1
      <4>3. Stream(Feed(rx, chunk).rx \o w, sent) /\ Taken(o \o Feed(rx, chunk).got, Feed(rx, chunk).rx \o w, sent)
        BY <1>4, <1>6, <1>7, <1>11, <4>2, FeedFromStream
      <4> QED BY <1>11, <4>1, <4>3
    <3> QED BY <3>1, <3>2
  <2>3. Stream(rest.rx \o w, sent) /\ Taken(p \o rest.out, rest.rx \o w, sent)
    BY <1>2, <1>4, <1>7, <1>8, <1>12, <2>2, DispatchFromStream
  <2>4. CASE rest.left # 0
    BY <1>3, <2>3, <2>4 DEF w
  <2>5. CASE rest.left = 0
    <3>1. rx' \o wire' = <<>>
      BY <1>3, <2>5
    <3>2. Stream(<<>>, sent)
      BY DEF Stream
    <3>3. PICK src \in [1..Len(p \o rest.out) -> 1..Len(sent)] : Sources(p \o rest.out, rest.rx \o w, sent, src)
      BY <2>3 DEF Taken
    <3>4. Sources(p \o rest.out, <<>>, sent, src)
      BY <3>3 DEF Sources
    <3>5. Taken(p \o rest.out, <<>>, sent)
      BY <3>4 DEF Taken
    <3> QED BY <3>1, <3>2, <3>5
  <2> QED BY <2>4, <2>5
<1> QED
  BY <1>3, <1>12, <1>13, <1>14 DEF IInv, OrderInv

LEMMA Kept == Spec => []IInv
<1>1. Init => IInv
  BY Start
<1>2. IInv /\ [Next]_vars => IInv'
  <2> SUFFICES ASSUME IInv, [Next]_vars PROVE IInv'
    OBVIOUS
  <2>1. ASSUME NEW n \in Sizes, PlatformSend(n) PROVE IInv'
    BY <2>1, SendStep
  <2>2. CASE Overwrite \/ Repeat
    BY <2>2, LossStep
  <2>3. ASSUME NEW n \in 0..Burst, NEW limit \in 1..(MaxFrames + 1), Poll(n, limit) PROVE IInv'
    <3>1. limit \in Nat
      BY BoundAssumption
    <3> QED BY <2>3, <3>1, PollStep
  <2>4. CASE UNCHANGED vars
    BY <2>4 DEF vars, IInv, BufferInv, OrderInv
  <2> QED BY <2>1, <2>2, <2>3, <2>4 DEF Next
<1> QED
  BY <1>1, <1>2, PTL DEF Spec
-----------------------------------------------------------------------------
\* For all buffer sizes, frames, losses and lengths of prefix: neither c->rx nor
\* s_nc_json is written beyond its end, and what is gathered has its type.
THEOREM StreamTypeCorrect == Spec => []StreamTypeOK
<1>1. IInv => StreamTypeOK
  <2> SUFFICES ASSUME IInv PROVE StreamTypeOK
    OBVIOUS
  <2>1. BufferInv
    BY DEF IInv
  <2>2. taken \in Seq(Takings) /\ Fits(PayloadsOf(taken))
    BY <2>1 DEF BufferInv
  <2>3. Len(PayloadsOf(taken)) = Len(taken) /\ \A i \in 1..Len(taken) : PayloadsOf(taken)[i] = taken[i].bytes
    BY <2>2 DEF PayloadsOf
  <2>4. \A i \in 1..Len(taken) :
            taken[i].bytes \in Seq(Bytes) /\ Len(taken[i].bytes) + 1 <= OutCap
    <3> SUFFICES ASSUME NEW i \in 1..Len(taken)
                 PROVE  taken[i].bytes \in Seq(Bytes) /\ Len(taken[i].bytes) + 1 <= OutCap
      OBVIOUS
    <3>1. taken[i] \in Takings
      BY <2>2
    <3> QED BY <2>2, <2>3, <3>1 DEF Takings, Fits
  <2> QED BY <2>1, <2>4 DEF BufferInv, StreamTypeOK
<1> QED
  BY <1>1, Kept, PTL

\* For all buffer sizes, bursts and frames: while no byte is lost or doubled the
\* poll of net_connectivity.c takes whole frames off the stream, in the order
\* they were sent and none twice, whatever overflows, is too large, or is cut by
\* a connection closed.  Nothing but a length is ever read as one.
THEOREM InOrderOfSending == Spec => []TakenAsSent
<1>1. IInv => TakenAsSent
  <2> SUFFICES ASSUME IInv, losses = 0
               PROVE  \E src \in [1..Len(taken) -> 1..Len(sent)] :
                          /\ \A i \in 1..Len(taken) :
                                 taken[i].bytes = Payload(Frame(src[i], sent[src[i]]))
                          /\ \A i, j \in 1..Len(taken) : i < j => src[i] < src[j]
    BY DEF TakenAsSent
  <2>1. BufferInv /\ OrderInv
    BY DEF IInv
  <2>2. taken \in Seq(Takings)
    BY <2>1 DEF BufferInv
  <2>3. Len(PayloadsOf(taken)) = Len(taken) /\ \A i \in 1..Len(taken) : PayloadsOf(taken)[i] = taken[i].bytes
    BY <2>2 DEF PayloadsOf
  <2>4. PICK src \in [1..Len(PayloadsOf(taken)) -> 1..Len(sent)] :
            Sources(PayloadsOf(taken), rx \o wire, sent, src)
    BY <2>1 DEF OrderInv, Taken
  <2>5. src \in [1..Len(taken) -> 1..Len(sent)]
    BY <2>3, <2>4
  <2>6. \A i \in 1..Len(taken) : taken[i].bytes = Payload(Frame(src[i], sent[src[i]]))
    BY <2>3, <2>4 DEF Sources
  <2>7. \A i, j \in 1..Len(taken) : i < j => src[i] < src[j]
    BY <2>3, <2>4 DEF Sources
  <2> QED BY <2>5, <2>6, <2>7
<1> QED
  BY <1>1, Kept, PTL
=============================================================================
