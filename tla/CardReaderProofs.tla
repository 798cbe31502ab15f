--------------------------- MODULE CardReaderProofs ---------------------------
(***************************************************************************)
(* Theorems about CardReader for all messages, outcomes, limits, debounce  *)
(* windows, prompts of the platform and widths of the clock.               *)
(*                                                                         *)
(* First the operators: an attempt at the head of the buffer consumes what *)
(* it finds, so that the loop of workflow_card_reader_tick ends and leaves *)
(* only what is incomplete; a tick reads two bytes at most, which complete *)
(* no two tokens; prompts keep the queue within its bounds.                *)
(*                                                                         *)
(* ReaderInv then ties the times of the code to the time that has really   *)
(* passed: the last event was "waited" ago, the last prompt is held for    *)
(* what is left of Hold.  The types, the pace of the events and that of    *)
(* the prompts follow from it.                                             *)
(*                                                                         *)
(* Last come the swipes.  EverySwipeFound is not inductive, as it speaks   *)
(* only of the moments at which nothing is under way; SwipesKept says, as  *)
(* long as no byte was lost, where the bytes of the last message or two    *)
(* are: in the buffer, in the register, on the line.                       *)
(***************************************************************************)
EXTENDS CardReader, Loops, SequenceTheorems, TLAPS

\* The types.
Byte == 0..7
Clock == 0..(TimeMod - 1)

(* Sequences. *)

\* What is left of a sequence from a place on.
LEMMA FromFacts ==
    ASSUME NEW S, NEW s \in Seq(S), NEW n \in 1..(Len(s) + 1)
    PROVE  /\ From(s, n) \in Seq(S) /\ Len(From(s, n)) = Len(s) - (n - 1)
           /\ \A i \in 1..(Len(s) - (n - 1)) : From(s, n)[i] = s[i + (n - 1)]
BY DEF From

\* And what comes before it.
LEMMA FrontFacts ==
    ASSUME NEW S, NEW s \in Seq(S), NEW n \in 0..Len(s)
    PROVE  /\ SubSeq(s, 1, n) \in Seq(S) /\ Len(SubSeq(s, 1, n)) = n
           /\ \A i \in 1..n : SubSeq(s, 1, n)[i] = s[i]
OBVIOUS

\* n bytes at the head of s are in S, and no more.
IsRun(s, S, n) ==
    /\ n \in 0..Len(s) /\ \A i \in 1..n : s[i] \in S
    /\ n = Len(s) \/ s[n + 1] \notin S

\* Run is such a number.
LEMMA RunFacts ==
    ASSUME NEW T, NEW s \in Seq(T), NEW S
    PROVE  IsRun(s, S, Run(s, S))
<1> DEFINE P(n) == (\A i \in 1..n : s[i] \in S) /\ (n = Len(s) \/ s[n + 1] \notin S)
<1>1. Len(s) \in Nat
  OBVIOUS
<1>2. \E n \in 0..Len(s) : P(n)
  <2> SUFFICES ASSUME ~ \E n \in 0..Len(s) : P(n) PROVE FALSE
    OBVIOUS
  <2> DEFINE K == {k \in 0..Len(s) : \A i \in 1..k : s[i] \in S}
  <2>1. 0 \in K
    BY <1>1
  <2>2. ASSUME NEW k \in 1..Len(s), k - 1 \in K PROVE k \in K
    <3>1. k - 1 \in 0..Len(s) /\ k - 1 # Len(s) /\ (k - 1) + 1 = k
      BY <1>1
    <3>2. \A i \in 1..(k - 1) : s[i] \in S
      BY <2>2
    <3>3. s[k] \in S
      BY <3>1, <3>2
    <3>4. \A i \in 1..k : i = k \/ i \in 1..(k - 1)
      BY <1>1
    <3> QED BY <3>2, <3>3, <3>4
  <2>3. 0..Len(s) \subseteq K
    <3> HIDE DEF K
    <3> QED BY <1>1, <2>1, <2>2, UpToInduction
  <2>4. Len(s) \in 0..Len(s)
    BY <1>1
  <2> QED BY <2>3, <2>4
<1>3. Run(s, S) = CHOOSE n \in 0..Len(s) : P(n)
  BY DEF Run
<1> HIDE DEF P
<1>4. Run(s, S) \in 0..Len(s) /\ P(Run(s, S))
  BY <1>2, <1>3
<1> QED
  BY <1>4 DEF P, IsRun

\* There is one.
LEMMA RunIs ==
    ASSUME NEW T, NEW s \in Seq(T), NEW S, NEW n, IsRun(s, S, n)
    PROVE  Run(s, S) = n
<1> DEFINE r == Run(s, S)
<1>1. IsRun(s, S, r)
  BY RunFacts
<1> HIDE DEF r
<1>2. Len(s) \in Nat /\ r \in 0..Len(s) /\ n \in 0..Len(s)
  BY <1>1 DEF IsRun
<1>3. ~(r < n)
  <2> SUFFICES ASSUME r < n PROVE FALSE
    OBVIOUS
  <2>1. r # Len(s) /\ r + 1 \in 1..n
    BY <1>2
  <2> QED BY <1>1, <2>1 DEF IsRun
<1>4. ~(n < r)
  <2> SUFFICES ASSUME n < r PROVE FALSE
    OBVIOUS
  <2>1. n # Len(s) /\ n + 1 \in 1..r
    BY <1>2
  <2> QED BY <1>1, <2>1 DEF IsRun
<1> QED
  BY <1>2, <1>3, <1>4 DEF r
-----------------------------------------------------------------------------
(* Parsing. *)

\* What is handled.
Tokens == Seq(Byte) \ {<<>>}

\* What the assumptions say of the arrays.
LEMMA CapFacts ==
    /\ TokenCap \in Nat /\ TokenCap > MinToken /\ TokenCap > 2 /\ MinToken \in Nat
    /\ LastCap \in Nat /\ LastCap >= 2
BY ReaderAssumption

\* An array holds a string that fits, of another the beginning.
LEMMA FitFacts ==
    ASSUME NEW S, NEW s \in Seq(S), NEW cap \in Nat, cap >= 2
    PROVE  /\ Fit(s, cap) \in Seq(S) /\ Len(Fit(s, cap)) < cap /\ Len(Fit(s, cap)) <= Len(s)
           /\ Len(s) < cap => Fit(s, cap) = s
           /\ Len(s) >= cap => Len(Fit(s, cap)) = cap - 1
           /\ \A i \in 1..Len(Fit(s, cap)) : Fit(s, cap)[i] = s[i]
<1>1. Len(s) \in Nat
  OBVIOUS
<1>2. CASE Len(s) < cap
  BY <1>1, <1>2 DEF Fit
<1>3. CASE ~(Len(s) < cap)
  <2> DEFINE n == cap - 1
  <2>1. n \in 0..Len(s) /\ n \in Nat /\ n < cap
    BY <1>1, <1>3
  <2>2. Fit(s, cap) = SubSeq(s, 1, n)
    BY <1>3 DEF Fit
  <2>3. /\ SubSeq(s, 1, n) \in Seq(S) /\ Len(SubSeq(s, 1, n)) = n
        /\ \A i \in 1..n : SubSeq(s, 1, n)[i] = s[i]
    BY <2>1, FrontFacts
  <2> QED BY <1>1, <1>3, <2>1, <2>2, <2>3
<1> QED
  BY <1>2, <1>3

\* A token is made of bytes, and no shorter than the code asks for.
LEMMA AsciiTokenFacts ==
    ASSUME NEW text \in Seq(Byte)
    PROVE  /\ AsciiToken(text) \in Seq(Byte)
           /\ AsciiToken(text) # NoToken => MinToken <= Len(text)
<1> DEFINE n == Run(text, Chars \ {Space})
           whole == SubSeq(text, 1, n)
           token == Fit(whole, TokenCap)
<1>1. n \in 0..Len(text)
  BY RunFacts DEF IsRun
<1> HIDE DEF n
<1>8. whole \in Seq(Byte) /\ Len(whole) = n
  BY <1>1, FrontFacts
<1> HIDE DEF whole
<1>2. token \in Seq(Byte) /\ Len(token) \in Nat /\ Len(token) <= n
  <2>1. TokenCap \in Nat /\ TokenCap >= 2
    BY CapFacts
  <2>2. token \in Seq(Byte) /\ Len(token) <= Len(whole)
    BY <1>8, <2>1, FitFacts
  <2> QED BY <1>8, <2>2
<1>3. AsciiToken(text) = IF Range(token) \subseteq Letters /\ Len(token) >= MinToken THEN token ELSE NoToken
  BY DEF AsciiToken, n, whole
<1> HIDE DEF token
<1>4. <<>> \in Seq(Byte)
  OBVIOUS
<1>5. AsciiToken(text) \in Seq(Byte)
  BY <1>2, <1>3, <1>4 DEF NoToken
<1>6. AsciiToken(text) # NoToken => Len(token) >= MinToken
  BY <1>3
<1>7. MinToken \in Nat
  BY ReaderAssumption
<1> QED
  BY <1>1, <1>2, <1>5, <1>6, <1>7

\* What is left at the head of the buffer if an attempt consumes nothing.
Incomplete(buf) ==
    IF buf[1] = Space THEN Len(buf) < BinLen
    ELSE Newline \notin Range(buf) /\ Len(buf) < LineCap - 1

\* An attempt consumes no more than there is, what it finds is of three bytes or
\* more, and only of what is incomplete it consumes nothing.
AttemptGood(buf, a) ==
    /\ a.used \in 0..Len(buf) /\ a.token \in Seq(Byte)
    /\ a.token # NoToken => a.used >= 3
    /\ a.used = 0 => a.token = NoToken /\ Incomplete(buf)

\* workflow_card_reader_try_parse_binary.
LEMMA BinaryGood ==
    ASSUME NEW buf \in Seq(Byte), buf # <<>>, buf[1] = Space
    PROVE  AttemptGood(buf, Binary(buf))
<1>1. Len(buf) \in Nat /\ Len(buf) > 0
  OBVIOUS
<1>2. <<>> \in Seq(Byte)
  OBVIOUS
<1>3. CASE Len(buf) < BinLen
  BY <1>1, <1>2, <1>3 DEF Binary, Attempt, AttemptGood, Incomplete, NoToken
<1>4. CASE ~(Len(buf) < BinLen) /\ buf[BinLen] # Complement(buf[2])
  BY <1>1, <1>2, <1>4 DEF Binary, Attempt, AttemptGood, Incomplete, NoToken
<1>5. CASE ~(Len(buf) < BinLen) /\ ~(buf[BinLen] # Complement(buf[2]))
  <2>1. buf[2] \in Byte
    BY <1>1, <1>5 DEF BinLen
  <2>2. <<buf[2]>> \in Seq(Byte) /\ <<buf[2]>> # <<>>
    BY <2>1
  <2> DEFINE u == IF Len(buf) > BinLen /\ buf[BinLen + 1] = End THEN BinLen + 1 ELSE BinLen
  <2>3. u \in 0..Len(buf) /\ u >= 3
    BY <1>1, <1>5 DEF BinLen
  <2>4. Binary(buf) = [used |-> u, token |-> <<buf[2]>>]
    BY <1>5 DEF Binary, Attempt
  <2> HIDE DEF u
  <2> QED BY <2>2, <2>3, <2>4 DEF AttemptGood, NoToken
<1> QED
  BY <1>3, <1>4, <1>5

\* workflow_card_reader_try_parse_ascii.
LEMMA AsciiGood ==
    ASSUME NEW buf \in Seq(Byte), buf # <<>>, buf[1] # Space
    PROVE  AttemptGood(buf, Ascii(buf))
<1> DEFINE all == Run(buf, Chars)
           n == IF all < LineCap THEN all ELSE LineCap - 1
           tail == From(buf, n + 2)
           more == Run(tail, {Newline})
           token == AsciiToken(SubSeq(buf, 1, n))
<1>1. Len(buf) \in Nat /\ Len(buf) > 0 /\ LineCap \in Nat /\ LineCap > 3 /\ MinToken \in Nat \ {0, 1}
  BY ReaderAssumption DEF BinLen
<1>2. all \in 0..Len(buf) /\ (\A i \in 1..all : buf[i] \in Chars)
  BY RunFacts DEF IsRun
<1>3. Ascii(buf) = IF all < Len(buf) THEN [used |-> n + 1 + more, token |-> token]
                   ELSE [used |-> IF all >= LineCap - 1 THEN all ELSE 0, token |-> NoToken]
  BY DEF Ascii, Attempt
<1> HIDE DEF all
<1>4. n \in 0..all /\ n \in Nat
  BY <1>1, <1>2
<1> HIDE DEF n
<1>5. CASE all < Len(buf)
  <2>1. n + 2 \in 1..(Len(buf) + 1) /\ n \in 0..Len(buf)
    BY <1>1, <1>2, <1>4, <1>5
  <2>2. tail \in Seq(Byte) /\ Len(tail) = Len(buf) - (n + 1)
    <3>1. Len(buf) - ((n + 2) - 1) = Len(buf) - (n + 1)
      BY <1>1, <1>4
    <3> QED BY <2>1, <3>1, FromFacts
  <2> HIDE DEF tail
  <2>3. more \in 0..Len(tail)
    BY <2>2, RunFacts DEF IsRun
  <2> HIDE DEF more
  <2>4. n + 1 + more \in 0..Len(buf) /\ n + 1 + more >= n + 1
    BY <1>1, <1>4, <2>1, <2>2, <2>3
  <2>5. SubSeq(buf, 1, n) \in Seq(Byte) /\ Len(SubSeq(buf, 1, n)) = n
    BY <2>1, FrontFacts
  <2>6. token \in Seq(Byte) /\ (token # NoToken => MinToken <= n)
    BY <2>5, AsciiTokenFacts
  <2> HIDE DEF token
  <2>7. token # NoToken => n + 1 + more >= 3
    BY <1>1, <1>4, <2>3, <2>2, <2>6
  <2>8. n + 1 + more # 0
    BY <1>4, <2>4
  <2> QED BY <1>3, <1>5, <2>4, <2>6, <2>7, <2>8 DEF AttemptGood
<1>6. CASE ~(all < Len(buf))
  <2>1. all = Len(buf)
    BY <1>2, <1>6
  <2>2. <<>> \in Seq(Byte)
    OBVIOUS
  <2>3. CASE all >= LineCap - 1
    <3>1. Ascii(buf) = [used |-> all, token |-> NoToken]
      BY <1>3, <1>6, <2>3
    <3> QED BY <1>1, <2>1, <2>2, <3>1 DEF AttemptGood, NoToken
  <2>4. CASE ~(all >= LineCap - 1)
    <3>1. Ascii(buf) = [used |-> 0, token |-> NoToken]
      BY <1>3, <1>6, <2>4
    <3>2. Newline \notin Range(buf)
      BY <1>2, <2>1 DEF Range, Chars
    <3>3. Len(buf) < LineCap - 1
      BY <1>1, <2>1, <2>4
    <3> QED BY <1>1, <2>2, <3>1, <3>2, <3>3 DEF AttemptGood, NoToken, Incomplete
  <2> QED BY <2>3, <2>4
<1> QED
  BY <1>5, <1>6

\* Both.
LEMMA AttemptFacts ==
    ASSUME NEW buf \in Seq(Byte), buf # <<>>
    PROVE  AttemptGood(buf, AttemptAt(buf))
BY BinaryGood, AsciiGood DEF AttemptAt

\* What holds of a buffer when it does of all shorter ones holds of all.
LEMMA BufferInduction ==
    ASSUME NEW G,
           \A buf \in Seq(Byte) : (\A u \in Seq(Byte) : Len(u) < Len(buf) => u \in G) => buf \in G
    PROVE  Seq(Byte) \subseteq G
<1> DEFINE B == Seq(Byte)
           measure == [buf \in B |-> Len(buf)]
<1>1. measure \in [B -> Nat]
  OBVIOUS
<1>2. \A buf \in B : (\A u \in B : measure[u] < measure[buf] => u \in G) => buf \in G
  OBVIOUS
<1> HIDE DEF B, measure
<1>3. B \subseteq G
  BY <1>1, <1>2, MeasureInduction
<1> QED
  BY <1>3 DEF B

\* What the loop comes to.
Parsing == [left : Seq(Byte), tokens : Seq(Tokens)]

\* Where the loop goes on, and whether it does.
Rest(buf) == From(buf, IF AttemptAt(buf).used = 0 THEN 2 ELSE AttemptAt(buf).used + 1)

Stays(buf) == AttemptAt(buf).used = 0 /\ buf[1] \in Printable

Joining(buf, p) ==
    [p EXCEPT !.tokens = IF AttemptAt(buf).token = NoToken THEN @ ELSE <<AttemptAt(buf).token>> \o @]

\* Every turn of the loop shortens the buffer, by three bytes if it finds a token.
LEMMA RestFacts ==
    ASSUME NEW buf \in Seq(Byte), buf # <<>>
    PROVE  /\ Rest(buf) \in Seq(Byte) /\ Len(Rest(buf)) < Len(buf)
           /\ AttemptAt(buf).token # NoToken => Len(Rest(buf)) + 3 <= Len(buf)
<1> DEFINE a == AttemptAt(buf)
           n == IF a.used = 0 THEN 2 ELSE a.used + 1
<1>1. Len(buf) \in Nat /\ Len(buf) > 0
  OBVIOUS
<1>2. a.used \in 0..Len(buf) /\ (a.token # NoToken => a.used >= 3)
  BY AttemptFacts DEF AttemptGood
<1>3. Rest(buf) = From(buf, n)
  BY DEF Rest
<1> HIDE DEF a
<1>4. n \in 2..(Len(buf) + 1) /\ (a.token # NoToken => n >= 4)
  BY <1>1, <1>2
<1> HIDE DEF n
<1>5. From(buf, n) \in Seq(Byte) /\ Len(From(buf, n)) = Len(buf) - (n - 1)
  BY <1>1, <1>4, FromFacts
<1> QED
  BY <1>1, <1>3, <1>4, <1>5 DEF a

\* A turn adds its token, if it has one, to those found after it.
LEMMA JoiningTypes ==
    ASSUME NEW buf \in Seq(Byte), buf # <<>>, NEW p \in Parsing
    PROVE  /\ Joining(buf, p) \in Parsing /\ Joining(buf, p).left = p.left
           /\ IF AttemptAt(buf).token = NoToken THEN Joining(buf, p).tokens = p.tokens
              ELSE /\ Joining(buf, p).tokens = <<AttemptAt(buf).token>> \o p.tokens
                   /\ Len(Joining(buf, p).tokens) = Len(p.tokens) + 1
<1> DEFINE a == AttemptAt(buf)
           t == IF a.token = NoToken THEN p.tokens ELSE <<a.token>> \o p.tokens
<1>1. a.token \in Seq(Byte)
  BY AttemptFacts DEF AttemptGood
<1>2. p.left \in Seq(Byte) /\ p.tokens \in Seq(Tokens)
  BY DEF Parsing
<1>3. Joining(buf, p) = [p EXCEPT !.tokens = t]
  BY DEF Joining
<1> HIDE DEF a
<1>4. ASSUME a.token # NoToken
      PROVE  <<a.token>> \o p.tokens \in Seq(Tokens) /\ Len(<<a.token>> \o p.tokens) = Len(p.tokens) + 1
  <2>1. a.token \in Tokens
    BY <1>1, <1>4 DEF Tokens, NoToken
  <2>2. <<a.token>> \in Seq(Tokens) /\ Len(<<a.token>>) = 1
    BY <2>1
  <2>3. \A x, y \in Seq(Tokens) : Len(x) = 1 => x \o y \in Seq(Tokens) /\ Len(x \o y) = Len(y) + 1
    <3> SUFFICES ASSUME NEW x \in Seq(Tokens), NEW y \in Seq(Tokens), Len(x) = 1
                 PROVE  x \o y \in Seq(Tokens) /\ Len(x \o y) = Len(y) + 1
      OBVIOUS
    <3>1. x \o y \in Seq(Tokens) /\ Len(x \o y) = Len(x) + Len(y)
      BY ConcatProperties
    <3> QED BY <3>1
  <2> HIDE DEF a
  <2> QED BY <1>2, <2>2, <2>3
<1>5. t \in Seq(Tokens)
  BY <1>2, <1>4
<1> HIDE DEF t
<1>6. Joining(buf, p) \in Parsing /\ Joining(buf, p).left = p.left /\ Joining(buf, p).tokens = t
  BY <1>2, <1>3, <1>5 DEF Parsing
<1> QED
  BY <1>4, <1>6 DEF t, a

\* Parsed solves its equation: every turn shortens the buffer.
LEMMA ParsedFacts ==
    /\ Parsed \in [Seq(Byte) -> Parsing]
    /\ \A buf \in Seq(Byte) :
           Parsed[buf] = IF buf = <<>> \/ Stays(buf) THEN [left |-> buf, tokens |-> <<>>]
                         ELSE Joining(buf, Parsed[Rest(buf)])
<1> DEFINE none(buf) == [left |-> buf, tokens |-> <<>>]
           body(g, buf) == IF buf = <<>> THEN none(buf)
                           ELSE IF Stays(buf) THEN none(buf) ELSE Joining(buf, g[Rest(buf)])
           measure == [buf \in Seq(Byte) |-> Len(buf)]
           turn == [g \in [Seq(Byte) -> Parsing] |-> [buf \in Seq(Byte) |-> body(g, buf)]]
<1>1. measure \in [Seq(Byte) -> Nat] /\ \A buf \in Seq(Byte) : measure[buf] = Len(buf)
  OBVIOUS
<1>2. \A buf \in Seq(Byte) : none(buf) \in Parsing
  BY DEF Parsing
<1>3. ASSUME NEW g \in [Seq(Byte) -> Parsing], NEW buf \in Seq(Byte)
      PROVE  body(g, buf) \in Parsing
  <2>1. CASE buf = <<>> \/ Stays(buf)
    BY <1>2, <2>1
  <2>2. CASE ~(buf = <<>> \/ Stays(buf))
    <3>1. Rest(buf) \in Seq(Byte)
      BY <2>2, RestFacts
    <3>2. g[Rest(buf)] \in Parsing
      BY <3>1
    <3>3. Joining(buf, g[Rest(buf)]) \in Parsing
      BY <2>2, <3>2, JoiningTypes
    <3> QED BY <2>2, <3>3
  <2> QED BY <2>1, <2>2
<1> HIDE DEF none
<1>4. turn \in Functionals(Seq(Byte), Parsing)
  BY <1>3 DEF Functionals
<1>5. \A g \in [Seq(Byte) -> Parsing], buf \in Seq(Byte) : turn[g][buf] = body(g, buf)
  OBVIOUS
<1> HIDE DEF turn, measure
<1>6. LooksBelow(turn, Seq(Byte), Parsing, measure)
  <2>1. ASSUME NEW f \in [Seq(Byte) -> Parsing], NEW g \in [Seq(Byte) -> Parsing],
               NEW buf \in Seq(Byte), \A u \in Seq(Byte) : measure[u] < measure[buf] => f[u] = g[u]
        PROVE  turn[f][buf] = turn[g][buf]
    <3>1. CASE buf = <<>> \/ Stays(buf)
      BY <1>5, <3>1
    <3>2. CASE ~(buf = <<>> \/ Stays(buf))
      <4>1. Rest(buf) \in Seq(Byte) /\ Len(Rest(buf)) < Len(buf)
        BY <3>2, RestFacts
      <4>2. f[Rest(buf)] = g[Rest(buf)]
        BY <1>1, <2>1, <4>1
      <4>3. turn[f][buf] = Joining(buf, f[Rest(buf)]) /\ turn[g][buf] = Joining(buf, g[Rest(buf)])
        BY <1>5, <3>2
      <4> QED BY <4>2, <4>3
    <3> QED BY <3>1, <3>2
  <2> QED BY <2>1 DEF LooksBelow
<1>7. \E p : p \in Parsing
  <2>1. <<>> \in Seq(Byte)
    OBVIOUS
  <2> QED BY <1>2, <2>1
<1>8. PICK g \in [Seq(Byte) -> Parsing] : g = turn[g]
  BY <1>1, <1>4, <1>6, <1>7, RecursionExists
<1>9. g = [buf \in Seq(Byte) |-> body(g, buf)]
  BY <1>8 DEF turn
<1> DEFINE it == CHOOSE f : f = [buf \in Seq(Byte) |-> body(f, buf)]
<1>10. it = [buf \in Seq(Byte) |-> body(it, buf)]
  <2> HIDE DEF body
  <2> QED BY <1>9, Zenon
<1>11. Parsed = it
  BY DEF Parsed, Byte, Stays, Rest, Joining, none
<1> HIDE DEF it
<1>12. \A buf \in Seq(Byte) : it[buf] = body(it, buf)
  BY <1>10
<1>13. it \in [Seq(Byte) -> Parsing]
  <2> DEFINE G == {buf \in Seq(Byte) : it[buf] \in Parsing}
  <2>1. ASSUME NEW buf \in Seq(Byte), \A u \in Seq(Byte) : Len(u) < Len(buf) => u \in G
        PROVE  buf \in G
    <3>1. CASE buf = <<>> \/ Stays(buf)
      BY <1>2, <1>12, <3>1
    <3>2. CASE ~(buf = <<>> \/ Stays(buf))
      <4>1. Rest(buf) \in Seq(Byte) /\ Len(Rest(buf)) < Len(buf)
        BY <3>2, RestFacts
      <4>2. it[Rest(buf)] \in Parsing
        BY <2>1, <4>1
      <4>3. Joining(buf, it[Rest(buf)]) \in Parsing
        BY <3>2, <4>2, JoiningTypes
      <4> QED BY <1>12, <3>2, <4>3
    <3> QED BY <3>1, <3>2
  <2>2. Seq(Byte) \subseteq G
    <3> HIDE DEF G
    <3> QED BY <2>1, BufferInduction
  <2>3. it = [buf \in Seq(Byte) |-> it[buf]]
    BY <1>10
  <2> QED BY <2>2, <2>3
<1> QED
  BY <1>11, <1>12, <1>13 DEF none

\* What may be left in the buffer by a tick.
Settled(buf) == buf # <<>> => buf[1] \in Printable /\ Incomplete(buf)

\* The loop leaves what is incomplete, and finds a token in three bytes at most.
LEMMA ParsedSettles ==
    \A buf \in Seq(Byte) : Settled(Parsed[buf].left) /\ 3 * Len(Parsed[buf].tokens) <= Len(buf)
<1> DEFINE G == {buf \in Seq(Byte) :
                   Settled(Parsed[buf].left) /\ 3 * Len(Parsed[buf].tokens) <= Len(buf)}
<1>1. ASSUME NEW buf \in Seq(Byte), \A u \in Seq(Byte) : Len(u) < Len(buf) => u \in G
      PROVE  buf \in G
  <2> DEFINE p == Parsed[buf]
             q == Parsed[Rest(buf)]
  <2>1. CASE buf = <<>> \/ Stays(buf)
    <3>1. p = [left |-> buf, tokens |-> <<>>]
      BY <2>1, ParsedFacts
    <3>2. Settled(buf)
      <4>1. CASE buf = <<>>
        BY <4>1 DEF Settled
      <4>2. CASE buf # <<>>
        BY <2>1, <4>2, AttemptFacts DEF Settled, Stays, AttemptGood
      <4> QED BY <4>1, <4>2
    <3>3. Len(<<>>) = 0 /\ Len(buf) \in Nat
      OBVIOUS
    <3> QED BY <3>1, <3>2, <3>3
  <2>2. CASE ~(buf = <<>> \/ Stays(buf))
    <3>1. /\ Rest(buf) \in Seq(Byte) /\ Len(Rest(buf)) < Len(buf)
          /\ AttemptAt(buf).token # NoToken => Len(Rest(buf)) + 3 <= Len(buf)
      BY <2>2, RestFacts
    <3>2. p = Joining(buf, q) /\ q \in Parsing
      BY <2>2, <3>1, ParsedFacts
    <3>3. Settled(q.left) /\ 3 * Len(q.tokens) <= Len(Rest(buf))
      BY <1>1, <3>1
    <3> HIDE DEF p, q
    <3>4. p.left = q.left /\ (AttemptAt(buf).token = NoToken => p.tokens = q.tokens)
          /\ (AttemptAt(buf).token # NoToken => Len(p.tokens) = Len(q.tokens) + 1)
      BY <2>2, <3>2, JoiningTypes
    <3>5. Len(q.tokens) \in Nat /\ Len(Rest(buf)) \in Nat /\ Len(buf) \in Nat
      BY <3>1, <3>2 DEF Parsing
    <3>6. 3 * Len(p.tokens) <= Len(buf)
      BY <3>1, <3>3, <3>4, <3>5
    <3> QED BY <3>3, <3>4, <3>6 DEF p
  <2> QED BY <2>1, <2>2
<1>2. Seq(Byte) \subseteq G
  <2> HIDE DEF G
  <2> QED BY <1>1, BufferInduction
<1> QED
  BY <1>2
-----------------------------------------------------------------------------
(* Prompts. *)

\* The voice.
Prompts == {"welcome", "starting_wait", "port_busy", "unavailable", "device_fault"}
               \cup {p[1] : p \in PlatformPrompts}

Voices == [queue : Seq(Prompts), until : Clock, last : Prompts \cup {NoPrompt}, lastAt : Clock]

GoodVoices == {v \in Voices : Len(v.queue) <= VoiceCap}

\* What the assumptions say of the clock.
LEMMA TimeFacts ==
    /\ TimeMod \in Nat /\ TimeMod >= 4 /\ Hold \in Nat /\ Hold >= 1 /\ Hold < TimeMod \div 2
    /\ TimeMod \div 2 \in Nat /\ 2 * (TimeMod \div 2) = TimeMod
BY VoiceAssumption

\* A prompt that is queued or dropped leaves the queue within its bounds.
LEMMA PromptedFacts ==
    ASSUME NEW v \in GoodVoices, NEW p \in Prompts, NEW gap, NEW t
    PROVE  Prompted(v, p, gap, t) \in GoodVoices /\ Prompted(v, p, gap, t).until = v.until
<1> DEFINE rest == IF Len(v.queue) = VoiceCap THEN Tail(v.queue) ELSE v.queue
           q == Append(rest, p)
<1>1. v.queue \in Seq(Prompts) /\ Len(v.queue) \in Nat /\ Len(v.queue) <= VoiceCap /\ v \in Voices
  BY DEF GoodVoices, Voices
<1>2. VoiceCap \in Nat \ {0}
  BY VoiceAssumption
<1>3. rest \in Seq(Prompts) /\ Len(rest) < VoiceCap
  <2>1. CASE Len(v.queue) = VoiceCap
    <3>1. v.queue # <<>>
      BY <1>2, <2>1
    <3> QED BY <1>1, <1>2, <2>1, <3>1
  <2>2. CASE Len(v.queue) # VoiceCap
    BY <1>1, <1>2, <2>2
  <2> QED BY <2>1, <2>2
<1> HIDE DEF rest
<1>4. q \in Seq(Prompts) /\ Len(q) <= VoiceCap
  BY <1>2, <1>3
<1>5. Pushed(v, p) = [v EXCEPT !.queue = q]
  BY DEF Pushed, rest
<1> HIDE DEF q
<1>6. Pushed(v, p) \in GoodVoices /\ Pushed(v, p).until = v.until
  BY <1>1, <1>4, <1>5 DEF Voices, GoodVoices
<1> QED
  BY <1>6 DEF Prompted

\* Prompts leave alone what is being played.
LEMMA PromptedAllFacts ==
    ASSUME NEW v \in GoodVoices, NEW prompts, Len(prompts) \in Nat,
           \A i \in 1..Len(prompts) : prompts[i][1] \in Prompts
    PROVE  PromptedAll(v, prompts) \in GoodVoices /\ PromptedAll(v, prompts).until = v.until
<1> DEFINE N == Len(prompts)
           A == {w \in GoodVoices : w.until = v.until}
           more(w, i) == Prompted(w, prompts[i][1], prompts[i][2], now)
           step == [i \in 1..N |-> [w \in A |-> more(w, i)]]
<1>1. N \in Nat /\ v \in A
  OBVIOUS
<1>2. \A i \in 1..N, w \in A : more(w, i) \in A
  BY PromptedFacts
<1> HIDE DEF N, A, more
<1>3. step \in Turns(N, A)
  BY <1>2 DEF Turns
<1> HIDE DEF step
<1>4. PICK g : IsLoop(g, N, A, v, step)
  BY <1>1, <1>3, LoopExists
<1>5. g \in [0..N -> A] /\ g[0] = v /\ \A i \in 1..N : g[i] = step[i][g[i - 1]]
  BY <1>4 DEF IsLoop
<1>6. \A i \in 1..N : g[i] = more(g[i - 1], i)
  <2> SUFFICES ASSUME NEW i \in 1..N PROVE g[i] = more(g[i - 1], i)
    OBVIOUS
  <2>1. g[i - 1] \in A
    BY <1>1, <1>5
  <2> QED BY <1>5, <2>1 DEF step
<1> DEFINE after == CHOOSE f : f = [i \in 0..N |-> IF i = 0 THEN v ELSE more(f[i - 1], i)]
<1>7. g = [i \in 0..N |-> IF i = 0 THEN v ELSE more(g[i - 1], i)]
  <2>1. \A i \in 0..N : g[i] = IF i = 0 THEN v ELSE more(g[i - 1], i)
    <3> SUFFICES ASSUME NEW i \in 0..N, i # 0 PROVE g[i] = more(g[i - 1], i)
      BY <1>5
    <3>1. i \in 1..N
      BY <1>1
    <3> QED BY <1>6, <3>1
  <2> QED BY <1>5, <2>1
<1>8. after = [i \in 0..N |-> IF i = 0 THEN v ELSE more(after[i - 1], i)]
  BY <1>7, Zenon
<1>9. PromptedAll(v, prompts) = after[N]
  BY DEF PromptedAll, more, N
<1> HIDE DEF after
<1>10. after[0] = v /\ \A i \in 1..N : after[i] = more(after[i - 1], i)
  <2>1. 0 \in 0..N /\ \A i \in 1..N : i \in 0..N /\ i # 0
    BY <1>1
  <2> QED BY <1>8, <2>1
<1>11. 0..N \subseteq {i \in 0..N : after[i] \in A}
  <2> DEFINE T == {i \in 0..N : after[i] \in A}
  <2>1. 0 \in T
    BY <1>1, <1>10
  <2>2. ASSUME NEW i \in 1..N, i - 1 \in T PROVE i \in T
    BY <1>1, <1>2, <1>10, <2>2
  <2> HIDE DEF T
  <2>3. 0..N \subseteq T
    BY <1>1, <2>1, <2>2, UpToInduction
  <2> QED BY <2>3 DEF T
<1>12. after[N] \in A
  BY <1>1, <1>11
<1> QED
  BY <1>9, <1>12 DEF A

\* What the card reader says are prompts.
LEMMA AnswerPrompts ==
    \A o \in Outcomes : Len(Answers[o]) \in Nat /\ \A i \in 1..Len(Answers[o]) : Answers[o][i][1] \in Prompts
<1> SUFFICES ASSUME NEW o \in Outcomes
             PROVE  Len(Answers[o]) \in Nat /\ \A i \in 1..Len(Answers[o]) : Answers[o][i][1] \in Prompts
  OBVIOUS
<1>1. o \in {"notReady", "busy", "offline", "fault", "sent", "failed"}
  BY OutcomeAssumption
<1>2. CASE o = "notReady"
  <2>1. Answers[o] = << <<"welcome", ShortGap>>, <<"starting_wait", 0>> >>
    BY <1>2 DEF Answers
  <2> QED BY <2>1 DEF Prompts
<1>3. CASE o = "failed"
  <2>1. Answers[o] = << <<"welcome", ShortGap>>, <<"unavailable", LongGap>> >>
    BY <1>3 DEF Answers
  <2> QED BY <2>1 DEF Prompts
<1>4. CASE o \in {"busy", "offline", "fault", "sent"}
  <2>1. /\ Answers["busy"] = << <<"port_busy", LongGap>> >>
        /\ Answers["offline"] = << <<"unavailable", LongGap>> >>
        /\ Answers["fault"] = << <<"device_fault", LongGap>> >>
        /\ Answers["sent"] = << <<"welcome", ShortGap>> >>
    BY DEF Answers
  <2>2. /\ "port_busy" \in Prompts /\ "unavailable" \in Prompts
        /\ "device_fault" \in Prompts /\ "welcome" \in Prompts
    BY DEF Prompts
  <2>3. PICK p \in Prompts, gap \in {ShortGap, LongGap} : Answers[o] = << <<p, gap>> >>
    BY <1>4, <2>1, <2>2
  <2> QED BY <2>3
<1> QED
  BY <1>1, <1>2, <1>3, <1>4

\* A prompt starts only when the voice is not busy, and is then held.
LEMMA VoiceTickedFacts ==
    ASSUME NEW v \in GoodVoices, NEW t \in Clock
    PROVE  /\ VoiceTicked(v, t) \in GoodVoices
           /\ IF VoiceTicked(v, t) = v THEN TRUE
              ELSE ~Busy(v, t) /\ VoiceTicked(v, t).until = (t + Hold) % TimeMod
<1>1. v.queue \in Seq(Prompts) /\ Len(v.queue) \in Nat /\ Len(v.queue) <= VoiceCap
  BY DEF GoodVoices, Voices
<1>2. (t + Hold) % TimeMod \in Clock
  BY TimeFacts DEF Clock
<1>3. CASE Busy(v, t) \/ v.queue = <<>>
  BY <1>3 DEF VoiceTicked
<1>4. CASE ~(Busy(v, t) \/ v.queue = <<>>)
  <2>1. Tail(v.queue) \in Seq(Prompts) /\ Len(Tail(v.queue)) <= VoiceCap /\ Head(v.queue) \in Prompts
    BY <1>1, <1>4, VoiceAssumption
  <2>2. VoiceTicked(v, t) = [queue |-> Tail(v.queue), until |-> (t + Hold) % TimeMod,
                             last |-> Head(v.queue), lastAt |-> t]
    BY <1>4 DEF VoiceTicked
  <2> QED BY <1>2, <1>4, <2>1, <2>2 DEF GoodVoices, Voices
<1> QED
  BY <1>3, <1>4
-----------------------------------------------------------------------------
(* Handling. *)

\* Of one token at most.
LEMMA HandledAllFacts ==
    ASSUME NEW tokens \in Seq(Tokens), Len(tokens) <= 1, NEW outcome, NEW t
    PROVE  HandledAll(tokens, outcome, t) =
               IF tokens = <<>> THEN Handling ELSE Handled(Handling, tokens[1], outcome[1], t)
<1> DEFINE N == Len(tokens)
           more(s, i) == Handled(s, tokens[i], outcome[i], t)
           g == [i \in 0..N |-> IF i = 0 THEN Handling ELSE more(Handling, 1)]
<1>1. N \in {0, 1} /\ (N = 0 <=> tokens = <<>>)
  <2>1. N \in Nat /\ N <= 1
    OBVIOUS
  <2>2. N = 0 <=> tokens = <<>>
    BY EmptySeq
  <2> HIDE DEF N
  <2>3. N \in {0, 1}
    BY <2>1
  <2> QED BY <2>2, <2>3
<1> HIDE DEF N, more
<1>2. g = [i \in 0..N |-> IF i = 0 THEN Handling ELSE more(g[i - 1], i)]
  <2>1. \A i \in 0..N : i # 0 => i = 1 /\ i - 1 = 0 /\ 0 \in 0..N
    BY <1>1
  <2>2. \A i \in 0..N : g[i] = IF i = 0 THEN Handling ELSE more(Handling, 1)
    OBVIOUS
  <2>3. \A i \in 0..N : i # 0 => g[i - 1] = Handling
    BY <2>1, <2>2
  <2>4. g = [i \in 0..N |-> g[i]]
    OBVIOUS
  <2> HIDE DEF g
  <2>5. \A i \in 0..N : g[i] = IF i = 0 THEN Handling ELSE more(g[i - 1], i)
    BY <2>1, <2>2, <2>3
  <2> QED BY <2>4, <2>5
<1> DEFINE after == CHOOSE f : f = [i \in 0..N |-> IF i = 0 THEN Handling ELSE more(f[i - 1], i)]
<1> HIDE DEF g
<1>3. after = [i \in 0..N |-> IF i = 0 THEN Handling ELSE more(after[i - 1], i)]
  BY <1>2, Zenon
<1>4. HandledAll(tokens, outcome, t) = after[N]
  BY DEF HandledAll, more, N
<1> HIDE DEF after
<1>5. CASE N = 0
  <2>1. 0 \in 0..N
    BY <1>5
  <2>2. after[0] = Handling
    BY <1>3, <2>1
  <2> QED BY <1>1, <1>4, <1>5, <2>2
<1>6. CASE N = 1
  <2>1. 0 \in 0..N /\ 1 \in 0..N /\ 1 - 1 = 0
    BY <1>6
  <2>2. after[0] = Handling
    BY <1>3, <2>1
  <2>3. after[1] = more(after[0], 1)
    BY <1>3, <2>1
  <2> QED BY <1>1, <1>4, <1>6, <2>2, <2>3 DEF more
<1> QED
  BY <1>1, <1>5, <1>6
-----------------------------------------------------------------------------
(* A tick. *)

\* The buffer never overflows.
LEMMA AppendedFacts ==
    ASSUME NEW buf \in Seq(Byte), Settled(buf), NEW bytes \in Seq(Byte), Len(bytes) <= 2
    PROVE  Appended(buf, bytes) = buf \o bytes
<1>1. LineCap \in Nat /\ LineCap > 3 /\ BufferCap \in Nat /\ BufferCap > LineCap
  BY ReaderAssumption DEF BinLen
<1>2. Len(buf) \in Nat /\ Len(bytes) \in Nat /\ (buf = <<>> => Len(buf) = 0)
  OBVIOUS
<1>3. Len(buf) <= LineCap - 2
  BY <1>1, <1>2 DEF Settled, Incomplete, BinLen
<1>4. Len(buf \o bytes) = Len(buf) + Len(bytes)
  BY ConcatProperties
<1>5. ~(Len(buf \o bytes) > BufferCap)
  BY <1>1, <1>2, <1>3, <1>4
<1> QED
  BY <1>5 DEF Appended

\* Two bytes more than what waits are no two tokens.
LEMMA LineEnds ==
    ASSUME NEW buf \in Seq(Byte), Settled(buf), Len(buf) >= 4, NEW bytes \in Seq(Byte), Len(bytes) <= 2
    PROVE  3 * Len(Parsed[buf \o bytes].tokens) <= 5
<1> DEFINE whole == buf \o bytes
           a == AttemptAt(whole)
           all == Run(whole, Chars)
           n == IF all < LineCap THEN all ELSE LineCap - 1
           more == Run(From(whole, n + 2), {Newline})
<1>1. Len(buf) \in Nat /\ Len(bytes) \in Nat /\ LineCap \in Nat /\ LineCap > 3
  BY ReaderAssumption DEF BinLen
<1>2. whole \in Seq(Byte) /\ Len(whole) = Len(buf) + Len(bytes) /\ \A i \in 1..Len(buf) : whole[i] = buf[i]
  BY ConcatProperties
<1> HIDE DEF whole
<1>3. buf # <<>> /\ buf[1] # Space /\ buf[1] \in Printable /\ Newline \notin Range(buf) /\ Len(buf) < LineCap - 1
  <2>1. buf # <<>>
    BY <1>1
  <2> QED BY <1>1, <2>1 DEF Settled, Incomplete, BinLen
<1>4. whole # <<>> /\ whole[1] = buf[1] /\ Len(whole) \in Nat /\ Len(whole) <= LineCap
  BY <1>1, <1>2, <1>3
<1>5. a = Ascii(whole)
  BY <1>3, <1>4 DEF AttemptAt
<1>6. IsRun(whole, Chars, all)
  BY <1>2, RunFacts
<1>7. Ascii(whole) = IF all < Len(whole) THEN [used |-> n + 1 + more, token |-> AsciiToken(SubSeq(whole, 1, n))]
                     ELSE [used |-> IF all >= LineCap - 1 THEN all ELSE 0, token |-> NoToken]
  BY DEF Ascii, Attempt
<1> HIDE DEF all, a
<1>8. all \in 0..Len(whole)
  BY <1>6 DEF IsRun
<1>9. all >= Len(buf)
  <2> SUFFICES ASSUME all < Len(buf) PROVE FALSE
    BY <1>1, <1>8
  <2>1. all + 1 \in 1..Len(buf) /\ all # Len(whole)
    BY <1>1, <1>2, <1>8
  <2>2. whole[all + 1] \notin Chars
    BY <1>6, <2>1 DEF IsRun
  <2>3. whole[all + 1] = buf[all + 1] /\ buf[all + 1] \in Byte
    BY <1>2, <2>1
  <2>4. buf[all + 1] \in Range(buf)
    BY <2>1 DEF Range
  <2> QED BY <1>3, <2>2, <2>3, <2>4 DEF Chars, Byte
<1> DEFINE p == Parsed[whole]
           q == Parsed[Rest(whole)]
<1>10. Rest(whole) \in Seq(Byte) /\ Len(Rest(whole)) < Len(whole)
  BY <1>2, <1>4, RestFacts
<1>11. ~Stays(whole) => p = Joining(whole, q)
  BY <1>2, <1>4, ParsedFacts
<1>12. q \in Parsing /\ 3 * Len(q.tokens) <= Len(Rest(whole))
  BY <1>10, ParsedFacts, ParsedSettles
<1>13. Stays(whole) => p.tokens = <<>>
  BY <1>2, ParsedFacts
<1> HIDE DEF p, q
<1>18. ~Stays(whole) => IF a.token = NoToken THEN p.tokens = q.tokens
                        ELSE Len(p.tokens) = Len(q.tokens) + 1
  <2> SUFFICES ASSUME ~Stays(whole)
               PROVE  IF a.token = NoToken THEN p.tokens = q.tokens
                      ELSE Len(p.tokens) = Len(q.tokens) + 1
    OBVIOUS
  <2>1. p = Joining(whole, q)
    BY <1>11
  <2>2. IF a.token = NoToken THEN Joining(whole, q).tokens = q.tokens
        ELSE /\ Joining(whole, q).tokens = <<a.token>> \o q.tokens
             /\ Len(Joining(whole, q).tokens) = Len(q.tokens) + 1
    BY <1>2, <1>4, <1>12, JoiningTypes DEF a
  <2> QED BY <2>1, <2>2
<1>14. Len(q.tokens) \in Nat /\ Len(Rest(whole)) \in Nat
  BY <1>10, <1>12 DEF Parsing
<1>15. CASE Stays(whole)
  <2>1. p.tokens = <<>> /\ Len(<<>>) = 0
    BY <1>13, <1>15
  <2> QED BY <2>1 DEF p, whole
<1>16. CASE ~Stays(whole) /\ all < Len(whole)
  <2>1. n = all
    BY <1>1, <1>4, <1>8, <1>16
  <2>2. more \in Nat
    <3>1. n + 2 \in 1..(Len(whole) + 1)
      BY <1>4, <1>8, <1>16, <2>1
    <3>2. From(whole, n + 2) \in Seq(Byte)
      BY <1>2, <3>1, FromFacts
    <3> QED BY <3>2, RunFacts DEF IsRun
  <2> HIDE DEF more
  <2>3. a.used >= Len(buf) + 1 /\ a.used # 0
    <3>1. a.used = all + 1 + more
      BY <1>5, <1>7, <1>16, <2>1
    <3> QED BY <1>1, <1>8, <1>9, <2>2, <3>1
  <2>4. a.used \in 0..Len(whole)
    BY <1>2, <1>4, AttemptFacts DEF AttemptGood, a
  <2>5. Rest(whole) = From(whole, a.used + 1)
    BY <2>3 DEF Rest, a
  <2>6. Len(Rest(whole)) = Len(whole) - a.used
    <3>1. \A u, l \in Nat : u \in 0..l => u + 1 \in 1..(l + 1) /\ (u + 1) - 1 = u
      OBVIOUS
    <3>2. Len(whole) \in Nat /\ a.used \in Nat
      BY <1>2, <2>4
    <3>3. a.used + 1 \in 1..(Len(whole) + 1) /\ (a.used + 1) - 1 = a.used
      BY <2>4, <3>1, <3>2
    <3> QED BY <1>2, <2>5, <3>3, FromFacts
  <2>7. Len(Rest(whole)) <= 1
    BY <1>1, <1>2, <1>4, <2>3, <2>4, <2>6
  <2>8. Len(q.tokens) = 0
    BY <1>12, <1>14, <2>7
  <2>9. Len(p.tokens) <= Len(q.tokens) + 1 /\ Len(p.tokens) \in Nat
    <3>1. a.token = NoToken => Len(p.tokens) = Len(q.tokens)
      BY <1>16, <1>18
    <3>2. a.token # NoToken => Len(p.tokens) = Len(q.tokens) + 1
      BY <1>16, <1>18
    <3> QED BY <1>14, <3>1, <3>2
  <2> QED BY <2>8, <2>9 DEF p, whole
<1>17. CASE ~Stays(whole) /\ ~(all < Len(whole))
  <2>1. all = Len(whole)
    BY <1>4, <1>8, <1>17
  <2>2. a.used # 0
    BY <1>3, <1>4, <1>17 DEF Stays, a
  <2>3. a.used = Len(whole) /\ a.token = NoToken
    BY <1>5, <1>7, <1>17, <2>1, <2>2
  <2>4. Rest(whole) = From(whole, a.used + 1)
    BY <2>2 DEF Rest, a
  <2>5. Len(Rest(whole)) = 0
    <3>1. a.used + 1 \in 1..(Len(whole) + 1) /\ (a.used + 1) - 1 = a.used
      BY <1>4, <2>3
    <3>2. Len(From(whole, a.used + 1)) = Len(whole) - a.used
      BY <1>2, <3>1, FromFacts
    <3> QED BY <1>4, <2>3, <2>4, <3>2
  <2>6. Len(q.tokens) = 0
    BY <1>12, <1>14, <2>5
  <2>7. p.tokens = q.tokens
    BY <1>17, <1>18, <2>3
  <2> QED BY <2>6, <2>7 DEF p, whole
<1> QED
  BY <1>15, <1>16, <1>17

\* A tick reads two bytes at most, which complete no two tokens.
LEMMA OneToken ==
    ASSUME NEW buf \in Seq(Byte), Settled(buf), NEW bytes \in Seq(Byte), Len(bytes) <= 2
    PROVE  /\ buf \o bytes \in Seq(Byte)
           /\ Parsed[buf \o bytes].left \in Seq(Byte) /\ Settled(Parsed[buf \o bytes].left)
           /\ Parsed[buf \o bytes].tokens \in Seq(Tokens) /\ Len(Parsed[buf \o bytes].tokens) <= 1
<1> DEFINE whole == buf \o bytes
           p == Parsed[whole]
<1>1. Len(buf) \in Nat /\ Len(bytes) \in Nat
  OBVIOUS
<1>2. whole \in Seq(Byte) /\ Len(whole) = Len(buf) + Len(bytes)
  BY ConcatProperties
<1>3. Len(buf) >= 4 => 3 * Len(p.tokens) <= 5
  BY LineEnds
<1> HIDE DEF whole
<1>4. p \in Parsing /\ Settled(p.left) /\ 3 * Len(p.tokens) <= Len(whole)
  BY <1>2, ParsedFacts, ParsedSettles
<1> HIDE DEF p
<1>5. p.left \in Seq(Byte) /\ p.tokens \in Seq(Tokens) /\ Len(p.tokens) \in Nat
  BY <1>4 DEF Parsing
<1>6. 3 * Len(p.tokens) <= 5
  BY <1>1, <1>2, <1>3, <1>4, <1>5
<1>7. Len(p.tokens) <= 1
  BY <1>5, <1>6
<1> QED
  BY <1>2, <1>4, <1>5, <1>7 DEF p, whole

\* Types, and what waits in the buffer.
TypeInv ==
    /\ line \in Seq(Byte)
    /\ dr \in Seq(Byte) /\ Len(dr) <= 1
    /\ rx \in Seq(Byte) /\ Settled(rx)
    /\ now \in Clock
    /\ card \in Seq(Byte) /\ lastToken = Fit(card, LastCap) /\ lastAt \in Clock
    /\ voice \in GoodVoices
    /\ swipes \in 0..MaxSwipes
    /\ swiped \in Seq(Messages) /\ found \in Seq(Tokens)
    /\ lost \in BOOLEAN /\ reported \in BOOLEAN /\ spoken \in BOOLEAN
    /\ waited \in 0..TimeMod /\ quiet \in 0..TimeMod

\* What a tick reads, and what parsing comes to.
Read(meanwhile) == IF dr = <<>> THEN dr ELSE dr \o SubSeq(line, 1, meanwhile)
Result(meanwhile) == Parsed[rx \o Read(meanwhile)]

\* What a tick reads, and what it comes to.
LEMMA ReadFacts ==
    ASSUME TypeInv, NEW meanwhile \in 0..1, meanwhile <= Len(line)
    PROVE  /\ Read(meanwhile) \in Seq(Byte) /\ Len(Read(meanwhile)) <= 2
           /\ Appended(rx, Read(meanwhile)) = rx \o Read(meanwhile)
           /\ Result(meanwhile).left \in Seq(Byte) /\ Settled(Result(meanwhile).left)
           /\ Result(meanwhile).tokens \in Seq(Tokens) /\ Len(Result(meanwhile).tokens) <= 1
<1> DEFINE front == SubSeq(line, 1, meanwhile)
           bytes == Read(meanwhile)
<1>1. line \in Seq(Byte) /\ dr \in Seq(Byte) /\ Len(dr) <= 1 /\ rx \in Seq(Byte) /\ Settled(rx)
  BY DEF TypeInv
<1>2. Len(line) \in Nat /\ Len(dr) \in Nat /\ meanwhile \in 0..Len(line)
  BY <1>1
<1>3. front \in Seq(Byte) /\ Len(front) = meanwhile
  BY <1>1, <1>2, FrontFacts
<1>4. bytes = IF dr = <<>> THEN dr ELSE dr \o front
  BY DEF Read
<1> HIDE DEF front, bytes
<1>5. dr \o front \in Seq(Byte) /\ Len(dr \o front) = Len(dr) + Len(front)
  BY <1>1, <1>3, ConcatProperties
<1>6. bytes \in Seq(Byte) /\ Len(bytes) <= 2
  BY <1>1, <1>2, <1>3, <1>4, <1>5
<1>7. Appended(rx, bytes) = rx \o bytes
  BY <1>1, <1>6, AppendedFacts
<1>8. /\ Parsed[rx \o bytes].left \in Seq(Byte) /\ Settled(Parsed[rx \o bytes].left)
      /\ Parsed[rx \o bytes].tokens \in Seq(Tokens) /\ Len(Parsed[rx \o bytes].tokens) <= 1
  BY <1>1, <1>6, OneToken
<1> QED
  BY <1>6, <1>7, <1>8 DEF Result, bytes

\* Whether a token leads to an event.
Taken(tokens, t) == tokens # <<>> /\ ~Debounced(Handling, tokens[1], t)

\* What handling no token or one leads to.
LEMMA TakenFacts ==
    ASSUME TypeInv, NEW tokens \in Seq(Tokens), Len(tokens) <= 1,
           NEW outcome \in [1..Len(tokens) -> Outcomes], NEW t
    PROVE  LET s == HandledAll(tokens, outcome, t)
           IN  /\ s.voice \in GoodVoices /\ s.voice.until = voice.until
               /\ s.reported = Taken(tokens, t)
               /\ s.last = IF Taken(tokens, t) THEN Fit(tokens[1], LastCap) ELSE lastToken
               /\ s.card = IF Taken(tokens, t) THEN tokens[1] ELSE card
               /\ s.at = IF Taken(tokens, t) THEN t ELSE lastAt
<1> DEFINE s == HandledAll(tokens, outcome, t)
<1>1. s = IF tokens = <<>> THEN Handling ELSE Handled(Handling, tokens[1], outcome[1], t)
  BY HandledAllFacts
<1> HIDE DEF s
<1>2. voice \in GoodVoices
  BY DEF TypeInv
<1>3. Handling = [last |-> lastToken, at |-> lastAt, card |-> card, reported |-> FALSE, voice |-> voice]
  BY DEF Handling
<1>4. CASE ~Taken(tokens, t)
  <2>1. s = Handling
    BY <1>1, <1>4 DEF Taken, Handled
  <2>2. s.last = lastToken /\ s.at = lastAt /\ s.card = card /\ s.reported = FALSE /\ s.voice = voice
    BY <1>3, <2>1
  <2>3. Taken(tokens, t) = FALSE
    BY <1>4 DEF Taken
  <2> QED BY <1>2, <1>4, <2>2, <2>3 DEF s
<1>5. CASE Taken(tokens, t)
  <2> DEFINE v == PromptedAll(voice, Answers[outcome[1]])
             kept == Fit(tokens[1], LastCap)
  <2>1. s = [last |-> kept, at |-> t, card |-> tokens[1], reported |-> TRUE, voice |-> v]
    BY <1>1, <1>3, <1>5 DEF Taken, Handled
  <2>2. 1 \in 1..Len(tokens)
    <3>1. tokens # <<>> /\ Len(tokens) \in Nat
      BY <1>5 DEF Taken
    <3> QED BY <3>1, EmptySeq
  <2>3. outcome[1] \in Outcomes
    BY <2>2
  <2>4. /\ Len(Answers[outcome[1]]) \in Nat
        /\ \A i \in 1..Len(Answers[outcome[1]]) : Answers[outcome[1]][i][1] \in Prompts
    BY <2>3, AnswerPrompts
  <2>5. v \in GoodVoices /\ v.until = voice.until
    BY <1>2, <2>4, PromptedAllFacts
  <2> HIDE DEF v, kept
  <2>6. s.last = kept /\ s.at = t /\ s.card = tokens[1] /\ s.reported = TRUE /\ s.voice = v
    BY <2>1
  <2>7. Taken(tokens, t) = TRUE
    BY <1>5 DEF Taken
  <2> QED BY <1>5, <2>5, <2>6, <2>7 DEF s, kept
<1> QED
  BY <1>4, <1>5

\* What a tick does, as far as the time and the events go.
LEMMA TickFacts ==
    ASSUME TypeInv, NEW d \in 0..1, NEW meanwhile \in 0..1, Tick(d, meanwhile)
    PROVE  LET tokens == Result(meanwhile).tokens
           IN  /\ now' = (now + d) % TimeMod
               /\ reported' = Taken(tokens, now')
               /\ lastToken' = IF reported' THEN Fit(tokens[1], LastCap) ELSE lastToken
               /\ card' = IF reported' THEN tokens[1] ELSE card
               /\ lastAt' = IF reported' THEN now' ELSE lastAt
               /\ waited' = IF reported' THEN 0 ELSE Older(waited, d)
               /\ found' = IF AtRest THEN <<>> ELSE found \o tokens
               /\ rx' = Result(meanwhile).left
<1> DEFINE tokens == Result(meanwhile).tokens
           t == (now + d) % TimeMod
<1>1. meanwhile <= Len(line)
  BY DEF Tick
<1>2. Appended(rx, Read(meanwhile)) = rx \o Read(meanwhile) /\ tokens \in Seq(Tokens) /\ Len(tokens) <= 1
  BY <1>1, ReadFacts
<1>3. PICK outcome \in [1..Len(tokens) -> Outcomes] :
          LET s == HandledAll(tokens, outcome, t)
          IN  /\ lastToken' = s.last /\ lastAt' = s.at /\ card' = s.card /\ reported' = s.reported
              /\ waited' = IF reported' THEN 0 ELSE Older(waited, d)
  BY <1>2 DEF Tick, Result, Read
<1>4. /\ now' = t
      /\ found' = IF AtRest THEN <<>> ELSE found \o tokens
      /\ rx' = Result(meanwhile).left
  BY <1>2 DEF Tick, Result, Read
<1> HIDE DEF tokens
<1> DEFINE s == HandledAll(tokens, outcome, t)
<1>5. /\ s.reported = Taken(tokens, t)
      /\ s.last = IF Taken(tokens, t) THEN Fit(tokens[1], LastCap) ELSE lastToken
      /\ s.card = IF Taken(tokens, t) THEN tokens[1] ELSE card
      /\ s.at = IF Taken(tokens, t) THEN t ELSE lastAt
  BY <1>2, TakenFacts
<1>6. lastToken' = s.last /\ lastAt' = s.at /\ card' = s.card /\ reported' = s.reported
  BY <1>3
<1>7. waited' = IF reported' THEN 0 ELSE Older(waited, d)
  BY <1>3
<1> HIDE DEF s, t
<1> QED
  BY <1>4, <1>5, <1>6, <1>7 DEF t, tokens

\* And as far as the voice goes.
LEMMA TickVoice ==
    ASSUME TypeInv, NEW d \in 0..1, NEW meanwhile \in 0..1, Tick(d, meanwhile)
    PROVE  \E v \in GoodVoices :
               /\ v.until = voice.until
               /\ voice' = VoiceTicked(v, now')
               /\ spoken' = (voice' # v)
               /\ quiet' = IF spoken' THEN 0 ELSE Older(quiet, d)
<1> DEFINE tokens == Result(meanwhile).tokens
           t == (now + d) % TimeMod
<1>1. meanwhile <= Len(line)
  BY DEF Tick
<1>2. Appended(rx, Read(meanwhile)) = rx \o Read(meanwhile) /\ tokens \in Seq(Tokens) /\ Len(tokens) <= 1
  BY <1>1, ReadFacts
<1>3. PICK outcome \in [1..Len(tokens) -> Outcomes] :
          LET s == HandledAll(tokens, outcome, t)
          IN  /\ voice' = VoiceTicked(s.voice, t)
              /\ spoken' = (voice' # s.voice)
              /\ quiet' = IF spoken' THEN 0 ELSE Older(quiet, d)
  BY <1>2 DEF Tick, Result, Read
<1>4. now' = t
  BY DEF Tick
<1> HIDE DEF tokens
<1> DEFINE s == HandledAll(tokens, outcome, t)
<1>5. s.voice \in GoodVoices /\ s.voice.until = voice.until
  BY <1>2, TakenFacts
<1>6. /\ voice' = VoiceTicked(s.voice, now')
      /\ spoken' = (voice' # s.voice)
      /\ quiet' = IF spoken' THEN 0 ELSE Older(quiet, d)
  BY <1>3, <1>4
<1> HIDE DEF s
<1> QED
  BY <1>5, <1>6
-----------------------------------------------------------------------------
(* The clock. *)

\* The remainder, near the clock's range.
LEMMA Wraps ==
    ASSUME NEW x \in (-TimeMod)..(2 * TimeMod - 1)
    PROVE  x % TimeMod = IF x < 0 THEN x + TimeMod ELSE IF x < TimeMod THEN x ELSE x - TimeMod
<1>1. TimeMod \in Nat /\ TimeMod > 0
  BY TimeFacts
<1>2. \A y \in 0..(TimeMod - 1) : y % TimeMod = y
  BY <1>1
<1>3. \A y \in 0..(TimeMod - 1) : (y - TimeMod) % TimeMod = y
  BY <1>1
<1>4. \A y \in 0..(TimeMod - 1) : (y + TimeMod) % TimeMod = y
  BY <1>1
<1>5. CASE x < 0
  <2>1. x + TimeMod \in 0..(TimeMod - 1) /\ (x + TimeMod) - TimeMod = x
    BY <1>1, <1>5
  <2> QED BY <1>3, <1>5, <2>1
<1>6. CASE ~(x < 0) /\ x < TimeMod
  <2>1. x \in 0..(TimeMod - 1)
    BY <1>1, <1>6
  <2> QED BY <1>2, <1>6, <2>1
<1>7. CASE ~(x < 0) /\ ~(x < TimeMod)
  <2>1. x - TimeMod \in 0..(TimeMod - 1) /\ (x - TimeMod) + TimeMod = x
    BY <1>1, <1>7
  <2> QED BY <1>4, <1>7, <2>1
<1> QED
  BY <1>5, <1>6, <1>7

\* The time between two moments of a clock that wraps.
LEMMA ElapsedIs ==
    ASSUME NEW a \in Clock, NEW b \in (-TimeMod)..(TimeMod - 1)
    PROVE  /\ Elapsed(a, b) \in Clock
           /\ Elapsed(a, b) = IF a < b THEN (a - b) + TimeMod
                              ELSE IF a - b < TimeMod THEN a - b ELSE (a - b) - TimeMod
<1>1. TimeMod \in Nat /\ TimeMod > 0
  BY TimeFacts
<1>2. a \in Int /\ b \in Int /\ a - b \in (-TimeMod)..(2 * TimeMod - 1)
  BY <1>1 DEF Clock
<1> DEFINE x == a - b
<1>3. x \in (-TimeMod)..(2 * TimeMod - 1) /\ (x < 0 <=> a < b)
  BY <1>2
<1>4. Elapsed(a, b) = x % TimeMod
  BY DEF Elapsed
<1> HIDE DEF x
<1>5. x % TimeMod = IF x < 0 THEN x + TimeMod ELSE IF x < TimeMod THEN x ELSE x - TimeMod
  BY <1>3, Wraps
<1>6. x % TimeMod \in Clock
  BY <1>1, <1>3, <1>5 DEF Clock
<1> QED
  BY <1>3, <1>4, <1>5, <1>6 DEF x

\* The time moves on by no more than one in a step.
LEMMA TimePasses ==
    ASSUME NEW n \in Clock, NEW d \in 0..1, NEW m, m = (n + d) % TimeMod
    PROVE  /\ m \in Clock /\ Elapsed(m, n) = d /\ Elapsed(m, m) = 0
           /\ m = IF n + d < TimeMod THEN n + d ELSE 0
<1>1. TimeMod \in Nat /\ TimeMod >= 4
  BY TimeFacts
<1>2. n + d \in 0..TimeMod /\ n \in 0..(TimeMod - 1) /\ d \in {0, 1}
  BY <1>1 DEF Clock
<1> DEFINE x == n + d
<1>3. x \in (-TimeMod)..(2 * TimeMod - 1)
  BY <1>1, <1>2
<1>4. x % TimeMod = IF x < 0 THEN x + TimeMod ELSE IF x < TimeMod THEN x ELSE x - TimeMod
  BY <1>3, Wraps
<1>5. m = IF n + d < TimeMod THEN n + d ELSE 0
  BY <1>1, <1>2, <1>4
<1>6. m \in Clock
  BY <1>1, <1>2, <1>5 DEF Clock
<1>7. n \in (-TimeMod)..(TimeMod - 1) /\ m \in (-TimeMod)..(TimeMod - 1)
  BY <1>1, <1>2, <1>6 DEF Clock
<1>8. Elapsed(m, n) = IF m < n THEN (m - n) + TimeMod
                      ELSE IF m - n < TimeMod THEN m - n ELSE (m - n) - TimeMod
  BY <1>6, <1>7, ElapsedIs
<1>9. Elapsed(m, m) = IF m < m THEN (m - m) + TimeMod
                      ELSE IF m - m < TimeMod THEN m - m ELSE (m - m) - TimeMod
  BY <1>6, <1>7, ElapsedIs
<1>10. Elapsed(m, n) = d
  BY <1>1, <1>2, <1>5, <1>8
<1>11. Elapsed(m, m) = 0
  BY <1>1, <1>6, <1>9 DEF Clock
<1> QED
  BY <1>5, <1>6, <1>10, <1>11

\* A time that is w ago is still w + d ago when d has passed, until the clock has
\* turned once; and one to come comes closer.
LaterBy(d, n, m, w, u) == m = (n + d) % TimeMod /\ u = w + d

\* The elapsed time, before and after.
LEMMA AgeGrows ==
    ASSUME NEW n \in Clock, NEW d \in 0..1, NEW w \in (1 - TimeMod)..(TimeMod - 1), NEW m, NEW u,
           LaterBy(d, n, m, w, u), u < TimeMod
    PROVE  /\ Elapsed(n, w) = Elapsed(m, u)
           /\ 0 <= w => Elapsed(m, Elapsed(n, w)) = u
           /\ u < 0 => Elapsed(Elapsed(n, w), m) = -u
<1> DEFINE a == Elapsed(n, w)
<1> HIDE DEF a
<1>0. m = (n + d) % TimeMod /\ u = w + d /\ w + d < TimeMod
  BY DEF LaterBy
<1>1. TimeMod \in Nat /\ TimeMod >= 4
  BY TimeFacts
<1>2. n \in 0..(TimeMod - 1) /\ d \in {0, 1} /\ w \in Int
  BY DEF Clock
<1>3. m \in Clock /\ m = IF n + d < TimeMod THEN n + d ELSE 0
  BY <1>0, TimePasses
<1>4. w \in (-TimeMod)..(TimeMod - 1) /\ w + d \in (-TimeMod)..(TimeMod - 1)
  BY <1>0, <1>1, <1>2
<1>5. /\ a \in Clock
      /\ a = IF n < w THEN (n - w) + TimeMod
             ELSE IF n - w < TimeMod THEN n - w ELSE (n - w) - TimeMod
  BY <1>4, ElapsedIs DEF a
<1>6. Elapsed(m, w + d) = IF m < w + d THEN (m - (w + d)) + TimeMod
                          ELSE IF m - (w + d) < TimeMod THEN m - (w + d) ELSE (m - (w + d)) - TimeMod
  BY <1>3, <1>4, ElapsedIs
<1>7. a \in (-TimeMod)..(TimeMod - 1) /\ m \in (-TimeMod)..(TimeMod - 1) /\ a \in 0..(TimeMod - 1)
      /\ m \in 0..(TimeMod - 1)
  BY <1>1, <1>3, <1>5 DEF Clock
<1>8. Elapsed(m, a) = IF m < a THEN (m - a) + TimeMod
                      ELSE IF m - a < TimeMod THEN m - a ELSE (m - a) - TimeMod
  BY <1>3, <1>7, ElapsedIs
<1>9. Elapsed(a, m) = IF a < m THEN (a - m) + TimeMod
                      ELSE IF a - m < TimeMod THEN a - m ELSE (a - m) - TimeMod
  BY <1>5, <1>7, ElapsedIs
<1>10. a = Elapsed(m, w + d)
  BY <1>1, <1>2, <1>3, <1>5, <1>6
<1>11. 0 <= w => Elapsed(m, a) = w + d
  BY <1>0, <1>1, <1>2, <1>3, <1>5, <1>8
<1>12. w + d < 0 => Elapsed(a, m) = -(w + d)
  BY <1>1, <1>2, <1>3, <1>5, <1>9
<1> QED
  BY <1>0, <1>10, <1>11, <1>12 DEF a
-----------------------------------------------------------------------------
(* What a step leaves. *)

\* After an event the debounce counts from it.
EventNoted == waited < TimeMod => lastAt = Elapsed(now, waited)

\* After a prompt was started the voice is held for as long.
HoldNoted == quiet < Hold => voice.until = Elapsed(now, quiet - Hold)

ReaderInv == TypeInv /\ EventNoted /\ HoldNoted

\* The invariant holds initially.
LEMMA InitReaderInv ==
    ASSUME Init
    PROVE  ReaderInv
<1>1. TimeMod \in Nat /\ TimeMod >= 4 /\ Hold \in Nat /\ Hold < TimeMod /\ MaxSwipes \in Nat
  BY TimeFacts, ReaderAssumption
<1>2. 0 \in Clock /\ 0 \in 0..MaxSwipes /\ TimeMod \in 0..TimeMod
  BY <1>1 DEF Clock
<1>3. <<>> \in Seq(Byte) /\ <<>> \in Seq(Messages) /\ <<>> \in Seq(Tokens) /\ <<>> \in Seq(Prompts) /\ Len(<<>>) = 0
  OBVIOUS
<1>4. Silent \in GoodVoices
  BY <1>2, <1>3, VoiceAssumption DEF Silent, GoodVoices, Voices
<1>5. TypeInv
  <2>1. Settled(rx)
    BY DEF Init, Settled
  <2>2. /\ line = <<>> /\ dr = <<>> /\ rx = <<>> /\ now = 0 /\ lastToken = <<>> /\ lastAt = 0
        /\ card = <<>>
        /\ voice = Silent /\ swipes = 0 /\ swiped = <<>> /\ found = <<>>
    BY DEF Init, NoToken
  <2>3. /\ lost \in BOOLEAN /\ reported \in BOOLEAN /\ spoken \in BOOLEAN
        /\ waited = TimeMod /\ quiet = TimeMod
    BY DEF Init
  <2>4. Len(dr) <= 1
    BY <1>3, <2>2
  <2>5. Fit(<<>>, LastCap) = <<>>
    BY <1>3, CapFacts DEF Fit
  <2> QED BY <1>2, <1>3, <1>4, <2>1, <2>2, <2>3, <2>4, <2>5 DEF TypeInv
<1>6. EventNoted /\ HoldNoted
  BY <1>1 DEF Init, EventNoted, HoldNoted
<1> QED
  BY <1>5, <1>6 DEF ReaderInv

\* A sequence with one more element.
LEMMA Longer ==
    ASSUME NEW S, NEW s \in Seq(S), NEW b \in S
    PROVE  /\ Append(s, b) \in Seq(S) /\ Len(Append(s, b)) = Len(s) + 1
           /\ Append(s, b)[Len(s) + 1] = b
           /\ \A i \in 1..Len(s) : Append(s, b)[i] = s[i]
OBVIOUS

\* A frame with an end.
LEMMA EndAdded ==
    ASSUME NEW s \in Seq(Byte)
    PROVE  /\ Append(s, End) \in Seq(Byte) /\ Len(Append(s, End)) = Len(s) + 1
           /\ \A i \in 1..Len(s) : Append(s, End)[i] = s[i]
<1>1. End \in Byte
  BY DEF End, Byte
<1> QED
  BY <1>1

\* What readers send is bytes, and stands for a token.
LEMMA MessageFacts ==
    \A m \in Messages : m.bytes \in Seq(Byte) /\ m.token \in Tokens /\ m.bytes # <<>>
<1> SUFFICES ASSUME NEW m \in Messages PROVE m.bytes \in Seq(Byte) /\ m.token \in Tokens /\ m.bytes # <<>>
  OBVIOUS
<1>1. CASE \E number \in 0..7 : /\ m.token = <<number>>
                                /\ m.bytes \in {Frame(number), Append(Frame(number), End)}
  <2>1. PICK number \in 0..7 : m.token = <<number>> /\ m.bytes \in {Frame(number), Append(Frame(number), End)}
    BY <1>1
  <2>2. number \in Byte /\ Complement(number) \in Byte /\ Space \in Byte /\ End \in Byte
    BY DEF Complement, Byte, Space, End
  <2>3. Frame(number) \in Seq(Byte) /\ Len(Frame(number)) = 3
    BY <2>2 DEF Frame
  <2>4. Append(Frame(number), End) \in Seq(Byte) /\ Len(Append(Frame(number), End)) = 4
    <3> DEFINE f == Frame(number)
               g == Append(f, End)
    <3>1. f \in Seq(Byte) /\ Len(f) = 3
      BY <2>3
    <3> HIDE DEF f
    <3>2. g \in Seq(Byte) /\ Len(g) = Len(f) + 1
      BY <3>1, EndAdded
    <3> HIDE DEF g
    <3>3. g \in Seq(Byte) /\ Len(g) = 4
      BY <3>1, <3>2
    <3> QED BY <3>3 DEF f, g
  <2>5. m.token \in Seq(Byte) /\ Len(m.token) = 1
    BY <2>1, <2>2
  <2>6. m.bytes \in Seq(Byte) /\ Len(m.bytes) # 0
    BY <2>1, <2>3, <2>4
  <2>7. m.bytes # <<>> /\ m.token # <<>>
    <3>1. \A s \in Seq(Byte) : Len(s) # 0 => s # <<>>
      BY EmptySeq
    <3>2. m.bytes # <<>>
      BY <2>6, <3>1
    <3>3. m.token # <<>>
      BY <2>5, <3>1
    <3> QED BY <3>2, <3>3
  <2> QED BY <2>5, <2>6, <2>7 DEF Tokens
<1>2. CASE /\ m.token \in Seq(Letters) /\ Len(m.token) \in MinToken..(LineCap - 2)
           /\ m.bytes = Append(m.token, Newline)
  <2>1. Newline \in Byte /\ Letters \subseteq Byte
    BY DEF Newline, Byte, Letters
  <2>2. m.token \in Seq(Byte)
    BY <1>2, <2>1
  <2>3. m.bytes \in Seq(Byte) /\ Len(m.bytes) = Len(m.token) + 1 /\ Len(m.token) \in Nat
    BY <1>2, <2>1, <2>2
  <2>4. Len(m.token) # 0
    BY <1>2, ReaderAssumption
  <2>5. m.bytes # <<>> /\ m.token # <<>>
    BY <2>3, <2>4
  <2> QED BY <2>2, <2>3, <2>5 DEF Tokens
<1> QED
  BY <1>1, <1>2, MessageAssumption

\* The invariant is kept by a swipe,
LEMMA SwipeKeeps ==
    ASSUME ReaderInv, NEW m \in Messages, Swipe(m)
    PROVE  ReaderInv'
<1>1. m.bytes \in Seq(Byte)
  BY MessageFacts
<1>2. swipes + 1 \in 0..MaxSwipes /\ Append(swiped, m) \in Seq(Messages)
  BY ReaderAssumption DEF ReaderInv, TypeInv, Swipe
<1>3. TypeInv'
  BY <1>1, <1>2 DEF ReaderInv, TypeInv, Swipe, Silently, code
<1>4. UNCHANGED <<now, lastAt, voice, waited, quiet>>
  BY DEF Swipe, code
<1>5. EventNoted' /\ HoldNoted'
  BY <1>4 DEF ReaderInv, EventNoted, HoldNoted
<1> QED
  BY <1>3, <1>5 DEF ReaderInv

\* by a byte that arrives,
LEMMA ByteArrivesKeeps ==
    ASSUME ReaderInv, ByteArrives
    PROVE  ReaderInv'
<1>1. line \in Seq(Byte) /\ line # <<>>
  BY DEF ReaderInv, TypeInv, ByteArrives
<1>2. Tail(line) \in Seq(Byte) /\ <<Head(line)>> \in Seq(Byte) /\ Len(<<Head(line)>>) = 1
  BY <1>1
<1>3. dr' \in Seq(Byte) /\ Len(dr') <= 1
  BY <1>2 DEF ReaderInv, TypeInv, ByteArrives
<1>4. lost' \in BOOLEAN
  BY DEF ReaderInv, TypeInv, ByteArrives
<1>5. TypeInv'
  BY <1>2, <1>3, <1>4 DEF ReaderInv, TypeInv, ByteArrives, Silently, code
<1>6. UNCHANGED <<now, lastAt, voice, waited, quiet>>
  BY DEF ByteArrives, code
<1>7. EventNoted' /\ HoldNoted'
  BY <1>6 DEF ReaderInv, EventNoted, HoldNoted
<1> QED
  BY <1>5, <1>7 DEF ReaderInv

\* and by a prompt of the platform.
LEMMA PlayPromptKeeps ==
    ASSUME ReaderInv, NEW p \in PlatformPrompts, NEW clear \in BOOLEAN, PlayPrompt(p[1], p[2], clear)
    PROVE  ReaderInv'
<1>1. TimeMod \in Nat /\ Hold \in Nat /\ Hold < TimeMod
  BY TimeFacts
<1> DEFINE v == IF clear THEN Cleared(voice) ELSE voice
<1>2. p[1] \in Prompts /\ voice \in GoodVoices
  BY DEF Prompts, ReaderInv, TypeInv
<1>3. Cleared(voice) \in GoodVoices
  <2>1. 0 \in Clock /\ <<>> \in Seq(Prompts) /\ Len(<<>>) = 0 /\ 0 <= VoiceCap
    BY <1>1, VoiceAssumption DEF Clock
  <2> QED BY <1>2, <2>1 DEF Cleared, GoodVoices, Voices
<1>4. v \in GoodVoices /\ (~clear => v.until = voice.until)
  BY <1>2, <1>3
<1>5. voice' = Prompted(v, p[1], p[2], now)
  BY DEF PlayPrompt
<1> HIDE DEF v
<1>6. voice' \in GoodVoices /\ voice'.until = v.until
  BY <1>2, <1>4, <1>5, PromptedFacts
<1>7. swipes' \in 0..MaxSwipes
  BY ReaderAssumption DEF ReaderInv, TypeInv, PlayPrompt
<1>8. quiet' \in 0..TimeMod
  BY <1>1 DEF ReaderInv, TypeInv, PlayPrompt
<1>9. TypeInv'
  BY <1>6, <1>7, <1>8 DEF ReaderInv, TypeInv, PlayPrompt, Silently, uart
<1>10. UNCHANGED <<now, lastAt, waited>>
  BY DEF PlayPrompt
<1>11. EventNoted'
  BY <1>10 DEF ReaderInv, EventNoted
<1>12. HoldNoted'
  <2>1. CASE clear
    <3>1. quiet' = TimeMod
      BY <2>1 DEF PlayPrompt
    <3> QED BY <1>1, <3>1 DEF HoldNoted
  <2>2. CASE ~clear
    <3>1. quiet' = quiet /\ voice'.until = voice.until
      BY <1>4, <1>6, <2>2 DEF PlayPrompt
    <3> QED BY <1>10, <3>1 DEF ReaderInv, HoldNoted
  <2> QED BY <2>1, <2>2
<1> QED
  BY <1>9, <1>11, <1>12 DEF ReaderInv

\* A tick keeps the types, and what is left in the buffer incomplete.
LEMMA TickTypes ==
    ASSUME TypeInv, NEW d \in 0..1, NEW meanwhile \in 0..1, Tick(d, meanwhile)
    PROVE  TypeInv'
<1> DEFINE tokens == Result(meanwhile).tokens
<1>1. TimeMod \in Nat /\ TimeMod >= 4 /\ d \in {0, 1}
  BY TimeFacts
<1>2. meanwhile <= Len(line) /\ Len(line) \in Nat
  BY DEF Tick, TypeInv
<1>3. Result(meanwhile).left \in Seq(Byte) /\ Settled(Result(meanwhile).left) /\ tokens \in Seq(Tokens)
      /\ Len(tokens) <= 1
  BY <1>2, ReadFacts
<1>4. /\ now' = (now + d) % TimeMod
      /\ reported' = Taken(tokens, now')
      /\ lastToken' = IF reported' THEN Fit(tokens[1], LastCap) ELSE lastToken
      /\ card' = IF reported' THEN tokens[1] ELSE card
      /\ lastAt' = IF reported' THEN now' ELSE lastAt
      /\ waited' = IF reported' THEN 0 ELSE Older(waited, d)
      /\ found' = IF AtRest THEN <<>> ELSE found \o tokens
      /\ rx' = Result(meanwhile).left
  BY TickFacts
<1>5. PICK v \in GoodVoices :
          /\ v.until = voice.until
          /\ voice' = VoiceTicked(v, now')
          /\ spoken' = (voice' # v)
          /\ quiet' = IF spoken' THEN 0 ELSE Older(quiet, d)
  BY TickVoice
<1> HIDE DEF tokens
<1>6. now' \in Clock
  BY <1>4, TimePasses DEF TypeInv
<1>7. dr' = <<>> /\ dr' \in Seq(Byte) /\ Len(dr') <= 1
  BY DEF Tick
<1>8. line' \in Seq(Byte)
  <2>1. line' = From(line, meanwhile + 1) /\ line \in Seq(Byte)
    BY DEF Tick, TypeInv
  <2>2. meanwhile + 1 \in 1..(Len(line) + 1)
    BY <1>2
  <2> QED BY <2>1, <2>2, FromFacts
<1>9. rx' \in Seq(Byte) /\ Settled(rx)'
  <2>1. rx' \in Seq(Byte) /\ Settled(rx')
    BY <1>3, <1>4
  <2> QED BY <2>1 DEF Settled, Incomplete
<1>10. reported' \in BOOLEAN /\ spoken' \in BOOLEAN
  BY <1>4, <1>5 DEF Taken
<1>11. card' \in Seq(Byte) /\ lastToken' = Fit(card', LastCap) /\ lastAt' \in Clock
  <2>1. CASE reported'
    <3>1. tokens # <<>>
      BY <1>4, <2>1 DEF Taken
    <3>2. tokens[1] \in Tokens
      BY <1>3, <3>1
    <3> QED BY <1>4, <1>6, <2>1, <3>2 DEF Tokens
  <2>2. CASE ~reported'
    BY <1>4, <2>2 DEF TypeInv
  <2> QED BY <2>1, <2>2
<1>12. voice' \in GoodVoices
  BY <1>5, <1>6, VoiceTickedFacts
<1>13. \A age \in 0..TimeMod : Older(age, d) \in 0..TimeMod
  BY <1>1 DEF Older
<1>14. waited' \in 0..TimeMod /\ quiet' \in 0..TimeMod
  <2>1. 0 \in 0..TimeMod
    BY <1>1
  <2> QED BY <1>4, <1>5, <1>13, <2>1 DEF TypeInv
<1>15. found' \in Seq(Tokens)
  <2>1. found \o tokens \in Seq(Tokens)
    BY <1>3, ConcatProperties DEF TypeInv
  <2>2. <<>> \in Seq(Tokens)
    OBVIOUS
  <2> QED BY <1>4, <2>1, <2>2
<1>16. swiped' \in Seq(Messages)
  <2>1. <<>> \in Seq(Messages)
    OBVIOUS
  <2> QED BY <2>1 DEF TypeInv, Tick
<1>17. swipes' \in 0..MaxSwipes /\ lost' \in BOOLEAN
  BY DEF Tick, TypeInv
<1> QED
  BY <1>6, <1>7, <1>8, <1>9, <1>10, <1>11, <1>12, <1>14, <1>15, <1>16, <1>17 DEF TypeInv

\* At time 0 nothing has elapsed.
LEMMA SinceZero ==
    ASSUME NEW a \in Clock
    PROVE  Elapsed(a, 0) = a
<1>1. TimeMod \in Nat /\ a \in 0..(TimeMod - 1)
  BY TimeFacts DEF Clock
<1>2. a - 0 = a /\ a \in (-TimeMod)..(2 * TimeMod - 1)
  BY <1>1
<1>3. a % TimeMod = a
  BY <1>1, <1>2, Wraps
<1> QED
  BY <1>2, <1>3 DEF Elapsed

\* A tick keeps the time since the last event,
LEMMA TickNotesEvent ==
    ASSUME ReaderInv, NEW d \in 0..1, NEW meanwhile \in 0..1, Tick(d, meanwhile)
    PROVE  EventNoted'
<1> SUFFICES ASSUME waited' < TimeMod PROVE lastAt' = Elapsed(now', waited')
  BY DEF EventNoted, Elapsed
<1>1. TimeMod \in Nat /\ TimeMod >= 4 /\ now \in Clock /\ waited \in 0..TimeMod /\ d \in {0, 1}
  BY TimeFacts DEF ReaderInv, TypeInv
<1>2. /\ now' = (now + d) % TimeMod
      /\ lastAt' = IF reported' THEN now' ELSE lastAt
      /\ waited' = IF reported' THEN 0 ELSE Older(waited, d)
  BY TickFacts DEF ReaderInv
<1>3. CASE reported'
  <2>1. now' \in Clock
    BY <1>1, <1>2, TimePasses
  <2>2. Elapsed(now', 0) = now'
    BY <2>1, SinceZero
  <2> QED BY <1>2, <1>3, <2>2
<1>4. CASE ~reported'
  <2>1. waited' = waited + d /\ waited + d < TimeMod
    BY <1>1, <1>2, <1>4 DEF Older
  <2>2. waited < TimeMod /\ waited \in (1 - TimeMod)..(TimeMod - 1)
    BY <1>1, <2>1
  <2>3. lastAt = Elapsed(now, waited)
    BY <2>2 DEF ReaderInv, EventNoted
  <2>4. LaterBy(d, now, now', waited, waited')
    BY <1>2, <2>1 DEF LaterBy
  <2>5. Elapsed(now, waited) = Elapsed(now', waited')
    BY <1>1, <2>1, <2>2, <2>4, AgeGrows
  <2> QED BY <1>2, <1>4, <2>3, <2>5
<1> QED
  BY <1>3, <1>4

\* and the time for which the voice is held.
LEMMA TickNotesHold ==
    ASSUME ReaderInv, NEW d \in 0..1, NEW meanwhile \in 0..1, Tick(d, meanwhile)
    PROVE  HoldNoted'
<1> SUFFICES ASSUME quiet' < Hold PROVE voice'.until = Elapsed(now', quiet' - Hold)
  BY DEF HoldNoted, Elapsed
<1>1. TimeMod \in Nat /\ TimeMod >= 4 /\ now \in Clock /\ quiet \in 0..TimeMod /\ d \in {0, 1}
      /\ Hold \in Nat /\ Hold >= 1 /\ Hold < TimeMod
  BY TimeFacts DEF ReaderInv, TypeInv
<1>2. now' = (now + d) % TimeMod /\ now' \in Clock
  BY <1>1, TickFacts, TimePasses DEF ReaderInv
<1>3. PICK v \in GoodVoices :
          /\ v.until = voice.until
          /\ voice' = VoiceTicked(v, now')
          /\ spoken' = (voice' # v)
          /\ quiet' = IF spoken' THEN 0 ELSE Older(quiet, d)
  BY TickVoice DEF ReaderInv
<1>4. CASE spoken'
  <2>1. voice'.until = (now' + Hold) % TimeMod
    BY <1>2, <1>3, <1>4, VoiceTickedFacts
  <2>2. now' - (0 - Hold) = now' + Hold
    BY <1>1, <1>2 DEF Clock
  <2> QED BY <1>3, <1>4, <2>1, <2>2 DEF Elapsed
<1>5. CASE ~spoken'
  <2>1. voice' = v
    BY <1>3, <1>5
  <2>2. quiet' = quiet + d /\ quiet + d < Hold
    BY <1>1, <1>3, <1>5 DEF Older
  <2> DEFINE w == quiet - Hold
             u == quiet' - Hold
  <2>3. w \in (1 - TimeMod)..(TimeMod - 1) /\ u < TimeMod /\ quiet < Hold /\ u = w + d
    BY <1>1, <2>2
  <2>4. voice.until = Elapsed(now, w)
    BY <2>3 DEF ReaderInv, HoldNoted
  <2> HIDE DEF w, u
  <2>5. LaterBy(d, now, now', w, u)
    BY <1>2, <2>3 DEF LaterBy
  <2>6. Elapsed(now, w) = Elapsed(now', u)
    BY <1>1, <2>3, <2>5, AgeGrows
  <2> QED BY <1>3, <2>1, <2>4, <2>6 DEF u
<1> QED
  BY <1>4, <1>5

\* Every step keeps the invariant.
LEMMA ReaderSteps ==
    ASSUME ReaderInv, [Next]_vars
    PROVE  ReaderInv'
<1>1. ASSUME NEW m \in Messages, Swipe(m)
      PROVE  ReaderInv'
  BY <1>1, SwipeKeeps
<1>2. CASE ByteArrives
  BY <1>2, ByteArrivesKeeps
<1>3. ASSUME NEW p \in PlatformPrompts, NEW clear \in BOOLEAN, PlayPrompt(p[1], p[2], clear)
      PROVE  ReaderInv'
  BY <1>3, PlayPromptKeeps
<1>4. ASSUME NEW d \in 0..1, NEW meanwhile \in 0..1, Tick(d, meanwhile)
      PROVE  ReaderInv'
  <2>1. TypeInv'
    BY <1>4, TickTypes DEF ReaderInv
  <2>2. EventNoted' /\ HoldNoted'
    BY <1>4, TickNotesEvent, TickNotesHold
  <2> QED BY <2>1, <2>2 DEF ReaderInv
<1>5. CASE UNCHANGED vars
  BY <1>5 DEF vars, uart, code, history, ReaderInv, TypeInv, EventNoted, HoldNoted, Settled, Incomplete, Elapsed
<1> QED
  BY <1>1, <1>2, <1>3, <1>4, <1>5 DEF Next

\* It holds throughout.
LEMMA ReaderInvariant == Spec => []ReaderInv
<1>1. Init => ReaderInv
  BY InitReaderInv
<1>2. ReaderInv /\ [Next]_vars => ReaderInv'
  BY ReaderSteps
<1> QED
  BY <1>1, <1>2, PTL DEF Spec

\* The buffer, the register, the clock and the queue of prompts stay within
\* workflow_card_reader.c's and workflow_voice.c's bounds, for all messages,
\* limits, windows and widths of the clock.
THEOREM ReaderTypeCorrect == Spec => []ReaderTypeOK
<1>1. ReaderInv => ReaderTypeOK
  <2> SUFFICES ASSUME ReaderInv PROVE ReaderTypeOK
    OBVIOUS
  <2>1. Len(voice.queue) <= VoiceCap /\ voice.until \in Clock /\ voice.lastAt \in Clock
    BY DEF ReaderInv, TypeInv, GoodVoices, Voices
  <2>2. lastToken \in Seq(Byte) /\ Len(lastToken) < LastCap
    BY CapFacts, FitFacts DEF ReaderInv, TypeInv
  <2> QED BY <2>1, <2>2 DEF ReaderInv, TypeInv, ReaderTypeOK, Byte, Clock
<1> QED
  BY <1>1, ReaderInvariant, PTL

\* workflow_card_reader_tick: whatever bytes were lost, no tick leaves in the
\* buffer a frame or a line that is complete, or a line too long to become one.
THEOREM NothingWholeStays == Spec => []NothingWholeLeft
<1>1. ReaderInv => NothingWholeLeft
  BY DEF ReaderInv, TypeInv, Settled, Incomplete, NothingWholeLeft
<1> QED
  BY <1>1, ReaderInvariant, PTL

\* The debounce, seen from the time since the last event.
LEMMA DebounceTimes ==
    ASSUME ReaderInv, NEW d \in 0..1, NEW m, LaterBy(d, now, m, waited, waited + d), NEW token
    PROVE  /\ waited + d \in Same..(TimeMod - 1) => ~Debounced(Handling, token, m)
           /\ Elapsed(now, waited) # 0 /\ ~Debounced(Handling, token, m)
                => /\ waited + d >= Global
                   /\ token = card /\ Len(card) < LastCap => waited + d >= Same
<1>1. /\ TimeMod \in Nat /\ TimeMod >= 4 /\ now \in Clock /\ waited \in 0..TimeMod /\ d \in {0, 1}
      /\ Same \in Nat /\ Same < TimeMod /\ Global \in Nat /\ Global <= Same
  BY TimeFacts, ReaderAssumption DEF ReaderInv, TypeInv
<1>2. Debounced(Handling, token, m) <=>
          lastAt # 0 /\ (Elapsed(m, lastAt) < Global \/ (token = lastToken /\ Elapsed(m, lastAt) < Same))
  BY DEF Debounced, Handling
<1>5. token = card /\ Len(card) < LastCap => token = lastToken
  BY CapFacts, FitFacts DEF ReaderInv, TypeInv
<1>3. CASE waited + d < TimeMod
  <2>1. waited < TimeMod /\ waited \in (1 - TimeMod)..(TimeMod - 1) /\ 0 <= waited
    BY <1>1, <1>3
  <2>2. lastAt = Elapsed(now, waited)
    BY <2>1 DEF ReaderInv, EventNoted
  <2>3. Elapsed(m, Elapsed(now, waited)) = waited + d
    BY <1>1, <1>3, <2>1, AgeGrows
  <2>4. Elapsed(m, lastAt) = waited + d
    BY <2>2, <2>3
  <2>5. waited + d \in Nat
    BY <1>1
  <2>6. waited + d \in Same..(TimeMod - 1) => ~(Elapsed(m, lastAt) < Global) /\ ~(Elapsed(m, lastAt) < Same)
    BY <1>1, <2>4, <2>5
  <2>7. /\ ~(Elapsed(m, lastAt) < Global) => waited + d >= Global
        /\ ~(Elapsed(m, lastAt) < Same) => waited + d >= Same
    BY <1>1, <2>4, <2>5
  <2> QED BY <1>2, <1>5, <2>2, <2>6, <2>7
<1>4. CASE ~(waited + d < TimeMod)
  <2>1. waited + d >= Global /\ waited + d >= Same /\ ~(waited + d \in Same..(TimeMod - 1))
    BY <1>1, <1>4
  <2> QED BY <2>1
<1> QED
  BY <1>3, <1>4

\* The pace of a tick's event.
LEMMA TickPaced ==
    ASSUME ReaderInv, NEW d \in 0..1, NEW meanwhile \in 0..1, Tick(d, meanwhile)
    PROVE  /\ reported' /\ Elapsed(now, waited) # 0 =>
                /\ waited + Passed >= Global
                /\ card' = card /\ Len(card) < LastCap => waited + Passed >= Same
           /\ Len(found') > Len(found) /\ waited + Passed \in Same..(TimeMod - 1) => reported'
<1> DEFINE tokens == Result(meanwhile).tokens
<1>1. now' = (now + d) % TimeMod /\ now \in Clock /\ found \in Seq(Tokens)
  BY TickFacts DEF ReaderInv, TypeInv
<1>2. Passed = d
  BY <1>1, TimePasses DEF Passed
<1>3. LaterBy(d, now, now', waited, waited + d)
  BY <1>1 DEF LaterBy
<1>4. /\ waited + d \in Same..(TimeMod - 1) => ~Debounced(Handling, tokens[1], now')
      /\ Elapsed(now, waited) # 0 /\ ~Debounced(Handling, tokens[1], now')
           => /\ waited + d >= Global
              /\ tokens[1] = card /\ Len(card) < LastCap => waited + d >= Same
  BY <1>3, DebounceTimes
<1>5. /\ reported' = Taken(tokens, now')
      /\ card' = IF reported' THEN tokens[1] ELSE card
      /\ found' = IF AtRest THEN <<>> ELSE found \o tokens
  BY TickFacts DEF ReaderInv
<1> HIDE DEF tokens
<1>6. Len(found') > Len(found) => tokens # <<>>
  <2> SUFFICES ASSUME tokens = <<>>, Len(found') > Len(found) PROVE FALSE
    OBVIOUS
  <2>1. Len(found) \in Nat /\ Len(<<>>) = 0 /\ found \o <<>> = found
    BY <1>1
  <2> QED BY <1>5, <2>1
<1>7. ASSUME reported', Elapsed(now, waited) # 0
      PROVE  waited + d >= Global /\ (card' = card /\ Len(card) < LastCap => waited + d >= Same)
  <2>1. ~Debounced(Handling, tokens[1], now') /\ card' = tokens[1]
    BY <1>5, <1>7 DEF Taken
  <2> QED BY <1>4, <1>7, <2>1
<1>8. ASSUME Len(found') > Len(found), waited + d \in Same..(TimeMod - 1)
      PROVE  reported'
  BY <1>4, <1>5, <1>6, <1>8 DEF Taken
<1> QED
  BY <1>2, <1>7, <1>8

\* Only a tick sends events or finds tokens, and only a tick starts a prompt.
LEMMA OnlyTicks ==
    ASSUME ReaderInv, Next
    PROVE  \/ ~reported' /\ ~spoken' /\ found' = found
           \/ \E d, meanwhile \in 0..1 : Tick(d, meanwhile)
BY DEF Next, Swipe, ByteArrives, PlayPrompt, Silently

\* workflow_card_reader_guard: events go out no faster than the windows allow, and
\* a token outside them is not ignored, across the wrap of the clock, for all
\* windows, messages and sizes of the arrays.
THEOREM EventsArePaced == Spec => EventsPaced
<1> DEFINE A == /\ reported' /\ Elapsed(now, waited) # 0 =>
                     /\ waited + Passed >= Global
                     /\ card' = card /\ Len(card) < LastCap => waited + Passed >= Same
                /\ Len(found') > Len(found) /\ waited + Passed \in Same..(TimeMod - 1)
                     => reported'
<1>1. ASSUME ReaderInv, Next PROVE A
  <2>1. CASE ~reported' /\ ~spoken' /\ found' = found
    <3>1. ~(Len(found') > Len(found))
      <4>1. found \in Seq(Tokens)
        BY <1>1 DEF ReaderInv, TypeInv
      <4>2. Len(found) \in Nat
        BY <4>1
      <4> QED BY <2>1, <4>2
    <3> QED BY <2>1, <3>1
  <2>2. ASSUME NEW d \in 0..1, NEW meanwhile \in 0..1, Tick(d, meanwhile) PROVE A
    BY <1>1, <2>2, TickPaced
  <2> QED BY <1>1, <2>1, <2>2, OnlyTicks
<1>2. ReaderInv /\ [Next]_vars => [A]_vars
  BY <1>1
<1>3. EventsPaced <=> [][A]_vars
  BY DEF EventsPaced
<1> HIDE DEF A
<1> QED
  BY <1>2, <1>3, ReaderInvariant, PTL DEF Spec

\* A tick starts no prompt while one is held.
LEMMA TickHolds ==
    ASSUME ReaderInv, NEW d \in 0..1, NEW meanwhile \in 0..1, Tick(d, meanwhile)
    PROVE  NoOverlap
<1>1. /\ TimeMod \in Nat /\ TimeMod >= 4 /\ now \in Clock /\ quiet \in 0..TimeMod /\ d \in {0, 1}
      /\ Hold \in Nat /\ Hold >= 1 /\ Hold < TimeMod \div 2 /\ TimeMod \div 2 \in Nat
      /\ Hold < TimeMod
  BY TimeFacts DEF ReaderInv, TypeInv
<1>2. now' = (now + d) % TimeMod /\ now' \in Clock /\ Passed = d
  BY <1>1, TickFacts, TimePasses DEF ReaderInv, Passed
<1> SUFFICES ASSUME spoken', Elapsed(now, quiet - Hold) # 0, quiet + d < Hold PROVE FALSE
  BY <1>1, <1>2 DEF NoOverlap
<1>3. PICK v \in GoodVoices :
          /\ v.until = voice.until
          /\ voice' = VoiceTicked(v, now')
          /\ spoken' = (voice' # v)
  BY TickVoice DEF ReaderInv
<1>4. ~Busy(v, now')
  BY <1>2, <1>3, VoiceTickedFacts
<1> DEFINE w == quiet - Hold
           u == w + d
<1>5. w \in (1 - TimeMod)..(TimeMod - 1) /\ u < TimeMod /\ u < 0 /\ -u \in 1..(TimeMod \div 2 - 1) /\ quiet < Hold
  BY <1>1
<1>6. voice.until = Elapsed(now, w) /\ voice.until # 0
  BY <1>5 DEF ReaderInv, HoldNoted
<1>7. LaterBy(d, now, now', w, u)
  BY <1>2 DEF LaterBy
<1> HIDE DEF w, u
<1>8. Elapsed(Elapsed(now, w), now') = -u
  BY <1>1, <1>5, <1>7, AgeGrows
<1>9. Elapsed(v.until, now') \in 1..(TimeMod \div 2 - 1) /\ v.until # 0
  BY <1>3, <1>5, <1>6, <1>8
<1> QED
  BY <1>4, <1>9 DEF Busy

\* workflow_voice_is_busy: no prompt is started while the last one is held to
\* play, for all prompts, queues and widths of the clock.
THEOREM PromptsDoNotOverlap == Spec => [][NoOverlap]_vars
<1>1. ASSUME ReaderInv, Next PROVE NoOverlap
  <2>1. CASE ~reported' /\ ~spoken' /\ found' = found
    BY <2>1 DEF NoOverlap
  <2>2. ASSUME NEW d \in 0..1, NEW meanwhile \in 0..1, Tick(d, meanwhile) PROVE NoOverlap
    BY <1>1, <2>2, TickHolds
  <2> QED BY <1>1, <2>1, <2>2, OnlyTicks
<1>2. ReaderInv /\ [Next]_vars => [NoOverlap]_vars
  BY <1>1
<1> QED
  BY <1>2, ReaderInvariant, PTL DEF Spec
-----------------------------------------------------------------------------
(* Messages, and how they are parsed. *)

\* What is parsed in one go: of a binary frame an end may come later.
Body(m) == IF m.bytes[1] = Space THEN SubSeq(m.bytes, 1, BinLen) ELSE m.bytes

\* A message is found as a token, and a card number whole.
LEMMA SeenFacts ==
    /\ \A m \in Messages : Seen(m) \in Tokens
    /\ \A m, c : m.token = <<c>> /\ c \in Byte => Seen(m) = <<c>>
<1>1. ASSUME NEW m \in Messages PROVE Seen(m) \in Tokens
  <2>1. m.token \in Seq(Byte) /\ m.token # <<>>
    BY MessageFacts DEF Tokens
  <2>2. /\ Fit(m.token, TokenCap) \in Seq(Byte)
        /\ Len(m.token) < TokenCap => Fit(m.token, TokenCap) = m.token
        /\ Len(m.token) >= TokenCap => Len(Fit(m.token, TokenCap)) = TokenCap - 1
    BY <2>1, CapFacts, FitFacts
  <2>3. Fit(m.token, TokenCap) # <<>>
    <3>1. CASE Len(m.token) < TokenCap
      BY <2>1, <2>2, <3>1
    <3>2. CASE Len(m.token) >= TokenCap
      <4>1. Len(Fit(m.token, TokenCap)) # 0
        BY <2>2, <3>2, CapFacts
      <4>2. Len(<<>>) = 0
        OBVIOUS
      <4> QED BY <4>1, <4>2
    <3>3. Len(m.token) \in Nat /\ TokenCap \in Nat
      BY <2>1, CapFacts
    <3> QED BY <3>1, <3>2, <3>3
  <2> QED BY <2>2, <2>3 DEF Seen, Tokens
<1>2. ASSUME NEW m, NEW c \in Byte, m.token = <<c>> PROVE Seen(m) = <<c>>
  <2>1. <<c>> \in Seq(Byte) /\ Len(<<c>>) = 1
    OBVIOUS
  <2>2. Len(m.token) < TokenCap
    BY <1>2, <2>1, CapFacts
  <2> QED BY <1>2, <2>2 DEF Seen, Fit
<1> QED
  BY <1>1, <1>2

\* m is a frame of the card c, with the end r or none.
IsFrame(m, c, r) ==
    /\ c \in Byte /\ m.token = <<c>> /\ r \in {<<>>, <<End>>}
    /\ Body(m) = Frame(c) /\ m.bytes = Frame(c) \o r

\* m is a line of text.
IsText(m) ==
    /\ m.token \in Seq(Letters) /\ Len(m.token) \in MinToken..(LineCap - 2)
    /\ Body(m) = Append(m.token, Newline) /\ m.bytes = Body(m)

\* The bytes of a frame.
LEMMA FrameFacts ==
    ASSUME NEW c \in Byte
    PROVE  /\ Frame(c) \in Seq(Byte) /\ Len(Frame(c)) = 3
           /\ Frame(c)[1] = Space /\ Frame(c)[2] = c /\ Frame(c)[3] = Complement(c)
<1>1. Complement(c) \in Byte /\ Space \in Byte
  BY DEF Complement, Byte, Space
<1> QED
  BY <1>1 DEF Frame

\* Letters are bytes.
LEMMA LettersAreBytes ==
    /\ Newline \in Byte
    /\ \A s \in Seq(Letters) : s \in Seq(Byte)
BY DEF Byte, Letters, Newline

\* What readers send is a frame or a text.
LEMMA Kinds ==
    ASSUME NEW m \in Messages
    PROVE  (\E c, r : IsFrame(m, c, r)) \/ IsText(m)
<1>1. CASE \E number \in 0..7 : /\ m.token = <<number>>
                                /\ m.bytes \in {Frame(number), Append(Frame(number), End)}
  <2>1. PICK c \in Byte : m.token = <<c>> /\ m.bytes \in {Frame(c), Append(Frame(c), End)}
    BY <1>1 DEF Byte
  <2> DEFINE f == Frame(c)
  <2>2. f \in Seq(Byte) /\ Len(f) = 3 /\ f[1] = Space
    BY <2>1, FrameFacts
  <2>3. m.bytes = f \/ m.bytes = Append(f, End)
    BY <2>1
  <2> HIDE DEF f
  <2>4. End \in Byte
    BY DEF End, Byte
  <2>5. CASE m.bytes = f
    <3>1. f \o <<>> = f /\ SubSeq(f, 1, 3) = f
      BY <2>2
    <3>2. Body(m) = f
      BY <2>2, <2>5, <3>1 DEF Body, BinLen
    <3> QED BY <2>1, <2>5, <3>1, <3>2 DEF IsFrame, f
  <2>6. CASE m.bytes = Append(f, End)
    <3>1. f \o <<End>> = Append(f, End)
      BY <2>2, <2>4
    <3>2. Append(f, End) \in Seq(Byte) /\ Len(Append(f, End)) = 4
          /\ \A i \in 1..3 : Append(f, End)[i] = f[i]
      <4>1. Append(f, End) \in Seq(Byte) /\ Len(Append(f, End)) = Len(f) + 1
            /\ \A i \in 1..Len(f) : Append(f, End)[i] = f[i]
        BY <2>2, EndAdded
      <4> QED BY <2>2, <4>1
    <3>3. SubSeq(Append(f, End), 1, 3) \in Seq(Byte) /\ Len(SubSeq(Append(f, End), 1, 3)) = 3
          /\ \A i \in 1..3 : SubSeq(Append(f, End), 1, 3)[i] = f[i]
      BY <3>2, FrontFacts
    <3>4. SubSeq(Append(f, End), 1, 3) = f
      BY <2>2, <3>3, SeqEqual
    <3>5. Append(f, End)[1] = Space
      BY <2>2, <3>2
    <3>6. Body(m) = f
      BY <2>6, <3>4, <3>5 DEF Body, BinLen
    <3> QED BY <2>1, <2>6, <3>1, <3>6 DEF IsFrame, f
  <2> QED BY <2>3, <2>5, <2>6
<1>2. CASE /\ m.token \in Seq(Letters) /\ Len(m.token) \in MinToken..(LineCap - 2)
           /\ m.bytes = Append(m.token, Newline)
  <2>1. Len(m.token) >= 1 /\ Len(m.token) \in Nat
    BY <1>2, ReaderAssumption
  <2>2. m.bytes[1] = m.token[1] /\ m.token[1] \in Letters
    <3>1. 1 \in 1..Len(m.token)
      BY <2>1
    <3>2. m.token \in Seq(Byte) /\ Newline \in Byte
      BY <1>2, LettersAreBytes
    <3>3. Append(m.token, Newline)[1] = m.token[1]
      BY <3>1, <3>2, Longer
    <3> QED BY <1>2, <3>1, <3>3
  <2>3. m.bytes[1] # Space
    BY <2>2 DEF Space, Letters
  <2> QED BY <1>2, <2>3 DEF Body, IsText
<1> QED
  BY <1>1, <1>2, MessageAssumption

\* The bytes of a text.
LEMMA TextFacts ==
    ASSUME NEW m, IsText(m)
    PROVE  /\ m.token \in Seq(Byte) /\ Len(m.token) \in Nat /\ Len(m.token) >= 2 /\ Len(m.token) <= LineCap - 2
           /\ Body(m) \in Seq(Byte) /\ Len(Body(m)) = Len(m.token) + 1
           /\ Body(m)[Len(m.token) + 1] = Newline
           /\ \A i \in 1..Len(m.token) : Body(m)[i] = m.token[i] /\ m.token[i] \in Letters
<1>1. m.token \in Seq(Byte) /\ Newline \in Byte
  BY LettersAreBytes DEF IsText
<1>2. Len(m.token) \in Nat /\ Len(m.token) >= 2 /\ Len(m.token) <= LineCap - 2
  BY ReaderAssumption DEF IsText
<1>3. \A i \in 1..Len(m.token) : m.token[i] \in Letters
  BY DEF IsText
<1>4. Body(m) = Append(m.token, Newline)
  BY DEF IsText
<1> QED
  BY <1>1, <1>2, <1>3, <1>4, Longer

\* A message is its body and, of a frame, an end.
LEMMA BodyFacts ==
    ASSUME NEW m \in Messages
    PROVE  /\ Body(m) \in Seq(Byte) /\ Len(Body(m)) \in Nat /\ Len(Body(m)) >= 3
           /\ Body(m)[1] \in Printable
           /\ \E r \in {<<>>, <<End>>} : m.bytes = Body(m) \o r /\ (r = <<>> \/ \E c : IsFrame(m, c, r))
<1>1. ASSUME NEW c, NEW r, IsFrame(m, c, r)
      PROVE  /\ Body(m) \in Seq(Byte) /\ Len(Body(m)) \in Nat /\ Len(Body(m)) >= 3
             /\ Body(m)[1] \in Printable
             /\ \E x \in {<<>>, <<End>>} : m.bytes = Body(m) \o x /\ (x = <<>> \/ \E y : IsFrame(m, y, x))
  <2>1. c \in Byte /\ Body(m) = Frame(c) /\ r \in {<<>>, <<End>>} /\ m.bytes = Frame(c) \o r
    BY <1>1 DEF IsFrame
  <2>2. Space \in Printable
    BY DEF Space, Printable
  <2>3. Body(m) \in Seq(Byte) /\ Len(Body(m)) \in Nat /\ Len(Body(m)) >= 3 /\ Body(m)[1] \in Printable
    BY <2>1, <2>2, FrameFacts
  <2>4. \E x \in {<<>>, <<End>>} : m.bytes = Body(m) \o x /\ (x = <<>> \/ \E y : IsFrame(m, y, x))
    BY <1>1, <2>1, Zenon
  <2> QED BY <2>3, <2>4, Zenon
<1>2. ASSUME IsText(m)
      PROVE  /\ Body(m) \in Seq(Byte) /\ Len(Body(m)) \in Nat /\ Len(Body(m)) >= 3
             /\ Body(m)[1] \in Printable
             /\ \E r \in {<<>>, <<End>>} : m.bytes = Body(m) \o r /\ (r = <<>> \/ \E c : IsFrame(m, c, r))
  <2>1. /\ Len(m.token) \in Nat /\ Len(m.token) >= 2
        /\ Body(m) \in Seq(Byte) /\ Len(Body(m)) = Len(m.token) + 1
        /\ \A i \in 1..Len(m.token) : Body(m)[i] = m.token[i] /\ m.token[i] \in Letters
    BY <1>2, TextFacts
  <2>2. Body(m)[1] \in Letters
    <3>1. 1 \in 1..Len(m.token)
      BY <2>1
    <3> QED BY <2>1, <3>1
  <2>3. Letters \subseteq Printable
    BY DEF Letters, Printable, Space
  <2>4. Body(m) \o <<>> = Body(m) /\ m.bytes = Body(m)
    BY <1>2, <2>1 DEF IsText
  <2> QED BY <2>1, <2>2, <2>3, <2>4
<1> QED
  BY <1>1, <1>2, Kinds

\* What is incomplete stays.
LEMMA Waits ==
    ASSUME NEW x \in Seq(Byte), x # <<>>, x[1] \in Printable, Incomplete(x)
    PROVE  Parsed[x] = [left |-> x, tokens |-> <<>>]
<1>1. CASE x[1] = Space
  <2>1. Len(x) < BinLen
    BY <1>1 DEF Incomplete
  <2>2. AttemptAt(x).used = 0
    BY <1>1, <2>1 DEF AttemptAt, Binary, Attempt
  <2> QED BY <2>2, ParsedFacts DEF Stays
<1>2. CASE x[1] # Space
  <2>1. Newline \notin Range(x) /\ Len(x) < LineCap - 1 /\ Len(x) \in Nat /\ LineCap \in Nat
    BY <1>2, ReaderAssumption DEF Incomplete
  <2>2. \A i \in 1..Len(x) : x[i] \in Byte /\ x[i] \in Range(x)
    BY DEF Range
  <2>3. IsRun(x, Chars, Len(x))
    BY <2>1, <2>2 DEF IsRun, Chars, Byte
  <2>4. Run(x, Chars) = Len(x)
    BY <2>3, RunIs
  <2>5. ~(Run(x, Chars) < Len(x)) /\ ~(Run(x, Chars) >= LineCap - 1)
    BY <2>1, <2>4
  <2>6. AttemptAt(x).used = 0
    BY <1>2, <2>5 DEF AttemptAt, Ascii, Attempt
  <2> QED BY <2>6, ParsedFacts DEF Stays
<1> QED
  BY <1>1, <1>2

\* x is the beginning of m's body, and not all of it.
Begun(m, x) ==
    /\ x \in Seq(Byte) /\ Len(x) < Len(Body(m))
    /\ \A i \in 1..Len(x) : x[i] = Body(m)[i]

\* The beginning of a message waits for the rest.
LEMMA BegunWaits ==
    ASSUME NEW m \in Messages, NEW x, Begun(m, x)
    PROVE  Parsed[x] = [left |-> x, tokens |-> <<>>]
<1>1. x \in Seq(Byte) /\ Len(x) \in Nat
  BY DEF Begun
<1>2. CASE x = <<>>
  BY <1>1, <1>2, ParsedFacts
<1>3. CASE x # <<>>
  <2>1. 1 \in 1..Len(x)
    BY <1>1, <1>3, EmptySeq
  <2>2. x[1] = Body(m)[1] /\ x[1] \in Printable
    BY <2>1, BodyFacts DEF Begun
  <2>3. Incomplete(x)
    <3>1. ASSUME NEW c, NEW r, IsFrame(m, c, r)
          PROVE  Incomplete(x)
      <4>1. Body(m) = Frame(c) /\ c \in Byte
        BY <3>1 DEF IsFrame
      <4>2. x[1] = Space /\ Len(x) < 3
        BY <2>2, <4>1, FrameFacts DEF Begun
      <4> QED BY <4>2 DEF Incomplete, BinLen
    <3>2. ASSUME IsText(m)
          PROVE  Incomplete(x)
      <4>1. /\ Len(m.token) \in Nat /\ Len(m.token) >= 2 /\ Len(m.token) <= LineCap - 2
            /\ Len(Body(m)) = Len(m.token) + 1
            /\ \A i \in 1..Len(m.token) : Body(m)[i] = m.token[i] /\ m.token[i] \in Letters
        BY <3>2, TextFacts
      <4>2. Len(x) <= Len(m.token) /\ Len(x) < LineCap - 1
        BY <1>1, <4>1, ReaderAssumption DEF Begun
      <4>3. \A i \in 1..Len(x) : i \in 1..Len(m.token)
        BY <1>1, <4>1, <4>2
      <4>4. \A i \in 1..Len(x) : x[i] \in Letters
        BY <4>1, <4>3 DEF Begun
      <4>5. Space \notin Letters /\ Newline \notin Letters
        BY DEF Space, Newline, Letters
      <4>6. x[1] # Space /\ Newline \notin Range(x)
        BY <2>1, <4>4, <4>5 DEF Range
      <4> QED BY <4>2, <4>6 DEF Incomplete
    <3> QED BY <3>1, <3>2, Kinds
  <2> QED BY <1>1, <1>3, <2>2, <2>3, Waits
<1> QED
  BY <1>2, <1>3

\* An attempt that finds a token, when what follows it holds none.
LEMMA FoundThen ==
    ASSUME NEW buf \in Seq(Byte), buf # <<>>, AttemptAt(buf).used # 0,
           AttemptAt(buf).token # NoToken, Rest(buf) \in Seq(Byte), Parsed[Rest(buf)].tokens = <<>>
    PROVE  Parsed[buf] = [left |-> Parsed[Rest(buf)].left, tokens |-> <<AttemptAt(buf).token>>]
<1> DEFINE p == Parsed[Rest(buf)]
<1>1. Parsed[buf] = Joining(buf, p)
  BY ParsedFacts DEF Stays
<1>2. p \in Parsing /\ p.tokens = <<>>
  BY ParsedFacts
<1> HIDE DEF p
<1>3. <<AttemptAt(buf).token>> \o <<>> = <<AttemptAt(buf).token>>
  OBVIOUS
<1>4. Joining(buf, p) = [left |-> p.left, tokens |-> <<AttemptAt(buf).token>>]
  BY <1>2, <1>3 DEF Joining, Parsing
<1> QED
  BY <1>1, <1>4 DEF p

\* The bytes of two sequences joined.
LEMMA Joined ==
    ASSUME NEW a \in Seq(Byte), NEW b \in Seq(Byte)
    PROVE  /\ a \o b \in Seq(Byte) /\ Len(a \o b) = Len(a) + Len(b)
           /\ \A i \in 1..Len(a) : (a \o b)[i] = a[i]
           /\ \A i \in 1..Len(b) : (a \o b)[i + Len(a)] = b[i]
<1> DEFINE s == a \o b
<1>1. Len(a) \in Nat /\ Len(b) \in Nat
  OBVIOUS
<1>2. /\ s \in Seq(Byte) /\ Len(s) = Len(a) + Len(b)
      /\ \A i \in 1..(Len(a) + Len(b)) : s[i] = IF i <= Len(a) THEN a[i] ELSE b[i - Len(a)]
  BY ConcatProperties
<1> HIDE DEF s
<1>3. \A i \in 1..Len(b) : /\ i + Len(a) \in 1..(Len(a) + Len(b))
                           /\ ~(i + Len(a) <= Len(a)) /\ (i + Len(a)) - Len(a) = i
  BY <1>1
<1>4. \A i \in 1..Len(a) : i \in 1..(Len(a) + Len(b)) /\ i <= Len(a)
  BY <1>1
<1>5. /\ \A i \in 1..Len(a) : s[i] = a[i]
      /\ \A i \in 1..Len(b) : s[i + Len(a)] = b[i]
  BY <1>2, <1>3, <1>4
<1> QED
  BY <1>2, <1>5 DEF s

\* What is left past the first is the second.
LEMMA FromJoined ==
    ASSUME NEW a \in Seq(Byte), NEW b \in Seq(Byte)
    PROVE  From(a \o b, Len(a) + 1) = b
<1> DEFINE s == a \o b
<1>1. Len(a) \in Nat /\ Len(b) \in Nat
  OBVIOUS
<1>2. s \in Seq(Byte) /\ Len(s) = Len(a) + Len(b) /\ \A i \in 1..Len(b) : s[i + Len(a)] = b[i]
  BY Joined
<1> DEFINE n == Len(a) + 1
<1>3. n \in 1..(Len(s) + 1) /\ n - 1 = Len(a) /\ Len(s) - (n - 1) = Len(b)
  BY <1>1, <1>2
<1> HIDE DEF s, n
<1>4. /\ From(s, n) \in Seq(Byte) /\ Len(From(s, n)) = Len(s) - (n - 1)
      /\ \A i \in 1..(Len(s) - (n - 1)) : From(s, n)[i] = s[i + (n - 1)]
  BY <1>2, <1>3, FromFacts
<1>5. Len(From(s, n)) = Len(b) /\ \A i \in 1..Len(b) : From(s, n)[i] = b[i]
  BY <1>2, <1>3, <1>4
<1>6. From(s, n) = b
  BY <1>4, <1>5, SeqEqual
<1> QED
  BY <1>6 DEF s, n

\* An empty buffer stays so.
LEMMA NothingParsed ==
    <<>> \in Seq(Byte) /\ Parsed[<<>>] = [left |-> <<>>, tokens |-> <<>>]
<1> DEFINE x == <<>>
<1>1. x \in Seq(Byte) /\ x = <<>>
  OBVIOUS
<1> HIDE DEF x
<1>2. Parsed[x] = [left |-> x, tokens |-> <<>>]
  BY <1>1, ParsedFacts
<1> QED
  BY <1>1, <1>2

\* FoundThen, with the results by name.
LEMMA FoundIs ==
    ASSUME NEW buf \in Seq(Byte), buf # <<>>, NEW u, NEW t, AttemptAt(buf) = [used |-> u, token |-> t],
           u # 0, t # NoToken, NEW y \in Seq(Byte), Rest(buf) = y, NEW z, Parsed[y] = [left |-> z, tokens |-> <<>>]
    PROVE  Parsed[buf] = [left |-> z, tokens |-> <<t>>]
<1>1. AttemptAt(buf).used = u /\ AttemptAt(buf).token = t /\ Parsed[y].tokens = <<>> /\ Parsed[y].left = z
  OBVIOUS
<1>2. Parsed[buf] = [left |-> Parsed[Rest(buf)].left, tokens |-> <<AttemptAt(buf).token>>]
  BY <1>1, FoundThen
<1> QED
  BY <1>1, <1>2

\* What may be read past a body: nothing, or the first byte of the next message.
OneAtMost(y) == y = <<>> \/ \E b \in Printable : y = <<b>>

\* It waits.
LEMMA OneAtMostFacts ==
    ASSUME NEW y, OneAtMost(y)
    PROVE  /\ y \in Seq(Byte) /\ Len(y) \in {0, 1} /\ (Len(y) = 1 => y[1] \in Printable)
           /\ Parsed[y] = [left |-> y, tokens |-> <<>>]
<1>1. CASE y = <<>>
  <2>1. y \in Seq(Byte) /\ Len(y) = 0
    BY <1>1
  <2> QED BY <1>1, <2>1, NothingParsed
<1>2. CASE \E b \in Printable : y = <<b>>
  <2>1. PICK b \in Printable : y = <<b>>
    BY <1>2
  <2>2. Printable \subseteq Byte
    BY DEF Printable, Byte, Space
  <2>3. y \in Seq(Byte) /\ Len(y) = 1 /\ y[1] = b /\ y # <<>>
    BY <2>1, <2>2
  <2>4. Incomplete(y)
    <3>1. Range(y) = {b}
      BY <2>1 DEF Range
    <3>2. Newline \notin Printable /\ LineCap \in Nat /\ LineCap > 3
      BY ReaderAssumption DEF Newline, Printable, Space, BinLen
    <3> QED BY <2>3, <3>1, <3>2 DEF Incomplete, BinLen
  <2> QED BY <2>1, <2>3, <2>4, Waits
<1> QED
  BY <1>1, <1>2 DEF OneAtMost

\* A whole frame is found, with or without what follows it.
LEMMA FrameParsed ==
    ASSUME NEW m, NEW c, NEW r, IsFrame(m, c, r), NEW y, NEW left,
           \/ OneAtMost(y) /\ left = y
           \/ y = <<End>> /\ left = <<>>
    PROVE  Parsed[Body(m) \o y] = [left |-> left, tokens |-> <<Seen(m)>>]
<1> DEFINE f == Frame(c)
           buf == f \o y
<1>1. c \in Byte /\ Seen(m) = <<c>> /\ Body(m) = f
  BY SeenFacts DEF IsFrame
<1>2. f \in Seq(Byte) /\ Len(f) = 3 /\ f[1] = Space /\ f[2] = c /\ f[3] = Complement(c)
  BY <1>1, FrameFacts
<1> HIDE DEF f
<1>3. y \in Seq(Byte) /\ Len(y) \in {0, 1} /\ (Len(y) = 1 => y[1] \in Printable \/ y = <<End>>)
  <2>1. CASE OneAtMost(y)
    BY <2>1, OneAtMostFacts
  <2>2. CASE y = <<End>>
    <3>1. End \in Byte
      BY DEF End, Byte
    <3> QED BY <2>2, <3>1
  <2> QED BY <2>1, <2>2
<1>4. /\ buf \in Seq(Byte) /\ Len(buf) = 3 + Len(y)
      /\ buf[1] = Space /\ buf[2] = c /\ buf[3] = Complement(c) /\ (Len(y) = 1 => buf[4] = y[1])
  <2>1. /\ buf \in Seq(Byte) /\ Len(buf) = Len(f) + Len(y)
        /\ \A i \in 1..Len(f) : buf[i] = f[i]
        /\ \A i \in 1..Len(y) : buf[i + Len(f)] = y[i]
    BY <1>2, <1>3, Joined
  <2>2. 1 \in 1..3 /\ 2 \in 1..3 /\ 3 \in 1..3 /\ 1 \in 1..1 /\ 1 + 3 = 4
    OBVIOUS
  <2>3. Len(y) = 1 => buf[4] = y[1]
    BY <1>2, <2>1, <2>2
  <2> QED BY <1>2, <2>1, <2>2, <2>3
<1> HIDE DEF buf
<1>5. buf # <<>>
  BY <1>3, <1>4
<1>6. AttemptAt(buf) = [used |-> IF Len(buf) > 3 /\ buf[4] = End THEN 4 ELSE 3, token |-> <<c>>]
  <2>1. ~(Len(buf) < 3)
    BY <1>3, <1>4
  <2> QED BY <1>4, <2>1 DEF AttemptAt, Binary, Attempt, BinLen
<1>7. <<c>> # NoToken
  BY DEF NoToken
<1>8. CASE OneAtMost(y) /\ left = y
  <2>1. End \notin Printable
    BY DEF End, Printable, Space
  <2>2. Len(buf) > 3 => buf[4] # End
    <3>1. Len(y) \in {0, 1} /\ (Len(y) = 1 => y[1] \in Printable)
      BY <1>8, OneAtMostFacts
    <3>2. Len(buf) > 3 => Len(y) = 1
      BY <1>4, <3>1
    <3> QED BY <1>4, <2>1, <3>1, <3>2
  <2>3. AttemptAt(buf) = [used |-> 3, token |-> <<c>>]
    BY <1>6, <2>2
  <2>4. Rest(buf) = y
    <3>1. Rest(buf) = From(buf, 3 + 1)
      BY <2>3 DEF Rest
    <3> QED BY <1>2, <1>3, <3>1, FromJoined DEF buf
  <2>5. Parsed[y] = [left |-> y, tokens |-> <<>>]
    BY <1>8, OneAtMostFacts
  <2>6. Parsed[buf] = [left |-> y, tokens |-> << <<c>> >>]
    <3> DEFINE u == 3
               t == <<c>>
               z == y
    <3>1. AttemptAt(buf) = [used |-> u, token |-> t] /\ u # 0 /\ t # NoToken
      BY <1>7, <2>3
    <3>2. z \in Seq(Byte) /\ Rest(buf) = z /\ Parsed[z] = [left |-> z, tokens |-> <<>>]
      BY <1>3, <2>3, <2>4, <2>5
    <3> HIDE DEF u, t, z
    <3>3. Parsed[buf] = [left |-> z, tokens |-> <<t>>]
      BY <1>4, <1>5, <3>1, <3>2, FoundIs
    <3> QED BY <3>3 DEF t, z
  <2> QED BY <1>1, <1>8, <2>6 DEF buf
<1>9. CASE y = <<End>> /\ left = <<>>
  <2>1. Len(buf) > 3 /\ buf[4] = End /\ Len(buf) = 4
    BY <1>4, <1>9
  <2>2. AttemptAt(buf) = [used |-> 4, token |-> <<c>>]
    BY <1>6, <2>1
  <2>3. Rest(buf) = <<>>
    <3>1. Rest(buf) = From(buf, 4 + 1)
      BY <2>2 DEF Rest
    <3>2. buf \o <<>> = buf /\ <<>> \in Seq(Byte)
      BY <1>4
    <3>3. From(buf \o <<>>, Len(buf) + 1) = <<>>
      BY <1>4, <3>2, FromJoined
    <3> QED BY <2>1, <3>1, <3>2, <3>3
  <2>4. Parsed[buf] = [left |-> <<>>, tokens |-> << <<c>> >>]
    <3> DEFINE u == 4
               t == <<c>>
               z == <<>>
    <3>1. AttemptAt(buf) = [used |-> u, token |-> t] /\ u # 0 /\ t # NoToken
      BY <1>7, <2>2
    <3>2. z \in Seq(Byte) /\ Rest(buf) = z /\ Parsed[z] = [left |-> z, tokens |-> <<>>]
      BY <2>2, <2>3, NothingParsed
    <3> HIDE DEF u, t, z
    <3>3. Parsed[buf] = [left |-> z, tokens |-> <<t>>]
      BY <1>4, <1>5, <3>1, <3>2, FoundIs
    <3> QED BY <3>3 DEF t, z
  <2> QED BY <1>1, <1>9, <2>4 DEF buf
<1> QED
  BY <1>8, <1>9

\* The token of a text is the text, as far as it fits.
LEMMA TokenFound ==
    ASSUME NEW m, IsText(m)
    PROVE  AsciiToken(m.token) = Seen(m) /\ Seen(m) # NoToken
<1> DEFINE t == m.token
<1>1. /\ t \in Seq(Byte) /\ Len(t) \in Nat /\ \A i \in 1..Len(t) : t[i] \in Letters
  BY TextFacts
<1>2. Len(t) >= MinToken
  BY ReaderAssumption DEF IsText
<1> HIDE DEF t
<1>3. Letters \subseteq Chars \ {Space}
  BY DEF Letters, Chars, Space, Newline
<1>4. IsRun(t, Chars \ {Space}, Len(t))
  BY <1>1, <1>3 DEF IsRun
<1>5. Run(t, Chars \ {Space}) = Len(t)
  BY <1>1, <1>4, RunIs
<1>6. SubSeq(t, 1, Len(t)) = t
  BY <1>1
<1> DEFINE x == Fit(t, TokenCap)
<1>7. /\ x \in Seq(Byte)
      /\ Len(t) < TokenCap => x = t
      /\ Len(t) >= TokenCap => Len(x) = TokenCap - 1
      /\ Len(x) <= Len(t) /\ \A i \in 1..Len(x) : x[i] = t[i]
  BY <1>1, CapFacts, FitFacts
<1>8. AsciiToken(t) = IF Range(x) \subseteq Letters /\ Len(x) >= MinToken THEN x ELSE NoToken
  BY <1>5, <1>6 DEF AsciiToken
<1> HIDE DEF x
<1>9. Len(x) >= MinToken /\ Len(x) \in Nat
  <2>1. Len(x) \in Nat
    BY <1>7
  <2>2. Len(x) >= MinToken
    <3>1. CASE Len(t) < TokenCap
      BY <1>2, <1>7, <3>1
    <3>2. CASE Len(t) >= TokenCap
      BY <1>7, <3>2, CapFacts
    <3> QED BY <1>1, <3>1, <3>2, CapFacts
  <2> QED BY <2>1, <2>2
<1>10. Range(x) \subseteq Letters
  <2>1. \A i \in 1..Len(x) : i \in 1..Len(t)
    BY <1>1, <1>7, <1>9
  <2>2. \A i \in 1..Len(x) : x[i] \in Letters
    BY <1>1, <1>7, <2>1
  <2> QED BY <1>7, <2>2 DEF Range
<1>11. x # NoToken
  <2>1. MinToken # 0 /\ Len(<<>>) = 0
    BY ReaderAssumption
  <2> QED BY <1>9, <2>1, CapFacts DEF NoToken
<1>12. AsciiToken(t) = x
  BY <1>8, <1>9, <1>10
<1> QED
  BY <1>11, <1>12 DEF t, x, Seen

\* And so is a whole line.
LEMMA TextParsed ==
    ASSUME NEW m, IsText(m), NEW y, OneAtMost(y)
    PROVE  Parsed[Body(m) \o y] = [left |-> y, tokens |-> <<Seen(m)>>]
<1> DEFINE b == Body(m)
           t == m.token
           k == Seen(m)
           n == Len(t)
           buf == b \o y
<1>1. /\ t \in Seq(Byte) /\ n \in Nat /\ n >= 2 /\ n <= LineCap - 2
      /\ b \in Seq(Byte) /\ Len(b) = n + 1 /\ b[n + 1] = Newline
      /\ \A i \in 1..n : b[i] = t[i] /\ t[i] \in Letters
  BY TextFacts
<1>2. AsciiToken(t) = k /\ k # NoToken
  BY TokenFound
<1>3. /\ y \in Seq(Byte) /\ Len(y) \in {0, 1} /\ (Len(y) = 1 => y[1] \in Printable)
      /\ Parsed[y] = [left |-> y, tokens |-> <<>>]
  BY OneAtMostFacts
<1>4. LineCap \in Nat
  BY ReaderAssumption
<1> HIDE DEF b, t, n, k
<1>5. buf \in Seq(Byte) /\ Len(buf) = n + 1 + Len(y) /\ \A i \in 1..(n + 1) : buf[i] = b[i]
  <2>1. /\ buf \in Seq(Byte) /\ Len(buf) = Len(b) + Len(y)
        /\ \A i \in 1..Len(b) : buf[i] = b[i]
    BY <1>1, <1>3, Joined
  <2> QED BY <1>1, <2>1
<1>6. From(buf, (n + 1) + 1) = y
  BY <1>1, <1>3, FromJoined
<1> HIDE DEF buf
<1>7. \A i \in 1..n : buf[i] = t[i] /\ buf[i] \in Letters
  <2>1. \A i \in 1..n : i \in 1..(n + 1)
    BY <1>1
  <2> QED BY <1>1, <1>5, <2>1
<1>8. buf[n + 1] = Newline
  <2>1. n + 1 \in 1..(n + 1)
    BY <1>1
  <2> QED BY <1>1, <1>5, <2>1
<1>9. Run(buf, Chars) = n
  <2>1. Letters \subseteq Chars /\ Newline \notin Chars
    BY DEF Letters, Chars, Newline
  <2>2. n \in 0..Len(buf)
    BY <1>1, <1>3, <1>5
  <2>3. IsRun(buf, Chars, n)
    BY <1>7, <1>8, <2>1, <2>2 DEF IsRun
  <2> QED BY <1>5, <2>3, RunIs
<1>10. Run(From(buf, n + 2), {Newline}) = 0
  <2>1. (n + 1) + 1 = n + 2
    BY <1>1
  <2>2. From(buf, n + 2) = y
    BY <1>6, <2>1
  <2>3. Newline \notin Printable
    BY DEF Newline, Printable, Space
  <2>4. 0 = Len(y) \/ y[1] \notin {Newline}
    BY <1>3, <2>3
  <2>5. IsRun(y, {Newline}, 0)
    BY <1>3, <2>4 DEF IsRun
  <2> QED BY <1>3, <2>2, <2>5, RunIs
<1>11. SubSeq(buf, 1, n) = t
  <2>1. n \in 0..Len(buf)
    BY <1>1, <1>3, <1>5
  <2>2. /\ SubSeq(buf, 1, n) \in Seq(Byte) /\ Len(SubSeq(buf, 1, n)) = n
        /\ \A i \in 1..n : SubSeq(buf, 1, n)[i] = buf[i]
    BY <1>5, <2>1, FrontFacts
  <2>3. Len(t) = n
    BY DEF n
  <2> QED BY <1>1, <1>7, <2>2, <2>3, SeqEqual
<1>12. buf[1] # Space /\ buf # <<>>
  <2>1. 1 \in 1..n /\ Len(buf) # 0
    BY <1>1, <1>3, <1>5
  <2>2. Space \notin Letters
    BY DEF Space, Letters
  <2> QED BY <1>7, <2>1, <2>2, EmptySeq
<1>13. AttemptAt(buf) = [used |-> n + 1, token |-> k]
  <2>1. n < Len(buf) /\ n < LineCap /\ n + 1 + 0 = n + 1
    BY <1>1, <1>3, <1>4, <1>5
  <2>2. Ascii(buf) = [used |-> n + 1 + 0, token |-> k]
    BY <1>2, <1>9, <1>10, <1>11, <2>1 DEF Ascii, Attempt
  <2> QED BY <1>12, <2>1, <2>2 DEF AttemptAt
<1>14. n + 1 # 0 /\ k # NoToken
  BY <1>1, <1>2
<1>15. Rest(buf) = y
  BY <1>6, <1>13, <1>14 DEF Rest
<1> QED
  <2>1. Parsed[buf] = [left |-> y, tokens |-> <<k>>]
    BY <1>3, <1>5, <1>12, <1>13, <1>14, <1>15, FoundIs
  <2> QED BY <2>1 DEF buf, b, k

\* Of either kind.
LEMMA BodyParsed ==
    ASSUME NEW m \in Messages, NEW y, OneAtMost(y)
    PROVE  Parsed[Body(m) \o y] = [left |-> y, tokens |-> <<Seen(m)>>]
BY Kinds, FrameParsed, TextParsed

\* An end that comes late is dropped.
LEMMA EndParsed ==
    ASSUME NEW y, OneAtMost(y)
    PROVE  Parsed[<<End>> \o y] = [left |-> y, tokens |-> <<>>]
<1> DEFINE e == <<End>>
           buf == e \o y
<1>1. y \in Seq(Byte) /\ Len(y) \in {0, 1} /\ (Len(y) = 1 => y[1] \in Printable)
      /\ Parsed[y] = [left |-> y, tokens |-> <<>>]
  BY OneAtMostFacts
<1>2. End \in Byte /\ End \in Chars /\ End # Space /\ End \notin Printable /\ Printable \subseteq Chars
  BY DEF End, Byte, Chars, Newline, Space, Printable
<1>3. e \in Seq(Byte) /\ Len(e) = 1 /\ e[1] = End
  BY <1>2
<1> HIDE DEF e
<1>4. /\ buf \in Seq(Byte) /\ Len(buf) = 1 + Len(y) /\ buf[1] = End /\ (Len(y) = 1 => buf[2] = y[1])
  <2>1. /\ buf \in Seq(Byte) /\ Len(buf) = Len(e) + Len(y)
        /\ \A i \in 1..Len(e) : buf[i] = e[i]
        /\ \A i \in 1..Len(y) : buf[i + Len(e)] = y[i]
    BY <1>1, <1>3, Joined
  <2>2. 1 \in 1..1 /\ 1 + 1 = 2
    OBVIOUS
  <2>3. Len(y) = 1 => buf[2] = y[1]
    BY <1>3, <2>1, <2>2
  <2> QED BY <1>3, <2>1, <2>2, <2>3
<1>5. From(buf, 1 + 1) = y
  BY <1>1, <1>3, FromJoined
<1> HIDE DEF buf
<1>6. Run(buf, Chars) = Len(buf)
  <2>1. \A i \in 1..Len(buf) : i = 1 \/ (i = 2 /\ Len(y) = 1)
    <3> DEFINE k == Len(y)
               n == Len(buf)
    <3>1. n = 1 + k /\ (k = 0 \/ k = 1)
      BY <1>1, <1>4
    <3> HIDE DEF k, n
    <3>2. \A i \in 1..n : i = 1 \/ (i = 2 /\ k = 1)
      BY <3>1
    <3> QED BY <3>2 DEF k, n
  <2>2. \A i \in 1..Len(buf) : buf[i] \in Chars
    BY <1>1, <1>2, <1>4, <2>1
  <2>3. IsRun(buf, Chars, Len(buf))
    BY <1>4, <2>2 DEF IsRun
  <2> QED BY <1>4, <2>3, RunIs
<1>7. AttemptAt(buf) = [used |-> 0, token |-> NoToken]
  <2>1. ~(Len(buf) < Len(buf)) /\ ~(Len(buf) >= LineCap - 1)
    <3> DEFINE k == Len(y)
               n == Len(buf)
    <3>1. n = 1 + k /\ (k = 0 \/ k = 1) /\ LineCap \in Nat /\ LineCap > 3
      BY <1>1, <1>4, ReaderAssumption DEF BinLen
    <3> HIDE DEF k, n
    <3>2. ~(n < n) /\ ~(n >= LineCap - 1)
      BY <3>1
    <3> QED BY <3>2 DEF n
  <2>2. Ascii(buf) = [used |-> 0, token |-> NoToken]
    BY <1>6, <2>1 DEF Ascii, Attempt
  <2> QED BY <1>2, <1>4, <2>2 DEF AttemptAt
<1>8. ~Stays(buf) /\ buf # <<>>
  BY <1>1, <1>2, <1>4 DEF Stays
<1>9. Rest(buf) = y
  BY <1>5, <1>7 DEF Rest
<1>10. Parsed[buf] = Joining(buf, Parsed[y])
  BY <1>4, <1>8, <1>9, ParsedFacts
<1>11. Joining(buf, Parsed[y]) = Parsed[y]
  BY <1>1, <1>7 DEF Joining
<1> QED
  BY <1>1, <1>10, <1>11 DEF buf, e
-----------------------------------------------------------------------------
(* Swipes. *)

\* The empty sequence is the unit of joining,
LEMMA Units ==
    ASSUME NEW a \in Seq(Byte)
    PROVE  a \o <<>> = a /\ <<>> \o a = a /\ <<>> \in Seq(Byte)
BY ConcatEmptySeq, EmptySeq

\* which is associative.
LEMMA Grouped ==
    ASSUME NEW a \in Seq(Byte), NEW b \in Seq(Byte), NEW c \in Seq(Byte)
    PROVE  (a \o b) \o c = a \o (b \o c)
BY ConcatAssociative

\* The same, with joining by name.
Then(a, b) == a \o b

LEMMA GroupedThen ==
    \A a, b, c \in Seq(Byte) : Then(Then(a, b), c) = Then(a, Then(b, c))
BY Grouped DEF Then

\* A sequence is what comes before a place and what comes from there on.
LEMMA Split ==
    ASSUME NEW s \in Seq(Byte), NEW k \in 0..Len(s)
    PROVE  /\ SubSeq(s, 1, k) \in Seq(Byte) /\ Len(SubSeq(s, 1, k)) = k
           /\ From(s, k + 1) \in Seq(Byte)
           /\ SubSeq(s, 1, k) \o From(s, k + 1) = s
<1>1. Len(s) \in Nat
  OBVIOUS
<1>2. SubSeq(s, 1, k) \in Seq(Byte) /\ Len(SubSeq(s, 1, k)) = k
  BY FrontFacts
<1>3. k + 1 \in 1..(Len(s) + 1)
  BY <1>1
<1>4. From(s, k + 1) \in Seq(Byte)
  BY <1>3, FromFacts
<1>5. 1 \in 1..(Len(s) + 1) /\ k \in (1 - 1)..Len(s) /\ Len(s) \in k..Len(s)
  BY <1>1
<1>6. SubSeq(s, 1, k) \o SubSeq(s, k + 1, Len(s)) = SubSeq(s, 1, Len(s))
  BY <1>5, ConcatAdjacentSubSeq
<1>7. SubSeq(s, 1, Len(s)) = s
  OBVIOUS
<1> QED
  BY <1>2, <1>4, <1>6, <1>7 DEF From

\* And its head and its tail.
LEMMA HeadAndTail ==
    ASSUME NEW s \in Seq(Byte), s # <<>>
    PROVE  <<Head(s)>> \o Tail(s) = s /\ Tail(s) \in Seq(Byte)
<1>1. Len(s) \in Nat /\ Len(s) > 0
  OBVIOUS
<1>2. 1 \in 0..Len(s) /\ 1 + 1 = 2
  BY <1>1
<1>3. SubSeq(s, 1, 1) \o From(s, 1 + 1) = s
  BY <1>2, Split
<1>4. SubSeq(s, 1, 1) = <<Head(s)>>
  <2>1. SubSeq(s, 1, 1) \in Seq(Byte) /\ Len(SubSeq(s, 1, 1)) = 1 /\ SubSeq(s, 1, 1)[1] = s[1]
    <3>1. 1 \in 1..1
      OBVIOUS
    <3> QED BY <1>2, <3>1, FrontFacts
  <2>2. Head(s) = s[1] /\ s[1] \in Byte
    BY <1>1
  <2>3. <<Head(s)>> \in Seq(Byte) /\ Len(<<Head(s)>>) = 1 /\ <<Head(s)>>[1] = s[1]
    BY <2>2
  <2>4. \A i \in 1..1 : i = 1
    OBVIOUS
  <2> QED BY <2>1, <2>3, <2>4, SeqEqual
<1>5. From(s, 2) = Tail(s)
  BY <1>1 DEF From
<1>6. Tail(s) \in Seq(Byte)
  BY <1>1
<1> QED
  BY <1>2, <1>3, <1>4, <1>5, <1>6

\* The same bytes, cut at two places.
SameBytes(x, z, b, r) == x \o z = b \o r

\* x ends before the end of b, there, or after.
LEMMA Cut ==
    ASSUME NEW x \in Seq(Byte), NEW z \in Seq(Byte), NEW b \in Seq(Byte), NEW r \in Seq(Byte),
           SameBytes(x, z, b, r), Len(r) <= 1
    PROVE  /\ Len(x) < Len(b) => \A i \in 1..Len(x) : x[i] = b[i]
           /\ Len(x) = Len(b) => x = b /\ z = r
           /\ Len(x) > Len(b) => x = b \o r /\ z = <<>> /\ Len(r) = 1
<1> DEFINE s == x \o z
<1>1. Len(x) \in Nat /\ Len(z) \in Nat /\ Len(b) \in Nat /\ Len(r) \in Nat
  OBVIOUS
<1>2. /\ Len(s) = Len(x) + Len(z)
      /\ \A i \in 1..Len(x) : s[i] = x[i]
      /\ \A i \in 1..Len(z) : s[i + Len(x)] = z[i]
  BY Joined
<1>3. /\ Len(s) = Len(b) + Len(r)
      /\ \A i \in 1..Len(b) : s[i] = b[i]
      /\ \A i \in 1..Len(r) : s[i + Len(b)] = r[i]
  <2>1. s = b \o r
    BY DEF SameBytes
  <2> QED BY <2>1, Joined
<1> HIDE DEF s
<1>4. CASE Len(x) < Len(b)
  <2>1. \A i \in 1..Len(x) : i \in 1..Len(b)
    BY <1>1, <1>4
  <2> QED BY <1>1, <1>2, <1>3, <1>4, <2>1
<1>5. CASE Len(x) = Len(b)
  <2>1. Len(z) = Len(r)
    BY <1>1, <1>2, <1>3, <1>5
  <2>2. \A i \in 1..Len(x) : x[i] = b[i]
    BY <1>2, <1>3, <1>5
  <2>3. \A i \in 1..Len(z) : z[i] = r[i]
    BY <1>2, <1>3, <1>5, <2>1
  <2>4. x = b
    BY <1>5, <2>2, SeqEqual
  <2>5. z = r
    BY <2>1, <2>3, SeqEqual
  <2> QED BY <1>1, <1>5, <2>4, <2>5
<1>6. CASE Len(x) > Len(b)
  <2>1. Len(z) = 0 /\ Len(r) = 1
    <3>1. Len(x) + Len(z) = Len(b) + Len(r)
      BY <1>2, <1>3
    <3>2. \A i, j, k, l \in Nat : i + j = k + l /\ i > k /\ l <= 1 => j = 0 /\ l = 1
      OBVIOUS
    <3> QED BY <1>1, <1>6, <3>1, <3>2
  <2>2. z = <<>>
    BY <2>1, EmptySeq
  <2>3. x \o <<>> = x
    BY Units
  <2>4. x = b \o r
    BY <2>2, <2>3 DEF SameBytes
  <2> QED BY <1>1, <1>6, <2>1, <2>2, <2>4
<1> QED
  BY <1>1, <1>4, <1>5, <1>6
-----------------------------------------------------------------------------
\* What is to be found.
TokensOf(ms) == [i \in 1..Len(ms) |-> Seen(ms[i])]

\* The tokens of one more message.
LEMMA TokensOfMore ==
    ASSUME NEW ms \in Seq(Messages), NEW m \in Messages
    PROVE  /\ TokensOf(ms) \in Seq(Tokens)
           /\ TokensOf(Append(ms, m)) = TokensOf(ms) \o <<Seen(m)>>
<1> DEFINE n == Len(ms)
           more == Append(ms, m)
           a == TokensOf(ms)
           b == TokensOf(more)
           t == <<Seen(m)>>
<1>1. \A k \in Messages : Seen(k) \in Tokens
  BY SeenFacts
<1>2. n \in Nat /\ \A i \in 1..n : ms[i] \in Messages
  OBVIOUS
<1>3. more \in Seq(Messages) /\ Len(more) = n + 1 /\ more[n + 1] = m /\ \A i \in 1..n : more[i] = ms[i]
  BY Longer
<1>4. a \in Seq(Tokens) /\ Len(a) = n /\ \A i \in 1..n : a[i] = Seen(ms[i])
  <2>1. \A i \in 1..n : Seen(ms[i]) \in Tokens
    BY <1>1, <1>2
  <2>2. a = [i \in 1..n |-> Seen(ms[i])]
    BY DEF TokensOf
  <2> HIDE DEF a, n
  <2> QED BY <1>2, <2>1, <2>2
<1> HIDE DEF more
<1>5. b \in Seq(Tokens) /\ Len(b) = n + 1 /\ \A i \in 1..(n + 1) : b[i] = Seen(more[i])
  <2>1. \A i \in 1..(n + 1) : more[i] \in Messages
    BY <1>3
  <2>2. \A i \in 1..(n + 1) : Seen(more[i]) \in Tokens
    BY <1>1, <2>1
  <2>3. b = [i \in 1..(n + 1) |-> Seen(more[i])]
    BY <1>3 DEF TokensOf
  <2> HIDE DEF b, n
  <2> QED BY <1>2, <2>2, <2>3
<1>6. t \in Seq(Tokens) /\ Len(t) = 1 /\ t[1] = Seen(m)
  BY <1>1
<1> HIDE DEF a, b, t, n
<1>7. /\ a \o t \in Seq(Tokens) /\ Len(a \o t) = n + 1
      /\ \A i \in 1..(n + 1) : (a \o t)[i] = IF i <= n THEN a[i] ELSE t[i - n]
  <2>1. /\ a \o t \in Seq(Tokens) /\ Len(a \o t) = Len(a) + Len(t)
        /\ \A i \in 1..(Len(a) + Len(t)) : (a \o t)[i] = IF i <= Len(a) THEN a[i] ELSE t[i - Len(a)]
    BY <1>4, <1>6, ConcatProperties
  <2> QED BY <1>4, <1>6, <2>1
<1>8. \A i \in 1..(n + 1) : b[i] = (a \o t)[i]
  <2> SUFFICES ASSUME NEW i \in 1..(n + 1) PROVE b[i] = (a \o t)[i]
    OBVIOUS
  <2>1. CASE i \in 1..n
    <3>1. i <= n /\ more[i] = ms[i]
      BY <1>3, <2>1
    <3> QED BY <1>4, <1>5, <1>7, <2>1, <3>1
  <2>2. CASE i = n + 1
    <3>1. ~(i <= n) /\ i - n = 1
      BY <1>2, <2>2
    <3> QED BY <1>3, <1>5, <1>6, <1>7, <2>2, <3>1
  <2>3. i \in 1..n \/ i = n + 1
    BY <1>2
  <2> QED BY <2>1, <2>2, <2>3
<1>9. b = a \o t
  BY <1>5, <1>7, <1>8, SeqEqual
<1> QED
  BY <1>4, <1>9 DEF a, b, t, more

\* And of none.
LEMMA TokensOfNone == TokensOf(<<>>) = <<>>
<1>1. Len(<<>>) = 0 /\ \A i \in 1..0 : FALSE
  OBVIOUS
<1> QED
  BY <1>1 DEF TokensOf

\* Where the messages of the swipes are: all are found; the last one is on its
\* way, after the end of the one before or not; or two are.
AllFound == rx = <<>> /\ dr \o line \in {<<>>, <<End>>} /\ found = TokensOf(swiped)

AfterEnd(done, m) ==
    /\ swiped = Append(done, m) /\ found = TokensOf(done)
    /\ rx = <<>> /\ dr = <<End>> /\ line = m.bytes

Underway(done, m) ==
    /\ swiped = Append(done, m) /\ found = TokensOf(done)
    /\ rx \o (dr \o line) = m.bytes /\ Len(rx) < Len(Body(m))

TwoUnderway(done, p, m) ==
    /\ swiped = Append(Append(done, p), m) /\ found = TokensOf(done)
    /\ rx \o dr = Body(p) /\ Len(dr) = 1 /\ line = m.bytes

SwipesKept ==
    ~lost => \/ AllFound
             \/ \E done \in Seq(Messages), m \in Messages : AfterEnd(done, m)
             \/ \E done \in Seq(Messages), m \in Messages : Underway(done, m)
             \/ \E done \in Seq(Messages), p, m \in Messages : TwoUnderway(done, p, m)

\* What a tick reads of the messages.
LEMMA TickReads ==
    ASSUME TypeInv, NEW d \in 0..1, NEW meanwhile \in 0..1, Tick(d, meanwhile), ~AtRest
    PROVE  /\ rx' = Result(meanwhile).left
           /\ found' = found \o Result(meanwhile).tokens
           /\ dr' = <<>> /\ line' = From(line, meanwhile + 1)
           /\ swiped' = swiped /\ lost' = lost
           /\ meanwhile \in 0..Len(line) /\ (dr = <<>> => meanwhile = 0)
           /\ line' \in Seq(Byte)
           /\ rx \o Read(meanwhile) \in Seq(Byte)
           /\ (rx \o Read(meanwhile)) \o line' = rx \o (dr \o line)
<1> DEFINE front == SubSeq(line, 1, meanwhile)
           rest == From(line, meanwhile + 1)
<1>1. line \in Seq(Byte) /\ dr \in Seq(Byte) /\ rx \in Seq(Byte) /\ Len(line) \in Nat
  BY DEF TypeInv
<1>2. rx' = Result(meanwhile).left /\ found' = found \o Result(meanwhile).tokens
  BY TickFacts
<1>3. /\ dr' = <<>> /\ line' = rest /\ swiped' = swiped
      /\ meanwhile <= Len(line) /\ (dr = <<>> => meanwhile = 0)
  BY DEF Tick
<1>4. lost' = (lost /\ ~AtRest) /\ lost \in BOOLEAN
  BY DEF Tick, TypeInv
<1>5. lost' = lost
  BY <1>4
<1>6. meanwhile \in 0..Len(line)
  BY <1>1, <1>3
<1>7. front \in Seq(Byte) /\ rest \in Seq(Byte) /\ front \o rest = line /\ Len(front) = meanwhile
  BY <1>1, <1>6, Split
<1> HIDE DEF front, rest
<1>8. Read(meanwhile) = dr \o front
  <2>1. CASE dr = <<>>
    <3>1. Len(front) = 0
      BY <1>3, <1>7, <2>1
    <3>2. front = <<>>
      BY <1>7, <3>1, EmptySeq
    <3>3. dr \o <<>> = dr
      BY <1>1, Units
    <3> QED BY <2>1, <3>2, <3>3 DEF Read
  <2>2. CASE dr # <<>>
    BY <2>2 DEF Read, front
  <2> QED BY <2>1, <2>2
<1>9. dr \o front \in Seq(Byte) /\ (dr \o front) \o rest = dr \o line
  <2>1. dr \o front \in Seq(Byte)
    BY <1>1, <1>7, Joined
  <2>2. (dr \o front) \o rest = dr \o (front \o rest)
    <3>1. front \in Seq(Byte) /\ rest \in Seq(Byte)
      BY <1>7
    <3>2. Then(Then(dr, front), rest) = Then(dr, Then(front, rest))
      BY <1>1, <3>1, GroupedThen
    <3> QED BY <3>2 DEF Then
  <2> QED BY <1>7, <2>1, <2>2
<1> DEFINE bytes == dr \o front
<1>10. rx \o bytes \in Seq(Byte) /\ (rx \o bytes) \o rest = rx \o (dr \o line)
  <2> HIDE DEF bytes
  <2>1. bytes \in Seq(Byte) /\ bytes \o rest = dr \o line
    BY <1>9 DEF bytes
  <2>2. rx \o bytes \in Seq(Byte)
    BY <1>1, <2>1, Joined
  <2>3. (rx \o bytes) \o rest = rx \o (bytes \o rest)
    <3>1. bytes \in Seq(Byte) /\ rest \in Seq(Byte)
      BY <1>7, <2>1
    <3>2. Then(Then(rx, bytes), rest) = Then(rx, Then(bytes, rest))
      BY <1>1, <3>1, GroupedThen
    <3> QED BY <3>2 DEF Then
  <2> QED BY <2>1, <2>2, <2>3
<1>11. Read(meanwhile) = bytes
  BY <1>8
<1> HIDE DEF bytes
<1>12. rx \o Read(meanwhile) \in Seq(Byte) /\ (rx \o Read(meanwhile)) \o line' = rx \o (dr \o line)
  BY <1>3, <1>10, <1>11
<1> QED
  BY <1>2, <1>3, <1>5, <1>6, <1>7, <1>12 DEF rest

\* The line while a message has just been put on it.
LEMMA LineBegins ==
    ASSUME NEW m \in Messages, NEW k \in 0..1
    PROVE  /\ OneAtMost(SubSeq(m.bytes, 1, k)) /\ Len(SubSeq(m.bytes, 1, k)) = k
           /\ SubSeq(m.bytes, 1, k) \o From(m.bytes, k + 1) = m.bytes
           /\ From(m.bytes, k + 1) \in Seq(Byte)
<1> DEFINE s == m.bytes
           y == SubSeq(s, 1, k)
<1>1. Body(m) \in Seq(Byte) /\ Len(Body(m)) \in Nat /\ Len(Body(m)) >= 3 /\ Body(m)[1] \in Printable
  BY BodyFacts
<1>2. PICK r \in {<<>>, <<End>>} : s = Body(m) \o r
  BY BodyFacts
<1>3. r \in Seq(Byte) /\ Len(r) \in Nat
  <2>1. End \in Byte
    BY DEF End, Byte
  <2>2. CASE r = <<>>
    BY <2>2
  <2>3. CASE r = <<End>>
    BY <2>1, <2>3
  <2> QED BY <2>2, <2>3
<1>4. s \in Seq(Byte) /\ Len(s) \in Nat /\ Len(s) >= 3 /\ s[1] = Body(m)[1]
  <2>1. 1 \in 1..Len(Body(m))
    BY <1>1
  <2>2. s \in Seq(Byte) /\ Len(s) = Len(Body(m)) + Len(r) /\ s[1] = Body(m)[1]
    BY <1>1, <1>2, <1>3, <2>1, Joined
  <2> QED BY <1>1, <1>3, <2>2
<1> HIDE DEF s
<1>5. k \in 0..Len(s)
  BY <1>4
<1>6. y \in Seq(Byte) /\ Len(y) = k /\ From(s, k + 1) \in Seq(Byte) /\ y \o From(s, k + 1) = s
  BY <1>4, <1>5, Split
<1>7. OneAtMost(y)
  <2>1. CASE k = 0
    <3>1. y = <<>>
      BY <1>6, <2>1, EmptySeq
    <3> QED BY <3>1 DEF OneAtMost
  <2>2. CASE k = 1
    <3>1. 1 \in 1..1
      OBVIOUS
    <3>2. y[1] = s[1]
      BY <1>4, <1>5, <2>2, <3>1, FrontFacts
    <3> HIDE DEF y
    <3>3. y = <<y[1]>>
      BY <1>6, <2>2
    <3> QED BY <1>1, <1>4, <3>2, <3>3 DEF OneAtMost
  <2> QED BY <2>1, <2>2
<1> QED
  BY <1>6, <1>7 DEF s

\* With everything found a tick finds nothing more.
LEMMA TickAllFound ==
    ASSUME TypeInv, AllFound, NEW d \in 0..1, NEW meanwhile \in 0..1, Tick(d, meanwhile), ~AtRest
    PROVE  AllFound'
<1> DEFINE x == rx \o Read(meanwhile)
           e == <<End>>
<1>1. /\ rx \in Seq(Byte) /\ dr \in Seq(Byte) /\ line \in Seq(Byte) /\ found \in Seq(Tokens)
  BY DEF TypeInv
<1>2. /\ rx' = Parsed[x].left /\ found' = found \o Parsed[x].tokens /\ dr' = <<>>
      /\ swiped' = swiped
      /\ line' \in Seq(Byte) /\ x \in Seq(Byte) /\ x \o line' = rx \o (dr \o line)
  BY TickReads DEF Result
<1>3. dr \o line \in Seq(Byte)
  BY <1>1, Joined
<1>4. rx \o (dr \o line) = dr \o line
  <2>1. <<>> \o (dr \o line) = dr \o line
    BY <1>3, Units
  <2> QED BY <2>1 DEF AllFound
<1>5. e \in Seq(Byte) /\ Len(e) = 1
  <2>1. End \in Byte
    BY DEF End, Byte
  <2> QED BY <2>1
<1> HIDE DEF x, e
<1>6. dr \o line = <<>> \/ dr \o line = e
  BY DEF AllFound, e
<1>7. dr \o line # <<>>
  <2> SUFFICES ASSUME dr \o line = <<>> PROVE FALSE
    OBVIOUS
  <2>1. dr = <<>> /\ line = <<>>
    BY <1>1, ConcatEqualIffEmpty
  <2> QED BY <2>1 DEF AtRest, AllFound
<1>8. x \o line' = e
  BY <1>2, <1>4, <1>6, <1>7
<1>9. Parsed[x] = [left |-> <<>>, tokens |-> <<>>] /\ line' \in {<<>>, e}
  <2>1. <<>> \in Seq(Byte) /\ e \o <<>> = e /\ <<>> \o e = e /\ Len(<<>>) = 0
    BY <1>5, Units
  <2>2. x \o line' = <<>> \o e
    BY <1>8, <2>1
  <2> DEFINE n == <<>>
  <2>3. /\ Len(x) = Len(n) => x = n /\ line' = e
        /\ Len(x) > Len(n) => x = n \o e /\ line' = <<>>
    <3>1. n \in Seq(Byte) /\ SameBytes(x, line', n, e) /\ Len(e) <= 1
      BY <1>5, <2>1, <2>2 DEF SameBytes
    <3>2. x \in Seq(Byte) /\ line' \in Seq(Byte) /\ e \in Seq(Byte)
      BY <1>2, <1>5
    <3> HIDE DEF n
    <3>3. /\ Len(x) = Len(n) => x = n /\ line' = e
          /\ Len(x) > Len(n) => x = n \o e /\ line' = <<>> /\ Len(e) = 1
      BY <3>1, <3>2, Cut
    <3> QED BY <3>3
  <2>4. Len(x) = 0 \/ Len(x) > 0
    BY <1>2
  <2>5. Parsed[e \o <<>>] = [left |-> <<>>, tokens |-> <<>>]
    BY EndParsed DEF OneAtMost, e
  <2> QED BY <2>1, <2>3, <2>4, <2>5, NothingParsed
<1>10. rx' = <<>> /\ found' = found
  <2>1. found \o <<>> = found
    BY <1>1
  <2> QED BY <1>2, <1>9, <2>1
<1>11. dr' \o line' = line'
  <2>1. <<>> \o line' = line'
    BY <1>2, Units
  <2> QED BY <1>2, <2>1
<1>12. dr' \o line' \in {<<>>, <<End>>}
  BY <1>9, <1>11 DEF e
<1>13. found' = TokensOf(swiped')
  BY <1>2, <1>10 DEF AllFound
<1> QED
  BY <1>10, <1>12, <1>13 DEF AllFound, TokensOf

\* A tick drops the end of the message before, and reads the next one's beginning.
LEMMA TickAfterEnd ==
    ASSUME TypeInv, NEW done \in Seq(Messages), NEW m \in Messages, AfterEnd(done, m),
           NEW d \in 0..1, NEW meanwhile \in 0..1, Tick(d, meanwhile)
    PROVE  Underway(done, m)'
<1> DEFINE y == SubSeq(m.bytes, 1, meanwhile)
           rest == From(m.bytes, meanwhile + 1)
           e == <<End>>
           x == rx \o Read(meanwhile)
<1>1. rx = <<>> /\ dr = e /\ line = m.bytes /\ swiped = Append(done, m) /\ found = TokensOf(done)
  BY DEF AfterEnd
<1>2. OneAtMost(y) /\ Len(y) = meanwhile /\ y \o rest = m.bytes /\ rest \in Seq(Byte)
  BY LineBegins
<1>3. e \in Seq(Byte) /\ e # <<>>
  <2>1. End \in Byte
    BY DEF End, Byte
  <2> QED BY <2>1
<1>4. ~AtRest
  BY <1>1, <1>3 DEF AtRest
<1>5. /\ rx' = Parsed[x].left /\ found' = found \o Parsed[x].tokens /\ dr' = <<>>
      /\ swiped' = swiped /\ line' = From(line, meanwhile + 1)
  BY <1>4, TickReads DEF Result
<1>6. Read(meanwhile) = e \o y
  BY <1>1, <1>3 DEF Read
<1> HIDE DEF y, rest, e
<1>7. y \in Seq(Byte) /\ found \in Seq(Tokens)
  BY <1>2, OneAtMostFacts DEF TypeInv
<1>8. x = e \o y
  <2>1. <<>> \o (e \o y) = e \o y
    BY <1>3, <1>7, Joined, Units
  <2> QED BY <1>1, <1>6, <2>1
<1>9. Parsed[e \o y] = [left |-> y, tokens |-> <<>>]
  BY <1>2, EndParsed DEF e
<1> HIDE DEF x
<1>10. rx' = y /\ found' = found
  <2>1. found \o <<>> = found
    BY <1>7
  <2> QED BY <1>5, <1>8, <1>9, <2>1
<1>11. line' = rest
  BY <1>1, <1>5 DEF rest
<1>12. rx' \o (dr' \o line') = m.bytes
  <2>1. <<>> \o rest = rest
    BY <1>2, Units
  <2> QED BY <1>2, <1>5, <1>10, <1>11, <2>1
<1>13. Len(rx') < Len(Body(m))
  <2>1. Len(y) <= 1 /\ Len(y) \in Nat
    BY <1>2
  <2>2. Len(Body(m)) \in Nat /\ Len(Body(m)) >= 3
    BY BodyFacts
  <2> QED BY <1>10, <2>1, <2>2
<1> QED
  BY <1>1, <1>5, <1>10, <1>12, <1>13 DEF Underway

\* A tick completes the first of two messages.
LEMMA TickTwoUnderway ==
    ASSUME TypeInv, NEW done \in Seq(Messages), NEW p \in Messages, NEW m \in Messages,
           TwoUnderway(done, p, m), NEW d \in 0..1, NEW meanwhile \in 0..1, Tick(d, meanwhile)
    PROVE  Underway(Append(done, p), m)'
<1> DEFINE y == SubSeq(m.bytes, 1, meanwhile)
           rest == From(m.bytes, meanwhile + 1)
           x == rx \o Read(meanwhile)
<1>1. /\ rx \o dr = Body(p) /\ Len(dr) = 1 /\ line = m.bytes
      /\ swiped = Append(Append(done, p), m) /\ found = TokensOf(done)
  BY DEF TwoUnderway
<1>2. OneAtMost(y) /\ Len(y) = meanwhile /\ y \o rest = m.bytes /\ rest \in Seq(Byte)
  BY LineBegins
<1>3. dr # <<>>
  <2>1. Len(dr) = 1 /\ Len(<<>>) = 0
    BY <1>1
  <2> QED BY <2>1
<1>4. ~AtRest
  BY <1>3 DEF AtRest
<1>5. /\ rx' = Parsed[x].left /\ found' = found \o Parsed[x].tokens /\ dr' = <<>>
      /\ swiped' = swiped /\ line' = From(line, meanwhile + 1)
  BY <1>4, TickReads DEF Result
<1>6. Read(meanwhile) = dr \o y
  BY <1>1, <1>3 DEF Read
<1> HIDE DEF y, rest
<1>7. y \in Seq(Byte) /\ rx \in Seq(Byte) /\ dr \in Seq(Byte)
  BY <1>2, OneAtMostFacts DEF TypeInv
<1>8. x = Body(p) \o y
  <2>1. (rx \o dr) \o y = rx \o (dr \o y)
    BY <1>7, Grouped
  <2> QED BY <1>1, <1>6, <2>1
<1>9. Parsed[Body(p) \o y] = [left |-> y, tokens |-> <<Seen(p)>>]
  BY <1>2, BodyParsed
<1> HIDE DEF x
<1>10. rx' = y /\ found' = TokensOf(done) \o <<Seen(p)>>
  BY <1>1, <1>5, <1>8, <1>9
<1>11. line' = rest
  BY <1>1, <1>5 DEF rest
<1>12. rx' \o (dr' \o line') = m.bytes
  <2>1. <<>> \o rest = rest
    BY <1>2, Units
  <2> QED BY <1>2, <1>5, <1>10, <1>11, <2>1
<1>13. Len(rx') < Len(Body(m))
  <2>1. Len(y) <= 1 /\ Len(y) \in Nat
    BY <1>2
  <2>2. Len(Body(m)) \in Nat /\ Len(Body(m)) >= 3
    BY BodyFacts
  <2> QED BY <1>10, <2>1, <2>2
<1>14. found' = TokensOf(Append(done, p))
  BY <1>10, TokensOfMore
<1> QED
  BY <1>1, <1>5, <1>12, <1>13, <1>14 DEF Underway

\* A tick reads on, or completes the message.
LEMMA TickUnderway ==
    ASSUME TypeInv, NEW done \in Seq(Messages), NEW m \in Messages, Underway(done, m),
           NEW d \in 0..1, NEW meanwhile \in 0..1, Tick(d, meanwhile)
    PROVE  Underway(done, m)' \/ AllFound'
<1> DEFINE x == rx \o Read(meanwhile)
           b == Body(m)
<1>1. /\ swiped = Append(done, m) /\ found = TokensOf(done)
      /\ rx \o (dr \o line) = m.bytes
  BY DEF Underway
<1>2. b \in Seq(Byte) /\ Len(b) \in Nat /\ Len(b) >= 3
  BY BodyFacts
<1>3. PICK r \in {<<>>, <<End>>} : m.bytes = b \o r /\ (r = <<>> \/ \E c : IsFrame(m, c, r))
  BY BodyFacts
<1>4. r \in Seq(Byte) /\ Len(r) <= 1
  <2>1. End \in Byte
    BY DEF End, Byte
  <2>2. CASE r = <<>>
    BY <2>2
  <2>3. CASE r = <<End>>
    BY <2>1, <2>3
  <2> QED BY <2>2, <2>3
<1>5. m.bytes # <<>> /\ rx \in Seq(Byte) /\ found \in Seq(Tokens)
  BY MessageFacts DEF TypeInv
<1>6. ~AtRest
  <2> SUFFICES ASSUME AtRest PROVE FALSE
    OBVIOUS
  <2>1. <<>> \o (<<>> \o <<>>) = <<>>
    OBVIOUS
  <2> QED BY <1>1, <1>5, <2>1 DEF AtRest
<1>7. /\ rx' = Parsed[x].left /\ found' = found \o Parsed[x].tokens /\ dr' = <<>>
      /\ swiped' = swiped /\ line' \in Seq(Byte) /\ x \in Seq(Byte)
      /\ x \o line' = rx \o (dr \o line)
  BY <1>6, TickReads DEF Result
<1> HIDE DEF x, b
<1>8. SameBytes(x, line', b, r)
  BY <1>1, <1>3, <1>7 DEF SameBytes
<1>9. dr' \o line' = line'
  <2>1. <<>> \o line' = line'
    BY <1>7, Units
  <2> QED BY <1>7, <2>1
<1>10. x \in Seq(Byte) /\ line' \in Seq(Byte)
  BY <1>7
<1>11. /\ Len(x) < Len(b) => \A i \in 1..Len(x) : x[i] = b[i]
       /\ Len(x) = Len(b) => x = b /\ line' = r
       /\ Len(x) > Len(b) => x = b \o r /\ line' = <<>> /\ Len(r) = 1
  BY <1>2, <1>4, <1>8, <1>10, Cut
<1>12. CASE Len(x) < Len(b)
  <2>1. Begun(m, x)
    BY <1>10, <1>11, <1>12 DEF Begun, b
  <2>2. Parsed[x] = [left |-> x, tokens |-> <<>>]
    BY <2>1, BegunWaits
  <2>3. rx' = x /\ found' = found
    <3>1. found \o <<>> = found
      BY <1>5
    <3> QED BY <1>7, <2>2, <3>1
  <2>4. rx' \o (dr' \o line') = m.bytes
    BY <1>1, <1>7, <1>9, <2>3
  <2> QED BY <1>1, <1>7, <1>12, <2>3, <2>4 DEF Underway, b
<1>13. ASSUME Parsed[x] = [left |-> <<>>, tokens |-> <<Seen(m)>>], line' \in {<<>>, <<End>>}
       PROVE  AllFound'
  <2>1. rx' = <<>> /\ found' = TokensOf(done) \o <<Seen(m)>>
    <3>1. Parsed[x].left = <<>> /\ Parsed[x].tokens = <<Seen(m)>>
      BY <1>13
    <3>2. rx' = Parsed[x].left /\ found' = found \o Parsed[x].tokens
      BY <1>7
    <3> QED BY <1>1, <3>1, <3>2
  <2>2. found' = TokensOf(swiped')
    BY <1>1, <1>7, <2>1, TokensOfMore
  <2> QED BY <1>9, <1>13, <2>1, <2>2 DEF AllFound, TokensOf
<1>14. CASE Len(x) = Len(b)
  <2>1. x = b \o <<>> /\ line' = r
    <3>1. b \o <<>> = b
      BY <1>2, Units
    <3> QED BY <1>11, <1>14, <3>1
  <2>2. Parsed[b \o <<>>] = [left |-> <<>>, tokens |-> <<Seen(m)>>]
    <3>1. OneAtMost(<<>>)
      BY DEF OneAtMost
    <3>2. Parsed[Body(m) \o <<>>] = [left |-> <<>>, tokens |-> <<Seen(m)>>]
      BY <3>1, BodyParsed
    <3> QED BY <3>2 DEF b
  <2> QED BY <1>3, <1>13, <2>1, <2>2
<1>15. CASE Len(x) > Len(b)
  <2>1. x = b \o r /\ line' = <<>> /\ r # <<>>
    BY <1>11, <1>15
  <2>2. r = <<End>>
    BY <1>3, <2>1
  <2>3. PICK c : IsFrame(m, c, r)
    BY <1>3, <2>1
  <2>4. Parsed[b \o r] = [left |-> <<>>, tokens |-> <<Seen(m)>>]
    BY <2>2, <2>3, FrameParsed DEF b
  <2> QED BY <1>13, <2>1, <2>4
<1>16. Len(x) \in Nat
  BY <1>10
<1> QED
  BY <1>2, <1>12, <1>14, <1>15, <1>16

\* SwipesKept is kept by a tick,
LEMMA TickKeepsSwipes ==
    ASSUME TypeInv, SwipesKept, NEW d \in 0..1, NEW meanwhile \in 0..1, Tick(d, meanwhile)
    PROVE  SwipesKept'
<1> SUFFICES ASSUME ~lost'
             PROVE  \/ AllFound'
                    \/ \E done \in Seq(Messages), m \in Messages : Underway(done, m)'
  BY DEF SwipesKept
<1>1. CASE AtRest
  <2>1. rx = <<>> /\ dr = <<>> /\ line = <<>>
    BY <1>1 DEF AtRest
  <2>2. meanwhile = 0
    BY <2>1 DEF Tick
  <2>3. /\ rx' = Result(meanwhile).left /\ found' = <<>>
        /\ swiped' = <<>> /\ dr' = <<>> /\ line' = From(line, meanwhile + 1)
    BY <1>1, TickFacts DEF Tick
  <2>4. rx \o Read(meanwhile) = <<>>
    <3>1. Read(meanwhile) = <<>> /\ <<>> \o <<>> = <<>>
      BY <2>1 DEF Read
    <3> QED BY <2>1, <3>1
  <2>5. Result(meanwhile).left = <<>>
    BY <2>4, NothingParsed DEF Result
  <2>6. line' = <<>>
    <3>1. From(<<>>, 0 + 1) = <<>>
      BY DEF From
    <3> QED BY <2>1, <2>2, <2>3, <3>1
  <2>7. dr' \o line' = <<>>
    BY <2>3, <2>6
  <2>8. found' = TokensOf(swiped')
    BY <2>3, TokensOfNone
  <2>9. AllFound'
    BY <2>3, <2>5, <2>7, <2>8 DEF AllFound, TokensOf
  <2> QED BY <2>9
<1>2. CASE ~AtRest
  <2>1. ~lost
    BY <1>2, TickReads
  <2>2. CASE AllFound
    BY <1>2, <2>2, TickAllFound
  <2>3. ASSUME NEW done \in Seq(Messages), NEW m \in Messages, AfterEnd(done, m)
        PROVE  Underway(done, m)'
    BY <2>3, TickAfterEnd
  <2>4. ASSUME NEW done \in Seq(Messages), NEW m \in Messages, Underway(done, m)
        PROVE  Underway(done, m)' \/ AllFound'
    BY <2>4, TickUnderway
  <2>5. ASSUME NEW done \in Seq(Messages), NEW p \in Messages, NEW m \in Messages, TwoUnderway(done, p, m)
        PROVE  Append(done, p) \in Seq(Messages) /\ Underway(Append(done, p), m)'
    BY <2>5, TickTwoUnderway
  <2> QED BY <2>1, <2>2, <2>3, <2>4, <2>5 DEF SwipesKept
<1> QED
  BY <1>1, <1>2

\* by a swipe,
LEMMA SwipeKeepsSwipes ==
    ASSUME TypeInv, SwipesKept, NEW m \in Messages, Swipe(m)
    PROVE  SwipesKept'
<1>1. PICK all \in Seq(Messages) : all = swiped
  BY DEF TypeInv
<1>2. /\ line = <<>> /\ line' = m.bytes /\ swiped' = Append(all, m)
      /\ rx' = rx /\ dr' = dr /\ found' = found /\ lost' = lost
  BY <1>1 DEF Swipe, code
<1>3. /\ rx \in Seq(Byte) /\ dr \in Seq(Byte) /\ Len(dr) <= 1 /\ m.bytes \in Seq(Byte)
      /\ Len(rx) \in Nat /\ Len(dr) \in Nat
  BY MessageFacts DEF TypeInv
<1>4. dr \o <<>> = dr
  BY <1>3, Units
<1>5. CASE AllFound /\ dr = <<>>
  <2>1. rx' = <<>> /\ dr' = <<>> /\ found' = TokensOf(all)
    BY <1>1, <1>2, <1>5 DEF AllFound
  <2>2. <<>> \o (<<>> \o m.bytes) = m.bytes
    BY <1>3, Units
  <2>3. Len(<<>>) < Len(Body(m))
    <3>1. Len(<<>>) = 0 /\ Len(Body(m)) \in Nat /\ Len(Body(m)) >= 3
      BY BodyFacts
    <3> QED BY <3>1
  <2>4. Underway(all, m)'
    BY <1>2, <2>1, <2>2, <2>3 DEF Underway
  <2> QED BY <2>4 DEF SwipesKept
<1>6. CASE AllFound /\ dr = <<End>>
  <2>1. rx' = <<>> /\ dr' = <<End>> /\ found' = TokensOf(all)
    BY <1>1, <1>2, <1>6 DEF AllFound
  <2>2. AfterEnd(all, m)'
    BY <1>2, <2>1 DEF AfterEnd
  <2> QED BY <2>2 DEF SwipesKept
<1>7. ASSUME NEW done \in Seq(Messages), NEW p \in Messages, Underway(done, p)
      PROVE  SwipesKept'
  <2>1. all = Append(done, p) /\ found = TokensOf(done) /\ rx \o dr = p.bytes /\ Len(rx) < Len(Body(p))
    BY <1>1, <1>2, <1>4, <1>7 DEF Underway
  <2>2. Body(p) \in Seq(Byte) /\ Len(Body(p)) \in Nat
    BY BodyFacts
  <2>3. PICK r \in {<<>>, <<End>>} : p.bytes = Body(p) \o r
    BY BodyFacts
  <2>4. r \in Seq(Byte) /\ Len(r) \in Nat
    <3>1. End \in Byte
      BY DEF End, Byte
    <3>2. CASE r = <<>>
      BY <3>2
    <3>3. CASE r = <<End>>
      BY <3>1, <3>3
    <3> QED BY <3>2, <3>3
  <2>5. Len(rx) + Len(dr) = Len(Body(p)) + Len(r)
    <3>1. Len(rx \o dr) = Len(rx) + Len(dr)
      BY <1>3, Joined
    <3>2. Len(Body(p) \o r) = Len(Body(p)) + Len(r)
      BY <2>2, <2>4, Joined
    <3> QED BY <2>1, <2>3, <3>1, <3>2
  <2>6. Len(dr) = 1 /\ Len(r) = 0
    <3>1. \A i, j, k, l \in Nat : i + j = k + l /\ i < k /\ j <= 1 => j = 1 /\ l = 0
      OBVIOUS
    <3> QED BY <1>3, <2>1, <2>2, <2>4, <2>5, <3>1
  <2>7. r = <<>>
    BY <2>4, <2>6, EmptySeq
  <2>8. Body(p) \o <<>> = Body(p)
    BY <2>2, Units
  <2>9. rx \o dr = Body(p)
    BY <2>1, <2>3, <2>7, <2>8
  <2>10. TwoUnderway(done, p, m)'
    BY <1>2, <2>1, <2>6, <2>9 DEF TwoUnderway
  <2> QED BY <2>10 DEF SwipesKept
<1>8. ASSUME NEW p \in Messages, line = p.bytes
      PROVE  FALSE
  BY <1>2, <1>8, MessageFacts
<1>9. AllFound => dr = <<>> \/ dr = <<End>>
  BY <1>2, <1>4 DEF AllFound
<1> SUFFICES ASSUME ~lost
             PROVE  SwipesKept'
  BY <1>2 DEF SwipesKept
<1>10. \/ AllFound
       \/ \E done \in Seq(Messages), p \in Messages : AfterEnd(done, p)
       \/ \E done \in Seq(Messages), p \in Messages : Underway(done, p)
       \/ \E done \in Seq(Messages), p, q \in Messages : TwoUnderway(done, p, q)
  BY DEF SwipesKept
<1>11. ASSUME NEW done \in Seq(Messages), NEW p \in Messages, AfterEnd(done, p)
       PROVE  FALSE
  BY <1>8, <1>11 DEF AfterEnd
<1>12. ASSUME NEW done \in Seq(Messages), NEW p \in Messages, NEW q \in Messages, TwoUnderway(done, p, q)
       PROVE  FALSE
  BY <1>8, <1>12 DEF TwoUnderway
<1> QED
  BY <1>5, <1>6, <1>7, <1>9, <1>10, <1>11, <1>12

\* by a byte that arrives,
LEMMA ByteArrivesKeepsSwipes ==
    ASSUME TypeInv, SwipesKept, ByteArrives
    PROVE  SwipesKept'
<1> SUFFICES ASSUME ~lost'
             PROVE  AllFound' \/ \E done \in Seq(Messages), m \in Messages : Underway(done, m)'
  BY DEF SwipesKept
<1>1. line # <<>> /\ line \in Seq(Byte)
  BY DEF ByteArrives, TypeInv
<1>2. ~lost /\ dr = <<>>
  BY DEF ByteArrives, TypeInv
<1>3. dr' = <<Head(line)>> /\ line' = Tail(line) /\ rx' = rx /\ swiped' = swiped /\ found' = found
  BY <1>2 DEF ByteArrives, code
<1>4. dr' \o line' = dr \o line
  <2>1. <<Head(line)>> \o Tail(line) = line
    BY <1>1, HeadAndTail
  <2>2. <<>> \o line = line
    BY <1>1, Units
  <2> QED BY <1>2, <1>3, <2>1, <2>2
<1>5. \/ AllFound
      \/ \E done \in Seq(Messages), p \in Messages : AfterEnd(done, p)
      \/ \E done \in Seq(Messages), p \in Messages : Underway(done, p)
      \/ \E done \in Seq(Messages), p, q \in Messages : TwoUnderway(done, p, q)
  BY <1>2 DEF SwipesKept
<1>6. CASE AllFound
  <2>1. found' = TokensOf(swiped')
    BY <1>3, <1>6 DEF AllFound
  <2>2. rx' = <<>> /\ dr' \o line' \in {<<>>, <<End>>}
    BY <1>3, <1>4, <1>6 DEF AllFound
  <2> QED BY <2>1, <2>2 DEF AllFound, TokensOf
<1>7. ASSUME NEW done \in Seq(Messages), NEW p \in Messages, Underway(done, p)
      PROVE  Underway(done, p)'
  BY <1>3, <1>4, <1>7 DEF Underway
<1>8. ASSUME NEW done \in Seq(Messages), NEW p \in Messages, AfterEnd(done, p)
      PROVE  FALSE
  <2>1. dr = <<End>> /\ Len(<<End>>) = 1 /\ Len(<<>>) = 0
    BY <1>8 DEF AfterEnd
  <2> QED BY <1>2, <2>1
<1>9. ASSUME NEW done \in Seq(Messages), NEW p \in Messages, NEW q \in Messages, TwoUnderway(done, p, q)
      PROVE  FALSE
  <2>1. Len(dr) = 1 /\ Len(<<>>) = 0
    BY <1>9 DEF TwoUnderway
  <2> QED BY <1>2, <2>1
<1> QED
  BY <1>5, <1>6, <1>7, <1>8, <1>9

\* and by whatever leaves the swipes alone.
LEMMA OthersKeepSwipes ==
    ASSUME SwipesKept, UNCHANGED <<uart, rx, swiped, found, lost>>
    PROVE  SwipesKept'
<1>1. UNCHANGED <<line, dr, rx, swiped, found, lost>>
  BY DEF uart
<1>2. AllFound => AllFound'
  <2> SUFFICES ASSUME AllFound PROVE AllFound'
    OBVIOUS
  <2>1. found' = TokensOf(swiped')
    BY <1>1 DEF AllFound
  <2> QED BY <1>1, <2>1 DEF AllFound, TokensOf
<1>3. \A done \in Seq(Messages), m \in Messages : AfterEnd(done, m) => AfterEnd(done, m)'
  BY <1>1 DEF AfterEnd
<1>4. \A done \in Seq(Messages), m \in Messages : Underway(done, m) => Underway(done, m)'
  BY <1>1 DEF Underway
<1>5. \A done \in Seq(Messages), p, m \in Messages : TwoUnderway(done, p, m) => TwoUnderway(done, p, m)'
  BY <1>1 DEF TwoUnderway
<1> QED
  BY <1>1, <1>2, <1>3, <1>4, <1>5 DEF SwipesKept

\* workflow_card_reader_tick: for any number of cards and texts, as long as no byte
\* is lost, every swipe is recognised, in order and as the card it is, a long number
\* as its beginning, however the bytes are spread over ticks, with an end or without.
THEOREM SwipesAreFound == Spec => []EverySwipeFound
<1>1. Init => SwipesKept
  <2> SUFFICES ASSUME Init PROVE AllFound
    BY DEF SwipesKept
  <2>1. rx = <<>> /\ dr = <<>> /\ line = <<>> /\ found = <<>> /\ swiped = <<>>
    BY DEF Init
  <2>2. <<>> \o <<>> = <<>>
    OBVIOUS
  <2> QED BY <2>1, <2>2, TokensOfNone DEF AllFound
<1>2. ReaderInv /\ SwipesKept /\ [Next]_vars => SwipesKept'
  <2> SUFFICES ASSUME ReaderInv, SwipesKept, [Next]_vars PROVE SwipesKept'
    OBVIOUS
  <2>1. TypeInv
    BY DEF ReaderInv
  <2>2. ASSUME NEW m \in Messages, Swipe(m) PROVE SwipesKept'
    BY <2>1, <2>2, SwipeKeepsSwipes
  <2>3. CASE ByteArrives
    BY <2>1, <2>3, ByteArrivesKeepsSwipes
  <2>4. ASSUME NEW p \in PlatformPrompts, NEW clear \in BOOLEAN, PlayPrompt(p[1], p[2], clear)
        PROVE  SwipesKept'
    BY <2>4, OthersKeepSwipes DEF PlayPrompt
  <2>5. ASSUME NEW d \in 0..1, NEW meanwhile \in 0..1, Tick(d, meanwhile) PROVE SwipesKept'
    BY <2>1, <2>5, TickKeepsSwipes
  <2>6. CASE UNCHANGED vars
    BY <2>6, OthersKeepSwipes DEF vars, code, history
  <2> QED BY <2>2, <2>3, <2>4, <2>5, <2>6 DEF Next
<1>3. ReaderInv /\ SwipesKept => EverySwipeFound
  <2> SUFFICES ASSUME ReaderInv, SwipesKept, ~lost, line = <<>>, dr = <<>>
               PROVE  found = TokensOf(swiped)
    BY DEF EverySwipeFound, TokensOf
  <2>1. ASSUME NEW done \in Seq(Messages), NEW p \in Messages, AfterEnd(done, p)
        PROVE  FALSE
    <3>1. dr = <<End>> /\ Len(<<End>>) = 1 /\ Len(<<>>) = 0
      BY <2>1 DEF AfterEnd
    <3> QED BY <3>1
  <2>2. ASSUME NEW done \in Seq(Messages), NEW p \in Messages, NEW q \in Messages, TwoUnderway(done, p, q)
        PROVE  FALSE
    <3>1. Len(dr) = 1 /\ Len(<<>>) = 0
      BY <2>2 DEF TwoUnderway
    <3> QED BY <3>1
  <2>3. ASSUME NEW done \in Seq(Messages), NEW p \in Messages, Underway(done, p)
        PROVE  FALSE
    <3>1. rx \in Seq(Byte) /\ Len(rx) \in Nat
      BY DEF ReaderInv, TypeInv
    <3>2. rx = p.bytes
      <4>1. <<>> \o <<>> = <<>> /\ rx \o <<>> = rx
        BY <3>1
      <4> QED BY <2>3, <4>1 DEF Underway
    <3>3. PICK r \in {<<>>, <<End>>} : p.bytes = Body(p) \o r
      BY BodyFacts
    <3>4. r \in Seq(Byte) /\ Len(r) \in Nat
      <4>1. End \in Byte
        BY DEF End, Byte
      <4>2. CASE r = <<>>
        BY <4>2
      <4>3. CASE r = <<End>>
        BY <4>1, <4>3
      <4> QED BY <4>2, <4>3
    <3>5. Body(p) \in Seq(Byte) /\ Len(Body(p)) \in Nat
      BY BodyFacts
    <3>6. Len(Body(p) \o r) = Len(Body(p)) + Len(r)
      BY <3>4, <3>5, Joined
    <3>7. Len(rx) < Len(Body(p))
      BY <2>3 DEF Underway
    <3> QED BY <3>1, <3>2, <3>3, <3>4, <3>5, <3>6, <3>7
  <2> QED BY <2>1, <2>2, <2>3 DEF SwipesKept, AllFound
<1> QED
  BY <1>1, <1>2, <1>3, ReaderInvariant, PTL DEF Spec
=============================================================================
