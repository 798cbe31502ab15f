------------------------------ MODULE CardReader ------------------------------
(***************************************************************************)
(* The card reader on USART1 (workflow_card_reader.c), from the register   *)
(* of the UART to the events and the voice prompts a swipe leads to.       *)
(*                                                                         *)
(* USART1 has no interrupt and no ring: between two ticks of the superloop *)
(* its data register holds one byte and loses those that follow.  A tick   *)
(* reads until the register is empty, that is one byte, or two when the    *)
(* next one arrives meanwhile; then it parses what the buffer holds and    *)
(* handles each token, and the voice is ticked after it.                   *)
(*                                                                         *)
(* A byte has three bits here, a binary frame one byte of card number and  *)
(* thus three bytes and, with some readers, an end.  The check byte is the *)
(* complement of what it covers, as in the code, so that it can look like  *)
(* a space, a new line or an end.                                          *)
(***************************************************************************)
EXTENDS VoiceQueue, Functions

CONSTANTS
    Messages,    \* what readers send at a swipe: [bytes, token]
    Outcomes,    \* of the guard and of the send: fields of Answers
    MinToken,    \* characters of an ASCII token, 4 in the code
    TokenCap,    \* char token[48]: an ASCII token and its terminator
    LastCap,     \* char s_last_handled_token[32]
    LineCap,     \* WORKFLOW_CARD_READER_LINE_CAP
    BufferCap,   \* WORKFLOW_CARD_READER_BUFFER_CAP
    Global,      \* WORKFLOW_CARD_READER_GLOBAL_DEBOUNCE_MS
    Same,        \* WORKFLOW_CARD_READER_SAME_TOKEN_DEBOUNCE_MS
    ShortGap, LongGap, \* 800 and 1500 ms
    PlatformPrompts, \* pairs of a prompt and a gap that EXECUTE_ACTION may ask for
    MaxSwipes    \* bound: swipes and prompts of the platform

End == 1        \* 0x03
Newline == 2    \* CR or LF
Space == 3      \* 0x20, which starts a binary frame
Letters == 4..7 \* what a token may consist of
Printable == Space..7
Complement(b) == 7 - b
BinLen == 3     \* 13 in the code

ASSUME ReaderAssumption ==
    /\ MinToken \in Nat \ {0, 1} /\ TokenCap \in Nat /\ TokenCap > MinToken
    /\ LastCap \in 2..TokenCap
    /\ LineCap \in Nat /\ LineCap > BinLen /\ BufferCap \in Nat /\ BufferCap > LineCap
    /\ Same \in 1..(TimeMod - 1) /\ Global \in 1..Same /\ MaxSwipes \in Nat

Frame(number) == <<Space, number, Complement(number)>>

\* A binary frame, or a line of text.
ASSUME MessageAssumption ==
    \A m \in Messages :
        \/ \E number \in 0..7 : /\ m.token = <<number>>
                                /\ m.bytes \in {Frame(number), Append(Frame(number), End)}
        \/ /\ m.token \in Seq(Letters) /\ Len(m.token) \in MinToken..(LineCap - 2)
           /\ m.bytes = Append(m.token, Newline)

ASSUME OutcomeAssumption ==
    Outcomes \subseteq {"notReady", "busy", "offline", "fault", "sent", "failed"}

VARIABLES
    line,              \* bytes of a swipe that have not arrived yet
    dr,                \* USART1_DR while RXNE of USART1_SR is set, empty else
    rx,                \* s_rx_buffer
    now,               \* the superloop's time, also s_now_ms of the voice
    lastToken, lastAt, \* s_last_handled_token, s_last_handled_at_ms
    voice,
    swipes,            \* number of swipes and of prompts of the platform
    card,              \* history: the token of the last event, uncut
    swiped, found,     \* history: messages and tokens since the reader was last at rest
    lost,              \* history: a byte was lost since then
    reported, waited,  \* history: the last step sent an event, time since one
    spoken, quiet      \* history: the last step played a prompt, time since one

uart    == <<line, dr>>
code    == <<rx, now, lastToken, lastAt, voice>>
history == <<swipes, card, swiped, found, lost, reported, waited, spoken, quiet>>
vars    == <<uart, code, history>>

NoToken == <<>>

Init ==
    /\ line = <<>> /\ dr = <<>>
    /\ rx = <<>> /\ now = 0
    /\ lastToken = NoToken /\ lastAt = 0
    /\ voice = Silent
    /\ swipes = 0 /\ card = NoToken
    /\ swiped = <<>> /\ found = <<>> /\ lost = FALSE
    /\ reported = FALSE /\ waited = TimeMod
    /\ spoken = FALSE /\ quiet = TimeMod
-----------------------------------------------------------------------------
(* The line. *)

AtRest == rx = <<>> /\ line = <<>> /\ dr = <<>>

Silently == reported' = FALSE /\ spoken' = FALSE

Swipe(m) ==
    /\ swipes < MaxSwipes /\ line = <<>>
    /\ line' = m.bytes
    /\ swipes' = swipes + 1
    /\ swiped' = Append(swiped, m)
    /\ Silently
    /\ UNCHANGED <<dr, code, card, found, lost, waited, quiet>>

\* A byte that finds the last one still there is lost.
ByteArrives ==
    /\ line # <<>>
    /\ line' = Tail(line)
    /\ dr' = IF dr = <<>> THEN <<Head(line)>> ELSE dr
    /\ lost' = (lost \/ dr # <<>>)
    /\ Silently
    /\ UNCHANGED <<code, swipes, card, swiped, found, waited, quiet>>
-----------------------------------------------------------------------------
(* Parsing: what an attempt at the head of the buffer consumes, and finds. *)

Attempt(used, token) == [used |-> used, token |-> token]

\* Faulty variant: the end is always taken to be there.
BinaryEnded(buf) ==
    IF Len(buf) < BinLen THEN Attempt(0, NoToken)
    ELSE IF buf[BinLen] # Complement(buf[2]) THEN Attempt(1, NoToken)
    ELSE Attempt(BinLen + 1, <<buf[2]>>)

\* workflow_card_reader_try_parse_binary
Binary(buf) ==
    IF Len(buf) < BinLen THEN Attempt(0, NoToken)
    ELSE IF buf[BinLen] # Complement(buf[2]) THEN Attempt(1, NoToken)
    ELSE Attempt(IF Len(buf) > BinLen /\ buf[BinLen + 1] = End THEN BinLen + 1 ELSE BinLen,
                 <<buf[2]>>)

From(s, i) == SubSeq(s, i, Len(s))

\* The number of bytes at the head of s that are in S.
Run(s, S) ==
    CHOOSE n \in 0..Len(s) :
        /\ \A i \in 1..n : s[i] \in S
        /\ n = Len(s) \/ s[n + 1] \notin S

Chars == 0..7 \ {Newline}

\* What an array of cap characters holds of the string s, with its terminator.
Fit(s, cap) == IF Len(s) < cap THEN s ELSE SubSeq(s, 1, cap - 1)

\* workflow_card_reader_extract_ascii_token, without a label before the token.
\* What does not fit is neither looked at nor a reason to refuse the rest.
AsciiToken(text) ==
    LET token == Fit(SubSeq(text, 1, Run(text, Chars \ {Space})), TokenCap)
    IN  IF Range(token) \subseteq Letters /\ Len(token) >= MinToken THEN token ELSE NoToken

\* Faulty variant: a line that never ends is waited for.
AsciiUnlimited(buf) ==
    LET n == Run(buf, Chars)
    IN  IF n = Len(buf) THEN Attempt(0, NoToken)
        ELSE Attempt(n + 1 + Run(From(buf, n + 2), {Newline}), AsciiToken(SubSeq(buf, 1, n)))

\* workflow_card_reader_try_parse_ascii
Ascii(buf) ==
    LET all == Run(buf, Chars)
        n == IF all < LineCap THEN all ELSE LineCap - 1
    IN  IF all < Len(buf)
        THEN Attempt(n + 1 + Run(From(buf, n + 2), {Newline}), AsciiToken(SubSeq(buf, 1, n)))
        ELSE Attempt(IF all >= LineCap - 1 THEN all ELSE 0, NoToken)

AttemptAt(buf) == IF buf[1] = Space THEN Binary(buf) ELSE Ascii(buf)

\* The loop of workflow_card_reader_tick: what it leaves, and the tokens.
Parsed[buf \in Seq(0..7)] ==
    IF buf = <<>> THEN [left |-> buf, tokens |-> <<>>]
    ELSE LET a == AttemptAt(buf)
             rest == Parsed[From(buf, IF a.used = 0 THEN 2 ELSE a.used + 1)]
         IN  IF a.used = 0 /\ buf[1] \in Printable
             THEN [left |-> buf, tokens |-> <<>>]
             ELSE [rest EXCEPT !.tokens = IF a.token = NoToken THEN @ ELSE <<a.token>> \o @]
-----------------------------------------------------------------------------
(* Handling a token. *)

\* workflow_card_reader_prompt_for_guard, and the prompts of an event that was
\* sent or was not.
Answers == [
    notReady |-> << <<"welcome", ShortGap>>, <<"starting_wait", 0>> >>,
    busy     |-> << <<"port_busy", LongGap>> >>,
    offline  |-> << <<"unavailable", LongGap>> >>,
    fault    |-> << <<"device_fault", LongGap>> >>,
    sent     |-> << <<"welcome", ShortGap>> >>,
    failed   |-> << <<"welcome", ShortGap>>, <<"unavailable", LongGap>> >> ]

\* The first part of workflow_card_reader_guard: the whole token is compared
\* with what s_last_handled_token holds of the last one.
Debounced(s, token, t) ==
    /\ s.at # 0
    /\ \/ Elapsed(t, s.at) < Global
       \/ token = s.last /\ Elapsed(t, s.at) < Same

\* Faulty variant: a rejection is not noted.
HandledUnnoted(s, token, outcome, t) ==
    IF Debounced(s, token, t) THEN s
    ELSE [last |-> Fit(token, LastCap), at |-> IF outcome = "notReady" THEN s.at ELSE t,
          card |-> token, reported |-> TRUE, voice |-> s.voice]

\* One prompt after the other; the voice still has the last tick's time.
PromptedAll(v, prompts) ==
    LET after[i \in 0..Len(prompts)] ==
            IF i = 0 THEN v ELSE Prompted(after[i - 1], prompts[i][1], prompts[i][2], now)
    IN  after[Len(prompts)]

\* workflow_card_reader_handle_token
Handled(s, token, outcome, t) ==
    IF Debounced(s, token, t) THEN s
    ELSE [last |-> Fit(token, LastCap), at |-> t, card |-> token, reported |-> TRUE,
          voice |-> PromptedAll(s.voice, Answers[outcome])]

\* workflow_card_reader_append_bytes
Appended(buf, bytes) ==
    LET all == buf \o bytes
    IN  IF Len(all) > BufferCap THEN From(all, Len(all) - BufferCap + 1) ELSE all

Older(age, d) == IF age + d > TimeMod THEN TimeMod ELSE age + d

Handling == [last |-> lastToken, at |-> lastAt, card |-> card, reported |-> FALSE, voice |-> voice]

\* What handling some tokens in a row leads to.
HandledAll(tokens, outcome, t) ==
    LET after[i \in 0..Len(tokens)] ==
            IF i = 0 THEN Handling ELSE Handled(after[i - 1], tokens[i], outcome[i], t)
    IN  after[Len(tokens)]

\* app_scheduler_tick: workflow_card_reader_tick, workflow_voice_tick.  The
\* time moves on by d, and meanwhile bytes arrive as the register is read; the
\* bytes of one swipe arrive within one unit of time, over any ticks.
Tick(d, meanwhile) ==
    LET t == (now + d) % TimeMod
        bytes == IF dr = <<>> THEN dr ELSE dr \o SubSeq(line, 1, meanwhile)
    IN  /\ dr = <<>> => meanwhile = 0
        /\ meanwhile <= Len(line)
        /\ d > 0 => line = <<>>
        /\ now' = t
        /\ dr' = <<>>
        /\ line' = From(line, meanwhile + 1)
        /\ \E parsed \in {Parsed[Appended(rx, bytes)]} :
             /\ rx' = parsed.left
             /\ found' = IF AtRest THEN <<>> ELSE found \o parsed.tokens
             /\ \E s \in {HandledAll(parsed.tokens, outcome, t) :
                          outcome \in [1..Len(parsed.tokens) -> Outcomes]} :
                  /\ lastToken' = s.last /\ lastAt' = s.at
                  /\ card' = s.card /\ reported' = s.reported
                  /\ voice' = VoiceTicked(s.voice, t)
                  /\ spoken' = (voice' # s.voice)
                  /\ waited' = IF reported' THEN 0 ELSE Older(waited, d)
                  /\ quiet' = IF spoken' THEN 0 ELSE Older(quiet, d)
        /\ swiped' = IF AtRest THEN <<>> ELSE swiped
        /\ lost' = (lost /\ ~AtRest)
        /\ UNCHANGED swipes

\* proto_execute_action_handle, play_voice_prompt; with clear set what waits and
\* what is being played is cut off.
PlayPrompt(p, gap, clear) ==
    /\ swipes < MaxSwipes /\ swipes' = swipes + 1
    /\ voice' = Prompted(IF clear THEN Cleared(voice) ELSE voice, p, gap, now)
    /\ quiet' = IF clear THEN TimeMod ELSE quiet
    /\ Silently
    /\ UNCHANGED <<uart, rx, now, lastToken, lastAt, card, swiped, found, lost, waited>>

Next ==
    \/ \E m \in Messages : Swipe(m)
    \/ ByteArrives
    \/ \E p \in PlatformPrompts, clear \in BOOLEAN : PlayPrompt(p[1], p[2], clear)
    \/ \E d, meanwhile \in 0..1 : Tick(d, meanwhile)

\* The superloop does not stop, its time goes on, and so does the line.
Fairness == WF_vars(Tick(1, 0)) /\ WF_vars(ByteArrives)

Spec == Init /\ [][Next]_vars /\ Fairness
-----------------------------------------------------------------------------
ReaderTypeOK ==
    /\ line \in Seq(0..7) /\ dr \in Seq(0..7) /\ Len(dr) <= 1
    /\ rx \in Seq(0..7) /\ now \in 0..(TimeMod - 1)
    /\ lastToken \in Seq(0..7) /\ Len(lastToken) < LastCap /\ lastAt \in 0..(TimeMod - 1)
    /\ Len(voice.queue) <= VoiceCap
    /\ voice.until \in 0..(TimeMod - 1) /\ voice.lastAt \in 0..(TimeMod - 1)
    /\ swipes \in 0..MaxSwipes /\ lost \in BOOLEAN
    /\ reported \in BOOLEAN /\ spoken \in BOOLEAN
    /\ waited \in 0..TimeMod /\ quiet \in 0..TimeMod

\* The card a message is to the code: long numbers that agree in their first
\* TokenCap - 1 characters are one.
Seen(m) == Fit(m.token, TokenCap)

\* workflow_card_reader_tick: from any moment the buffer is empty, also after
\* bytes were lost, every swipe is recognised, in order and as the card it is,
\* a long number as its beginning, as long as the superloop is quick enough to
\* lose no byte: however the bytes are spread over ticks, whatever the check
\* byte looks like, with an end or without.
EverySwipeFound ==
    ~lost /\ line = <<>> /\ dr = <<>> => found = [i \in 1..Len(swiped) |-> Seen(swiped[i])]

\* workflow_card_reader_tick: whatever was lost, a tick leaves in the buffer no
\* frame and no line that is complete, and no line too long to become one.
NothingWholeLeft ==
    /\ rx # <<>> /\ rx[1] = Space => Len(rx) < BinLen
    /\ rx # <<>> /\ rx[1] # Space =>
         rx[1] \in Printable /\ Newline \notin Range(rx) /\ Len(rx) < LineCap - 1

\* The time that passes with a step.
Passed == Elapsed(now', now)

\* workflow_card_reader_guard: events, refusals included, go out no faster than
\* the debounce allows, and those of one card in a row slower still if its token
\* fits into s_last_handled_token; a longer token never equals what is kept of
\* it, and is held back for Global only.  But a token that comes when the
\* windows are over, be it of a card that stayed on the reader and was read
\* again and again, leads to an event.  The clock may wrap.  The exception is
\* what comes after an event at time 0, which reads as none.
EventsPaced ==
    [][ /\ reported' /\ Elapsed(now, waited) # 0 =>
             /\ waited + Passed >= Global
             /\ card' = card /\ Len(card) < LastCap => waited + Passed >= Same
        /\ Len(found') > Len(found) /\ waited + Passed \in Same..(TimeMod - 1)
             => reported' ]_vars

\* workflow_voice_is_busy: a prompt is not started while the last one is held
\* to play, also across the wrap of the clock, unless the platform has cut that
\* one off.  The exception is a hold that ends at time 0, which reads as none.
NoOverlap == spoken' /\ Elapsed(now, quiet - Hold) # 0 => quiet + Passed >= Hold

\* workflow_voice_tick: prompts are played one after the other until the queue
\* is empty, although a hold that is long over reads as one still to come for
\* half a turn of the clock.
PromptsInTurn ==
    /\ [][NoOverlap]_vars
    /\ voice.queue # <<>> ~> voice.queue = <<>>
=============================================================================
