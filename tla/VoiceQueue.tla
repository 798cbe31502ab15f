------------------------------ MODULE VoiceQueue ------------------------------
(***************************************************************************)
(* The queue of voice prompts (workflow_voice.c), as functions of a record *)
(* of its static variables: the ring as a sequence, oldest first, the time *)
(* the prompt being played is held to last, and the prompt played last.    *)
(* The board's bsp_voice is never busy.                                    *)
(***************************************************************************)
EXTENDS Integers, Sequences

CONSTANTS
    VoiceCap,  \* WORKFLOW_VOICE_QUEUE_CAP
    Hold,      \* WORKFLOW_VOICE_BUSY_HOLD_MS
    TimeMod,   \* the values of the clock, 2^32 in the code
    NoPrompt

ASSUME VoiceAssumption ==
    /\ VoiceCap \in Nat \ {0}
    /\ TimeMod \in Nat /\ TimeMod % 2 = 0
    /\ Hold \in 1..(TimeMod \div 2 - 1)

\* The unsigned difference of two times.
Elapsed(now, then) == (now - then) % TimeMod

Silent == [queue |-> <<>>, until |-> 0, last |-> NoPrompt, lastAt |-> 0]

\* Faulty variant: a full ring is written past its oldest prompt, which stays.
PushedOver(v, p) == [v EXCEPT !.queue = Append(@, p)]

\* A full queue gives up its oldest prompt.
Pushed(v, p) ==
    [v EXCEPT !.queue = Append(IF Len(@) = VoiceCap THEN Tail(@) ELSE @, p)]

\* workflow_voice_prompt_once: dropped if it was the last one played and that
\* is not long ago; those still in the queue are not looked at.
Prompted(v, p, gap, now) ==
    IF v.last = p /\ v.lastAt # 0 /\ Elapsed(now, v.lastAt) < gap
    THEN v
    ELSE Pushed(v, p)

\* workflow_voice_clear: the prompt being played is no longer waited for either,
\* but is still the one played last.
Cleared(v) == [v EXCEPT !.queue = <<>>, !.until = 0]

\* Faulty variant: the deadline is compared with the clock as unsigned numbers.
BusyUnsigned(v, now) == v.until # 0 /\ v.until > now

\* workflow_voice_is_busy: a signed difference.
Busy(v, now) == v.until # 0 /\ Elapsed(v.until, now) \in 1..(TimeMod \div 2 - 1)

\* workflow_voice_tick
VoiceTicked(v, now) ==
    IF Busy(v, now) \/ v.queue = <<>>
    THEN v
    ELSE [queue |-> Tail(v.queue), until |-> (now + Hold) % TimeMod,
          last |-> Head(v.queue), lastAt |-> now]
=============================================================================
