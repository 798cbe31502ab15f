# Verification of the irrigation controller firmware

TLA+ models of the firmware under `src/code/`, the TLC runs that check them on
small instances, and TLAPS proofs of what matters most for every instance.

## The system

The controller is an STM32F103 board that drives an irrigation pump. It is one
superloop (`app/main.c`): every 10 ms it runs `app_scheduler_tick`,
`net_connectivity_poll`, the LED and `proto_ota_poll`, each to completion. What
is concurrent with the loop is outside it: the supply, which may fail at any
time; the 4G modem and the platform behind it; the person with a card; and the
UART interrupt handlers, which fill receive queues.

| Component | State | Operations | Interacts with | What makes it correct |
|---|---|---|---|---|
| workflow engine (`workflow_engine.c`) | state, active session, recovery context, last action, stop guard deadline | start, stop, pause, resume, tick, poll_ready, restore, mark reported | storage (persist), upgrade guard (mirror), local access (clear token), status (ready) | one session at a time, full settlement after each, interrupted sessions reported |
| runtime storage (`storage_runtime.c`) | RAM copy, record on flash with CRC | load, save | engine | what a restart needs is on flash when the handler returns, unless the sector failed |
| boot and recovery (`workflow_recovery.c`) | none of its own | one report at boot | engine, connectivity | the report is not lost to a second power loss |
| upgrade guard (`workflow_upgrade_guard.c`) | running, settlement flags | set, allow_upgrade | engine writes, OTA reads | agrees with the engine |
| workflow control (`workflow_control.c`) | none | start and stop with the pump | engine, pump module | the pump follows the session |
| local access (`workflow_local_access.c`) | active token, last token and its time | submit_token | engine, control, card reader, platform | a card ends only the session it began, a held card does not toggle |
| connectivity (`net_connectivity.c`, `net_socket_client.c`) | connected, register pending, receive buffer | init, poll, send, force_reconnect | modem, dispatcher, status | messages whole and in order, connected to the configured endpoint |
| 4G modem (`net_4g_modem.c`) | online, TCP connected, direct mode, stream and FIFO | bring-up, connect, close, send, poll | UART, connectivity | the byte stream is passed on unbroken |
| OTA (`proto_ota.c`, `storage_upgrade.c`) | upgrade state, offset, manifest | prepare, start, poll, commit, cancel | upgrade guard, platform | only the announced image is switched to, nothing of one upgrade reaches the next |
| scheduler and heartbeat (`app_scheduler.c`, `proto_heartbeat.c`, `proto_state_snapshot.c`) | times of the last ping, vitals, snapshot and measurement; vitals baseline | tick | all polls, connectivity, configuration | the platform is not left without news, and not flooded |
| card reader (`workflow_card_reader.c`) | receive buffer, last token and its time | tick | UART, connectivity (events), voice, reads the engine | every swipe received whole is found, a broken one is got rid of, events keep their distance |
| voice (`workflow_voice.c`) | bounded queue, last prompt, end of hold | prompt_once, tick, clear | control, recovery, reader | prompts do not overlap, the queue runs empty |
| configuration (`storage_config.c`, `proto_sync_config.c`) | two slots, active index | stage, commit, load | connectivity, scheduler, modules | the active slot is a whole configuration |
| UART (`bsp_uart.c`) | receive FIFO | ISR put, read | modem, reader | no byte is read twice or torn |
| status, alarms, identity, sensors, board | values | set, get | all | read by the decisions above |

The behaviours that are hard: power losses between any two steps of the boot
path or between two handlers; a flash sector that is erased before it is
written; time as an unsigned counter that wraps and whose value 0 means "none";
copies of one fact in several components; two ways to command one session; a
framing layer over a byte stream that is cut anywhere.

## The modules

| Module | Models |
|---|---|
| `WorkflowEngine` | the engine, its record on flash, the upgrade guard's flags, the readiness poll, boot and recovery, power losses |
| `SessionLifecycle` | what the controller promises about sessions, across power losses; the abstract specification |
| `WorkflowControl` | `WorkflowEngine` composed with the platform's commands, local access tokens and the pump |
| `WorkflowProofs` | theorems about `WorkflowEngine` over any sector, with the refinement of `SessionLifecycle`; theorems about `WorkflowControl` |
| `FrameStream` | the bytes of the platform link, gathered into frames and handed to the dispatcher |
| `FrameStreamProofs` | theorems about `FrameStream` |
| `UartFifo` | the receive ring of the modem's UART: interrupt handler against superloop |
| `UartFifoProofs` | theorems about `UartFifo` |
| `ConfigStore` | two configuration slots, `SYNC_CONFIG`, the endpoint merged from the active one; functions of a store |
| `NetLink` | connection, registration, dialling and dispatch over `ConfigStore`, with the platform and the network |
| `NetLinkProofs` | theorems about `NetLink` |
| `OtaUpgrade` | announcing, downloading, verifying and committing an upgrade, over a port that may fail anywhere |
| `OtaUpgradeProofs` | theorems about `OtaUpgrade` |
| `VoiceQueue` | the queue of voice prompts; functions of its record |
| `CardReader` | from the UART register to parsed tokens, debounce, outcome and prompts, over `VoiceQueue` |
| `CardReaderProofs` | theorems about `CardReader` and its prompts |
| `Reporting` | pings, vitals and snapshots: what is due, what fits, what reaches the platform |
| `ReportingProofs` | theorems about `Reporting` |
| `Loops` | induction over sets, and what it says of recursive functions; shared by the proofs |
| `MC...` | instances of these for TLC |

`UartFifo` shows what can happen to a byte below `FrameStream` (lost by excess,
or doubled next to itself), and these are the disturbances of `FrameStream`'s
line (`Overwrite`, `Repeat`). `FrameStream` shows that an undisturbed stream
yields whole messages in order and a disturbed one loses some, and that is
`NetLink`'s channel: messages arrive whole and in order, or are lost.

### WorkflowEngine

A handler is one action. `rt` is `s_rt`; `now`, `lastAction` and `guardUntil`
are the three clock words; `guard` is the pair of flags of the upgrade guard;
`flash` is what `storage_runtime_try_load_flash` would return, `NoRecord` when
no valid record is there. `Persist` is `workflow_persist` at the end of a
handler that began with `workflow_finish_settlement_if_expired`, so it composes
up to two writes.

**The sector.** `storage_runtime.c:104-107` erases the one sector there is and then
writes it. `FlashOutcomes` says what such an attempt may do: succeed, fail in the
erase (the old record stays) or fail in the write (no record is left). A supply that
fails in the gap between the two leaves the same as the last followed by
`PowerLoss`. A record that is there may be unreadable at a boot (`BootBlank`).
Nobody learns what became of a save: `storage_runtime_save` drops it
(`storage_runtime.c:141`).

The flash driver linked today, `bsp_flash.c:3-22`, returns an error for every read,
write and erase (`storage_config.h:2` says of the configuration that the flash backend plugs in later). **On
the present board no record is ever kept: every restart begins with
`BootBlank`, a session cut by a power loss is neither settled nor
reported, and no promise about power losses holds except trivially.** The model
includes that driver (`FlashOutcomes = {"erase_failed"}`), and every property below
holds of it; what the properties say about restarts is about the driver that
`storage_runtime.c` is written for.

The history `saved` tells whether the last save succeeded since the controller
started. What is said across power losses is said with it: `RecoveryDataDurable`
promises the record while `saved` holds, one save that succeeds making up for all
before it; a `PowerLoss` after a save that failed, and a boot that cannot read its
record, end the promise (`owed` is cleared, and `SessionLifecycle` may `Forget`). No
document says that a session must not begin or end while saves fail, so no property
says that either.

The boot path is three actions, cut where it leaves a trace outside RAM:
`BootBlank`/`BootRestore` (`storage_runtime_init`, `workflow_engine_init`),
`ReportRecovery` (the send of `workflow_recovery_boot_check`) and
`MarkRecoveryReported`. `PowerLoss` may come between any two actions.

`Environment` lets the connection and the modules come and go as
`poll_ready` sees them. `owed` and `lastStop` are history variables: the
interrupted session the platform has not heard of, and how long ago the last
session ended. No action reads them.

Left out: time stamps in the report, the hint, meter totals, the choice of the
error code an answer carries, voice prompts and events.

### WorkflowControl

Adds the pump (`module_pump_vfd.c` `s_st`) and the three words of local access
(`s_active_token`, `s_last_token`, `s_last_seen_at_ms`). A token that is not
debounced is noted as seen, then starts, stops or is refused. A debounced token
changes nothing and is no step. `begun` is history: who began the session and
how long ago; `direct` is the last module command since a session began or
ended. `EXECUTE_ACTION` with scope `module` goes to the pump without asking the
workflow, in any state (`proto_execute_action.c:305-317`), so the pump may run
without a session and stand still in one: `PumpFollowsSession` says that this
lasts until the next begin or end, and no longer. The engine's call to `workflow_local_access_clear_active_token`
is part of the composed actions, because the token lives here.

### FrameStream

`rx` is `c->rx[0 .. rx_len)` of the socket client and `wire` what was sent and
not yet read. `Extract` is one call of `net_socket_client_feed` after it has
taken its bytes in, `Poll` one call of `net_socket_client_poll` and the
dispatch loop around it. `taken` is history: the payloads that came off the
buffer, and whether each was handed over. A byte carries the frame and place it
was sent at, which only the properties read.

### UartFifo

`fifo`, `head`, `tail` are the ring, `dr` and `rxne` the data register and its
flag. `bsp_uart_read` is cut at each access to a volatile index, a slot or a
register; `Interrupt` may come between any two. With no byte there, the read that
clears the flag of a line error or an overrun (`ClearError`) throws away what the
register holds by then, and may so lose a byte; the flags themselves are a
choice. It is assumed that at most one
byte arrives during one call of `bsp_uart_read` (a few microseconds against 87
for a byte at 115200 baud), and that the handler has run by the time a call
begins; between calls any number arrives, and a flash erase may stall the
handler. The reset of the ring when the speed is set belongs to the bring-up
and is left out.

### ConfigStore and NetLink

`conf` holds both slots, the active index and `s_ep`. `link` gathers the flags
of four files: `s_online`, `s_tcp_connected` and `s_tcp_direct_mode` of the modem,
`connected`, `host` and `port` of the socket client, `s_register_pending` and
`s_last_connect_attempt_ms` of `net_connectivity.c`, and the two flags of
`common_status`. Each function of the code that changes them is a function on
such a record, and `Poll` composes them in the order of `net_connectivity_poll`,
the dispatch of up to all waiting messages included. `SYNC_CONFIG` is handled
inside that loop and closes the connection under it. A send fails only where
there is no connection: `bsp_uart_write` always returns the length it was given.
`closing` is the modem's text about a closed connection, `held` and `unanswered`
the platform's side; `sinceDial`, `asked` and `mute` are history.

`Reload` keeps the endpoint in use where the configuration's fields are empty, as
`net_platform_config.c:68` does; `model_config.h:19` says that an empty host with
port 0 stands for the built-in endpoint. `ConnectedWhereConfigured` therefore sets
empty fields aside.

Left out: a REGISTER too long for its buffer, the contents of rules and bindings
(a `SYNC_CONFIG` is accepted or refused), and the AT dialogue of a dial, which
succeeds or fails as a whole within one poll, as the code blocks for it.

### OtaUpgrade

One action per command (`Prepare`, `Start`, `Cancel`, `Commit`) and one disjunct
of `Poll` per way out of `proto_ota_poll`. `manifest` is the manifest of
`storage_upgrade.c`, which despite its name keeps it in RAM; `saved` is the record
`persist_progress` writes there; only `region`, the flash behind the port,
outlives `Restart`. `shown` is `s_last_result` with the history `givenUp`, that an upgrade
has been cancelled since start-up: neither `PREPARE` nor `START` resets the result
(`proto_ota.c:415-461`), so that the `CANCELLED` of one upgrade is what a query shows
through all of the next, in whichever state that is, until it fails or
the machine restarts. `ResultOfLastEnded` says this and no more; no document says
whether a result belongs to the upgrade at hand. `ctx` is the hash context with what it was fed, `contexts` how
many the port has given out. A digest is the sequence of blocks it belongs to: two
packages with one digest are left out of account. The port's functions are
external and may fail at any call; sizes are in blocks, of which a read returns
one to `MaxChunk`, with contents the server chooses anew each time.

`ROLLBACK` is always refused and `manifest missing` is never reached (that is what
`ManifestHeld` says); states passed through inside one call do not appear. The port
of the present board (`ota_port_board.c`) has no HTTP client, flash or reboot, so
there `START` answers an error and nothing past `READY_TO_DOWNLOAD` occurs: the
module is about the port `ota_port.h` describes. Left out: events (the board
passes no callback), error codes and texts, and
`proto_ota_report_upgrade_succeeded_after_boot`, which nothing calls.

### CardReader and VoiceQueue

`dr` is the data register of USART1 while it holds a byte, `rx` the buffer,
`Tick` the card reader's tick with the voice's after it, as `app_scheduler_tick`
calls them. USART1 has neither interrupt nor ring: a byte that finds the register
full is lost, and a tick takes one byte, or two when the next one comes while it
reads (`meanwhile`; a third would need another 87 microseconds, and the loop ends
at the first empty read). Bytes come at any pace, so swipes are received whole,
in part or hardly at all; at 115200 baud without pauses a frame is lost as a rule.

`AttemptAt` is one turn of the parser's loop and `Parsed` the loop. A frame is
scaled from 13 bytes to three with a check byte computed as in the code;
what the parser tells apart (a start, an end, a new line, a printable byte) is
kept, and card numbers and check bytes may look like any of these. A number in a
line of text has no fixed length, and two arrays cut it, which `Fit` models:
`workflow_card_reader_extract_ascii_token` looks at the first 47 characters and takes
them for the number (`TokenCap`; lines 180 and 452), and of the last number
handled 31 are kept (`LastCap`; lines 30 and 247). The labels and
blanks an ASCII line may have before its token are left out. `Handled` is
`workflow_card_reader_handle_token`: its debounce is modelled, the outcome of the rest
of the guard and of the send is a choice, with the prompts each one leads to. The
texts and counters of the status query are left out. The platform feeds the same
queue by `EXECUTE_ACTION` `play_voice_prompt` (`PlayPrompt`), with or without
`clear_queue`; it is the one caller of `workflow_voice_clear`.

The debounce compares the whole number with what is kept of the last one (line 265). A
number of 32 to 47 characters is therefore never the same as the one before it, and
**a card with such a number that stays on the reader is reported after every global
window (500 ms), not after that of the same card**; `EventsPaced` names the exception
(`Len(card) < LastCap`, with the history `card`, the last number uncut), and
`EverySwipeFound` says that two numbers that agree in their first 47 characters are one
card to the controller (`Seen`). Binary card numbers are shorter and not concerned. No
document or comment gives card numbers a length or promises more.

An event is what a token leads to that is not debounced: a request or a refusal,
sent or not. `swiped`, `found` and `lost` are history and start anew when the reader
is at rest, so `EverySwipeFound` holds after a loss too, from the next time the
buffer is empty. It says nothing of what a broken frame may be taken for: one
check byte, and none in an ASCII line, cannot exclude that.

### Reporting

`sched` holds the scheduler's time stamps and baseline and, while a tick lasts,
what it has put out. The parts of `app_scheduler_tick` are functions of such a record in the
order of the code, and `Scheduled` composes them: the delta vitals before the
measurement, the snapshot, then pings and vitals or the undivided heartbeat.
`send_vitals_mark_baseline` notes baseline and time whether or not the send
succeeds, and a ping that cannot be built still counts as sent. A tick is a
second: all intervals are whole seconds. `Completed` is what
`parse_runtime_rules` makes of a `SYNC_CONFIG`; `model_types.h:74-79` says that a
delta of 0 switches the report of changes off, but a 0 that arrives is replaced
by the default, so that only the seeded configuration could hold one.

A message is built in a buffer on the stack and names the active and the last
session. `names` is the room these take, `PingFits` and `VitalsFit` whether the
message can be built. That also varies with the last voice prompt, the hint and the
digits of the numbers; the room these take is counted with that of the names, and
so changes only when a session begins or ends. In the source a ping takes 717 bytes without any session,
some 780 with two generated names and up to 866 with two UUIDs, in a buffer of
768 (`app_scheduler.c:153`; `proto_heartbeat.h:8` speaks of about 100): after the
first sessions of a boot pings cease, silently, until a restart. Vitals (1024)
fit but for two names of about 63 characters, snapshots (1536) always. The
properties therefore speak of the messages that fit.

Left out: the texts; the numbers pings carry, which count separately from the
envelope's and so repeat them; the pulse of the LED. `signal_csq` is never
written, so the report of its changes never fires. The battery is reported as 0
until the first measurement, 30 s after the boot.

## What is checked

| Run | Shows |
|---|---|
| `engine` | with reads, erases and writes that fail in every way: types, coherence of both records, agreement of the upgrade guard; an unreported recovery stops the engine until a restart; what a restart needs is on flash once a save has succeeded; no interrupted session is forgotten and none begins before the last one is settled and reported, unless the sector has failed; the refinement of `SessionLifecycle`, in which nothing is forgotten but by such a failure; under the fairness of the superloop settlements end and readiness returns |
| `control` | card, session and pump agree, module commands aside; a held card does not toggle; another card has no effect |
| `stream` | no buffer is overrun whatever is lost or doubled; an undisturbed stream yields whole frames in order, each once; after any loss the receiver comes to rest with an incomplete frame or nothing |
| `uart` | bytes come out in order, at most doubled, and vanish only where one arrives at a full ring or register, or is in the register when an error is cleared |
| `link` | the layers agree between polls, the connection leads to the configured endpoint, one REGISTER at a time is unanswered, dials keep the backoff, and a controller on line without a connection dials again |
| `reader` | swipes received whole are found, long numbers by their beginning, others got rid of; events keep the pace of the debounce, long numbers that of the global one only, and no swipe is ignored for good; prompts are played one after the other until none is left |
| `reporting` | while the connection, rules and session stay as they are the platform hears of the controller within the shortest interval of a message that fits, and of a change of the battery within that of one that carries it, or within the gap; vitals keep the gap; across restarts and turns of the clock |
| `ota` | only the announced image waits for the switch; contexts and manifests are given back; the result shown is that of the last upgrade that ended, the record that of the one at hand; a download ends |

Three runs show where the code does something else than it says:

| Run | Finding |
|---|---|
| `stream_discarded` | `net_socket_client.c:149` discards the result of the `feed` that takes the bytes in. The frame these bytes complete is extracted by that very call, and lost. Dispatched are only frames that lie whole behind another one in one burst. |
| `link_answers` | `app_main.c:76` closes the connection before the answer to the accepted `SYNC_CONFIG` is sent over it. |
| `link_closed` | in direct mode (`net_4g_modem.c:213`) the modem's text about a closed connection is payload, so the connection is never given up, and the controller does not dial again before a restart. |

`NetLink` deliberately does not carry the first finding over: there a message
that is not lost is handled. So what `link` shows holds for the code as it is
and with that repaired.

**Bounds.** Time is scaled: in `engine` the debounce is 2 ticks, the stop guard 3 and
the wrap at `TimeMod` = 7, which keeps the order debounce < guard < half a turn and is
the smallest value over twice the guard, with room for both halves of the signed
comparison; a full turn of the counter is reached in all runs, with every handler at
every clock value. `FlashOutcomes` is all three, so every save and every erase may
fail, and what the linked driver does is among the behaviours. `control` uses
debounce 3, guard 3, global window 1, same-token window 2, the wrap at 7 and both
module commands, over a sector that takes every write, since none of its properties
depends on what a restart finds; their theorems are for any sector. Two references
(one the platform names, one generated) are enough, since the code only compares a
reference with the active and with the last one;
`control` keeps only the generated one, which platform and card sessions share.
Two cards are enough for the same reason, and they are symmetric.

`stream` has lengths of two digits of base 16, a buffer of 11 bytes and room for
a payload of 1: frames that just fit, that do not fit for their terminator, and
that fill the buffer so that bytes behind them overflow it; four frames are
needed for one to be discarded, one dispatched that closes the connection, one
cut by that, and one that follows. `PrintableAssumption` says that a payload byte
read as part of a length gives one the buffer does not hold; with the sizes of
the source (8192, and bytes above 31) it holds for payloads of 32 bytes and
more, which all messages of the protocol exceed. `uart` fills a ring of three
usable bytes more than twice. `link` has two hosts and a port, a wrap at 5 for a
backoff of 2 and two messages on their way: enough for an answer and a
`SYNC_CONFIG` in one poll in both orders, and for a dial on either side of the
wrap.

`ota` has a region of four blocks read one or two at a time, so that a server can
send less than announced, more, and more than the region holds; its packages are
one that fits, one that commits itself, an empty one, and one whose digest is not
that of a package of the announced size. Four blocks for a package of one are
enough for the percentage to wrap.

`reader` has frames whose check byte looks like a new line and like an end, with
and without the end, and two lines of text, one with a number longer than `LastCap`
keeps and one longer than `TokenCap` lets through (which are 2 and 3 here, with a line
of 5 and a buffer of 7); two swipes, of which the first may be
left in pieces in the buffer, fill the voice's queue of two and more. The bytes of
a swipe arrive within one unit of time (500 ms), over any number of ticks; the
windows are scaled to 1 (global debounce, short gap), 2 (hold) and 3 (same card,
long gap), the wrap to 6. The outcomes are two with two prompts each, `notReady`
and `failed`; the platform adds prompts of its own, with and without clearing.

`reporting` keeps the order of the intervals (boot 1 < slow 2 < gap 3 < ping 4 <
snapshot 5 < vitals 6) within a turn of the clock of 8. One `SYNC_CONFIG` makes
snapshots rarer than vitals, another turns pings off. Names take no room, as much
as the vitals leave, and more; the battery is at 1 or 3, and 0 before it is
measured. The bounds of `NeverSilent` and `ChangeReachesPlatform` are one tick
above the interval because a time stamp that is a whole turn of the counter old
looks new once (vitals that never fitted).

**Time zero.** The code reads the value 0 of `s_last_action_ms`,
`s_stop_guard_until_ms` and `s_last_seen_at_ms` as "none". A stop whose deadline
lands on 0 has no guard window, and a session begun at 0 is not debounced. Both
are rare (the counter moves in steps of 10 and its residue changes at each
wrap), both are in the model, and the two properties they concern name them as
exceptions (`lastStop.edge`, `begun.edge`). In `NetLink` it is an attempt to dial at 0, after
which the backoff is not kept, and in `CardReader` a token handled and a hold that
ends at 0; `DialsInTime`, `EventsPaced` and `PromptsInTurn` name them.

**Fairness.** `FrameStream` and `NetLink` assume that the superloop polls; in
`FrameStream` such a poll takes in all that waits on UART4, as
`stream_push_from_uart` does, once the line is silent. In
`NetLink` the poll is strongly fair: the backoff is over for most of a turn of the
counter and the loop polls every 10 ms, so a poll cannot miss that time in every
turn; under weak fairness alone a poll once per turn, always just after the
wrap, would be allowed. In `OtaUpgrade` it is enough that
the superloop calls `proto_ota_poll`, which it does on every turn: a download ends
even if no function of the port ever fails by chance, since the region ends.
In `CardReader` the
superloop's time goes on and a reader finishes what it sends.
`Boot`, `Tick` and `PollReady` are weakly fair: a powered
controller runs its boot path and then a loop that never blocks
(`app_main_loop_iteration`), whose one-second branch is entered whenever the
difference of two clock readings reaches 1000. Nothing is assumed of the supply,
the network or the requests; the liveness properties say for themselves that
power (and the network) eventually stays.

## What is proved

`WorkflowProofs` proves of the engine, for all values of the constants under the
assumptions of `WorkflowEngine` (`NoRef` is no reference, the stop guard is
positive and below half a turn, write outcomes are among the three, `NoRecord` is
no record):

- `TypeCorrect`: `Spec => []TypeOK`
- `Coherence`: `Spec => []RuntimeCoherent`
- `GuardAgreement`: `Spec => []UpgradeGuardAgrees`
- `RecoveryStopsUntilRestart`: `Spec => PendingRecoveryStopsUntilRestart`

All rest on one inductive invariant, `IInv`. `RuntimeCoherent` is not inductive
by itself: the states `STARTING`, `PAUSING`, `RESUMING` and `STOPPING` exist only
inside a handler, and a record holding one would make the boot path mirror a
running session that is not there. `IInv` adds that both records are in a state
a handler can return in, and that the guard's flags are clear while the power is
off. The proof has one lemma per group of actions over lemmas for the parts the
handlers share (finishing a settlement, persisting, capturing, promoting).

Its second part is about what outlives a power loss. It assumes no more of the sector:
`FlashOutcomes` may be any of the three, also `{"erase_failed"}` alone, which is the
driver linked today and of which these theorems say next to nothing, as `saved` is
false from the first save on. It proves, again for all constants:

- `Durability`: `Spec => []RecoveryDataDurable`
- `InterruptedNotForgotten`: `Spec => []InterruptedSessionKept`
- `NoneBeginsEarly`: `Spec => AccountedBeforeRestart`
- `EngineImplementsLifecycle`: `Spec => ImplementsLifecycle`, if the debounce is
  not 0

The argument has three layers. Durability, which speaks of the record only while
`saved` holds, is inductive beside `IInv`: a save that succeeds makes up for all
before it, and a power loss after one that failed clears what was promised. With it
`KInv` shows that a session still owed is, once the record is restored, the
pending recovery in RAM, which nothing but its report clears. `SInv` is about the
clock: less than a stop guard after an end the settlement is open and its deadline
lies at least the rest of the guard ahead, modulo the counter, restarts included;
and a settlement carried past its deadline, which only a deadline of 0 brings
about, was opened at this very clock value. The debounce then keeps a start from
coming before the next tick ends that settlement, which is why the refinement needs
one: without it a start could end a settlement and begin a session in one step.

Its third part is about `WorkflowControl`, for all tokens and module commands, over
any sector:

- `ControlImplementsEngine`: `ControlSpec => Spec`, so that all of the above
  holds in the whole controller
- `ControlTypeCorrect`, `TokenOwnership`, `PumpUnderControl`:
  `ControlSpec => []ControlTypeOK`, `[]TokenBelongsToSession` and
  `[]PumpFollowsSession`
- `HeldCard`, `OtherCard`: `ControlSpec => HeldCardDoesNotToggle` and
  `OtherCardHasNoEffect`

What holds it together is `YoungIsDebounced`: while a session is younger than the
debounce its begin is the last action, and no longer ago than the session is old. A
pause or resume would break it, but is itself debounced; and so is a stop.

`OtaUpgradeProofs` proves, for every set of packages, region and chunk size (under
the assumptions that `NoManifest`, `NoContext` and `Erased` are none of the values
they stand beside, and that a chunk is not empty):

- `OnlyTheAnnouncedImage`: `Spec => []VerifiedBeforeSwitch`
- `NothingLeftBehind`: `Spec => []NothingHeldIdly`, both `ContextOwned` and
  `ManifestHeld`
- `ResultBelongs`: `Spec => []ResultOfLastEnded`
- `RecordIsEarned`: `Spec => []RecordEarned`
- `TypeCorrect`: `Spec => []OtaTypeOK`

`VerifiedBeforeSwitch` says nothing of a download under way; its `IInv` adds
`HashCoversRegion`: while the hash is fed it is no longer than the offset, and when
it is as long it holds, block for block, what is in the region. An update of the
hash that is lost leaves it too short for good, so such a package never matches a
digest of the announced size. The step that carries the argument, one more chunk,
is the lemma `HashKeepsCovering`. `RecordEarned` follows from `RecordInv`: a share
is recorded only while the download runs, no cut to a byte makes it larger than what
was done (`PercentEarned`), and what was done is in the region.

`UartFifoProofs` proves, for every size of the ring and any number of bytes (under
the assumptions that the ring has two slots at least and a byte may arrive):

- `UartTypeCorrect`: `Spec => []UartTypeOK`
- `OrderOfArrival`: `Spec => []DeliveredInOrder`
- `NothingElseLost`: `Spec => []LossOnlyByExcess`

`DeliveredInOrder` speaks of bytes that are out; its `IInv` says what may come next:
the bytes in the ring, in the reader's hand and in the register are in this order
of age, none older than the last one delivered, and none that one again unless for
the first time. Where the reader is between two accesses, either the handler has not
moved the head since it was loaded, or it has, once, and the slot the reader is at is
now the gap of the ring (`Passed`). `LossOnlyByExcess` needs more, because the head
the superloop stores may skip a byte: the one it hands out had been given up by the
handler, and counted, so the next one is lost in its place. `LossInv` counts that
byte from the moment the other is out of danger. A byte that `ClearError` throws away is counted like one that found
the register full.

`Loops` is what makes the loops of the code accessible. The provers cannot
instantiate an induction theorem, which takes a formula, but they know that a
nonempty set of naturals has a least member; so the induction is over a set, and
what is to be shown is put into the definition of the set. From that follow that a
recursive function with a measure that falls satisfies its equation
(`RecursionExists`), and that whatever each turn of a loop keeps, the loop keeps.

`FrameStreamProofs` proves, for every size of `c->rx` and `s_nc_json`, every burst,
every number of digits of a length, any frames and any losses (under the assumptions
of `FrameStream`, of which the bounds speak below):

- `StreamTypeCorrect`: `Spec => []StreamTypeOK`
- `InOrderOfSending`: `Spec => []TakenAsSent`

`TakenAsSent` says nothing of what is still to be taken. `IInv` adds that, while
nothing is lost, buffer and line together are a `Stream`: every byte stands for what
was sent where it says, the next byte is the next of its frame, and behind the end
of a frame another begins. Only the first frame may have lost its front, to an
overflow or to the buffer's garbage collection. At its head `LengthRead` applies: a
length is read right where one is, and anywhere inside a frame what is read exceeds
the buffer, so that the receiver drops a byte and comes to the next frame, never to
a false one. The length is a sum over the digits (`SumsAreCuts`), the dispatch loop
a recursion over the calls left (`DispatchStays`).

`NetLinkProofs` proves, for every set of endpoints, bound of the inbox, backoff and
width of the counter:

- `LinkTypeCorrect`, `LayersInStep`, `EndpointFollowed`, `OneRegistration`:
  `Spec => []LinkTypeOK`, `[]LayersAgree`, `[]ConnectedWhereConfigured` and
  `[]OneRegisterAtATime`
- `DialsApart`, the safety half of `DialsInTime`

A poll handles all messages that wait, each of which may close the connection or
rewrite the configuration; its lemma `DispatchStays` reduces the poll to one
message. `IInv` adds to the properties that the loaded configuration and the
endpoint last asked for are one (`Follows`), that an acknowledgement on its way is
the only one and leaves nothing unanswered (`InFlight`), and what the time of the
last dial says of the time since (`DialNoted`).

`ReportingProofs` proves, for every set of runtime rules, sizes of names, levels of
the battery and width of the counter:

- `ReportingTypeCorrect`, `PlatformHears`, `PictureKeptClose`:
  `Spec => []ReportingTypeOK`, `[]NeverSilent` and `[]ChangeReachesPlatform`
- `VitalsKeepTheGap`: `Spec => VitalsPaced`

What the properties count in seconds the scheduler keeps as time stamps that wrap.
`IInv` says for each of them that its age is below its interval and that no more
seconds have been counted without a report than the stamp is old (`Keeps`); that
holds through each of the seven parts of a tick, in the order of the code, and `Part`
is what they have in common. `DeltaKeeps` is the bound of the gap, which holds only while
the baseline is what the platform has been told: vitals that never went out note one,
too.

`CardReaderProofs` proves, for all messages, outcomes, limits, debounce windows,
prompts of the platform, widths of the clock and any number of swipes:

- `ReaderTypeCorrect`, `NothingWholeStays`: `Spec => []ReaderTypeOK` and
  `[]NothingWholeLeft`
- `SwipesAreFound`: `Spec => []EverySwipeFound`
- `EventsArePaced`: `Spec => EventsPaced`
- `PromptsDoNotOverlap`, the safety half of `PromptsInTurn`

Assumed are windows that fit into a turn of the clock, a `TokenCap` above the shortest
number, a `LastCap` that is no larger, a line longer than a frame and a buffer longer
than a line, and of the messages (`MessageAssumption`) that each is a
frame with a right check byte, with an end or without, or a line of letters that fits.
The parser is a recursion over the buffer; as every attempt shortens it, `Parsed` solves
its equation (`ParsedFacts`, by `Loops`), and what it leaves is incomplete
(`ParsedSettles`). Two bytes, all a tick can read, complete one token at most
(`OneToken`), so a tick sends one event at most. `ReaderInv` adds to the types that
the code's times are those of the history: the last event was `waited` ago
(`EventNoted`), the voice is held for what is left of `Hold` (`HoldNoted`).
`EverySwipeFound` speaks only of the moments when nothing is on its way. `SwipesKept`
says where the bytes of the last message or two are meanwhile, in four cases: all
found; the end of one frame in the register while the next message is on the line;
one message spread over buffer, register and line; a whole one in buffer and register
with the next behind it. That each step leads from one case to another rests on
what parsing a beginning (`BegunWaits`), a whole message (`BodyParsed`) and a late end
(`EndParsed`) comes to, each with the byte that may already follow.

Only model-checked is liveness, which is beyond the prover: `ReturnsToService`,
`StreamSettles`, `DownloadEnds` and the parts of `DialsInTime` and `PromptsInTurn` that
say what must come about; their other halves are `DialsApart` and
`PromptsDoNotOverlap`. Every other property the passing runs check is a theorem.

## Plan

Modelled, in the order of importance: sessions and their durability, the ways to
command them, the platform link, the upgrade, the card reader and the prompts, the
reports. Proved: the engine and its refinement of `SessionLifecycle`, its composition
with pump, platform and cards, the upgrade, the receive ring, the framing, the
link, the card reader with its prompts, and the reports. Left:

1. The composition of `OtaUpgrade` with `WorkflowEngine`. The upgrade guard is asked
   at `PREPARE` only, and no document says whether a commit may fall into a session
   begun since; the promise has to be settled before there is a property to check.
2. Abstract specifications: an atomic register of the endpoint implemented by
   `ConfigStore`, a lossy queue of messages implemented by `FrameStream`.
3. The reset of the modem's ring when its speed is set, together with the bring-up
   that sets it.

## What is not modelled

- Register-level drivers, clocks and LEDs: nothing but the hardware decides what
  they do. The reset of the ring by `bsp_uart_modem_set_baud` belongs to the bring-up,
  before any payload.
- The AT dialogues of the modem's bring-up, whose late answers may be taken for the
  next command's: they are timing against a device of which the code tells little;
  in `NetLink` a dial succeeds or fails as a whole.
- JSON formatting and parsing, apart from the room it takes in `Reporting`; a
  REGISTER too long for its buffer.
- Queries (`proto_query.c`): they read, and change nothing but the answer.
- Sensor modules, each a value set and read.
- The bootloader, a jump to a fixed address.
- The build tools and the documents under `projects/` and `shared/`, which are not
  firmware.
