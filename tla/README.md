# A formal model of Apogee-FC

Apogee-FC is a simulated CubeSat flight computer (firmware under `flight/` and
`common/`) and a ground client (`host/`).  These TLA+ modules model its protocol
stack and its control logic, check them with TLC on small instances, and prove
the safety properties with TLAPS for every value of the parameters.  Paths below
are relative to the repository root; `common/` abbreviates
`common/include/apogee/`.

## 1. Inventory

| Part | State | Operations | Talks to |
|---|---|---|---|
| Frame codec (`common/frame_codec.hpp`) | none | `crc16_ccitt_false`, `encode`, `decode` | called by every codec, the stream decoder and the ground client |
| Frame stream decoder (`common/frame_stream_decoder.hpp`) | `buffer_` (76 bytes), `size_` | `push`, `finish`; inside `push_byte`: hunt for the sync pair, `process_buffer`, `reject`, `rescan`, `align_to_sync` | fed by the UART (one byte at a time) or by the socket / a file; calls a handler for each event |
| Health monitor (`common/health.hpp`) | none | `evaluate` | readings in, fault mask out |
| Fault manager (`common/fault_manager.hpp`) | `faulted_`, `latched_fault_mask_`, `healthy_streak_` | `update` | emits `FaultDetected` / `HealthConfirmed` |
| Flight mode (`common/flight_mode.hpp`) | `mode_` | `dispatch` | driven by boot, fault manager, command processor |
| Command processor (`common/command_processor.hpp`) | references to mode and configuration | `process` | decoded command in, acknowledgement out |
| Telemetry collector, sensor source (`common/telemetry.hpp`, `sensor_source.hpp`) | `next_sequence_`, `next_sample_` | `capture`, `read` | called by the main loop |
| Flight main loop (`flight/src/main.cpp`) | all of the above, the telemetry deadline, UART readiness | drain commands, sample and report at the deadline, catch up, sleep 10 ms | UART4 both ways |
| Command / telemetry codecs (`common/command_codec.hpp`, `telemetry_codec.hpp`) | none | encode and decode of the three messages | frame codec |
| Ground client (`host/include/apogee/ground_client.hpp`) | `next_sequence_`; a stream decoder, `decoded_messages_`, `malformed_input_` | `parse`; `feed`, `finish` | terminal lines, socket bytes |
| Ground client loops (`host/apogee_ground_client.cpp`) | socket, `poll()` set, buffered standard input | `run_live`, `run_offline`, `send_all` | TCP to the simulator's UART4 |
| Project identity, build files, overlay, simulation script, tests | – | – | – |

What is hard here:

* **Resynchronisation.** The byte stream may hold noise, cut frames and sync
  pairs inside payloads.  A false header can swallow a whole frame and the start
  of the next one, all in one 76-byte buffer indexed without a bounds check.
  Correct: no overrun, no intact frame lost or duplicated, bounded delay,
  every `push` returns, losses are reported.
* **Two writers of the mode.** The fault manager and the ground both move the
  flight mode, and neither tells the other.  Correct: the mode always agrees with
  the fault latch and the last command; Nominal is earned by three healthy
  samples; a Safe mode granted to the ground holds while there is no fault.
* **Time.** One thread drains commands, samples, transmits with polling and
  sleeps; it can be late by any amount, and a command may restart the deadline.
  Correct: the deadline is within one period, catching up ends, samples are not
  squeezed together, telemetry keeps coming.
* **What the ground believes.** State changes before its acknowledgement is
  sent; telemetry is composed from several objects.  Correct: frames do not
  contradict themselves and together tell what is in force.
* **Damage on the line.** Only the CRC and the size rules stand between a
  flipped bit and a wrong command.
* **Sessions and fragments.** A client can break off inside a frame and a new one
  starts numbering at 1, while the flight computer's decoder knows neither
  sessions nor timeouts; its UART is not read while it transmits or sleeps.
  Correct: no fragments combine into a command, none is processed twice or out of
  order, and an intact command is processed as soon as it is in, unless left-over
  bytes read as the header of a frame that was never sent, or are completed to a
  frame by its own.
* **One thread, two inputs.** The live client waits for the socket and for
  standard input with `poll()`, but reads lines through `std::cin`, which buffers
  and blocks.  Correct: lines are sent whole, in order, numbered without a gap;
  both inputs are served; what was received is printed before an orderly end.
* **The verdict on a file.** The offline exit status is computed from two fields
  that many events update.  Correct: it is a property of the file.

`PROJECT.json` lists each hazard at its line with the properties that cover it,
or the reason none does yet.

## 2. Modules

| Module | Models | Kind |
|---|---|---|
| `FrameCodec` | the frame layout, the CRC, `encode`, `decode` | operators |
| `FrameLine` | one frame from `encode` over a damaging line to `decode` | state machine around `FrameCodec` |
| `FrameStreamDecoder` | the stream decoder, for any geometry and any `decode` | state machine |
| `FrameStreamDecoderProofs` | theorems about `FrameStreamDecoder` | proofs |
| `FlightRules` | health rules, fault manager, flight mode, command processor | operators |
| `FlightComputer` | `main()`, with the objects of `FlightRules` as its state | state machine over `FlightRules` |
| `FlightComputerProofs` | theorems about `FlightComputer` | proofs |
| `ModeContract` | what the flight mode promises | abstract specification, implemented by `FlightComputer` |
| `MessageCodecs` | commands, acknowledgements, telemetry and their frames | operators over `FrameCodec` |
| `MessageExchange` | one message from its encoder, or from a stranger, to both receivers | state machine over `MessageCodecs` |
| `GroundStream` | the client's stream processor and `run_offline()` | state machine over `FrameStreamDecoder` |
| `GroundStreamProofs` | theorems about `GroundStream` | proofs, on top of the decoder's |
| `GroundClient` | `run_live()`, `send_all()` and the command sequencer | state machine |
| `GroundClientProofs` | theorems about `GroundClient` | proofs |
| `CodecProofs` | lemmas about the checksum, the fields, `encode`, `decode` and the message codecs | proofs |
| `FrameLineProofs` | theorems about `FrameLine` | proofs, on top of the codec's |
| `MessageExchangeProofs` | theorems about `MessageExchange` | proofs, on top of the codec's |
| `CommandChannel` | a channel that may only lose messages | abstract specification, implemented by `GroundLink` |
| `GroundLink` | clients, serial line, `drain()` and the command handler, byte by byte | composes `MessageCodecs` and `FrameStreamDecoder` |
| `GroundLinkProofs` | theorems about `GroundLink` | proofs, on top of the decoder's and the codec's |
| `MC...` | constants for TLC | instances |

In the specification modules a definition marked *seeded defect* is not part of
the model: it is a plausible bug, which the named property must detect when it
takes the place of the definition that follows it (`mutants` in `PROJECT.json`).

### FrameStreamDecoder

`buffer` is `buffer_[0 .. size_-1]`.  `expected_size_` is recomputed before each
use and is the operator `FrameSize`.  `pc` tells whether the decoder is between
two bytes (`push`), inside the `while` of `process_buffer` (`process`), or ended
(`closed`).  One action per path:

| Action | Code |
|---|---|
| `HuntFirst`, `HuntSecond`, `Store` | the three cases of `push_byte` |
| `AwaitMore` | the two early returns of `process_buffer` |
| `Reject` | `PayloadTooLarge` or a failed `decode`: `reject()`, then `rescan()` |
| `Deliver` | handler call, removal of the frame, `align_to_sync()` |
| `Finish` | `finish()`, which may be called again |

The searches of `rescan` and `align_to_sync` are one predicate, *the first
viable offset*: a sync pair, a lone first-sync byte at the end, or the end.
`rescan` starts at 1, `align_to_sync` at 0.  The two reports differ, as in the
code: `align_to_sync` announces discarded bytes (possibly 0 of them), `rescan`
drops them under the rejection already reported.

History variables: `received` (the whole stream), `delivered` (frames and their
positions), `tally` (where each byte went), `malformed` (some event was not a
decoded frame; the ground client's `malformed_input_`).

### FrameCodec and FrameLine

The CRC register is the set of its 1 bits; `Checksum` is the outer loop, `Absorb`
one turn of it, `ShiftOut` one turn of the inner one.  `DecodeStatusOf` keeps the order of the
checks.  The frame `decode` returns is computed only when the status is `Ok`, as
in the code.  `FrameLine` has the environment's actions `Flip`, `Cut` and
`Lengthen` between `Send` and `Receive`.

### FlightRules and FlightComputer

The fault mask is the set of faults.  A method of a passive class is an operator
from its state to its next state and result: `Update` (fault manager),
`Dispatch` (mode), `Process` (command).  `FlightComputer` has one action per
stretch of `main()`:

| Action | Code |
|---|---|
| `Boot` | `BootCompleted`, first deadline |
| `HandleCommand`, `IgnoreDamaged` | the stream-event handler called from `drain` |
| `Drained` | `drain` returns: nothing to poll, or the UART is not ready |
| `NotDue`, `SampleAndReport` | the deadline check and its two outcomes: read, evaluate, update, dispatch, capture, transmit |
| `CatchUp` | one turn of the `do … while` that advances the deadline |
| `Wake` | `k_sleep` returns |
| `Arrive`, `Elapse` | environment: an event reaches the UART, a millisecond passes |

Absolute times are replaced by two differences, so that the state stays finite
without bounding the run: `remaining` is the deadline minus the uptime, `lag` the
uptime minus the `now` captured by the loop, which is stale once the telemetry
has been transmitted.  `Elapse` may happen between any two steps, so the loop may
be late anywhere.  A stream event is one element of `rx`: a decoded command, or
`Damaged` for everything the handler only logs.  With `ready` false nothing is
received or sent, but sampling and mode logic go on.

History variables: `healthy_run`, `dwell` (time since the first healthy sample
of the run), `asked` (Safe was granted to the ground and there was no Nominal
since; the code keeps no such record), `ground` (mode and period that the sent frames imply).

`ModeContract` says the same of the mode alone: in Safe there is a *reason*, a
fault or the ground; a fault lasts until three healthy samples in a row, and only
in Nominal can the ground ask for Safe.  The refinement mapping takes `reason`
from the fault manager's flag and `asked`, and `healthy` from `healthy_run`.

`CommandedSafeHolds` says what a granted Safe is worth.  `enter_safe_mode()` accepts the command in
Safe without a change, and `update()` knows nothing of grants.  So while no fault is
being handled the grant holds, and while one is being handled, older or newer than
the grant, recovery ends Safe at the third healthy sample, no earlier and no later.

### MessageCodecs and MessageExchange

An encoder is a status and a frame, a decoder a status and, if it is `Ok`, a
message; both keep the order of the checks.  The enumerations are records from
enumerator to code; an undefined enumerator is a name outside them.  TLC's integers have 32
bits, so the 64-bit uptime is its four 16-bit words and the fault mask the set of
its bits.  In `MessageExchange` an encoder refuses a message or sends its frame,
or a stranger sends a frame that is valid as a frame; then the flight computer
reads it with `decode_command` and the ground client with the decoder its `switch`
on the message type selects.  Three known frames of the repository's tests are
assumptions of the MC module, which TLC evaluates.

### GroundStream

`GroundStream` extends `FrameStreamDecoder`: each of its steps is a decoder step
together with what `handle_event()` makes of its events.  A frame is handed to the
two printers as `TypeOf` and `PayloadSound`, parameters that stand for the message
codecs.  A step of the decoder raises at most one frame event and any number of others, and
the counter and flag do not depend on their order.  `EndOfFile` is `finish()` and the
verdict, `ReadError` a file that cannot be opened or read on.

### GroundClient

`pc` is the place in `run_live()`:

| Action | Code |
|---|---|
| `Connect` | `connect_tcp()` |
| `Poll`, `PollFails` | `poll()` and its failure |
| `NothingToReceive`, `Receive`, `ReceiveEnds` | the `POLLIN` block of the socket |
| `CheckSocket` | the tests for `POLLERR` / `POLLNVAL` and `POLLHUP` |
| `Refill`, `EndOfInput`, `HandleLine` | `std::getline`: filling `std::cin`'s buffer, failing, returning a line; `parse()` and its three outcomes |
| `Send`, `SendFails` | one `send()` of `send_all()`, and its failure |
| `CheckStdin` | the final test of the flags of standard input |
| `ServerSends`, `ServerTakes`, `ServerGoes`, `Type`, `TypeHalf`, `CloseStdin` | environment: the other side of the socket, and the user |

Standard input is a terminal, a pipe or a file.  They differ in what `poll()`
reports and in how much one `read()` takes, and that is where the client's
behaviour differs.  The server may close its side, hang up, or break the
connection.  A line is its word and its arguments.

### GroundLink

The client side is one action per frame: it takes the next number, encodes, and
puts the first `count` bytes on the wire; fewer than all of them means that the
session broke off there.  `NewSession` is a new process, whose sequencer starts at
1.  `Overrun` is a byte lost in the UART.  `PollIn` and `ProcessBuffer` are the
flight computer's `drain()` around the actions of `FrameStreamDecoder`, here
instantiated with the real geometry and the real `decode`; `HandleEvent` is the beginning of
the handler, up to the command processor.  For `CommandChannel`, `sent` is the
sequence of frames begun and `got` that of commands processed.

`PromptUnlessHeldBack` says when a command is served: as soon as all its bytes are in.  A
fragment's own header is no excuse.  It announces the 13 or 17 bytes of a command frame; the
decoder has at least 6 of them when it reads the length, and a whole command behind it
brings 13 more, so the candidate is complete, fails its checksum, and the rescan finds the
command.  Two exceptions remain, and both are named:

* `HeldBack`: at this moment the decoder waits on left-over bytes, of a broken frame or of one swallowed,
  that read as a header but are not the header their frame was sent with;
* `Swallowed`: a frame that `decode` accepted began before the command and took its first
  bytes, because they completed what was left over.

The second looks like a matter of luck with the checksum but has an ordinary case.  About one frame in
256 ends in the first sync byte.  If exactly its last byte is missing, the first byte of the next
command completes it: the broken command is processed after all, and the next one, without its first
byte, is lost.

## 3. Runs

| Run | Question | Bounds |
|---|---|---|
| `decoder` | Is the decoder's output the left-to-right parse of every stream? | 3 byte values, frames of 4 to 9 bytes, streams up to 12 bytes |
| `flight_safety` | Do mode, faults, telemetry, deadline and the ground's picture agree under every interleaving? | periods 2..3, commands with periods 1..4, one waiting event, up to 4 ms late, 3 scripts |
| `flight_liveness` | Does the loop make progress and recover? | the simulated table, ping and safe |
| `flight_postponed` | Does telemetry keep coming when the ground keeps setting the period? It does not. | the simulated table, one period command |
| `messages` | Is every message returned field for field, and nothing else taken for one? | fields at their edges, all enumerators and an undefined one, 20 payloads under each of 3 types |
| `ground_offline` | Is the exit status a property of the file? | frames of 4 to 6 bytes, files up to 10 bytes |
| `ground_live` | Are lines sent whole, in order and once, whatever standard input is? | 7 lines, 3 typed, files of 1 or 3 lines, 2 waiting reads, frames in 2 pieces, numbers modulo 3 |
| `ground_live_liveness` | Are both inputs served? | 2 lines, 2 typed, 1 waiting read |
| `command_link` | Do the clients, the line and the decoder implement a lossy channel? | 2 frames of 13 or 17 bytes, both broken off anywhere, 2 bytes lost |
| `link_recovery` | Is an intact command behind a fragment processed as soon as it is in? | 3 frames of 13 or 17 bytes, one broken off anywhere or 1 byte lost |
| `codec` | Does `decode` undo `encode`, and refuse all damage? | 7 frames (3 of them refused by `encode`), three flipped bits in the empty frame, two in frames of 1 to 3 payload bytes, one in the 76-byte frame, any cut, one byte (0 or 165) added at the end |

Why the bounds suffice:

* `decoder`: the three bytes are the first sync byte, the second one, and a
  neutral one; read as a length they announce an impossible, a maximal and an
  empty payload.  Twelve bytes hold three complete frames, a false
  header of the maximal length at byte 1 that holds back an intact frame at byte 4 for as long as
  `BoundedDelay` allows, a false header that swallows a frame and the beginning of another, and
  a rescan that finds a lone first-sync byte.  The properties are also proved without bounds.
* `flight_safety`: with two periods the deadline can be shortened and extended,
  and both range checks fail once; lateness exceeds the longest period, so
  catching up takes more than one turn.  The scripts have a fault in each
  threshold, recoveries that are interrupted, readings exactly at the limits, and a
  fault that never clears.  The telemetry sequence wraps (modulus 2).  Both sensor
  tables and the queue depth are parameters of the proofs.
* `messages`: each foreign payload is a valid one, one byte shorter or longer, or with
  one undefined code, and each is tried under each message type.
* `ground_offline`: ten bytes hold two messages and a stray byte, a message behind a
  false header, and every truncation.  Its properties are also proved without bounds.
* `ground_live`: three lines cover a valid, an invalid and a last one in any
  order, two reads an end of stream behind unread data, and modulus 3 a wrapping
  number.
* `command_link`: both frames may be broken off after any number of bytes, with two bytes lost anywhere.
  One period, 347298469, begins with the sync pair, and in the frame numbered 1 the checksum behind it
  reads as a length of 23, so that a broken frame really ends in a header that was never sent.
  Its requests have no frame that ends in the first sync byte.  A command counts as the
  one whose last byte completed it, so a frame completed by its successor's first byte
  would be a message under the wrong number, which `CommandChannel` does not have.
* `link_recovery`: the broken frame may be any of the three, so that one or two intact commands follow.
  Here the ordinary case of swallowing occurs as well: the frame of period 314 with number 1 ends in the first
  sync byte.  Broken are one frame and one byte at most (`MaxBroken`, `MaxLost`); each of the three
  outcomes occurs, and a command held back by the false header above (35 bytes) is served
  once the frames behind it supply that many.  The theorems have no such bounds.
* `codec`: the layout and the CRC are the real ones.  Sequences stop at 2^31-1,
  the largest integer TLC holds.

Fairness.  `FrameStreamDecoder`: weak fairness of the `process_buffer` loop,
because `push` is synchronous code.  `FlightComputer`: weak fairness of the main
thread, which is the only one, and of time.  Nothing is assumed of the ground or
the line.  The loop may be starved inside `drain` when bytes arrive as fast as it
reads them; therefore `TelemetryKeepsComing` is conditional on the loop coming
back to the deadline check, and `RecoversAgain` on samples being taken.

`GroundClient`: weak fairness of the client's one thread, and of the server's
reading its socket, without which `send()` may block for ever.  Nothing is
assumed of the user or of what the server sends.

Deadlock is checked except where the system stops: `codec` and `messages` end when
their one frame is judged, `ground_offline` and the two client runs when the program exits,
`command_link` and `link_recovery` when the bounded frames are through.

### Finding

`main.cpp:130` says that telemetry *follows an absolute deadline*.  An accepted
`SetTelemetryPeriod` replaces the deadline with the present plus a full period
(`main.cpp:162`), so a ground that repeats the command faster than the period
keeps the deadline ahead of the clock.  `flight_postponed` shows the lasso: the
loop runs, commands are acknowledged, the deadline check happens again and again,
and no sample is taken, so a fault is not noticed either.

Other observations about the client, with no statement of the repository to compare them
with.  `LinesServed` excludes pipes: `printf 'ping\nsafe\n' | apogee_ground_client
--connect ...` sends `ping` only, since `std::getline` takes both lines into its
buffer, and then `POLLHUP` on the pipe ends the session; as long as the pipe stays
open, the second line waits for the next write.  A regular file has no such problem, because it always polls
as readable.  `SocketServed` excludes an unfinished line in a pipe, on which `std::getline`
blocks.  An invalid line skips the test for a hang-up of standard input for one turn.
On `POLLHUP` (unlike on an end of stream) data still in the socket is dropped, which
is why `FinishedLast` speaks of the orderly end.

An observation about the link.  A period command whose period begins with the sync pair and whose
checksum reads as a length of up to 64 hides a header in its last six bytes.
If a byte before it is lost, the decoder rejects the frame, finds that header and waits for up to 70
more bytes: the commands sent meanwhile are processed late, after a rescan, or, should
the false frame's checksum fit by accident, never.  Nothing in the
repository promises otherwise.  This and the fragment that lacks only a last byte 165 (section 2) are instances of
the two exceptions in `PromptUnlessHeldBack`, and `PromptTheorem` shows that there are no others.

Smaller observations, none contradicting a statement of the repository:
`align_to_sync` can report zero noise bytes; the checksum is stored
little-endian, so the CRC-16 keeps its detection of two flipped bits, of odd numbers and of
damage within one byte (`SmallDamage`) but not the textbook burst guarantee; after a late loop two samples may be one
millisecond apart, so recovery is only guaranteed to take longer than one period
and not two; a Safe mode granted while a fault is being handled is ended by recovery although it was
acknowledged as `Accepted`, and one granted while healthy ends only after a new fault and a
recovery, there being no command back to Nominal (`CommandedSafeHolds`).

## 4. Proofs

Eight modules hold proofs.  `FrameStreamDecoderProofs` and `FlightComputerProofs`
prove every safety property of the runs `decoder` and `flight_safety`,
`FlightComputerProofs` also the refinement of `ModeContract`; `GroundStreamProofs`
and `GroundClientProofs` every invariant of `ground_offline` and `ground_live`;
`MessageExchangeProofs` every invariant of `messages`; `GroundLinkProofs` the invariants of
`command_link` and `link_recovery`; `FrameLineProofs` three of the four of `codec`.  The last three rest on
the lemmas of `CodecProofs`.  Each theorem holds for
all constants that satisfy the named assumptions.

**Decoder.** Assumed: the two sync bytes differ, the length bytes lie inside the
header behind the sync bytes, a minimal frame is at least a header, and the length
is a natural number.  `Decode` is arbitrary.  The inductive invariant `IInv` adds three
facts to the properties.  `Shape`: the buffer is the unread end of the stream and starts
with the sync bytes.  `Waiting`: between two bytes it holds no complete and no
oversized candidate, so it is shorter than the frame it waits for, which gives
`NoOverrun`.  `NoSurplus`: until something was rejected the buffer never holds more
than the frame being collected, so the zero-byte noise report of `align_to_sync` can
only follow a rejection, which `MalformedIffLoss` needs.  `NothingLost` is carried by the lemma
that a position the search skips is dead in the whole stream, not only in the
buffer, because what makes it dead does not depend on bytes yet to come.
`BoundedDelay` follows: an intact frame that is not dead cannot have been passed
uncovered, and it cannot still be in the buffer when a maximum-size stretch has
been pushed since its first byte, for the buffer would be full.

`HiddenByHeadersOnly` is sharper.  `Framed` adds to the invariant that a delivered frame is
exactly as long as its own header says.  Then an intact frame that has come in whole
and was not delivered between two bytes is one of two things: covered by a delivered frame, which began
at a header before it, or in the buffer behind a candidate that is still waiting, whose
header came before it and announces a frame that reaches into it.

**Flight computer.** Assumed: `1 <= minimum <= maximum`, the default period in range,
non-empty scripts, well-formed commands, natural bounds.  The properties are
inductive together with four facts.  `Booting`: before boot completes nothing has
happened.  `StreakCounts`: while faulted, the fault manager's streak is the
history's count of healthy samples and below three, otherwise there were three
and the latch is empty; `NominalIsEarned` is this and `ModeAgreesWithFaults`.
`LagBounded`: while catching up the deadline is not after the captured `now`.
`RecoverySpan`: how far the deadline lies behind the first healthy sample of a
recovery.  After the first sample the deadline is later than that sample; after the
second, the time passed and the time to the deadline together exceed the shortest
period, because catch-up and a new period command both add at least that much.
`RecoveryTakesTime` follows at the third sample.

`ContractImplemented` uses the same invariant.  `SampleCases` lists what a
sample can do to manager, mode and `asked`; with it a sample is one of the
contract's two sample steps, an accepted `EnterSafeMode` in Nominal is a
`GroundRequest`, and every other step leaves mode, reason and `healthy_run` alone.
`SafeHolds` uses it too.

**Ground client.** Assumed: the modulus is at least 2, a frame has a piece, there
is room in the socket.  The invariant adds `Running` (no exit status before the
end) and `HangUpLasts` (a reported hang-up is still there when the flags are
tested).  `WholeFrames` holds because only `Send` moves `offset` and stays where it is
until the frame is whole; `FinishedLast` because `recv()` returns 0 only on an empty queue, and
nothing arrives any more once the server is gone.

**Offline mode.** No assumption beyond the decoder's; the two message codecs are
arbitrary.  `NextIInv` of the decoder's proofs carries over, since every step of
`GroundStream` is a decoder step or leaves the decoder alone.  What is added is
`Exact`: an anomaly was reported exactly when some byte decided on lies in no delivered
frame.  `MalformedIffLoss` compares counters; to get from counters to bytes, every
step is shown to be `Quiet` (no frame, and any progress is a loss at an uncovered
position, since delivered frames end before it) or to hand over a frame that covers exactly
the next bytes.  `Verdict` ties the processor's two fields to what was delivered, and
`StatusSound` follows at the end of the file, where every byte is decided on.

`ExitStatusExact` says the same without the decoder's books: 0 exactly when the file can
be cut into printable messages, one after the other.  One direction reads the
cut off the delivered frames.  The other needs that the decoder finds the cut: by
induction over its pieces, each begins where the previous one ends, is intact, and
has been delivered, because `NothingLost` and `DeliveredSound` leave a position that
starts an intact frame and follows a delivered frame no other fate.

**Lines in order.** `SentInOrder` compares what is on the wire with the valid lines
taken.  The invariant relates the number of commands sent to the number of valid
lines among those taken; taking one more line adds itself, if it is valid,
at the end of that set and leaves the lines before it where they were.

**Frame codec.** Assumed (`FramesAssumption`): every field of a frame has its C++ type and
the payload array holds at least the bytes `payload_length` points into.
`CodecProofs` shows that the checksum is a 16-bit register whatever the bytes
are, that the 16- and 32-bit fields are read back as written, and that each check of
`decode` passes on the bytes of an encoded frame, field by field.  The invariant of
`FrameLineProofs` says what is on the line: the bytes of the frame, or a proper
beginning of them, or all of them and one more, and, as long as its size is right
(`Damage`), each byte is the one sent with those of its bits turned that were
flipped.  `EndsAgree` is the case without damage; `SizeFirst`
follows because the length field survives a cut that leaves twelve bytes, and a shorter
one fails the first check.

`SmallDamage` is about the CRC itself.  The checksum is linear over exclusive or: the registers of
two byte sequences differ by a register of their own (`IsDifference`), which starts
at 0, takes in at each byte the bits flipped there and is shifted eight times
(`Turned`).  A damaged frame that `decode` accepts has its sync pair intact and its length
field unflipped, and the flips in its stored checksum equal the final
difference (`AcceptedDifference`).  Then:

* within one byte, the difference is 0 before that byte and, the shift being injective,
  not 0 from there on; a flip in the stored checksum alone meets a difference of 0;
* two bits in different places leave a difference only if a power of x modulo the polynomial is
  a single bit; among the 16th to the 591st power none is (`NoSinglePower`), and
  a frame of 76 bytes has no bits further apart.  Every sixteenth power is computed, eight shifts
  to a step, and the injective shift carries the result to those in between;
* an odd number of bits: the polynomial has an even number of terms, so the shift keeps the
  parity of a register (`TurnedParity`), and the flips in the bytes and
  in the checksum have the same parity, hence an even sum (`OddRejected`).

The invariant carries the parity of the bits flipped in each byte along (`Counted`), which ties
the cardinality of the set to them.  `SmallDamageDetected` is stated in `FrameLineProofs` and not checked by a
run of its own: on the frames of `codec` it is part of `DamageDetected`.

**Messages.** Assumed (`MessagesAssumption`, `ForeignAssumption`): fields have their C++
types, enumerations may hold any value, and a stranger's frame is one that
`encode` accepts.  The invariant keeps where the bytes come from (`Carried`) and that
each receiver took what its decoder made of them (`Taken`).  `MessagesArrive` is the
composition of each message encoder with its decoder through the frame codec's lemma,
with the two's complement of the temperature, the four words of the uptime
and the mask as a set of bits.  `NothingElseAccepted` runs the other way: from
the fields of an accepted payload the encoder makes the same payload.

**Command link.** Assumed (`LinkAssumption`): requests are those `parse()` makes, with
32-bit periods and no period in a command that takes none, and the numbers of a session
fit 32 bits.  `GroundLinkProofs` instantiates the decoder's proofs at the
real geometry with the real `decode`; the link's steps are the decoder's or leave it alone.

The invariant `LinkInv` looks at the line as a whole, `Line`: the bytes received followed by those
under way.  Polling moves nothing on it, sending extends it, an overrun takes one byte out.
`IsLine` says that the numbers of the frames never decrease along it (`InTurn`),
that each byte is one of its frame, in the frame's order (`Fits`), and that the bytes of an
intact frame are a stretch of it (`Stretch`).  `Answered` ties the commands processed to the frames
handed over, `TakenInOrder` is their order.

That two commands handed over come from different frames in ascending order is not obvious, because a
fragment can decode to something.  The decoder hands over disjoint stretches; the number of a
command is that of the frame its last byte belongs to; so two of them under one number would
put a whole stretch of at least 13 bytes inside the remains of one frame, behind its first
byte.  That frame has at most 17 bytes, and none of its bytes 2 to 5 is the first sync
byte, so that no room is left (`FramesInTurn`).

`PromptTheorem` looks at an intact command that is in, from `s` to `t` in the stream, between two bytes.
If the decoder has passed `s`, the decoder's `NothingLost` puts `s` into a frame handed over: either one
that starts at `s`, which is the command, since a header fixes its frame's length, or one that
starts before it, and then the command is swallowed (`CoveredFirst`).  Otherwise `s` is in the buffer,
behind what the decoder waits on, and `HeldBackByLeftovers` shows two things about that.  It is no frame's
own header (`OwnHeaderResolved`): one announces at most 17 bytes and is not complete, so at most 16 are
buffered; the command has at least 13 of them, so it would start among the first
four, where no command has a first sync byte but at its beginning.  And it is left over: if its frame were
intact, that frame would be in too, would not begin there, so would begin at a place decided on; the frame
was not handed over, as nothing handed over reaches past what is decided on, so it was swallowed.

`SwallowedByBreaks`: what is swallowed is swallowed by a frame that begins in a broken one or in a swallowed
one before it, for an intact frame that starts a frame handed over ends with it
(`SwallowerIsLeftover`); by induction some frame before was broken.  `CommandsFaithful`: a command whose last byte
lies in an intact frame cannot begin within it; it begins where the frame does and is the command, or
before it and has swallowed it.

`ChannelUnlessForged` says what remains to be asked of the refinement: only that
no stretch decodes to a command other than the one sent under its number (`Truthful`).  Without that
condition the refinement is not a theorem, and no proof could make it one: the remains of two
frames whose CRC-16 fits by accident are a command for any receiver, and a frame completed by its successor's
first byte is one under its successor's number.  `command_link` shows that
it does not happen among the frames it has.

Recursive functions.  The library's induction theorem takes an operator as
a parameter, which the provers cannot instantiate; where induction is needed, it is
stated for a set of natural numbers that contains 0 and the successor of each of its
members (`SetInduction`, from the well-foundedness of `<` on the naturals).  That is enough for
the fold over the bytes of a checksum and for lines and pieces counted by their index.
`Absorb` and `Checksum` are recursive functions of one argument for the same reason.

Only model-checked:

* liveness (`PushReturns`, `CatchUpEnds`, `TelemetryKeepsComing`, `RecoversAgain`,
  `LinesServed`, `SocketServed`), which is out of the prover's reach;
* `DamageDetected`: no theorem for `MaxFlips` in general, since four well chosen bits do pass,
  nor for flips in the length field combined with a cut.  What holds for every frame is
  `SmallDamageDetected`;
* `ImplementsChannel` without a condition, because with other numbers, longer losses
  or more frames the CRC-16 of a mixture can fit by accident; `ChannelUnlessForged` states its condition.

How many bytes an overrun takes depends on the UART and its driver; the 10 ms sleep is
longer than a command takes at 115200 baud.  The theorems hold for any number of lost bytes.

## 5. State of the plan

Done: all parts of the inventory that carry behaviour.  Each is a state machine or a set of operators that one
checks.  All state machines have proofs: every invariant of the runs but `DamageDetected` is a
theorem, and so is every safety property over steps except the unconditional refinement of
`CommandChannel`.  Two abstract specifications are shown to be implemented, one of them by
proof, the other by proof under the stated condition.

Possible extensions:

1. `StreamParse`, the left-to-right parse, as an abstract specification that
   `FrameStreamDecoder` implements; `DeliveredSound` and `NothingLost` already
   determine the output, and `HiddenByHeadersOnly` when it comes.
2. The downlink composed like the uplink: telemetry and acknowledgements through
   `GroundStream`, with a client that starts in the middle of a frame.

Left out: the project identity constants, build files, board overlay,
log and terminal texts, `EINTR` (the call is repeated), addresses and name lookup (one outcome, connected or
not), and the timing of the UART and of Zephyr's scheduler beyond *time may
pass between any two steps*.  Whether input can arrive as fast as `drain()` reads it, so that it
never returns, depends on the UART's driver and speed; the model leaves
it open and makes `TelemetryKeepsComing` conditional.
