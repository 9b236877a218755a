# TLA+ models of opendatacon (MD3 outstation, Modbus master, SimPort)

This directory holds TLA+ models of the parts of `src/` whose behaviour
depends on interleavings, lost messages, timers or arithmetic edges. TLC
checks them. Every module is written from the source. `PROJECT.json`
lists the source lines each definition models (`map`), the runs, the
mutants that show each checked property can fail, the findings and the
hazards.

## 1. The system and its parts

| Part | Source | State | Operations | Interacts with |
|---|---|---|---|---|
| MD3 dispatcher | `MD3OutstationPortHandlers.cpp` 83-160 | none | `ProcessMD3Message`: switch on the function code. Only 5, 6, 7, 8, 11 and 12 do anything. Every other code is a `break`; an unknown code is logged. | the two scan engines |
| MD3 analog engine (Fn5, Fn6) | same file, 163-281 | none of its own; it reads (word, delta) per channel from the point table | `DoAnalogUnconditional`, `DoAnalogDeltaScan`, `ReadAnalogRange`, `SendAnalogUnconditional/Delta/NoChange` | the point table |
| MD3 digital engine (Fn7, Fn8, Fn11, Fn12) | same file, 287-552 | reads and clears the per-point `Changed` flag | `DoDigitalUnconditionalObs`, `DoDigitalChangeOnly`, `DoDigitalScan`, `DoDigitalUnconditional`, `CheckBinaryChangeBlocks[GivenRange]`, `BuildBinaryReturnBlocks` | the point table (also written by the event bus), the resend cache |
| Sequence resend cache | `MD3OutstationPort.h` 161-166 | `LastDigitalScanSequenceNumber` (starts at 0), `LastDigitialScanResponseMD3Message`, shared by Fn11 and Fn12 | written by Fn11; read by Fn11 and Fn12 | the master's retries |
| System flag tracker | `MD3OutstationPort.h` 41-86 | RSF, SPU, STI, two callbacks | `FlagScanPacketSent`, `TimePacketReceived`; no handler calls either (Fn52 and Fn43 are no-ops) | nothing reachable |
| Modbus master port | `ModbusMasterPort.cpp` | `enabled`, `stack_enabled`, the libmodbus context, a TCP retry timer and a poll timer | `Enable`, `Disable`, `Connect`, `Disconnect`, `DoPoll`, `Event(connected)`, timer handlers | the asio io_service thread, the user, the upstream port |
| SimPort | `SimPort.cpp` | per-point timers, forced values, configuration under `ConfMutex` | `Enable/Disable` posted to a strand, `PortUp/PortDown`, `SpawnEvent`, `Force/Release`, control feedback; `ProcessElements` merges the configuration file and the overrides into `SimPortConf` | asio timers |
| SNMP port | `SNMPPort.cpp` | static session maps | `GetSesion`, `GetTrapSession`, configuration parsing | the snmp++ library |
| JSON responder | `ODC/IJsonResponder.h` | none | interface only | |

Two concurrency facts shape the MD3 models. First, the event bus writes
binary points (value, `Changed := true`) on its own thread. The scan
handlers read the same points without a lock. Second, reading a point with
`GetBinaryValueUsingMD3Index` clears its `Changed` flag at once, bit by bit,
before the reply has been sent.

The Modbus port has two actors. The API calls (`Enable`, `Disable`,
`Event`) come from one thread. The timer handlers run on the io_service.
asio's cancel semantics matter here. `cancel()` and `expires_at()` abort the
waits that are still pending. A wait that has already expired keeps its
queued handler, and that handler still runs with success.

## 2. Modules

### MD3DigitalScan (+ MC_MD3DigitalScan)

State: the binary points (`value` and `changed` per configured point), the
outstation handler (`pc`, `cur`, `resp`, the loop indices `bi`/`bj`, the
accumulator `acc` for the module being read, `force`), the resend cache
(`lastSeq`, `lastReply`), the wire (`reply`), and the master (`mst`, `mreq`,
`mseq`, and `mview`, its last received word per module). A reply lost on
the wire is kept in `lost`.

Actions:
- `PointEvent`: the event bus sets a point's value and its Changed flag.
- `ProcessMD3Message`: the dispatcher and the handler prologue.
  - Fn7 starts a build of every module.
  - Fn8 counts the changed modules first. With none it answers Fn14. With
    some but not all it starts a build whose header carries the count. With
    all of them it delegates to Fn7.
  - Fn11 either resends the cache, or counts the changed modules and answers
    with capped counts.
  - Fn12 has only the resend path.
- `ReadBinaryBit`: one iteration of `BuildBinaryReturnBlocks`' inner loop.
  It reads one bit and clears that bit's Changed flag. After the last bit
  of a module it appends the data block or the error block. After the last
  module it marks the end of message and sends.

Because `ReadBinaryBit` is one bit per step, events interleave between bit
reads as they can in the code. The master sends one request at a time,
loses at most `MaxLoss` replies, and on a timeout retries the same request
or abandons it. The sequence number of Fn11/Fn12 moves to
`(mseq % MaxSeq) + 1` only when a reply has arrived.

### MD3AnalogScan (+ MC_MD3AnalogScan)

Each behaviour fixes one state of a module's analog points: (word, delta)
per channel, or Missing. The master then scans that state with Fn5 and Fn6
for 0..`MaxCh` channels. `ReadAnalogRange` is a `FoldLeft` of the per-channel
classification. That classification keeps the code's `abs(deltares > 0)`,
which is true only for a positive delta. The reply builders pack two words
or four `(char)` bytes per block. A read past the end of the value vector
is undefined behaviour: the code reads `Analogs[2*i+1]` for an odd count
and `Deltas[i*4+k]`. The model lets such a read yield any `Pad` value.

### ModbusMasterPort (+ MC_ModbusMasterPort)

State: `enabled`, `stackEnabled`, the context (`conn`), whether
`BuildOrRebuild` created it (`mbOk`), the server type, and for each timer
the pending waits and the queued handlers. There are also three ghost
variables: the user's last call (`wantEnabled`), whether a `Disable` is
half done (`disabling`), and whether `modbus_connect` was ever called on an
open context.

Three threads call into the port: the API thread (`Enable`, `Disable`),
the io_service thread (the timer handlers) and the upstream port's thread
(`Event`). `Enable` tests and then sets `enabled` (lines 37-38), and
`Connect` tests and then sets `stack_enabled` (lines 52-55), with no lock.
So `pc[t]` records where thread `t` is inside those two calls, and each
check and each set is a step of its own:
- `EnterEnable(t)` is the `if(enabled) return;` test, taken by `Enable`
  (API thread) and by `RetryHandler` (io thread).
- `SetEnabled(t)` is `enabled = true`, then the PERSISTENT test.
- `ConnectCheck(t)` is Connect's `enabled` and `stack_enabled` tests.
  `UpstreamConnected` enters it for an ONDEMAND server.
- `ConnectSet(t)` is the rest of `Connect`: `stack_enabled = true`, the
  `mb == NULL` return, a failing `modbus_connect` that arms the retry
  timer, or a succeeding one followed by `DoPoll` (`ConnectBody`).

The other actions are `Disable` as two steps (`Disconnect`, then
`enabled = false`), so handlers can run in between; `ConnectionLost`,
where the slave drops an open connection (`conn` becomes `lost`) and
nothing in the port notices; the expiry of each timer; and the poll
handler, which calls `DoPoll()`. A thread runs one call at a time: the
API thread starts `Enable` or `Disable` only from `idle`, and the io
thread runs one handler at a time.

### SimPortTimers (+ MC_SimPortTimers)

State:
- `enabled`;
- `ups`, the number of `PortUp` calls, which names the timers each call
  creates;
- per timer a `chain`. Its `st` is `wait` (an `async_wait` is pending),
  `ok` (it expired and its handler is queued), `abort` (it was cancelled
  and its handler is queued with `operation_aborted`) or `none`. Its `val`
  is the next binary value;
- `Timers`, the vector;
- `forced`, the forced-state maps;
- `forcing`, a `Force` call that has set its flag but not yet published;
- `last`, the last value published per point.

Actions:
- `Enable` and `Disable`. They run on the strand, so each is one step.
  They include `PortUp` (publish start values, create one timer per
  point) and `PortDown` (cancel the vector's timers and clear it).
- `Expire(t)`.
- `Handler(t)`. It runs `if(enabled) SpawnEvent(...)` and ignores the
  error code, as the code does. `SpawnBinary` and `SpawnAnalog` are the
  two `SpawnEvent` overloads.
- `Force(p, v)` and `ForcePublish`. `Force` sets the flag under the
  unique lock. `ForcePublish` publishes outside the lock.
- `Release(p)`.
- `Event(code)`, a control for the configured index. It walks
  `ControlFeedback` in order. A LATCH entry publishes on or off. A PULSE
  entry publishes on and starts a pulse-off timer. The walk stops at the
  first entry that does not support the code (`Handled`): the code
  answers `NOT_SUPPORTED` and keeps what it already published. The other
  branches of `Event` only answer a status, so they are stuttering steps.
  The feedback points' last values are `fb`; the pending pulse-off timers
  are `pulses`.
- `PulseOff(p)`. The handler publishes off and checks neither `err_code`
  nor `enabled`. `PortDown` does not cancel these timers.

### SimPortConf (+ MC_SimPortConf)

`SimPort::ProcessElements` (SimPort.cpp 306-555). The constructor makes an
empty `SimPortConf`, and `ProcessFile` calls `ProcessElements` on the
configuration file and then on the overrides.

State:
- `conf`, a record with the members of `SimPortConf` that
  `ProcessElements` writes. The index vectors are sequences. A
  `std::map` is a function onto values plus `MISSING` for an absent key.
- `calls`, the number of sections processed so far.

Actions:
- `LoadAnalogs`, `LoadBinaries` and `LoadBinaryControls`. Each is one
  section of a `ProcessElements` call under the unique `ConfMutex`
  lock. Each section writes only its own members, so a root with several
  sections equals successive roots with one section each.
- Each action is a `FoldLeft` over the JSON array, then over each
  element's index range (`ForRange`), then the trailing `std::sort`.
- The per-index bodies `AnalogIndex`, `BinaryIndex` and `ControlIndex`
  keep the code's order:
  - push the index unless the "exists" scan finds it;
  - take the settings that are present;
  - then act on `StartVal`: `"D"` erases the settings and the first
    occurrence of the index, a value is stored, and no `StartVal`
    erases a stored one.
- An element with neither `Index` nor a complete `Range` is skipped, as
  is a feedback entry without `Index`.
- Values, intervals, deviations and parsed feedback triples are model
  values.

## 3. Runs

| Run | Expect | What it shows |
|---|---|---|
| `digital_delivery` | pass | Fn7/8/11 against two concurrent events and no loss. Whenever nothing is in flight, a fully configured module whose Changed flags are clear has reached the master with its current bits (`NoLostChange`). Clearing a flag bit by bit as it is read is safe for delivery: a later event sets the flag again. |
| `digital_resend` | pass | Fn7/11/12 with a lost reply, retries and an event. A master that retries a sequenced scan after losing its reply gets exactly the lost reply, not one recomputed from Changed flags that moved on (`RetryGetsLostReply`). |
| `digital_fn8_counts` | violation | The Fn8 header count comes from a pass over the modules made before the blocks are built. An event in between makes the reply carry a different number of blocks. |
| `analog_payload` | pass | Every Fn5/Fn6 reply has ceil(ch/2) or ceil(ch/4) data blocks, and they carry every requested channel's value exactly, whatever the out-of-bounds reads return. |
| `analog_nochange` | violation | The Fn6 reply is compared with a reference definition of the spec section 8 classification (`SpecClassify`) over every bounded table (`ClassificationMatchesSpec`). A negative delta yields a "no change" (Fn13) reply. With the code's `abs(deltares > 0)` corrected to a nonzero test, the fold and the reference agree on all 70,676 states, so this is the only divergence. |
| `modbus_lifecycle` | pass | `Enable` and `Connect` are split at their unlocked checks and interleave with `Disable`, the upstream `Event`, connection loss and the timer handlers. Under fair timers, a disabled port's poll timer falls quiet, even when a poll handler re-arms it between `Disconnect` and `enabled = false` (`PollQuietWhenDisabled`). |
| `modbus_disable` | violation | A retry handler that expired before `Disable` re-enables the port. |
| `modbus_double_connect` | violation | The API thread's `Enable` and a retry handler's `Enable` both pass `if(enabled) return;` and `if (stack_enabled) return;`, and the second `modbus_connect` runs on the context the first opened (`NoConnectOnOpen`). This needs a `Disable` whose retry wait had already expired, then a new `Enable` racing the stale handler. |
| `simport_lifecycle` | pass | Timer handlers interleave with `Enable`/`Disable`, `Force`/`Release` and overlapping controls. Under fair timers, every timer chain of a disabled port ends (`QuietWhenDisabled`). |
| `simport_chains` | violation | The sequence Disable, Enable, then a cancelled handler runs: that handler continues its old chain beside the new one (`OneTimerPerPoint`). The old timer is no longer in `Timers`, so it can never be cancelled again. |
| `simport_config` | pass | `ProcessElements`, run on the file and then on the overrides in any order of sections, merges every section as a per-index reference definition says (`ProcessElementsMatchesReference`). The last element that names an index decides whether it stays and its `StartVal`. A setting is the last one given since the index's last `"D"`. The index vectors come out sorted and without duplicates. The reference is checked from every reachable conf, for every array of up to two elements. |
| `modbus_retry` | violation | Under fair timers, a persistent port that is not connected never gets connected again (`RetryReconnects`, a leads-to). A failed connect is never retried, and a dropped connection is never noticed. TLC reports the shorter, failed-connect case. |

Each property of a passing run has a mutant in `PROJECT.json`: a plausible
bug in a mapped definition that TLC then catches. Examples are clearing a
module's Changed flags only after its word is built (`ClearChangedLate`),
not recording the resend cache, a classification threshold of 128 instead
of 127, an unsigned byte cast, and `DoPoll` without its `enabled` check.

## 4. Bounds and why they suffice

- Digital model:
  - Addresses 0..2 and 2 bits per module. Module 2 has only bit 0
    configured, so it is partly missing and takes the error-block path.
    Module 1 is time tagged. All three module kinds therefore occur, and a
    module word has two bits that can tear.
  - Two events: enough for an event between two bit reads, and one between
    the Fn8 count and the build.
  - Sequence numbers 0..2: a reset (0), a repeat and a new number.
  - Counts capped at 1: the caps of Fn11 bind.
  - At most one lost reply: the retry case.
- Analog model:
  - Up to 5 channels: odd and even counts, one full 4-byte block and a
    partial one.
  - Deltas -3, 0, 127 and 128: negative, zero, the largest delta that
    fits one byte, and the first value past it.
  - A single word value plus the Missing sentinel.
- Modbus model:
  - Two failed connects: a failure after a failure.
  - Two queued handlers per timer: a stale handler next to a fresh one.
  - Three threads, each inside at most one `Enable`/`Connect` call.

- Resend run: Fn7, Fn11 and Fn12, sequence numbers 0..2, one event and
  one lost reply. Fn7 clears the Changed flags and the event sets one
  again, so a recomputation on retry would differ from the lost reply.
  Both a retry of a lost reply and a new number after a reset occur.
- SimPort model:
  - One binary and one analog point: the two `SpawnEvent` overloads.
  - Values {0, 1}.
  - A control whose feedback is a LATCH point then a PULSE point, with
    codes PULSE_ON (both entries) and PULSE_OFF (the latch entry, then
    `NOT_SUPPORTED`), and up to two pending pulses, so two pulses
    overlap and the first pulse-off turns the point off during the
    second. Together these fire every
    branch of the feedback loop.
  - `MaxUps = 2`: enough for the sequence Enable, Disable, Enable, which
    every SimPort finding needs. A third `PortUp` adds no new kind of
    step, and it takes the run past ten minutes.
- SimPortConf model:
  - Indexes {0, 1}. Ranges 0..0, 1..1, 0..1 and the empty 1..0 occur,
    along with an element with no selector. Ranges therefore overlap,
    and an index pushed after a larger one makes `std::sort` matter.
  - Two start values, so the last element's value differs from an
    earlier one. One interval, one deviation, one feedback entry, and
    the feedback entry without `Index`.
  - Arrays of up to two elements: an element after another on the same
    index, including after a `"D"`.
  - Two sections: the file, then the overrides, on the same or another
    kind.
  - Two sections of two elements give up to four feedback entries for
    one control, so accumulation shows. Only `MaxCalls` and `MaxLen`
    bound the lists.
  - The run ends when the sections are used up, so deadlock is not
    checked.

The passing runs fire every action and every disjunct. The longest takes
about two and a quarter minutes (`simport_config`).

## 5. Fairness

`SimPortTimers_lifecycle.cfg` assumes weak fairness for the io_service
running some timer step, either an expiry or a handler, while one is
possible. It assumes no fairness between timers. It also assumes weak
fairness for each pending pulse-off timer. It also assumes weak fairness for `ForcePublish`, because
a `Force` call that has started returns. The user's
`Enable`/`Disable`/`Force`/`Release` are not fair.

`ModbusMasterPort_lifecycle.cfg` and `ModbusMasterPort_retry.cfg` assume weak fairness
for timer expiry and for timer handlers, because the io_service runs them.
They also assume weak fairness for finishing a `Disable` that has started,
and for each step of an `Enable` or `Connect` call a thread has begun,
because a function call returns. They assume none for the user, the
upstream port or the slave dropping the connection. Failures of `modbus_connect` are bounded by `MaxFail`, so a
retry would eventually succeed. The counterexample is one failed connect
followed by the retry handler's `Enable()` returning at once, and then
nothing more happens.

## 6. Not modelled, and why

- **System flags.** No handler calls the tracker, so nothing reachable
  changes it. The code never sets RSF, although the spec says any flag
  change sets it.
- **Time-tagged (HRER) events.** `LastHRERSequenceNumber` and the HRER list
  scan have no code behind them.
- **Codec bit layout.** Station address bytes and the direction bit are
  not modelled. Blocks are records with the fields the properties compare.
  The end-of-message default of the `MD3BlockFn11` constructor is not
  visible in `src/`. The model gives the Fn11 header end-of-message.
- **SimPort.** `ProcessElements` is modelled down to its members; the
  JSON conversions (`asUInt`, `asBool`, `stod`, "NAN"/"INF"/"X") become
  model values. The status answered by
  `Event` is output only, so it is abstracted. No text in the repository
  says what `NOT_SUPPORTED` means after part of the feedback has been
  published. `random_interval` and the random
  analog value are abstracted as a nondeterministic expiry and value.
- **SNMP port and JSON responder.** These are configuration parsing,
  library-owned sessions and an interface. They have no protocol state of
  their own. `GetSession`/`GetTrapSession` check and then create an
  entry of a static map without a lock (SNMPPort.cpp:181). Nothing under
  `src/` calls them, so no interleaving of them can be read from this
  code.
- **Modbus.** `StateListener` and the register-to-event publishing of
  `DoPoll` publish events and change no port state.
- **Divergences read directly from the code, with no run.** Each is
  plain in a few lines, so no run is kept for it:
  - `PortUp` (SimPort.cpp:178) publishes every point's start value
    without consulting the forced-state maps that `SpawnEvent` honours.
    In `SimPortTimers`, a `Force` while the port is disabled followed by
    `Enable` publishes the start value over the forced one, and nothing
    republishes it. No text of the repository says what a forced point
    should show after `Enable`.
  - Two overlapping PULSE_ON controls on one point arm two pulse-off
    timers. The first one publishes off while the second pulse is still
    meant to be on. The lifecycle run reaches this (`MaxPulses = 2`).
  - `DoDigitalScan` sends a Fn11 header with counts and no data blocks
    (its "Do this later!" comment). The spec (sections 3 and 4.4) has the
    module data follow.
  - `DoDigitalUnconditional` (Fn12) sends nothing for a new sequence
    number. The spec (4.4) has it build a reply.
  - `SendAnalogUnconditional` with zero channels sends a header without
    end-of-message.
  - `BuildBinaryReturnBlocks` reads a module's 16 bits one at a time
    without the lock spec section 5 asks for. A data word can therefore
    mix bits from before and after an event: a module state that never
    existed. The digital model keeps the bit-by-bit reads, and
    `NoLostChange` shows that delivery recovers.
  - `ControlFeedback[index]` is only appended to (SimPort.cpp:547).
    `"D"` drops a control's index and interval but keeps its feedback.
    A control that an override names again gets its old feedback entries
    as well as the new ones. `Event` then publishes each feedback point
    twice and arms two pulse-off timers. `SimPortConf` models this, and
    the reference check leaves `ControlFeedback` out. No text in the
    repository says whether repeated `FeedbackBinaries` are meant to add
    up.
- **SimPort construction.** The first constructor creates the
  `SimPortCollection`; the others spin on `weak_collection.lock()`
  (SimPort.cpp 48-66). A port constructed while the last one is being
  destroyed finds `init_flag` still set and spins until some other port
  is constructed. The ports are constructed by the DataConcentrator,
  which is not in `src/`, so whether construction and destruction ever
  overlap cannot be read from this code. The handshake is kept as a
  hazard without a model.
  - `random_interval` (SimPort.cpp:38) computes `2*average_interval-2`
    in unsigned arithmetic. An `UpdateIntervalms` of 0 wraps, and the
    "minimum 1ms" interval becomes up to about 49 days. The model lets a
    timer expire at any time, so no property depends on the delay.
  - `Force` (SimPort.cpp:104) catches `std::invalid_argument` only. An
    index or value out of range throws `std::out_of_range` to the caller
    instead of returning false. The model draws Force's inputs from the
    configured points and `Vals`, so it covers only well-formed input.

## 7. Plan for the next sittings

1. A second concurrent `Force` on the same SimPort point. `Force`
   publishes outside `ConfMutex`, so two UI requests could publish in the
   opposite order to the one they took the lock in. Whether the web UI
   serves requests on more than one thread needs checking first.
2. The `SimPortCollection` construction handshake, if the code that
   constructs ports is ever brought under `src/`.
