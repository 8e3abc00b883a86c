# Verification of i2s_mic

TLA+ models of `i2s_mic` (ESP-IDF I2S microphone component), TLC runs over
small instances, and TLAPS proofs for every instance. Paths are relative to the
repository (`src/` in `PROJECT.json`); line numbers are those of the modelled
commit.

## 1. The system

`i2s_mic` is one C file over the ESP-IDF I2S driver. It adds no buffering: the
DMA fills a ring of `dma_buffer_count` buffers, the driver's interrupt puts each
finished buffer in a queue of `dma_buffer_count - 1` entries, and
`i2s_mic_read()` takes one buffer from it. What the component does add is
coordination: one reader at a time, a `stop()` that ends a read blocked in the
driver, an `init`/`deinit` that cannot race a starting read, and a count of what
was lost.

| Component | State | Operations | Talks to |
|---|---|---|---|
| I2S RX driver (`test_host/sim_driver.c`, the repository's simulation of ESP-IDF v6.0) | channel state, binary semaphore, queue, ring position, current buffer | new, init_std, enable, disable, read, del; RX interrupt | calls `on_recv_q_ovf` from the interrupt |
| Lifecycle (`i2s_mic.c` 105-286) | `state`, `running`, `rx`, `buf_size`, `slice_ms` | `init`, `deinit`, `start`, `stop`, from one control task | driver calls; `mux` shared with the readers |
| Read (`i2s_mic.c` 292-368) | `reader_active`, locals of the call | `i2s_mic_read` from any task, one at a time | `running`, written by the control task; driver read |
| Overflow counter (`i2s_mic.c` 92-99, 374) | `overflow_count` | increment by the interrupt, reset by `start`/`init`, query | driver callback |
| Streaming examples (`examples/uart`, `examples/uart-jtag`) | handshake, wire format, PC parser | trigger, header, compaction, report | `i2s_mic_read`, serial line, PC script |
| Loopback, one controller (`examples/loopback_example`) | recording and its length, playback offset | one task: record phase, playback phase, again | `i2s_mic`, `i2s_spk` (external) on the same I2S controller |
| Loopback, two controllers (`examples/loopback-dual-i2s`) | the relay's buffer, two loss counts | relay task, status task | `i2s_mic`, `i2s_spk` (external) |
| Tests (`test/`, `test_app/`, `test_host/test.c`), host fakes, build files | - | - | clients of the component |

### What is hard

- **Three kinds of actors, few locks.** The mux covers only the claim of the
  reader slot and the transitions from and to UNINITIALIZED. `running`, `state`
  and `overflow_count` are plain volatile variables read and written between
  driver calls that block.
- **The driver's semaphore.** `disable()` waits for it without a timeout and
  keeps it; a reader that arrives later waits for a semaphore nobody gives.
- **ESP_OK that is not success.** A read overtaken by `disable()` returns
  ESP_OK with a short count.
- **Loss.** A full queue drops its oldest entry in the interrupt, between any
  two steps of a reader; each loss must be counted once, and each buffer must be
  delivered, queued or counted.
- **No lock between DMA and copy.** Whether a buffer can be torn depends on the
  geometry of ring and queue.
- **Partial failure.** `init()` makes four driver calls after the allocation,
  each of which may fail.
- **A handshake by clocks.** In the UART example the board and the script agree
  on a trigger byte and then each switch the baud rate on a timer of their own;
  the header is sent once, and logging shares the wire.
- **Slices on a coarse clock.** The caller's timeout is cut into slices, each of
  them into ticks, on a 32-bit counter that wraps; and the driver uses the wait
  it is given twice.
- **A speaker that takes what it likes.** In the loopback examples every send
  may take a part, take nothing, or take a part and fail; what is not played
  must not stop the cycle, be played twice, or go uncounted.
- **Bytes.** The script finds the header in a stream that starts anywhere and
  cuts the audio into chunks that end anywhere; the board converts samples in
  the memory they are read from.

The hazards, each at its line and with the properties that cover it, are listed
in `PROJECT.json`.

### What makes each component correct

- *Driver*: the DMA never fills a queued buffer; the queue is the most recent
  unread captures in order; disable waits for the reader.
- *Lifecycle*: every driver call it makes is legal; `running` implies an enabled
  channel; after `stop()` nothing moves; nothing leaks or is half-published;
  `stop()` returns.
- *Read*: exclusive; never on a deleted channel; one whole buffer or nothing;
  never audio of an earlier session; a stopped read says so and returns; a
  finite timeout ends.
- *Counter*: delivered + queued + counted = captured.
- *Configuration*: `init()` accepts exactly what the driver can allocate as
  asked for; a slice covers two buffers and at least one tick.
- *Timing of a read*: not shorter than its timeout, hardly longer; `stop()` is
  noticed within one slice, and waits one buffer period.
- *Streaming examples*: the header is not missed; what is recorded is audio, from
  its first byte and in whole frames; the script gets to the audio or gives up;
  from the captured frame to the file no sample is lost, repeated or shifted.
- *Loopback examples*: the controller is free when it is claimed; what is played
  is the last recording, in order; every loss is counted and logged; the task
  goes on whatever the speaker does.

## 2. Modules

| Module | What it is |
|---|---|
| `I2SDriver` | The driver. Operators for its atomic steps over its own variables. No `Next`: the steps are taken by the tasks of `I2SMic`. |
| `I2SMic` | `i2s_mic.c` over `I2SDriver`: control task, readers, interrupt; `Spec`, `FairSpec`, all properties. |
| `MicStream` | What the component promises its clients: a lossy stream of whole buffers. |
| `I2SMicStream` | `I2SMic` seen as a `MicStream`: the refinement mapping. |
| `UartHandshake` | `examples/uart`: board and script over a serial line, with timers. |
| `JtagHandshake` | `examples/uart-jtag`: board and script over USB. |
| `MicConfig` | The arithmetic of `init()`: checks, sizes, period, slice. Operators only. |
| `ReadTiming` | `init()` as a function of its configuration; the slice loop and `stop()` against the FreeRTOS clock; both over `MicConfig`. |
| `Loopback` | `examples/loopback_example`: record and play on one controller, over `MicStream`. |
| `LiveRelay` | `examples/loopback-dual-i2s`: relay task and status task, over `MicStream`. |
| `SampleCompaction` | The in-place conversion of the streaming examples. |
| `WireParser` | The script's header search and framing, byte by byte. Actions only. |
| `AudioPath` | The two composed: from the frames the board reads to the file the script writes. |
| `MCI2SMic`, `MCReadTiming` | TLC instances: symmetry of the readers; the configurations at the edges. |
| `I2SMicProofs` | Proofs about `I2SMic`: the driver's steps, type correctness, the coordination invariant and what follows from it; where every capture goes, what one read delivers and what `stop()` tells it; the refinement. |
| `ReadTimingProofs` | The rounding of ms, ticks and slices; `init()`, the timeouts of a read and the waits of `stop()`, for every setting. |
| `ItemStream` | Lemmas about the items on their way to the script, for both handshakes. |
| `UartHandshakeProofs`, `JtagHandshakeProofs` | The two handshakes, for all delays and all interleavings. |
| `AudioPathProofs` | The conversion, the header search and the file, for every buffer, noise and chunk. |
| `LoopbackProofs`, `LiveRelayProofs` | The loopback examples, for all sizes and whatever the speaker takes. |

`I2SMic` is composed with `I2SDriver` (it EXTENDS it and takes the driver's steps
inside its own). The loopback examples are composed with `MicStream` (`Mic ==
INSTANCE MicStream`): they take the stream's steps where the program calls
`i2s_mic`. That is sound because `I2SMic` implements `MicStream`
(`MicImplementsStream`): every behaviour a client can see is one of the stream's.
`AudioPath` EXTENDS the board's `SampleCompaction` and instantiates the script's
`WireParser`: a buffer that is sent makes bytes available to the script's reads.
The two handshakes stand alone: from `i2s_mic` they use only that `init`/`start`
may fail and that reads deliver buffers. `ReadTiming` has the steps of
`I2SMic`'s read and `stop()` again, with time and for one reader, because time
and two readers together are beyond TLC.

### From code to model

- **Granularity.** `sim_driver.c` runs each driver call under one mutex and
  gives it up only while waiting. The driver on the target does not, as
  `i2s_mic.c` 11-27 and `README.md` 183-188 describe, so the model takes each
  call in steps: `TakeSem`, the state check (`RdLoop`), `Receive`, the copy,
  `GiveSem`; `DisableBegin` then `DisableEnd`. Every behaviour of the simulation
  is one of the model. A section under `s_mic.mux` is one action; every other
  access to `s_mic` is a step between driver calls.
- **Control task.** `ctl` names the next step of the call in progress. The
  contract (`i2s_mic.h` 20-22) asks for one control task, so calls do not race
  each other; any call may be made at any moment, legal or not.
- **Readers.** Any task of `Readers` may call `i2s_mic_read()` at any moment,
  with `dst` NULL or not, any `len` of `Lens` and any timeout.
- **Time.** A wait may time out whenever what it waits for is not there. A
  finite timeout is a number of wait slices (`left`); each slice takes at least
  one tick, so fewer are left afterwards (`NextSlices`). `portMAX_DELAY` is
  `Forever`.
- **Driver errors.** `i2s_new_channel`, `init_std_mode` and
  `register_event_callback` may fail at will; `enable`, `disable` and
  `del_channel` fail exactly when the channel's state forbids the call.
- **Audio.** A capture is its sequence number, as in the simulation (`stamp`).
  `torn` records at the end of a copy that the DMA was in, or had been in, the
  buffer since it was received.
- **History variables** for the properties: `sessFirst`, `taken`, `currSeq`,
  `torn` in the driver, `popped`, `missed` in the reads. No guard reads them.
- **Examples.** An item on the line is a log line, the header or some PCM; a run
  of equal items counts as one. On the UART, an item is decoded with the
  receiver's baud rate at the moment it is sent, else it is garbage. Time is a
  `Tick` of one FreeRTOS tick (10 ms) that both timers see; it passes only when
  neither side has a step due, and how late a step may be is in its delay: a
  `vTaskDelay(n)` lasts from n - 1 ticks (it begins within a tick) to
  n + `BoardLate`, a `time.sleep` from n to n + `ScriptLate`. The script may be
  stopped and started again at any moment, the board reset at any moment;
  opening the port resets the board or not (`ResetsOnOpen`; in `JtagHandshake`
  both kinds of board are initial states, `resetsOnOpen`, and `foreign` records
  that a byte of somebody else, or of an earlier run, may have reached the board). `uart_driver_install`
  and READY are one step: nothing the script does fits between them. USB is
  untimed; a read there times out only if the board has nothing to say, since
  the timeouts are seconds and the board answers within 50 ms.
- **Ticks.** In `ReadTiming` a wait of `n` ticks ends when the counter has
  advanced by `n`; a `Tick` cannot pass while the DMA's period is over and its
  interrupt has not run, nor while a step of the control task is due, and a
  reader that could run may be kept from it for `Late` ticks between two looks
  at the clock. The counter is the code's `TickType_t` modulo `Word`, a small
  power of two in the runs; it is followed only during a read with a finite
  timeout, the only thing that reads it. `TimingAssumption` names the settings
  the arithmetic needs: a tick rate that divides 1000 and is at least 50 Hz, and
  timeouts far enough below the wrap. `stalled` is a bus clock that never
  delivers. The slice of 32-bit milliseconds is taken from `MicConfig`, as in
  `init()`.
- **Configurations** are records; `init()` is called with every one of them, but only
  those of `Streamed` are then used for capture; `dma_buffer_size % bytes_per_frame` and the
  driver's cap are computed as in the code. A size may be negative.
- **Loopback.** A sample is the place of its frame in the stream of captures, so
  a gap, a repetition and an older recording can be told from the data. Lengths
  are in samples. Two recordings in succession have different marks (`take`).
  `i2s_spk` is external: a send takes any number of whole samples, any call may
  fail, and an init claims the controller until deinit. `ESP_ERROR_CHECK` is a
  restart (`Abort`).
- **Live relay.** The status task runs at any moment (its two seconds are left
  out), its two reads are two steps. The back-off of the relay after a failed
  read is left out, since a read that waits for ever does not fail while
  capture is not stopped.
- **Compaction.** Memory is half-words named by where they were captured. The
  program reads `int32_t` and writes `int16_t` objects in the same memory, which
  a compiler may take to be disjoint: `Load` may run ahead of `Store`.
- **Parser.** The bytes in front of the header are chosen from those that could
  be mistaken for it; behind the magic, only the position of a byte matters.
- **Audio path.** A sample sent is named by the frame and the half-word it was
  captured as, numbered on from buffer to buffer, so that the recorded file can be
  compared with the capture. The header says one channel, as the board's does.
- `DelChannel` resets the driver's variables (the memory is freed), and
  `RdRelease` those of the call. Neither is read again.

## 3. Runs

| Run | Instance | What it shows |
|---|---|---|
| `safety` | ring of 3, at most 6 captures per channel, 2 readers (symmetric), DMA cap 2, sizes 2 and 3 (too large), lengths 1 (wrong) and 2 | the safety properties of `I2SMic`, and that it implements `MicStream` |
| `liveness` | ring of 3, 3 captures, 2 readers, `FairSpec` | the three liveness properties |
| `handshake` | UART, delays of the code in ticks (60, 10, 5 against 70, 10), the board up to 2 ticks late, the script 1; 2 resets per run of the script, 2 stray bytes; opening the port resets the board, `FairSpec` | the header is not missed, only audio is recorded, the script gets to the audio |
| `jtag` | USB, both kinds of board, 2 resets, 2 stray bytes, `FairSpec` | the same, as far as no stray byte has reached the board |
| `timing` | `init()` with rates -1 to 16000, sizes -8 to 4096, counts 1 to 6, every width, channel count and slot mode; then reads at 100 Hz with buffers of 20 ms (slice 40 ms, queue of 2) and of 1 ms (slice 20 ms, queue of 1), timeouts 0, 15, 95 ms and for ever, a counter of 8 bits that starts at 0 or just before its wrap, delays up to 2 ticks | `init()`, and the timing of a read and of `stop()` |
| `loopback` | buffers of 2 samples, recordings of 5, chunks of 2, at most 5 captures, 2 of them waiting, `FairSpec` | the record/play cycle |
| `relay` | buffers of 2 frames, 5 captures, 2 of them waiting, `FairSpec` | the relay and its log |
| `audio_path` | buffers of up to 3 frames, 4 samples in all, both slots, up to 4 bytes of noise from three values, chunks of up to 5 bytes | from the captured frame to the file |
| `torn_doc` | ring of 3, 4 captures, 1 reader | finding 1 (violated) |
| `stop_start_doc` | same | finding 2 (violated) |
| `ready_doc` | as `handshake`, 1 reset, opening the port does not reset the board | finding 3 (violated) |
| `jtag_stray_doc` | USB, stray bytes | finding 4 (violated) |

**Bounds.** `SeqBound` bounds the captures of one channel between `init` and
`deinit`. With a ring of 3 (queue of 2), 6 captures fill the queue, overflow
three times, wrap the ring twice and still leave captures for a second session
after a stop. Two readers are enough for the reader slot, since a read touches
only its own state and the shared one. Sizes and lengths need one legal and one
illegal value. `MaxSlices = 1` gives reads of one slice, of two, and for ever.
Once `SeqBound` is reached the microphone is silent, which is a legal behaviour,
not an artificial stop: timeouts and calls go on.

`handshake` has the board that opening the port resets, the one on which the script
gets to the audio by itself; that the header is not missed on the other one is
proved (`AlwaysHeaderNotMissed`, for either value of `ResetsOnOpen`). In the
handshakes, `MaxResets` and `MaxRx`/`MaxStray` bound resets per run of the script
and unread bytes; runs of the script are not bounded. Two resets hit both sides of
any step. `ReadTimeout` is 20 ticks instead of 3000 and `AckLines`
3 instead of 10: enough for the timeout not to expire before the header (at
most 2 ticks after the script begins to look), and for lines to be left after the
acknowledgement.

In `timing`, 95 ms is more than two slices of 40 ms, so a read is retried and its
last slice is cut; 15 ms is less than a slice and no whole number of ticks; 253 of
256 is a counter that wraps within every timeout above 20 ms. In `loopback` a
recording of 5 samples takes two and a half buffers, 5 captures with a queue of 2
lose up to three, and a recording is cut short anywhere; the number of
recordings is not bounded. `relay` ends in silence after 5 captures, which is
what `CatchesUp` is about; short writes are counted up to `MaxShort`, more than
there can be frames. In `audio_path`, 4 bytes of noise hold every
beginning of the header that runs into the real one (up to three sync bytes too
many, or a sync and the first byte of the magic), chunks of 5 bytes end within a
sample, and 4 samples are several buffers of up to 3 frames; `MaxNoise` and
`PcmBytes` are the bounds. Two configurations are streamed in `timing`, a common
one and one whose slice is the minimum; the others only ask `init()`.

**Fairness.** `FairSpec` of `I2SMic` has weak fairness of each task's steps inside a call
(`ControlStep`, `ReaderStep(r)`): FreeRTOS schedules every ready task in the end
and each wait of a reader is cut by its slice. A weakly fair reader step needs
no fairness of the semaphore: at "sem" it can either take it or time out. No
task is obliged to make a call, and **no** fairness is assumed of the DMA, so
the liveness properties hold with a silent microphone. The wait of `disable()`
is only weakly fair: it must succeed because readers stop taking the semaphore,
not because it is served in preference. In the handshakes, the board's and the
script's programs and time are weakly fair; opening the port, resets, stray bytes
and audio are not. In `Loopback` the task is weakly fair, in `LiveRelay` `app_main`
and the two tasks are: FreeRTOS schedules them, every read ends (in `Loopback` by
its timeout of one second), and a send is assumed to return - its own timeout is
the application's, outside the repository. How much a send takes is not
constrained, and the microphone is not fair. A restart (`Abort`) is a step of
`Loopback`'s task but no step anybody must take in `LiveRelay`.

### Properties

Safety: `TypeOK`; `SingleReader`; `NoReadOfDeletedChannel`;
`ChannelConsistent`, which is `RunningMeansEnabled`, `PublishedAsConfigured` and
`NoChannelLeak`; `DriverCallsLegal`; `QuietWhenStopped`;
`LossAccounting` (captured = delivered + queued + counted);
`QueueHeadIsNext` (losses are the oldest, no reordering);
`TornMeansQueueFull`; `OneBufferOrNothing`; `StoppedReadLearnsOfStop`. Two more
are proved and not in a run, since a run's instance of them is a case of the
refinement or of the ring's order: `NoStaleAudio`, `DmaNeverWritesQueued`.
Refinement: `ImplementsStream`. The client's view has seven variables; the ring,
the semaphore, the slices, `running` and the steps of the calls are hidden. It
says that a read gets the oldest capture that waits and no other, that a loss is
counted at the moment it happens, that the count is never reset during a
capture, that no audio outlives `start()`, that a read answers ESP_OK exactly if
it has fetched a buffer, and that no channel goes away under a reader. The
numbers of the captures are part of the promise, their contents are not: a
capture may be torn (finding 1).
Liveness: `StopReturns`; `ReaderLeavesAfterStop`; `FiniteReadReturns`.
Handshakes: `HeaderNotMissed`; `OnlyAudioRecorded`; `SearchEnds` (a header that
has gone by would be searched for ever in the audio); `OpenGetsAudio`.
Configuration: `InitIsExact`, which is `AcceptsExactlyAllocatable`, against a
definition of what can be allocated that shares nothing with the checks, and
`SliceCoversTwoBuffers`, in exact arithmetic instead of the rounding one. Timing:
`TimesOutOnTime` (`NotTooEarly` and `NotTooLate`), `StopNoticed`, `StopBlocks`,
`NoBusyPoll`. Loopback: `TypeOK` (the recording is not written past its end),
`ControllerFree`, `PlaysRecording` (`PlaysLastRecording` and
`RefusalCostsOneChunk`), `LoggedCoversGaps`, `RecordsAgain`. Relay:
`QuietLogMeansWhole`, `OnlyCountedLoss`, `NothingTwice`, `CatchesUp`,
`LossIsLogged`. Audio path: `SourceIntact`, `HeaderFound`, `FileIsCapture` (and
`Compacted`, which is proved and is what `FileIsCapture` rests on).
A type invariant is kept where a proof rests on it or where it says more than
the comments at the variables do.
Each is stated in words at its definition, and each has a mutant
in `PROJECT.json`: a plausible bug in the code that breaks it under the same
run. The mutated forms stand before the definitions they replace,
marked MUTANT.

### Findings

1. `torn_doc`: `i2s_mic.h` 24-27 and `README.md` 183-188 say that when a torn
   buffer is possible the overflow count is already rising. It need not be. The
   queue holds `Desc - 1` buffers and a read removes the oldest *before* it
   copies; the DMA can then finish the buffer in progress, fill the queue again
   without an overflow, and start to rewrite the buffer that is being copied.
   The read returns ESP_OK, the buffer is torn, and the count is 0 - and stays
   0 if the reader catches up. What does hold, and is checked, is
   `TornMeansQueueFull`: a torn copy implies a full queue at its end.
2. `stop_start_doc`: `i2s_mic.h` 121-122 and `i2s_mic.c` 34-38 say that `stop()`
   ends a blocked read, with one last buffer or ESP_ERR_INVALID_STATE. `running`
   is a level: when `start()` follows before the reader has looked at it, the
   read goes on in the new session and returns a buffer of that session, or
   ESP_ERR_TIMEOUT. `deinit()` refuses a call while `reader_active`; `start()`
   does not. Without a `start()` in between the promise holds
   (`StoppedReadLearnsOfStop`, `ReaderLeavesAfterStop`).

3. `ready_doc`: the READMEs of the examples (`examples/uart/README.md` 77-79)
   tell the user to quit the monitor once READY has been seen and to run the
   script. READY is printed once, and the script waits for it without end: it
   works only if opening the port resets the board.
4. `jtag_stray_doc`: `examples/uart-jtag/README.md` item 5 says that the trigger
   read accepts 0xA5 only. The code accepts any byte (`app_main.c` 223-224, and the
   script sends 0x01), so that a stray byte makes the script miss the header - what
   the README says the check is for. In the UART example the check exists, and
   `HeaderNotMissed` holds with stray bytes. The property is `StrayIgnored`.

Observations made on the way, for which there is no run.

- `i2s_mic.h` 142 calls `timeout_ms` the maximum wait. The driver uses the wait of
  a slice twice, for its semaphore and then for a buffer. A reader that has entered
  the driver after `stop()` waits for the semaphore; when `start()` comes just
  before the slice ends, the wait for a buffer begins anew, and the read times out
  up to a slice late. `NotTooLate` allows for it (`restarted`); without a `start()`
  in between the timeout is exact but for scheduling.
- `README.md` 33 and 161 promise that a blocked reader wakes within about one
  buffer period of `stop()`. A reader that saw `running` but enters the driver only
  when the channel is disabled is woken by nothing before its slice ends: two
  periods, at least 20 ms. The bound of `i2s_mic.c` 37, one slice, holds
  (`StopNoticed`). A reader that is in the driver already does wake within a
  period, and so `stop()` itself is never kept longer (`StopBlocks`).
- The log line of three examples (`loopback-dual-i2s` `app_main.c` 188, `uart` 201,
  `uart-jtag` 194) computes the lost milliseconds in 32 bits before it divides.
  8948 buffers of 480 frames times 1000 exceed 2^32: after four and a half minutes
  of lost audio the line says a few milliseconds instead.
- A tick rate that does not divide 1000 makes `portTICK_PERIOD_MS` round down, so
  that elapsed time is under-counted (at 128 Hz by a tenth) and every timeout
  comes late by as much. Below 50 Hz the slice of 20 ms is less than a tick, and
  the read loop is the busy poll `i2s_mic.c` 59 wants to avoid; both are excluded
  by `TimingAssumption`. A timeout within a slice of 2^32 ms, other than
  `portMAX_DELAY`, may be passed by the elapsed time's wrap.
- In the live relay a quiet log stands for what had happened when the counts were
  read: a loss between the two reads is reported two seconds later
  (`QuietLogMeansWhole`, `LossIsLogged`).
- The comment at `uart/mic_audio_rcv.py` 197 asks for the script to sleep *longer*
  than the board's 600 ms; what the handshake needs is the opposite bound, the
  script must be done *before* the board's 750 ms are over
  (`HandshakeAssumption`), which leaves it 20 to 50 ms, depending on the tick
  rate.
- On the USB board a trigger byte written just as the board is reset stays in the
  FIFO: if the script is then stopped and run again on a board that opening does
  not reset, the stale byte acts as a stray one.

## 4. Proofs

Each component's invariant was checked by TLC, on the instance of its run, before
it was proved. What is assumed of the constants is the named assumption of the
module: `DriverAssumption` and `MicAssumption` (any ring of at least two, any DMA
cap, set of readers, sizes, lengths and bounds), `HandshakeAssumption` (delays that
leave the script's sleep shorter than the board's), `JtagAssumption`,
`CompactionAssumption` and `PathAssumption` (any noise, byte
and chunk counts), `LoopbackAssumption` and `RelayAssumption` (positive sizes),
`ConfigAssumption` and `TimingAssumption` (a tick rate that divides 1000 and whose
tick is no longer than the least slice; configurations of any integers; timeouts
that end, two slices and the lateness included, before the clock wraps).

### The component (`I2SMicProofs`)

- *The driver.* Its type invariant is preserved by every driver
  step (`DriverTypeStep`); the queue stays within its capacity because a full
  queue loses an entry before it gains one (`QueueAfterDmaStep`). `RingStep`:
  every driver step preserves `RingInOrder`, "the queue is the `Len(q)` buffers
  behind the one being filled, oldest first, each with its capture".
- *Types.* `TypeCorrect`. `TypeOK` alone is not inductive: that a copy
  moves a natural number of bytes needs `CopyBounds` (read position within the
  buffer, bytes read within the length). `Typed` is their conjunction.
- *Coordination.* The invariant `Coordination` adds to `Typed`
  - `ControlInv`: the value of `state`, the channel's state, `running`, the DMA
    and the handle at each step of the control task. No property is inductive
    without it, because they are true *between* the steps of a call for reasons
    the step determines;
  - `SingleReader` and `ReadersNeedInit` (nobody is inside a read of an
    uninitialised component): together they carry the argument of the two
    critical sections. `deinit()` may clear `state` only if `reader_active` is
    false, hence if nobody is inside;
  - `OneToken`: the semaphore is held by a reader in the copy loop or is in the
    channel, and neither while the DMA is off.

  From it follow `AlwaysSingleReader`, `NeverReadOfDeletedChannel`,
  `AlwaysRunningMeansEnabled`, `AlwaysDriverCallsLegal`,
  `AlwaysQuietWhenStopped`, `AlwaysPublishedAsConfigured`,
  `AlwaysNoChannelLeak`, and the three of these that concern the channel are
  together `AlwaysChannelConsistent`.
- *Accounting.* `AlwaysLossAccounting`, from the equation itself and
  `FreshChannel` (a channel that is being set up has captured nothing, and the
  counter is 0 when a session begins): the equation is void before the first
  `start()`, so something must say what it starts from. With `RingInOrder` it
  gives `AlwaysQueueHeadIsNext`; `RingInOrder` alone gives
  `AlwaysDmaNeverWritesQueued`, since a queue of at most `Desc - 1` entries
  never reaches round to the buffer being filled.
- *Delivery.* The invariant `Delivery` says at each step of a read whether
  it has fetched nothing or one buffer and all of it (`ReadOf`), and that
  outside a copy the driver's current buffer is used up (`UsedUp`). That is what
  the length check of `i2s_mic_read` buys: the driver would otherwise serve the
  rest of an older buffer first. Hence `AlwaysOneBufferOrNothing`;
  `AlwaysNoStaleAudio` follows with `QueueHeadIsNext`.
  `AlwaysTornMeansQueueFull` rests on `AheadOfDma`: during a copy the buffer
  stands right before the queued ones until the queue is full.
  `StoppedReadsLearnOfStop` rests on `running` staying clear until a `start()`.
- *Refinement.* `MicImplementsStream`. The mapping is in `I2SMicStream`:
  what waits is `Len(q)`, what a read holds is `currSeq` once it has fetched.
  Each action is shown to be one of the stream's or to leave its variables
  alone. `Fetch` is where `RingInOrder` is needed (the head of the queue is
  capture `seq - Len(q)`), `EndRead` where `Delivery` is (ESP_OK exactly if a
  buffer was fetched), `Start` where `FreshChannel` and `ControlInv` are.

The proofs split `Next` by actor (`NextByActor`); for each actor a lemma says
what it leaves alone, and the rest is one step per action.

### The clock (`ReadTimingProofs`)

- *`init()`.* Lemmas about the three roundings: the driver's cap on a buffer gives
  back `size` or less (`SizeTaken`), a period is rounded up to the ms
  (`PeriodRounded`), a wait down to the tick (`TicksOf`). `InitIsExact` is
  then a fact about each configuration (`ExactWhenRight`): what is answered and
  what is published are functions of it (`AnsweredRight`, `PublishedRight`).
- *Ticks.* All the rest is counted in whole ticks. `TicksLeft` makes that
  possible: what is left of a timeout after whole ticks is cut to what is left of
  its ticks, so that cutting the slices one by one loses nothing. `ElapsedIsSpent`
  says that the code's doubly wrapped subtraction is the time since the call; it
  needs `SpentBound`, that the read is not so old that the counter has gone round
  (`FarFromWrap`), which rests in turn on the invariant that bounds the read's age.
- *The read.* `WaitOfStep` says at each step how long the reader has slept since it
  last looked at the clock (`Slept`), and that this and what is left of its
  wait (`due`) make a slice - or two, if a `start()` gave it the semaphore it had
  waited for and the wait for a buffer began afresh. `ClockOfStep` says how old the
  read was at that look: with a whole slice still to go, or within its last, whose
  length is then exactly what was left. Neither `NotTooEarly` nor `NotTooLate` is
  inductive without the two.
- *`stop()`.* `StoppedInSlice` bounds the time since `stop()` and the longest the
  reader can still sleep (`More`) by one slice; `BlockedByReader` the time `stop()`
  has waited and what is left until a buffer wakes the reader (`Wake`) by one period.
  The second speaks only of a reader that holds the semaphore: `OneToken` says there
  is one while `stop()` waits, and that none comes in behind it.

### The handshakes (`ItemStream`, `UartHandshakeProofs`, `JtagHandshakeProofs`)

`HeaderNotMissed` is not inductive in either: that the script does not throw the
header away depends on where the other side is. `ItemStream` has the lemmas about
what is on its way: what reading the first item, and sending one more, leave of
"READY, the answer, a header is in the input", "no header but behind the answer",
"nothing but PCM behind a header".

- *UART.* That the header comes too late for the flush is a fact about clocks. The
  invariant `Handshake` adds
  - `ScriptIsFirst`: while the script sleeps after its trigger, what is left of its
    sleep is less than the least time before the board's header (`BoardRest`). It
    is established when the board takes the trigger - the script's clock started
    no later - and kept because a tick shortens both;
  - `ReadyIsNews`: a script that has READY in its input, or has just seen it, faces
    a board that has no trigger yet. Without it the trigger of an earlier run of
    the script could start the board first;
  - `BaudOfStep`: which baud rate each side uses at each of its steps;
  - `AudioFollows`: behind a header in the input there is only PCM.
- *USB.* No clock separates the two sides; order does.
  - `ReadyIsNews` as above, and the board's input is empty until the script sends;
  - `AckComesFirst`: the script that counts lines for the board's answer has no
    header in front of it that the answer does not precede. This is where the ten
    lines matter: it stops at the answer, or goes on over lines that are no header;
  - `HeaderWaits`: once the board has sent the header, the script that still looks
    for it has it in its input;
  - `QuietOfStep`: the board logs exactly until it has taken the trigger, hence no
    text stands behind the header (`AudioFollows`).

  All but `AudioFollows` hold only while no foreign byte has reached the board, as
  the property does; `OnlyAudioRecorded` needs no such condition.

Proved of both: the types, `AlwaysHeaderNotMissed`, `AlwaysOnlyAudioRecorded`, for
either kind of board and any number of resets.

### The audio path (`AudioPathProofs`)

- `LoopInv`, for every number of frames and either slot, adds
  to `SourceIntact` that what was loaded and what was stored is right.
  `Compacted` speaks only of the end of the loop and is not inductive. The step
  that matters is `Store`: sample `i` goes to half-word `i`, below every frame
  that is still to be read because at least `i + 1` frames have been.
- `Searching` is `HeaderFound` with `OneHeader`: the last byte of the magic occurs in
  the wire once, where the header ends. So the window matches there and nowhere
  before (`FoundAtItsEnd`), for noise of any length that holds no such byte.
- `Written`: the bytes in the file and the bytes kept for the next chunk are, one
  after the other, those that follow the header (`Consecutive`), and fewer than a
  frame are kept. `CutKeepsPlaces` is the lemma about moving the front of one
  sequence to the end of another.
- `SentRight`: the k-th sample sent is the upper half of the slot of frame k, from
  buffer to buffer.

`PathInv`, the conjunction, gives `PathSourceIntact`, `AlwaysHeaderFound` and
`AlwaysFileIsCapture`: the last is `Written` (which byte of the wire is in the file)
composed with `SentRight` (what the board put there).

### The loopback examples (`LoopbackProofs`, `LiveRelayProofs`)

Both are proved over the promise of `MicStream`, not over `I2SMic`; they hold for the
component because of `MicImplementsStream`.

- *One controller.* `RecordInv` is about the recording: which component is up
  at each step (`PhaseOfStep`, the whole of `ControllerFree`); a read fetches one
  capture that waits no more (`OneFetched`); samples stand in the order of the stream
  (`RecordsInOrder`) and what comes next is later still (`MoreToCome`), which makes
  the first inductive. `LoggedCoversGaps` speaks of the finished recording;
  `AllAccounted` carries it: as long as there is room, what was captured and no longer
  waits is recorded, fetched or counted, so the last sample is no further in the
  stream than the losses explain (`CountCovers`).
  `PlayInv` is about the playback: a chunk stays within the recording while parts
  of it are offered (`ChunkInRecording`), what was heard is of the recording and before
  the place the speaker has reached (`PlaysInOrder`), and what is missing before that
  place was refused, a chunk at a time (`RefusedAccounts`).
- *Two controllers.* `OnlyCountedLoss` is about sums of frames, and its invariant
  `LossIsCounted` says for each step of the relay where the frames up to the oldest
  waiting capture are: heard, in hand, or counted once. `InHand` bounds how far
  the ring has run ahead of the buffer in hand by what was counted meanwhile;
  `NothingAhead` says that the speaker never has a frame still to be sent
  (`AlwaysNothingTwice`, an action property). `QuietLogMeansWhole` is about two counts
  read one after the other: `GapIsCounted` (the first missing frame is preceded by a
  count) and `GapIsSeen` (what the status task holds at each of its steps would
  differ from what it logged).

### Not proved

Every invariant the runs check is proved. Liveness (`StopReturns`,
`ReaderLeavesAfterStop`, `FiniteReadReturns`, `SearchEnds`, `OpenGetsAudio`,
`RecordsAgain`, `CatchesUp`, `LossIsLogged`) is out of the prover's reach and stays
with TLC; the findings are TLC's counterexamples.

## 5. Not modelled

- Two tasks making lifecycle calls: excluded by the contract.
- A reading task suspended or deleted inside `i2s_mic_read()`: excluded by the
  contract (`i2s_mic.h` 18-19); it would freeze `stop()`.
- The wrap of `overflow_count` at 2^32; tick rates and timeouts outside
  `TimingAssumption`; two readers under the clock of `ReadTiming`.
- A NULL configuration, and what `init()` copies to the driver without looking
  at it (port, GPIOs).
- The inside of `i2s_spk`, which is not in the repository: that it drains its
  DMA when it is stopped, and that it takes whole samples. A send that took half a
  sample would shift the bytes the loopback examples send next.
- In the streaming examples, the meaning of the header's fields, `written` of
  `uart_write_bytes`, and audio that arrives damaged. A trigger value that
  arrives by chance (noise that reads 0xA5) is not a stray byte of the model, and
  `WireParser`'s noise holds no whole header.
- `raw_dump_test_921600.py`, a script that dumps what another firmware sends: it
  takes no decision.
- The text of the loss report (its milliseconds, see above), and a second `init()`
  with any configuration while capture runs: it changes nothing, and the runs of
  `timing` make it only before capture starts.
- Tests (clients of the component, read as statements of what it promises), host
  fakes (declarations) and build files.

## 6. Plan

1. *(done)* `I2SDriver`, `I2SMic`; all their safety properties proved.
2. *(done)* `MicStream`, `I2SMicStream`, and the proof of the refinement.
3. *(done)* `MicConfig`, `ReadTiming`: the arithmetic of `init()`
   and of the slice loop.
4. *(done)* `UartHandshake` and `JtagHandshake`; proofs for `UartHandshake`.
5. *(done)* `SampleCompaction` with its proof, `WireParser`, `AudioPath`,
   `Loopback`, `LiveRelay`.
6. *(done)* Proofs of all safety properties of `JtagHandshake`, `AudioPath`,
   `Loopback`, `LiveRelay` and `ReadTiming`.
7. What a safety proof can still say about `LossIsLogged` and `RecordsAgain`: that the
   steps their fairness arguments rest on are never undone.
