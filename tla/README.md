# Formal models of tymbal

TLA+ models of tymbal, the low-latency audio stream library of this repository,
with TLC configurations that check them and TLAPS proofs of what matters most.
Paths are relative to `src/`.

## 1. The system

A program opens a `Stream` on a `Host`, gives it a callback, starts it, and the
library calls the callback once per period on a locked, real-time thread until
the stream is stopped, closed, or its device fails.

| Component | State it keeps | Operations | Talks to |
|---|---|---|---|
| Portable stream, `stream.go` | `state`, `closing`, `started`, `interrupt`, `stopRequested`, the channels `startDone`, `done`, `closeDone`, the errors, `stats` | `Open`, `Start`, `Stop`, `Close`, `Err`, `Stats`; the thread: `run`, `loop`, `finishRun` | one driver stream; the watchdog; the callback |
| Driver contract, `internal/driver` | – | `Start`, `Wait`, `Interrupt`, `Buffers`, `Commit`, `Recover`, `Stop`, `Close` | implemented by ALSA, WASAPI, CoreAudio, the fake |
| Fake host, `fake.go` | one `fakeState` per host, shared by its streams one after the other: counts, channels, faults | a driver, plus `Advance`, `InjectStall`, `InjectDropout`, `Recorded` | the stream thread, test goroutines |
| Frame ring and arena, `internal/ring` | two free-running counters, slots in one mapping | `Write`, `Read`, `Len`; `Take` | one producer, one consumer |
| Allocation watchdog, `internal/rt/rt.go` | baselines, claimed totals, flags | start, `startScope`, sampler, `stop` | the stream thread; `Stats` |
| Priorities, `internal/rt` | what was raised and must be restored | `Raise`, `Lower`, `RaiseProcessThreads` | the kernel, rtkit over D-Bus, MMCSS |
| ALSA, `internal/alsa` | PCM descriptors, wake pipe, drop-outs, poll sets; a probe cache | the contract; enumerate, watch, open, negotiate | the kernel |
| WASAPI, `internal/wasapi` | events, staged packets; a COM owner thread for notifications | the contract; watch endpoints | COM |
| CoreAudio, `internal/coreaudio` | lock-free input and output buffers | the contract; permission | system callbacks |
| D-Bus, `internal/dbus` | one connection, a serial | authenticate, call | the system bus |
| Histogram, formats | buckets; none | record, percentile; encode, decode | – |
| Harnesses, command line, lint | – | – | the public API |

What is hard here:

* *Interleavings of the calls.* `Start`, `Stop` and `Close` may be called by any
  goroutine at any time; each unlocks before it waits or interrupts, so another
  may do its whole work in between, and the stream thread may end by itself.
* *The thread and the device.* The device may fail in any call; a stop may be
  requested before it started, while it waits, while it recovers.
* *Lock-free exchange.* The ring, the watchdog's totals and the CoreAudio buffers
  are read and written without locks, with counters that wrap.
* *Wake-ups.* Auto-reset events, pipes and semaphores carry interrupts and
  periods; each backend looks at a flag first and then goes to sleep.
* *Two sides on one thread.* A duplex stream has one thread for two devices.
* *Shared state that outlives a stream.* The fake host is opened again while a
  goroutine may still hold on to its last stream; the scheduling of the process's
  threads is changed and put back while they come and go.
* *Partial failure.* Chains of a dozen COM calls, duplex streams and priority
  changes fail half way and must be undone.

PROJECT.json lists every component, with what is left out of each, and every
hazard at its line, with the properties that would catch it.

## 2. Modules

| Module | What it models |
|---|---|
| `StreamCore` | the lifecycle of `stream.go`: callers, stream thread, device |
| `StreamLifecycle` | what a `Stream` promises its callers: no lock, no thread, no interrupt |
| `StreamCoreRefinement` | the mapping of the one to the other, and of the core's device to `DriverStream` |
| `DriverStream` | the contract between the core and a backend: which calls in which order, with which answers |
| `StreamCoreProofs` | proofs about the lifecycle, the two refinements among them |
| `StreamLoop` | drop-outs and discontinuities: what the loop counts and what the callback is told |
| `AlsaPcm`, `AlsaPcmProofs` | the driver stream of ALSA over the kernel's devices; proofs about it |
| `FrameRing`, `FrameRingLen` | the ring, step by step, and `Len` beside it |
| `CaptureStager` | the stager of WASAPI capture: packets in, periods out; operators only |
| `WasapiSession` | how a WASAPI stream acquires its COM objects, in `Open` and in `Start`, and gives them back |
| `WasapiStream` | the six kinds of WASAPI stream between `Start` and `Stop` |
| `WasapiProofs` | proofs about sessions, streams and the watch of endpoints |
| `CoreAudioUnits` | the two halves of a CoreAudio stream: what is made, switched, interrupted and destroyed |
| `CoreAudioStream` | the stream thread and the two callbacks over the lock-free buffers |
| `CoreAudioProofs` | proofs about the halves, the buffers and the clock |
| `LinuxThreads` | the threads of a process and `RaiseProcessThreads` |
| `StreamPriority`, `StreamPriorityProofs` | `rt.Raise` and `rt.Lower` of a stream's thread, D-Bus services included; proofs about both modules |
| `FrameQueue` | the bounded FIFO queue the ring promises |
| `FrameRingProofs` | proofs about the ring, and the arithmetic of counters they need |
| `AllocWatchdog` | sampler, stream thread and the totals in `Stats` |
| `StreamStatsProofs` | proofs about the statistics: `StreamLoop` and `AllocWatchdog` |
| `FakeHost`, `FakeHostProofs` | streams that follow each other on one fake host, `Advance`, late interrupts; proofs about it |
| `EndpointWatch` | `Host.Watch` on Windows |
| `IndependentParts` | `StreamLoop`, `AllocWatchdog` and `FakeHost` side by side, for one run |

`StreamCore` is the centre. `StreamLoop` looks into its loop at what `StreamCore`
abstracts; `AlsaPcm`, `WasapiStream`, `CoreAudioStream` and `FakeHost` are the
devices behind it, each driven in the order of the portable loop (`Start`, then
`Wait`, callback, `Commit`, with `Recover` after an xrun and `Stop` after anything
else). That order is a specification of its own, `DriverStream`, with one refinement
from each side: the core calls its device so, and `AlsaPcm`, `WasapiStream` and
`CoreAudioStream` answer so. No backend takes its frames through the ring yet; the watchdog and the
priorities bracket the loop. `EndpointWatch` stands beside all of them, as `Watch` does. Three pairs are
built by extension: `WasapiStream` on `WasapiSession` on `CaptureStager`,
`CoreAudioStream` on `CoreAudioUnits`, `StreamPriority` on `LinuxThreads`. The
lower module owns its variables and actions, the upper one composes them with
its own into one `Next`. `IndependentParts` composes nothing: the statistics of the
loop, the watchdog's totals and the fake host share no state and no property is about
two of them, so it only chooses in `part` whose steps are taken, and one run adds the
three state spaces up.

An operator named `X_...` before a definition is the same code with a plausible
bug; PROJECT.json lists each with the property that catches it.

### StreamCore

`state`, `closing`, `started`, `interrupt`, `stopRequested`, `startErr` and
`closeErr` are the fields of `Stream`; a channel is the flag that it is closed;
`failure` is `failureErr` once `failureReady`. `pc[c]` is where the goroutine `c`
is: at rest, about to lock (`"Start"`, `"Stop"`, `"Close"`), or at the point
where it waits, interrupts or closes. `tpc` is the control point of the stream
thread, `device` and `interrupted` what the driver stream has been told.

A critical section of `mu` is one action, since nothing in it blocks. Everything
a method does outside is an action of its own: `StartReturn`, `StopReturn` and
`CloseReturn` are the ends of `awaitClosed`; `Interrupt`, `CloseDevice` and
`CloseFinish` are what `Stop` and `Close` do after unlocking. The thread takes
one action per driver call: `RunStart`, `LoopTop`, `Wait`, `AfterWait` (the tests
of the result, in the code's order), `Recover`, `RunCallback`, `CommitSilence`,
`Commit`, `RunStop`, `FinishRun`.

The device is the contract: every call may fail with any error the code
distinguishes, `Wait` blocks until the device reports something, and only a
device that has been interrupted answers `ErrInterrupted`. The constant
`StartReportsInterrupt` says whether `Start` may end because of an interrupt: ALSA's
refuses an interrupted device and CoreAudio's, when there is an input, waits for the
first frames and is interrupted like a `Wait`; WASAPI's and the fake's do neither. Callers are not the stream thread: `Stop` or
`Close` called from the callback waits for its own caller, and is not modelled.

### DriverStream

`at` is how far a stream has come with its driver: new, ready for a `Wait`, with a
period to commit, with an xrun to recover from, interrupted, over, stopped, closed.
An action is a call with its answer, and an answer that does not fit has no action:
a backend that refuses a call made in its turn, reports an interrupt nobody asked
for or reports an xrun and cannot be asked to recover does not implement it, and
neither does a core that calls out of turn. `Interrupt` may come at any moment.
`DeviceAt` (in `StreamCoreRefinement`) and `StreamAt` (in `AlsaPcm`, `WasapiStream` and
`CoreAudioStream`) map the four models to it; a `Wait` or a `Commit` that takes many
steps there is one step here. An ALSA, CoreAudio or one-sided WASAPI stream that answers
`Wait`, `Commit` or `Recover` with a state error is at `"refused"`, which the contract
does not have. Not part of it: what
`Close` answers, and the answers of `Stop`, which ends a stream whatever it says.

The fake host is left out: it shares one state between streams, where a late
`Interrupt` reaches the next one, and so does not keep the contract. ALSA's `Start`
refuses a stream that was interrupted; to the contract that is a `Start` that failed. A duplex WASAPI stream may refuse a `Wait`
after a `Recover` (the run `wasapi_duplex_recover`); here that is one more failure.

### StreamLoop

`lastDropouts`, `discontinuity` and `frame` are locals of `loop`, `dropouts` is
the counter in `stats`, `time` the `Time` of the last callback. The device's
counter moves at any moment, also between the two reads the loop makes of it,
and may start again at zero, which the loop is written for. `CountAgain` is the
read after a `Commit` that failed with `ErrXrun`, `Fresh` the difference after
every `Wait`. The history variables say what really happened: `lost` drop-outs,
`seen` of them by the last read, `xruns` results. `StatMax` and `TimeMax` stand
for the limits of `uint64` and `uint32`.

### AlsaPcm

`tpc` and `op` say where the stream thread is: in which call of the driver
stream, and where in it. `transferFull` and `waitReady` are shared by `Start`,
`Wait`, `Commit` and `Recover`, as in the code; `xep`, `fill`, `done` and
`noProgress` are their arguments and locals. `AfterCall` is what `run` and `loop`
do with the answer; they stop the device after an interrupt as after any failure, and
the points `"interrupted"` and `"refused"` only keep the two apart. `OutOfTurn` is the
test that begins `Wait`, `Commit` and `Recover`; that it never answers is a theorem. Each ioctl is an action, each poll two: `ppoll` with the
draining of the wake byte, then the tests, so that an interrupt can fall between.

The kernel is modelled from how the code uses it. Devices that are linked share
one state; the output starts by itself when `startThreshold` frames, the whole
buffer, have been written; a transfer moves any number of pieces, or none and
then `EAGAIN`; `poll` answers for `availMin` frames or for an error. A running
device may run out, be suspended, vanish, or stall without a word. The levels
`queued` and `avail` count pieces of a period, so that a short transfer leaves a
period unfinished.

`Interrupt` is taken apart into its swap, its lock, its write and its unlock, and
runs on behalf of a stop, at any moment, and of `Close`, once the thread has
gone. The pipe holds one byte: `Interrupt` writes at most once per stream.
`incidents` and `resumed` are history: what befell a running device, and whether
`Recover` ever resumed it instead of preparing it again.

### FrameRing, FrameRingLen, FrameQueue

Each atomic load and store is an action. A copy into a slot begins in one action
(the slot is `Torn`) and ends in another, so that a reader that came too early
would see it. A counter's own side loads it without an action: nobody else moves
it. `Modulus` stands for 2^64 and `Slots` for the number of slots, both powers
of two in the code; only `Modulus % Slots = 0` is used. `FIFOSpec` maps the ring
to `FrameQueue`: the queue is what lies between the counters, and an operation
happens at the step that decides its result: `Write` at the store of head or at
the load that finds the ring full, `Read` at the store of tail or at the load
that finds it empty. `FrameRingLen` adds a goroutine inside `Len` and the history
of lengths while it is there.

### AllocWatchdog

`count` is the number of objects ever allocated, by anyone at any time, and
`published` what a metrics read would show of them: never more, possibly less.
`ReadMemStats` publishes everything. `update` and `updateScope` are the same code
over two sets of variables, hence one operator over the count `k`; the
compare-and-swap is one step and the report the next. Subtraction wraps at
`Word`, as `uint64` does. `Exact` says that `Stats` shows what stop read, which holds
in the end (`ExactInTheEnd`) but not yet when stop returns (`ExactAfterStop`): the
sampler may have claimed the last total and be about to report it.

### FakeHost

Streams are numbered by generation; `tokens` and `interrupt` are kept per stream
because a goroutine goes on using the channel it picked up, while the streams
themselves reach the current ones through the shared `fakeState`. `watch` is the
`changed` channel the waiting `Advance` holds: armed, closed, or orphaned by a
reopening. What uses the driver stream is what `stream.go` may do: one thread, at
most one `Interrupt` per stream, claimed on a running stream and called at any
later moment, `Close` after the thread. `WaitFault` is an injected fault: one
xrun, after which the period is delivered.

### EndpointWatch

`opc` is the COM owner's control point, `mpc` that of the goroutine that called
`Watch`, `dpc` the dispatcher's and `spc[s]` that of a caller of stop, the
callback included. `endpointSnapshot` reads the defaults and then the endpoints,
two actions, and the system may change in between. `wake` and `dispatchWake` are
channels of capacity one, `latest` the slot `publish` writes, `previous` the
snapshot the dispatcher compares with (the owner's baseline until it runs).
`dispatchState` is the packed atomic word, loaded in one step and swapped in
another wherever the code has a compare-and-swap loop. `stopOnce.Do` lets one
caller through; the others wait for it. The events of a batch are the set `events`,
told in the order of `First`: by endpoint, the default last.

The enumerator is external: it owes one notification for each change made while
the client is registered, and delivers it when it likes. One direction stands for
the two. `view` is what a client knows that applies the events to the list it
started from; `blind` marks a watch whose snapshot after registering failed.

### CaptureStager, WasapiSession, WasapiStream

A frame is its device position, modulo `Positions`; a position nobody stamped is
`Unknown`. `CaptureStager` maps stager records as `appendPacket`,
`preparePeriod`, `commitPeriod` and `reset` do. `WasapiStream` gives it packets
of any size: an endpoint that lost frames flags the next packet or carries the
positions that tell it, and the very first packet may be flagged for no reason.

`WasapiSession` walks the chains of COM calls as sequences of named steps. A step
acquires (`field` is what the code's fields and locals name, `live` what exists),
compares (`Check`, `Recheck`), or fails with one of the errors the code
classifies; `ProbeEnds`, `StartFails`, `ReleaseObjects` and `CloseInterrupt` are
the clean-ups. An offer stands for what an endpoint offers (mix format, period,
buffer) and may change once, anywhere between the first look and the end of
`Start`. Exclusive mode starts its client over once after a misaligned buffer
(`Misaligned`, `Reactivate`). `Interrupt` is two steps per side, the flag and the
event under `interruptMu`.

`pc` of `WasapiStream` is where the stream thread is in `Wait`, `Commit` or
`Recover`. Each look at an endpoint (padding, next packet, clock) is an action,
so a chunk of audio and an interrupt can fall between any two.
`WaitForMultipleObjects` takes the first event that is set and resets it. The
QPC timestamps that travel with positions, the arithmetic of the clock and the
negotiation of the period are left out.

### CoreAudioUnits, CoreAudioStream

`has[d]` is what exists of a half: memory, semaphore, unit. `work` holds the steps
that the interrupting and the closing goroutine have left; `wakeMu` is the lock
that keeps a semaphore from being destroyed between the look at `closed` and the
signal. A callback is at `cb[d]`, and `AudioOutputUnitStop` and disposal wait for it.

`CoreAudioStream` has every load and store that the callbacks and the thread
share as an action of its own. Positions never wrap in the code and only their
distances matter: `queued` frames in the output ring, `used` in the input ring,
`lag` from the reader's phase to the head; `total` is the head itself up to
`Capacity`, since the tail does not go before the first frame. A request of the render
callback has up to `MaxRequest` frames, more than a `Period` or than all that is
queued, as the device's buffer may; a packet has up to `MaxPacket`. `stamp` is the sequence-locked
timestamp and `look` what the reader has seen of it. The resampler is reduced to
the frames it needs on either side of its phase, and both clocks run at the same
rate. A semaphore is waited for in slices of time, after which a silent input is
lost and a silent output looked up. `Wait` and `Commit` refuse what comes out of turn:
`ready` and `outReady` say which half has a period up, and an xrun of the input may
leave the output's up until the next `Commit`. Once the thread has left its loop
nothing looks at the rings any more, and the model forgets them (`Leaving`).

After a `Recover` from a reader that fell behind, the reader's phase goes
`Target` frames behind the head but behind the tail it has published, so for one
read it holds frames that the callback believes are free. The code relies on the
callback being slower than that; `Spare` bounds what it captures meanwhile. The
resampler does not reach before the point where it started again, but between equal
rates the code copies frames without that look (`input_buffer.go:89`): there
`InputHeld` promises only that a ring that holds `Target` frames, a packet and `Spare`
is enough. With periods of 4096 or more at equal rates of 16 kHz it is not, and the
first period after a `Recover` may be of frames that are being overwritten.

`StreamAssumption` is what `Open` gives. `Half` is 64 frames, `Target` is two device
buffers or three periods and `Half`, whichever is more, `MaxQueue` is above it, a
packet is at most 4096 frames or a device buffer, and the capacity is a power of two of
at least a second and four packets. Its last conjunct asks room for `Target`, the
resampler, a packet and `Spare`, less the period that is read; over all rates, buffers
and periods that `Open` accepts, this leaves `Spare` at least 1280 frames. It asks
nothing when `Target` does not fit into the ring at all, as with a period of 8192 at 8
or 16 kHz: then `Start` waits until it is interrupted or fails, and nothing is read.
A period may be shorter than `Half`; the tail then moves back with the first read after
a `Recover`.

### LinuxThreads, StreamPriority

A thread has a policy, a priority, a nice level and `SCHED_RESET_ON_FORK`; only
the order of priorities matters, the process's below the stream's below one
stronger. `Permitted` and `Becomes` are `sched_setattr` as the kernel answers it,
by capability, `RLIMIT_RTPRIO` and what the thread has. A thread may be born of
any other or exit between any two steps. `Visit` reads a thread's attributes
(`found` is `previous`, `raised` its keys), `RaiseThread` sets them; `EndPass`
lists again while something changed. The restore lists once, and passes over a thread that
is not as it was raised (`AtProcessLevel`), the flag `SCHED_RESET_ON_FORK` included.

`StreamPriority` is `rt.Raise` on the stream's thread: `Look`, the cap of
`RLIMIT_RTTIME` as read and set under `linuxRTTimeMu` (`CapTime`, and `OtherStream`
for anyone else who holds that lock), `Direct`, then four service phases with a
deadline each (`Connect`, `Send`, `ReadMessage`, `Timeout`), and `Verify`, which
asks the kernel whatever the service answered. What is asked of a service is
a priority up to the stream's (`Askable`). A service may answer late, wrongly
or never, and may act after it was given up. Messages are signals, replies and
errors; addresses, authentication, names and signatures all end in the same
failure of the phase and are left out.

## 3. Runs

| Run | Configuration | What it shows |
|---|---|---|
| `stream_core` | 2 callers, fairness; 83,000 states | safety of the lifecycle, refinement of `StreamLifecycle` and of `DriverStream`, every call returns |
| `alsa_start_race` | 2 callers, `StartReportsInterrupt` | **violated**: a stop that overtakes the start of the device becomes a failure |
| `independent_parts` | loop: counters to 3 and 2, 4 drop-outs, 3 xruns, 4 callbacks; watchdog: 4 allocations; fake host: 2 streams, 3 periods, 2 tokens; fairness; 510,000 states | drop-outs are counted once, never invented, and announced with a discontinuity; totals are bounded by what was allocated and by stop's reading, and exact in the end; periods are kept, nil means committed, every `Advance` returns |
| `watchdog_stop` | 4 allocations, fairness | **violated**: `Stats` may lack the last total when stop has returned |
| `alsa_pcm` | 2 periods of 2 pieces, 2 tries, 2 incidents, fairness; 104,000 states | incidents are counted once and a whole buffer is in flight until a resume (`BooksKept`), no interrupt is lost, nothing is used after the close, calls end, the stream answers as `DriverStream` says |
| `wasapi_stream` | all six kinds, period 2, buffer 3, positions modulo 3, 2 offers, fairness; 762,000 states | periods are true to the endpoint, drop-outs tell gaps, no wake-up or interrupt is lost, the stream answers as `DriverStream` says, objects are released once, a stream starts as it was opened |
| `wasapi_duplex_recover` | duplex only | **violated**: after a recovery a duplex stream may refuse to wait |
| `coreaudio` | all three kinds, period 1, requests to 3 and packets to 2 frames, 2 frames ahead, ring of 5, fairness; 787,000 states | buffers are never touched by both sides, a clock is of one packet, nothing is left or used after a close, the stream answers as `DriverStream` says, sleepers are woken |
| `linux_realtime` | 3 threads, 3 passes, 2 messages, fairness; 1,700,000 states | no thread is overlooked, or left raised by the restore unless a stream has changed it, the cap holds, the grant is true, the thread is put back, `Raise` returns |
| `restore_reset` | the same constants | **violated**: a thread raised with the process, on which a stream has run, may be left real-time by the restore |
| `frame_ring` | 4 slots, modulus 8, 2 contents | no slot race, FIFO, across wraps of both counters; `Len` is right for the two sides |
| `endpoint_watch` | 2 endpoints, 1 user and the callback, 2 changes, 1 failure, fairness; 1,190,000 states | the client knows every change in the end, is told exactly, and nothing after a stop, which returns |

The four violated properties quote what the repository says; PROJECT.json gives
each its sentence and its counterexample in words.

Some behaviours the models show are not findings, since nothing in the repository
says otherwise, but a reader should know them:

* A late `Interrupt` of a closed stream of the fake host ends the next one.
* A `Watch` whose enumeration failed while it was set up does not look again until
  the system notifies it.
* After an ALSA `Recover` that resumed, a duplex stream has less than one buffer in
  flight.
* The drains of WASAPI and the xrun loop of CoreAudio do not look at the interrupt,
  so an endpoint that loses frames in every turn keeps a stream from stopping;
  `InterruptHeard` and `CallsEnd` make an exception of it.
* A Linux restore lists the threads once: one born of a thread not yet restored,
  after the listing, keeps its real-time priority, and so does a stream's thread
  put back meanwhile to the raised priority it had found (`since` in the properties).
  It passes over the thread of a stream that still runs with its own priority, whose
  `Lower` then puts back the raised one. That it does so too after a stream without
  privilege has ended is the finding of `restore_reset`.
* CoreAudio's `Start` waits for a target number of input frames, which a period of
  8192 at 8 or 16 kHz puts above the ring's capacity: it then returns only when it is
  interrupted or fails. Between equal rates the first period after a `Recover` may be
  torn if the ring is not much larger than the target (section 2).

*Why the bounds are enough.* What two goroutines can do to each other in the
methods of a `Stream` needs two of them: every critical section leaves behind only
flags that stay set, and the theorems hold for any number. A stream is started
once, so its thread needs no bound: the loop has finitely many states. The ring
goes round its slots twice before a counter wraps, and both counters wrap again
and again, since the run has no other bound. Four allocations let one fall before the
first baseline, between the two, in the loop and after stop. Two streams are a
stream and the one that follows it; three periods with room for two tokens make
`Advance` block on the channel. Four drop-outs pass both limits of `StreamLoop`,
and three xruns allow one in `Wait`, one in `Commit` and one after the recovery.
Two periods are the least that a buffer can rotate and two pieces the least that
can leave a period unfinished; with two tries the second must give up, and two
incidents are one that recovery meets after another. `EndpointWatch` needs two
endpoints to exchange a default, two changes so that one falls into the snapshot
that the other caused, and one failure to be retried.

In `wasapi_stream` a buffer of three frames and a period of two make packets that
are shorter than a period, equal to it and longer, and periods made of the rest of
one packet and the start of the next; three positions tell a frame from its
neighbours on both sides. Nothing else is bounded: the stream runs until it fails
or is interrupted. In `coreaudio` the output ring holds two periods, so that one can
be written while the other is played, or both taken by one callback, whose request may
be larger still; packets are shorter and longer than what a read takes; the input ring
of five is the least that leaves the target, the resampler's margin, a packet and
`Spare`, and overflows when the reader sleeps; a reader that has begun may fall behind
`MaxQueue`. A resampler longer than a period was left to the proof. A semaphore that counts to one loses as many signals as any.
Three threads are the stream's, one to be raised and one to be born or to exit
meanwhile; with three passes the last is reached with something still changing;
of two messages the second is one too many. Priorities and times keep their
order only. Further bounds of `linux_realtime`: another stream takes the lock before
the threads are raised, a raise or a restore and a stream's own `Raise` or `Lower` do
not overlap, and a service acts before `Lower` or not at all. Without privilege
`RaiseProcessThreads` is refused throughout and is not run. Thread ids are not reused
and no thread starts with `SCHED_RR` or `SCHED_DEADLINE`.

*Fairness.* `stream.go` runs on a kernel thread and goroutines that the runtime
schedules, so the stream thread and every goroutine inside a call are weakly
fair. `Wait` is fair only when interrupted: a device owes nobody a period. Nobody
has to call a method. In `AllocWatchdog` the sampler and the thread are fair, but
the loop need not end; in `FakeHost` the stream threads (their callback returns)
and the `Advance` in progress. In `AlsaPcm` the thread and the callers are fair,
and a running device until its buffer is used up, but it may stall at any moment,
and `CallsEnd` then promises nothing: `Commit` and `Recover` do not look at the
interrupt. In `EndpointWatch` the three threads, the callers inside stop and the
delivery of a notification that is due are fair; callbacks return. In `WasapiStream`
the thread and an `Interrupt` once begun are fair, and the endpoints owe nothing. In
`CoreAudioStream` so are a callback once called, and the slices of time in which a
semaphore is waited for. In `StreamPriority` the stream's thread is weakly fair, a
deadline passes, and `CapTime` is strongly fair: `sync.Mutex` hands itself to a waiter
that starves. The services owe nothing.

*No deadlock check* where a model ends by itself: the changes, drop-outs,
allocations, periods or passes are used up, or the stream is closed.

## 4. Proofs

Every safety property that a run checks is also a theorem, for every value of the
constants that the named assumptions allow. The bounds of section 3 are gone there:
any number of callers, threads, streams, endpoints and incidents, any sizes. None of
these properties is inductive by itself. Each proof module states an invariant that
is, the conjunction of named parts with one subject each; one lemma per action, or
per group of actions that touch the same parts, shows that it is kept; then the
property follows. Every invariant was an invariant of a TLC run before it was proved.

Liveness stays with TLC: `CallsReturn`, `ExactInTheEnd`, `AdvanceReturns`,
`StopReturns`, `ClientUpToDate`, `InterruptHeard`, `CallsEnd` and `RaiseReturns` need
fairness, and `ENABLED` is beyond the proof system. What is proved of them is what a
state can say: that a wake-up is pending (`NoLostWakeup`, and `WakeInv` of ALSA).

### StreamCoreProofs

Proves `Spec => []IInv` for any finite set of callers and both kinds of device. That
`Stop` answers nil only when the audio has stopped rests on `done` being closed
exactly when the thread has exited (`ThreadInv`), on the device being where the thread
left it (`DeviceInv`), on one closer holding the close until `closeDone`
(`CloseInv`), on an interrupt following a request (`InterruptInv`), and on
answers being about flags that stay set (`ReplyInv`). The
properties follow: `DeviceProtocol`, `OneAtATime`, `AnswersTrue`, `EndAgreesWithErr`,
and, for devices that do not refuse to start interrupted, `ErrIsSpontaneous`; and two
action properties that no run checks: `FirstFailureKept` and `StateForward`.

Its second half proves `Spec => LifecycleSpec`, with two more invariants:
at most one `Start` is waiting, and a close that has begun has a closer. Its one
assumption is that no caller is the value that stands for nobody. Then it proves
`Spec => DriverSpec`: that the calls of the thread and those of two kinds of goroutines
reach the device in the order of `DriverStream` follows from `DeviceInv` and
`CloseInv`, step by step.

### StreamStatsProofs

The first part proves the properties of `StreamLoop` for any limits and any
sequence of results. `CountedOnce` is inductive only with the distance between the
counter and `lastDropouts` (`CounterInv`); `NeverOver` needs what the next read
would add (`BoundInv`); `Announced` and `Told` need what the last callback knew
(`HistoryInv`) and what `discontinuity` means at each control point (`GapInv`).

The second proves `TotalsTrue` of `AllocWatchdog` for any number of allocations. A
total that exceeds stop's reading would need a sampler that was admitted before stop
and had read after it; `StopInv` says that it cannot. `ReadingInv` bounds every
reading and every baseline by what there is, `CountingInv` says when a count is on,
and that a claimed total is above its baseline, so that the subtraction does not wrap.

### FrameRingProofs

Proves, for any number of slots and any modulus that is a
multiple of it, that the counters stay at most `Slots` apart across every wrap
(`Distance`), that the two sides are never inside one slot (`NoSlotRace`), and that
the ring implements `FrameQueue` (`FIFOSpec`). The invariant adds `DataInv`: what
lies between the counters is whole, and what a busy side holds is its own. For
`Len` called by one of the two sides (`LenWasHeld`), `LenInv` says that the distance
from the head it has loaded to the tail is a length the ring has had since. The facts
about `%` that this takes come first in the module.

### FakeHostProofs

Proves `Delivered` for any number of streams and periods and any capacity of
`tokens`. Streams share one `fakeState`, so the proof must know that they follow each
other (`OneStream`): those before the current one are closed, those after it
untouched, and `claimed` and `ended` speak of the current one. `CallInv` follows an
`Advance` that is overtaken by an `Open`: nothing has been asked of the new stream, so
the counts it then sees, which are not its own, cannot make it answer nil.

### AlsaPcmProofs

Proves `IncidentsCounted` and `OneBufferUntilResumed`, the two parts of `BooksKept`, and
`NoUseAfterClose` for any number of periods and pieces, tries and incidents. `PlaceInv` says which call of the driver
stream each control point belongs to and what it transfers, which the shared
`transferFull` and `waitReady` do not say themselves. `CountInv`: an incident is owed a
count exactly while a thread that uses a running device has not met it, and a device
that is being primed cannot have one. `LevelInv`: while priming, the output lacks
what is still to be written; on a running duplex device both levels lack what the
thread has read and not written back. `CloseInv`: who writes or closes holds the lock,
and the close comes last. `WakeInv`, stated as a theorem of its own
(`InterruptPending`): an interrupt that `Wait` has not seen has its byte in the pipe or
a goroutine about to write it. `Commit` and `Recover` drain the same pipe, but every
`Wait` begins with a look at the flag.

Its second section proves `Spec => DriverSpec` (`AnswersInTurn`). `TurnInv` says that the
stream has been started and not stopped wherever the core may call `Wait`, `Commit` or
`Recover`, so that none of them is refused. That only `Wait` ends by an interrupt needs
the argument of `waitReady`: the three calls sleep on one pipe, and a `Commit` that
answered `ErrInterrupted` would leave a period half written.

### WasapiProofs

Three parts. The first proves `HandlesExact` and `StartedAsOpened` of a session, for
all six kinds of stream and any step that fails. `HandleInv` says what a side may hold
in each phase: one side alone while it is probed, both while a duplex stream starts,
and nothing that the clean-up has not listed. `RunInv`: a client that runs is past the
comparison with what `Open` told, and nothing has changed its grant since.

The second is about the loop between `Start` and `Stop` for any period, buffer and
number of positions, and needs of the session only its phase. `PeriodTrue` rests on
`StageOk`, what is staged is a run of frames and the positions told are its first
one's, and on `Follows`: what the stager expects next is what the endpoint has next,
or short of it by a gap, which is also what `DropoutsTellGaps` needs (`StagingInv`).
`NoLostWakeup` needs `WakeInv`: once the thread is past the look at one side, that
side has nothing more to give or its event is set. Its last part, that no request is
slept through, needs `InterruptInv`: the flag of a side is set before its event, and
whoever has set it is about to set the event, unless the event did not exist then; an
event made later is set at once if the flag is. `NeverRefused` needs `PlaceInv`, which
says in what place of the loop a period may be up.

`Spec => DriverSpec` (`AnswersInTurn`) puts these together: a `Wait` that ends with an
interrupt has seen a flag or an event that only a request sets (`EventInv`), whichever
of a duplex stream's four events woke it, and each point of the loop is at one place of
the contract (`StreamSeen`).

The third is about `EndpointWatch`, for any number of endpoints, goroutines, changes
and failures. `NoLateCallback`: the flag `cancelled` stays set, whoever has left
`cancelDispatch` has set it, and the state a callback was admitted against, which
the compare-and-swap finds unchanged, had it clear (`CancelInv`). `EventsTellSnapshot`:
what the client knows and what of the batch is still to be told make up the snapshot
(`Leads`), a batch has one event for each thing that differs (`Proper`), and an event
is told before it is taken off (`Pending`).

### CoreAudioProofs

`UnitsInv` proves `UnitsSafe` (`NothingLeft` and `NoUseAfterClose`) for the three kinds of stream,
whichever step of `Open` fails and however `Interrupt` and `Close` meet. What is left
of the list of steps of each goroutine is always a suffix of what the code does
(`ListInv`, with lemmas about sequences); what exists is still to be taken apart by it
(`CloseInv`); who is about to signal holds the half's lock and found it open
(`LockInv`); a unit that may call back has its memory and is still to be disposed of
(`RunsInv`).

`RingInv` proves `BuffersHeld` for every geometry that `StreamAssumption` admits and any
number of frames in a request or a packet: callbacks larger than a period, and periods
shorter than `Half`, are among them. For the
output: a period that was waited for has room until it is committed. For the input:
the published tail stays `Half` frames before the reader's phase, or at the first frame
of all, except after a
`Recover`, when the ring must have room for all that the callback may write before
the next read ends; that is where the bound `Spare` and the capacity come in. That the
ring holds `Target` frames is no assumption: a thread that is past `Start` has seen as
many (`PrimedInv`).

`TurnInv` and `PlaceInv` say where the thread sleeps and which halves have a period up.
With `RingInv` they prove `Spec => DriverSpec` (`StreamAnswers`): no `Wait` or `Commit`
that comes in its turn is refused. An input has its period up in the callback and
nowhere else; so has an output alone; but the output half of a duplex stream keeps its
own through an xrun of the input, and `Wait` then does not wait for it again.

`ClockInv` proves `ClockOfOnePacket`: a look at the stamp that no callback has disturbed
began at a whole one, and everything loaded since is from it.

### StreamPriorityProofs

Four invariants, for any set of threads, number of passes and number of messages.
`RealtimeCapped`: the limit never rises because whoever lowers it holds the lock
under which it was read, and what was read is still true (`LockInv`); a stream asks
the kernel or a service only past its own lowering (`CapInv`). `PutBack`: while the
process's threads are left alone, a stream's thread is only ever made stronger
(`Over`), which can be undone without a privilege; nothing is asked of a service for a
thread that was real-time already, and once anything was asked the thread is to be
restored (`BackInv`). `GrantTrue`: to these `GrantInv` adds that what `Raise` answers is
what the kernel reported last, or what the thread had.

`NoneOverlooked` and `ThreadsRestored` are about `RaiseProcessThreads`. During a pass
every living thread is real-time, or still to be looked at, or was born during the
pass; one born normal has a normal parent, which is due or has been raised meanwhile,
and either makes another pass (`PassInv`). A thread that the scan has looked at is
as it was found or as it was made, so that `found` and `raised` say what to put
back (`RestoreInv`). `PrivInv` separates the two halves: where the process's threads can
be raised at all no service is asked. The stream's thread may be raised with the others
and then changed by the stream. `HeldInv`: it is as it was found or as it was made,
or a stream has made it stronger, with `RESET_ON_FORK`, and either runs or could not
clear the flag (`ByItsStream`); and what `Raise` has stored as its previous attributes
is one of the two. `PassedInv`: once the restore has passed it, it no longer has the
process's raised attributes. So the one raised thread that `ThreadsRestored` lets the
restore leave is a stream's, in these two cases.

Properties that are conjunctions of named parts (`LifecycleSafe`, `DropoutsTrue`,
`GapsTold`, `BooksKept`, `UnitsSafe`) have a theorem for each part and one for the whole.

## 5. Not modelled, and the plan

Sample values, formats, logging, wording, enumeration details and everything that
is one system call are left out for good; so are the harnesses, the command line
and the lint. Left out of what is modelled: the clocks, latencies and timing
distributions of the loop; loopback, stalls and the ticker of the fake host; ALSA's
clock and arenas; WASAPI's clock arithmetic, period negotiation and exclusive format
candidates; CoreAudio's permission prompt and the drift of the resampler; priorities
on macOS and Windows.

What could follow, in order:

1. The contract for the fake host, once a stream's `Interrupt` can no longer reach the
   next one.
2. `AlsaDevices`: the probe cache, the polling watcher and the retries of `Open`.
3. `OpenStream` and the pure algorithms (histogram buckets, arena, ALSA's interval
   refinement, the D-Bus codec) against reference definitions.
