# Virtual AC3 encoder: formal models and proofs

The repository has two programs. `engine.exe` (`engine/src`) captures PCM from an
audio endpoint, encodes it to AC3 in IEC 61937 bursts and plays those on an S/PDIF
endpoint in exclusive mode. `virtualac3` (`driver/`) is a kernel-mode WaveRT audio
driver that offers the endpoint the engine captures from. A small script
(`installer/supervisor.vbs`) keeps the engine alive.

## Components

| Component | State | Operations | Talks to |
|---|---|---|---|
| Ring buffer `engine/src/RingBuffer.h` | two atomic free-running 64-bit totals, a power-of-two byte array | Write (producer); Peek, Read, Discard, Clear (consumer) | capture thread writes, render thread reads; no lock |
| Refill gate `Prebuffer.h` | primed flag, reserve | Reset, Rearm, Take | called by the render thread only |
| Render thread `WasapiPassthrough.cpp` | running flag, staging buffer, previous gain, window minimum of the drift control | Start, Stop, thread loop, EncodeIntoBuffer | reads the ring, the gate, the gain; WASAPI event and buffer |
| Capture thread `WasapiCapture.cpp` | running flag, drop and discontinuity counters | Start, Stop, thread loop with the drain | writes the ring; WASAPI packets, auto-reset event |
| Volume follower `VolumeFollower.cpp` | atomic gain | Init, Stop, poll loop with two calls on the endpoint | read by the render thread |
| Encoder `SpdifEncoder.cpp` | FFmpeg objects, surround FIFO, burst destination | Init, Close, EncodePacket, callback OnWritePacket | called by the render thread |
| Process `main.cpp`, `supervisor.vbs` | objects on the stack of main in order of declaration, `g_stop` | initialisation with early returns, main loop, Ctrl+C handler, destruction, relaunch | owns every other engine object |
| WaveRT stream `driver/.../minwavertstream.cpp` | KS state, positions, packet counters, carried remainders of time, timer | SetState, UpdatePosition, timer DPC, packet interface, buffer allocation | the miniport, PortCls, the file writer |
| WaveRT miniport `minwavert.cpp` | pins in use per kind, stream table | NewStream, validation, StreamCreated and StreamClosed | streams, adapter |
| Wave file writer `savedata.cpp` | four-frame buffer, used flags, fifteen shared work items | WriteData, SaveFrame, worker callback, WaitAllWorkItems | stream writes, system worker threads save |
| Adapter `common.cpp`, `adapter.cpp` | subdevice cache, power state, hardware object | install, cache, connect, remove; mixer calls | PortCls, miniports |
| Topology and mixer hardware `basetopo.cpp`, `mintopo.cpp`, `hw.cpp`, `kshelper.cpp` | one volume and one mute register per node | property handlers: support, GET, SET, jack descriptions | clients through PortCls, adapter |
| Format and pin tables `speakerwavtable.h`, `speakertoptable.h` | constant | read by DataRangeIntersection, GetModes, ProposedFormat, ProposedFormat2, NewStream | miniports |

What is hard: three engine threads share a ring, a gain and two flags without a
lock; the device may fail inside any call; auto-reset events stand for several
packets; the stop event has a lower priority than the data event; a gate, a drift
control and a FIFO with unmatched block sizes have to agree on how much is buffered;
`main` has a dozen early returns. In the driver: a DPC, worker threads and property
handlers touch one stream under different protection, time is turned into bytes with
carried remainders, and streams share one pool of work items.

## Correctness properties, component by component

- **Ring**: loses, duplicates and tears nothing, has no data race, and is an atomic
  bounded FIFO to its users.
- **Gate, drift control, render thread**: a slot is a whole packet or silence; once
  open, the gate stays open for the whole cushion; drift control never causes the
  dropout it is there to prevent; Stop returns.
- **Volume follower**: once the user leaves the slider alone, the packets have its gain.
- **Capture thread**: the endpoint is always drained; a full ring drops whole frames
  (if its size is a multiple of theirs) and counts those that carried sound; Stop returns.
- **Encoder**: every call yields a burst, in spite of a filter whose blocks fit no
  packet; the delay does not grow; after a failed Init nothing half-built is used.
- **Process**: no thread outlives an object it uses, on any exit path; Ctrl+C ends the
  process; every end is followed by a relaunch.
- **WaveRT stream**: positions lose no time and agree with each other; completions never
  run ahead of the data; a paused stream stands still. An underrun is reported only when
  the packet that starts playing was not written, whatever overtakes SetWritePacket; and
  no entry of the notification list is freed while the DPC is at it.
- **Wave miniport**: pins in use equal the streams that are registered, also when a
  creation fails half-way; the mixed DRM content covers every stream and is the only one.
  Whatever format or mode one function offers, the others and NewStream accept.
- **File writer**: a frame is not written into while it waits; index and offset stay
  together; no frame is lost to a full pool of work items; STOP waits for everything.
- **Adapter**: whatever fails or is pulled out, a removed device leaves nothing behind,
  an installation that fails is undone (a topology filter that fails alone is not
  noticed, see "Observations"), and a stream never outlives what it points to.
- **Mixer and property handlers**: what is read is a level that was advertised; a SET for all
  channels ends; no request is dropped for want of the hardware object; the two answers
  of a handler, to "how much?" and to "here it is", fit together.

## Modules

Every module translates the handlers it names, splits it exactly where another thread,
callback or device can come between, and keeps all guards, early returns and the order
of the effects. An operator that no other definition uses and that stands
directly before the definition it resembles (`WritePublishEarly` before `WritePublish`,
`LoopForever` before `LoopTest`) is a mistaken form of it: the specifications never use
it; it is there to show that the properties notice the mistake.

| Module | Code | State and steps |
|---|---|---|
| `RingBuffer` | `RingBuffer.h` | `head`, `tail`, `buf` as in the code; one step per load of the peer's index, byte copied and store of the own index. A byte's value is its position in the stream, so that a misplaced byte is seen. |
| `BoundedFifo` | the promise of `RingBuffer.h` | atomic enqueue, dequeue and drop of bytes; `ImplementsFifo` maps the ring's published, unconsumed bytes to its queue. |
| `FrameLevel` | the ring, as the two threads meet in it | abstract: the number of whole frames, which packets raise and the render thread lowers. |
| `OwnedThread` | Start, ThreadProc and Stop of the three thread objects | abstract: `running_`, whether the owner waits in join, whether the thread is there; what main may do with it and what it may count on. |
| `Prebuffer` | `Prebuffer.h` | refilling flag and underrun counter, in frames; instantiated by the next. |
| `WasapiPassthrough` | `WasapiPassthrough.cpp` | one action per region of the thread between two interaction points: test, wait, drift control, GetBuffer, Take, Read + encode, silence, release. Start runs the same fill on its caller's thread, before `client_->Start`. The ring is its fill level (what `RingImplementsFifo` licenses), in whole frames; encoded data is audio or silence. The gain is in `VolumeFollower`. |
| `WasapiCapture` | `WasapiCapture.cpp` | thread phases, the endpoint as a queue of packets (with data, silent, or without data) with the gap flag, the ring as a FIFO of bytes; a byte is its place in its frame, so that misalignment shows. The device never stops delivering; `credit` is how far it may run ahead of one drain. |
| `Engine` | `main.cpp`, Start/Stop of the three threads, `supervisor.vbs` | where main is, and the list of Stops and destructors ahead of it, in the order of C++ scopes. `Unwind(stage)` gives that list for every early return. |
| `VolumeFollower` | `VolumeFollower.cpp`, the gain in `WasapiPassthrough.cpp` | extends `Engine` with the way of the volume: the endpoint's mute and level, the two calls of ReadGain with the user between them, the published gain, the gains at both ends of a packet's ramp. A gain is a percentage; how the ramp is computed is left out. |
| `SpdifEncoder` | `SpdifEncoder.cpp` | set of FFmpeg objects alive, samples in the filter and in the FIFO, result of the last call. FFmpeg is external: a call may fail; the filter holds back `Latency` samples and emits blocks of `Hop`. |
| `WaveRTStream` | `minwavertstream.cpp` | KS state, positions, carries and counter under their source names; time is counted from the code's own time stamps. SetState is cut around the position lock, `ExSetTimer`, `ExCancelTimer` and `KeFlushQueuedDpcs`; `Query` and `TimerExpires` come between. |
| `PacketStream` | `minwavertstream.cpp` | extends `WaveRTStream` with the event-driven interface: SetWritePacket, cut at its two lock sections and the test of `m_KsState` between them; the walk of the DPC over the notification list, which holds the lock; the list itself, whose changes take no lock; the sizes the two allocation functions yield. |
| `SaveData` | `savedata.cpp` | offset, frame index, used flags, work items, counts for the bytes; WriteData is cut at its tests of a frame flag; a worker begins, files and signals in three steps; STOP waits for the items one by one. |
| `Adapter` | `adapter.cpp`, `common.cpp` | a COM object is the set of holders of its references and exists while that set is not empty; `pc` walks StartDevice, PnpHandler and PortCls. |
| `Driver` | `minwavert.cpp`, and Init, destructor and SetContentId of `minwavertstream.cpp` | extends `Adapter` with the streams that hold its wave miniport: where each stream is in its life, the count of pins, the stream table, the mixed content and (external) the mixtures alive in DRM with the ids they contain. NewStream and Init are two steps, as are the last release and the destructor; PortCls runs one pin's creation or destruction at a time. |
| `Mixer` | `kshelper.cpp`, `hw.cpp`, `mintopo.cpp`, mixer calls of `common.cpp` | the registers behind the volume and the mute node, a SET per channel, and the SET for all channels as the loop it is, one write per step. Sizes and answers of the handlers are operators. |
| `Formats` | `minwavert.cpp`, `speakerwavtable.h` | operators only: the tables of the speaker and the five functions that look at them, each by its own rule. |
| `Endpoint` | `common.cpp`, `basetopo.cpp` | composes `Driver`, `Mixer` and `Formats`: when the hardware object is made, reset and destroyed, and that requests come in on open handles. |
| `MCEndpoint` | | `Endpoint` on a small instance. |
| `*_proofs` | | theorems about the module whose name they begin with; those of `WaveRTStream` are in `PacketStream_proofs`, those of `Mixer` and `Formats` in `Endpoint_proofs`. |

The configurations instantiate the modules directly where the constants are numbers and
small sets of model values; `MCEndpoint` gives `Endpoint` a negative level and its symmetry:
streams, content ids and mixed ids are sets whose members nothing tells apart, and its run
has no liveness property. In the other modules the processes play different roles and
there is no symmetry to use.

### What is assumed about the outside

- *WASAPI*: the data event is auto-reset; packets arrive in order; any call may fail and
  a lost device stays lost; loopback capture delivers no events.
- *FFmpeg*: see `SpdifEncoder`. The filter's window is 4096 with overlap 0.5, so a block
  is smaller than two packets (`EncoderAssumption`).
- *Windows audio and PortCls*: IRPs for one handle are finished before it is closed; one buffer per stream, allocated before it runs; KS states
  change one step at a time; calls of SetState do not overlap; open handles veto STOP and
  REMOVE but not surprise removal; PortCls keeps the power-management reference to the
  adapter until STOP or REMOVE has been dispatched; unregistering a subdevice succeeds.
- *The client of a WaveRT stream* (`ClientWaits`): it does not stop a stream in the middle of
  SetWritePacket, and gives an event back only when the stream does not run. Nothing in
  the driver enforces it; without it `WalksTheList` and `NoFalseUnderrun` are both violated.
- *Kernel*: `ExCancelTimer` with wait plus `KeFlushQueuedDpcs` leaves no DPC running; a
  work item that is queued is eventually run. The 1 ms timer fires on time (a DPC that
  changes nothing because no interval has passed is a stutter).

## What is checked

Deadlock is checked in every run. "Passing" runs show that the properties hold in every
reachable state of the instance; "violation" runs show that one statement of the
repository does not hold of its code.

| Run | Question | Bounds and why they are enough |
|---|---|---|
| `ring` | Every interleaving of Write with Peek, Read, Discard and Clear. | 4 bytes; writes of 1, 3, 5 and reads of 0, 2, 3, 5: empty, exact, wrapping and oversized requests. 12 bytes: the indices go round three times, after which a cell's history repeats. |
| `passthrough` | Gate, drift control, starvation, device failure, Start and Stop at any time. | 2 bursts of 2 frames and a margin of 1 make a cycle of 4 and a cushion of 5; a ring of 9 holds more than a cushion and a cycle, so trimming happens; a trim period of 3 lets one full window and one after a partial one occur; chunks 1 and 3 are smaller and larger than a packet and no multiple of it. |
| `capture` | Event and loopback capture against a device that goes on delivering, a full ring, silent packets, device loss, Stop. | Packets of 2 frames, endpoint of 2 packets, ring of 4 frames, frames of 2 bytes: both the endpoint and the ring fill up, and a consumer that takes single frames makes the ring full in the middle of a packet. Any number of packets may arrive between two drains; during one, `Burst` = 2 at once and then one for each `DrainSpeed` = 2 that are copied. With `DrainSpeed` = 1, a drain that is no faster than the device, `StopReturns` fails: the drain never finds the endpoint empty. The real drain copies memory while the device takes 10 ms for a packet. The counters wrap at `CountLimit` = 3 where the code has 64 bits, so the history wraps with them. |
| `capture_misaligned` | Does the ring hold whole frames? | Frames of 3 bytes in a ring of 8. |
| `engine` | Every path through main in the modes info, monitor and run, with and without a duration, and the volume on its way to the packets. | The control is finite by itself. Two levels, 40 and 130 percent: one is passed on, one is clamped, and with the mute there are four settings to move between, at any time. |
| `engine_restart` | Is a failed engine restarted? | Mode run. |
| `spdif` | Init failing anywhere, priming, long sequences of calls. | Packet 5, block 9, latency 7 keep the relations of 1536, 2048 and the window: a block is between one and two packets and the latency is no multiple of either. Library failures stop once 30 samples are buffered; without failures the FIFO stays below that. |
| `savedata` | Writer against workers and STOP, across frame and buffer boundaries. | 3 frames of 2 bytes, requests of up to 3: ends before, at and beyond a frame and splits at the end of the buffer. 5 items for 3 frames, one worker and one partial frame: the smallest pool `PoolAssumption` allows; the driver has 15 for 4. |
| `savedata_spoiled` | Is what is saved what was written? | The same. |
| `wavert` | Timer DPC, queries, packets, events and steps of SetState in every order. | 2 units per ms and 2 ms per second with rate 3 leave remainders in both divisions; 6 bytes in 2 packets wrap within the 9 time units of a run. Candidates of SetWritePacket are the packet being played and the next two, one of them refused. One event comes and goes in the list while the DPC may be at it. The interval is whole milliseconds. `MaxGap` keeps the products below `Word`: see "Observations" for what lies beyond. |
| `wavert_stale` | Has a completed buffer been played? | The same. |
| `endpoint` | Every call of StartDevice failing, handles and streams opened and closed, a stream's Init failing, content ids changing, volume and mute set for one channel or all, stop, surprise removal, removal, restart; formats and sizes while a handle is open. | One device, its two filters, one client of each. Memory for 3 streams against a limit of 2, so that the limit is reached; the speaker's table says 1, the code is written for any. Two content ids, and two mixed ids: one mixture in use while the next is made. A ULONG of 3 values makes the loop over all channels 2 writes, enough for a request between them; a step of 2, a minimum of -4 and levels of -3 and 3 are off the step on both sides of zero and beyond the maximum. Sizes 0..256 contain every size a handler compares with. |

### Fairness

- `passthrough`: the threads of a process are scheduled (`RenderThread`, the caller once
  it is inside Start or Stop); the device signals its event once per period; the input
  delivers. There is no fairness on failures or on the caller deciding to
  start or stop. `GateReopens` needs the input, `StopReturns` does not.
- `capture`: the thread runs, and its caller returns from join. Nothing makes packets
  arrive or the device fail, and nothing makes packets stop.
- `engine`: main and the three threads run; when the process has ended the supervisor's
  loop goes on (`EngineEnded`, `Relaunch`). Nobody has to press Ctrl+C and no device has
  to fail. The follower's thread runs, and packets of audio keep being encoded
  (`EncodeAudio`): that the gate opens again while there is input is what `GateReopens`
  shows, and without input no gain is heard. `engine_restart` has the same fairness,
  without the follower.
- `savedata`: system worker threads serve the queue; a DPC and a SetState call go on once
  begun. No file call has to succeed and no stream has to run.
- `ring`, `spdif`, `wavert` and `endpoint` check safety only and assume no fairness. That
  `AllChannelsReturns` is an action property is deliberate: the loop moves forward at each of
  its steps, and how fast it is scheduled is no matter of this code.

## What is proved

All theorems hold for every value of the constants that satisfies the named assumption
of the module, and are checked by TLAPS down to the last leaf.

**Ring** (`CapacityAssumption`: the capacity is a power of two as the constructor makes
it; `SizesAssumption`). `TypeCorrect`, `IndicesStayConsistent`, `PublishedIntact`,
`RaceFree`, `RingImplementsFifo`. The inductive invariant adds to the properties what each phase
knows about the index it loaded earlier: a Write in progress has clamped against a tail
that is at most the present one, so its cells still lie outside `tail..head-1`
(`PhasesOK`); a Peek has copied a prefix of what is published (`CopiedIntact`). None of
the properties is inductive without these. Refinement: the abstract queue is the
sequence of pending bytes; publishing a Write, completing a Read, Discard or Clear are the
linearisation points, every other step stutters.

**Render side** (`ParametersAssumption`). `TypeCorrect`, `WholePackets`,
`TrimIsHarmless`, `NoCrackle`, `SmallRingStaysSilent`. The last says what becomes of a
`--safe` too large for the ring: if it cannot hold `Desired` frames the gate never opens. The invariant relates the fill level to the
history variable `owed`, the part of the last cushion that is not played yet
(`LevelCoversOwed`), the level to a slot that has passed the gate (`ReadIsBacked`), and
the level after a trim to the slots that remain in the cycle (`TrimLeavesCycle`). The
sums are over the integers: the theorems say nothing about a `--safe` so large that
`required + safeFrames` wraps at 32 bits.

**WaveRT stream** (`StreamAssumption`; where stated, `NoWrap`: no product of rate and
elapsed time reaches 2^32, and `IntervalCoversPacket`: the truncated notification
interval is no shorter than a packet). `TypeCorrect`, `PositionsAlwaysAgree` and `PausedIsStill`
need no such hypothesis; `PositionIsTime` needs `NoWrap`; `CompletedPacketsArePlayed`
needs both. The last two are the heart: `Accounts` says that linear position, carried
bytes and carried time together are the time spent in RUN, exactly; `DpcFollowsClock` that the completions' own clock (carry plus time
since the last DPC) accounts for at most the same time; together they give
`counter * Packet <= linear` at each signal. The real parameters satisfy the two
hypotheses when positions are asked for at least every few seconds (2^32 over the byte
rate in milliseconds: 22 s at 192 kB/s) and a packet is a whole number of milliseconds.

**Packet interface** (`PacketAssumption`). `PacketsImplementStream`: `PacketStream`
implements `WaveRTStream`, so that the theorems above hold with packets, events and a DPC
that holds the lock while it walks. `PacketTypes` needs no hypothesis. `DpcWalksTheList` and
`UnderrunsAreReal` assume `ClientWaits`; the second speaks of a counter below `NoPacket`,
that is before a ULONG of packets was played. Its invariant (`PacketsOK`) bounds the last packet
written by the counter: it is at most the next one, and not even that once a completion took
the mark of its SetCurrentWritePosition; a SetWritePacket under way works with a counter that
is behind.

**Capture thread** (`CaptureAssumption`). `FramesStayWhole`, for any frame and any ring: as
long as each packet finds room for all of it (`RoomForPacket`), the ring is a sequence of
whole frames (`RingOK`). `FullRingDropsWholeFrames` needs no room but `RingHoldsFrames`, a
ring of a whole number of frames, which leaves out the formats of six channels (the real ring
is a power of two; finding 1 is what happens there): also a full ring cuts no frame, and
`droppedFrames` is what was lost but for the silent packets (`CountsOK`), modulo the width of
the counters.

**Encoder** (`EncoderAssumption`: a block is at most two packets and a sample, and the guard of
the priming loop is large enough for two packets, the latency and a block).
`ReadyHasItsObjects`, `NoCallComesUpEmpty`, `DelayStaysBounded`. The first rests on `Opened`,
which objects exist in each phase. The invariant `Samples` says that the priming loop loses
nothing of what it feeds (`Priming`), that filter and FIFO then hold one sample less than latency and
block or more, so that the next packet brings out what a call needs (`Cushion`), and at most what
priming can leave; every later call puts in as much as it takes out. As long as FFmpeg does not fail.

**Mixer** (`MixerAssumption`: the lower bound is on a step, the upper is 0). `MixerTypes`,
`LevelsAreAdvertised`, `AllChannelsAdvance`. The first rests on lemmas about rounding away from
zero with truncating division, and on 0 being a step; the last on the counter being below
its bound, so that adding one does not wrap.

**Endpoint** (`DriverAssumption`, `MixerAssumption`). `EndpointImplementsDriver` and
`EndpointImplementsMixer`: the composition adds no step that either part does not have.
`StreamsAreServed`, `SettingsTakeEffect`, `PinsAreCounted`, `MixturesDoNotPileUp`,
`ContentIsCovered`, `NothingIsLeft` and `FailedInstallLeavesNothing` hold for any number of streams and
ids. They rest on these invariants.
`AdapterInv` says what stands at each step of StartDevice, that handles are only open while the
device is started or was pulled out, and that PortCls holds the adapter then (`Stages`,
`Handles`); lemma `AdoptKeeps` shows that the chain of destructors frees nothing an outsider
holds. `HardwareInv` adds that the hardware object is older than the registration with power
management. `PinsInv` says that a stream is in the table exactly while it is to be
unregistered, that one pin at a time is being made, and that every stream keeps the handle
of its filter (`TableInv`, `StreamInv`, `HeldInv`); `CoverInv` that a stream has
content only once it is open. `LeakInv` says who may hold which object (`Shape`), that what
a function holds is given up when it returns and the cache when the device extension is cleared
(`Passing`), and at each step of the installation that a filter is there entirely or not at
all (`Installing`). Lemma `SettleIs` follows the destructors object by object: once PnpHandler
has emptied the cache and PortCls has dropped its references, each link of the circle of adapter,
cache and topology miniport frees the next.
The two theorems about answers quantify over every size a client may give. `SizesAreKept` follows
each handler from the size it names when asked with 0 to what it says it wrote.
`EveryOfferOpens` takes any format, any list of attributes and any sizes; it rests on
lemmas that find, for what each of the four functions lets through, the row of the table that
NewStream finds for it. `OffersOpen` is the same for the open filter.

**File writer** (`SaveDataAssumption`; `PoolAssumption`: an item for every frame, every
thread and one partial frame). `FramesAreSaved`, `FramesAreReleased`, `IndexStaysWithOffset`, `StoppedIsQuiet`, for any number of
frames, items and worker threads and any sizes. The properties are not inductive for want of the link
between offset, index and queue, which the invariant adds: the offset lies in the frame of the
index, and at its start after a split (`Positioned`); the frame about to be queued is marked and in no
item (`Saving`); a queued item holds a whole, marked frame that no other item holds, except while
STOP drains (`Queue`); what STOP has waited for stays done (`Drained`). That a free item
is always found is a count: `PoolSuffices` compares the items in use with the frames they hold
and the threads at work; `CopyEnds` and `FramePlaces` follow the copy.

**Process** (`ModesAssumption`). `ThreadsEndFirst`, `EveryThreadIsJoined`, for any set of modes and
whatever fails. The invariant says which threads and objects exist at each place of main, and on the way
out what is still in the list of Stops and destructors (`todo`): as long as a thread is up its
Stop stands in the list before the end of anything it uses (`StopAhead`).
`FollowedEngineIsEngine`: `VolumeFollower` adds no step to the engine, so both hold of it too.

**Between the modules of the engine.** Each module abstracts the others; these theorems say
that the abstractions fit. `CaptureFillsLevel` (in `WasapiCapture_proofs`, any frame and ring,
without `RingHoldsFrames`): with the floor of bytes by frame size as the level, capture and
consumer do what `FrameLevel` says, because that floor commutes with a clamped Write.
`RenderDrainsLevel`: so does the render thread with its `fill`, whose invariant `ReadIsBacked` is
needed to see that each Read finds a packet. `CaptureIsOwnedThread` and `RenderIsOwnedThread`: both threads
are `OwnedThread`s, the capture thread one that never ends by itself, which holds since its stop event
is only set for a thread that was told (`EventMeansStop`). `EngineOwnsThreads`: for each thread, what
`Engine` does and assumes is `OwnedThread` too (`NotYet`: nothing runs before its place in
main). The modules are not composed into one state machine; each is shown to keep its side of the
two interfaces.

Only model-checked: all liveness (`PacketsAreRead`, `GateReopens`, `StopReturns`,
`SliderIsHeard`, `CtrlCStops`, `EveryExitRelaunches`, `FramesComeBack`), which the prover cannot do under
fairness. Every invariant and every action property of the passing runs is also a theorem.

## Findings

Four statements of the repository are refuted by a run; PROJECT.json quotes them.

1. `capture_misaligned`: the ring takes bytes, its capacity is a power of two; with a 6-channel
   frame a full ring cuts a frame and every later one has its channels rotated.
2. `engine_restart`: when the output device fails the render thread ends, nobody notices, and the
   "restart-on-failure" of README.md does not happen.
3. `savedata_spoiled`: WriteData tests the flag of the frame it begins in and copies into
   the next, which may still wait to be saved.
4. `wavert_stale`: STOP leaves the carry of the DPC; after PAUSE, STOP and RUN the first completion comes before its packet was played.

### Observations

Met while modelling; no statement of the repository contradicts them, or no run is spent.

- `minwavertstream.cpp:1274`: SetState starts the timer and stores KSSTATE_RUN later; a
  DPC in between counts a completion and signals nothing. The model has the window.
- `minwavertstream.cpp:529`: the notification interval is truncated to milliseconds. With a packet
  that is no whole number of them (in the model: `Size = 4`, `Count = 2`)
  `CompletionsFollowData` fails, slowly.
- `minwavertstream.cpp:1327`: rate times milliseconds is a 32-bit product (in the model:
  `Word = 16`, `MaxGap = 14`, `Count = 0` refutes `PositionKeepsTime`).
- `minwavertstream.cpp`, around 525: the result of `MapAllocatedPages` is not checked.
- `minwavertstream.cpp:593` and 614: the notification list is changed without the lock under
  which the DPC walks it; this is safe only with a client that waits (`ClientWaits`).
- `minwavertstream.cpp:936`: "If not running, the current packet hasn't actually started
  transfering" is not so after a RUN that ended in PAUSE in the middle of a packet.
- `minwavertstream.cpp:1610`: the first underrun after a packet written in PAUSE is not
  reported, nor is the one after a SetWritePacket that a completion overtook.
- `minwavertstream.cpp:479`: a size is tested for divisibility by the number of packets before it is
  rounded to whole blocks; AllocateAudioBuffer leaves the interval of an earlier
  AllocateBufferWithNotification.
- `minwavertstream.cpp:1485`: after a failed SetContentId the id that is "restored" is
  the new one, and after a stream's end a mixture that cannot be made leaves the old one.
- `minwavert.cpp:1555`: a mixture is destroyed only when the next one replaces it; that
  of the last stream, and of a miniport that ends, stays.
- `minwavert.cpp:1104`: IsFormatSupported does not compare `nAvgBytesPerSec`, which
  becomes the rate of the stream's clock (`minwavertstream.cpp:271`).
- `common.cpp:413`: the destructor of the adapter does not release cached entries; only
  PnpHandler's call of Cleanup does (`NothingLeaks`).
- `common.cpp:2183`: the status of the topology filter is overwritten by that of the wave
  filter, so that a device may start with the wave filter alone, against the comment at
  `adapter.cpp:749`. In the model: `InstallTopology` fails, `InstallWave` succeeds, and
  `pc = "started" => "registered" \in refs["topoPort"]` is violated by `MCEndpoint`;
  `WaveFilterOrNothing` states what holds instead.
- `common.cpp:382-398`: an allocation that fails leaves `m_AdapterInstances` at 1 and
  refuses every later start.
- `savedata.cpp:937`: STOP saves the partial frame without moving the offset; after a
  resume its bytes are saved again. In the model: `StopBegin`, `Resume`, and the frame is
  queued whole. Frames may reach the file in the order workers get
  to them.
- `WasapiCapture.cpp:120`: a silent packet that does not fit is not counted as dropped,
  though `WasapiCapture.h:51` speaks of frames dropped because the ring was full. In the
  model: `lostSilence` becomes positive in `capture`, and `FramesWhole` without its
  `- lostSilence` is violated.
- `VolumeFollower.cpp:60-64`: mute and level are two calls. If the user mutes and moves the
  level between them, the thread publishes the new level with the old mute, a gain that was
  never set, for one poll, where
  `VolumeFollower.h:19` promises "exactly the attenuation Windows itself would have applied".
  In the model: `gain \in {GainOf(s) : s \in Settings}` still holds, but the gain published
  may be that of no setting there was. `SliderIsHeard` is what is left.
- `VolumeFollower.cpp:71`: an endpoint that stops answering is followed at full volume, even
  if it was muted (`LoseEndpoint`; without `~lost`, `SliderIsHeard` is violated).
- `Prebuffer`: the gate never opens if the cushion exceeds the ring, which nothing
  compares (`--safe` against 32 packets; `SmallRingStaysSilent`).
- `SpdifEncoder.cpp:134`: `av_write_trailer` runs for a muxer whose header was not
  written, in spite of its comment.
- `kshelper.cpp:736` and `843`: for ALL_CHANNELS_ID the loop runs to 2^32 - 1, and overwrites
  what another request sets meanwhile.
- `hw.cpp:413`: levels are advertised per channel and a node has one register. After a reset the
  volume is -1, which is on no step (`LevelAsAdvertised` excepts it).
- `speakertoptable.h:98`: the jack of the 5.1 pin is described as stereo; `mintopo.cpp:380` leaves the
  size unchanged when it says that it is too small.
- `minwavert.cpp:1102`: a plain WAVEFORMATEX can be opened but not proposed, as the proposal wants
  the size of the extensible form; NewStream does not look at the mode.

## What is not modelled, and why

FFmpeg, WASAPI and PortCls appear only as above. Device enumeration and format negotiation of the
engine are stateless calls into Windows, of which `Engine` keeps success or failure. The
floating-point arithmetic of the gain ramp, of VolumeFollower and of the tone generator is out
of reach of both tools. The bytes of the wave header, names and log lines carry no control.
Options and the config file are read once, before anything runs.

In the driver: the branches for the end of a stream cannot be reached, as no code sets
`m_bEoSReceived`. GetReadPacket, the tone generator and the microphone array serve capture, and
no capture filter is installed (`g_cCaptureEndpoints` is 0). `RemoveEndpointFilters`, `GetFilters` and
`SetIdlePowerManagement` have no caller; the power state, and the miniport's caches of mute,
volume and format, are written and never read. The handlers of peak meters, the mux, CPU
resources and device specific controls are in no table of the speaker. The reference a
miniport takes to its IPortEvents is left out. DriverEntry and unload are straight-line, as
are the installer and the test scripts.

## Plan

Done: the engine (`RingBuffer`, `BoundedFifo`, `Prebuffer`, `WasapiPassthrough`,
`WasapiCapture`, `Engine`, `VolumeFollower`, `SpdifEncoder`), the stream with its packet interface
(`WaveRTStream`, `PacketStream`), `SaveData`, the endpoint (`Adapter`, `Driver`, `Mixer`,
`Formats`, `Endpoint`) and the theorems above. Left:

1. The composition of `Endpoint` with `PacketStream`: the timer of a stream that outlives a
   surprise removal.
2. Engine configuration: precedence of options and file, and the buffer-size loop of
   InitExclusive.
3. Proofs: an abstract specification of `SaveData` as a bounded store of frames; the byte ring of
   `WasapiCapture` as a projection of `BoundedFifo`.
