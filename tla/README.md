# Verification of the FNAL test-beam DAQ

TLA+ models of the data acquisition software in this repository, TLC runs that check them
on small instances, and TLAPS proofs of the properties that matter most. Paths below are
relative to `src/`; `TOFPET/src` is shortened to `T`.

Everything is run inside this directory: `tlc -config X.cfg M` for a run and
`tlapm M_proofs.tla` for the proofs about a module `M` (`Channels_proofs` for `AsicConfig` and the
hits of `OfflinePrograms`, `Offline_proofs` for `Calibration` and the rest of it). `PROJECT.json` lists the runs, for each
property a mutation of the code that breaks it, the source lines of every definition, the
hazards and the findings.

## 1. The system

Two detectors are read out in one test beam. The TOFPET2 side is a program of many processes
and threads; the DRS side, the merging of both and the handling of blocks of hits are sequential;
the calibration programs work with a process for each ASIC.

    FEB/D, ASICs <-link-> DAQ card <-DMA, registers-> daqd --shared memory ring--> write_raw -> .rawf/.idxf
                                                       ^                              ^            |
                                                       | Unix socket                  | pipe       v
                                                       +--------- daqd.py ------------+     RawReader -> pipeline -> .dat/.root
                                                                                                                   |
                                       DRS waveforms, pixel telescope  ---> Coincidence_Utilities <----------------+

### Inventory

| Component | State | Operations | Interacts with | Hard behaviour | Correct when |
|---|---|---|---|---|---|
| Frame ring (`T/daqd/FrameServer.cpp`) | two pointers modulo twice the ring, acquisition mode, one mutex | start, stop, get and set pointers | worker, event loop; clients read the memory itself | pointers wrap; readers take no lock | never overflows; no slot is written while it may be read |
| Frame worker (`T/daqd/DAQFrameServer.cpp`) | place in the word stream, claimed slot, `lastFrameWasBad` | `doWork`, `sendCommand` | card, ring | bad frames, frames longer than a slot, failed reads, ring wiped with a frame in flight, `die` at any time | only whole frames of this run are published, in order |
| DAQ cards (`T/daqd/DtFlyP.cpp`, `PFP_KX7.cpp`) | DMA buffers and their two pointers, `die`; transmit and reply slots | DMA worker, `getWords`, `sendCommand`, `recvReply` | hardware, frame worker, event loop | transfer and copy without the lock, failures passed in band, shutdown | words and failures are handed out once, in order; nobody waits for ever |
| UDP frame server (`T/daqd/UDPFrameServer.cpp`) | reply queue, ring, the datagram under way | `doWork`, `sendCommand`, start, stop | a GbE FEB/D, event loop | several frames in one datagram, each claimed and published on its own; lost datagrams; a deadline against a late reply | no slot is written under a reader; what is offered is of the run that was started; a reply answers its command |
| Event loop, clients (`T/daqd/daqd.cpp`, `Client.cpp`) | sockets | one request at a time | all of daqd | a request that waits keeps every other waiting; clients that hang up with a request on its way; SIGTERM | each request is answered once; a signal ends daqd |
| Connection (`T/petsys_py_lib/daqd.py`) | serial number, configuration and bias caches, active ASICs | `sendCommand`, `__doAsicCommand`, `initializeSystem`, `acquire` | daqd, write_raw | lost and late replies, retries, stale cache | a reply answers its command; the cache agrees with the ASIC |
| write_raw, RawReader (`T/raw_data`) | last frame and its type, step offsets; reader's block | write a block, close a step; read a step | ring, daqd.py; pipeline | lost frames, what is left out, step and block boundaries | no event is lost or moved between steps; every frame is accounted |
| Thread pool, pipeline (`T/base/ThreadPool.cpp`, `OverlappedEventHandler`) | job queue, worker threads, deque of each stage | push, extract, finish, destroy | RawReader, writers | two locks per job, deletion by another thread, shared pool | the file gets every block once and in order; nothing deadlocks |
| Hit processing, grouping (`T/base/CoarseSorter`, `ProcessHit`, `SimpleGrouper`, `CoincidenceGrouper`) | one block | sort, calibrate, group, pair | pipeline, tables | early exit of two scans over hits that are only coarsely sorted | no hit of a photon is missed, and a pair within the window only where the overlap does not allow for the group window |
| Tables of the configuration (`T/base/SystemConfig.cpp`) | of each channel: calibration, region, position | load | hit processing, calibration | channels some tables name and others do not | no hit without a region reaches the grouper |
| Bit fields, INI files (`config.py`, `tofpet2.py`) | none | parse | connection | none | layout |
| Calibration programs (`T/petsys_util/process_*_calibration.cpp`) | a file for each ASIC, the list of them, a table shared by the workers | sort, fork, wait, calibrate, adjust, write | SystemConfig, pipeline, the process table | a stream that is open over a fork; workers that die; forks that fail | the table holds each ASIC's own result; the programs end |
| Acquisition scripts (`T/petsys_util/acquire_*`) | settings | loops over settings | connection | none of their own | their calls are the inputs of the models |
| Coincidence utilities (`Coincidence_Utilities`) | event being gathered; two read positions, times of the last pauses | grouping, merge by trigger time | files | either side misses triggers; the counters start elsewhere and wrap | a match is the event's own trigger; a trigger both saw is matched |
| DRS conversion (`DRS/dat2root*.cc`, `datroot2root.cc`) | position in the file, row under way | read an event, go back after lost words, fill a row | files, tracks of the telescope | words lost anywhere, groups that come and go, values kept from row to row | rows are the events that came whole, with their own track and values |
| Pulse shapes (`DRS/src/Aux.cc`) | one waveform | fits, integrals | DRS conversion | floating point | numerical |

Build files, generated CMake files, tables and vendored binaries carry no behaviour of this
program.

### Shared state and how it is protected

- The ring's pointers and mode: one mutex, except that `doWork` reads `acquisitionMode` and
  `die` without it. The frames themselves: no lock; the two pointers are the protocol.
- A card's DMA pointers: one mutex, except that `getWords_` looks at them first without it.
- Transmit and reply slots: pointers in card registers, one writer each.
- A pool's queue and `Job::finished`: a mutex each, two condition variables for the pool and
  one for each job; `die` of the pool is stored with no lock held.
- The UDP server's reply queue: one mutex and a condition variable; its ring as above.
- The calibration table: memory shared by parent and workers, with no lock. Each worker writes
  the entries of its ASIC only, and the parent after the last has gone. The list file's offset:
  shared by them all, through `fork`.
- The socket: requests are served one by one, so that daqd.py and the event loop alternate.
- The data file and its index: write_raw is finished with a step before RawReader reads it.

## 2. Modules

### Acquisition: `FrameServer`, `RawAcquisition`, `FrameStream`

`FrameServer` has the ring: one definition per critical section of `FrameServer.cpp`, and the
pointer arithmetic. `RawAcquisition` EXTENDS it with the threads. Its actions are

- `WorkerLoop` .. `WorkerPublish`: `doWork`, cut at each call of `getWords`, at each critical
  section and at the unlocked reads of `acquisitionMode` and `die`. A word is "idle", "header",
  "trailer" or "other", or the read fails. `frameSize` is either that of the events
  (`cur.ok`) or not; when not, any amount of words is consumed (`Overrun`).
- `StartCard`, `FirstWipe`, `SecondWipe`, `StopAcquisition`, `Shutdown`, `JoinWorker`:
  the event loop; `startAcquisition` is three steps because it sleeps between them.
- `PollPointers`, `ReadFrame`, `EndOfBlock`, `FreeBlock`, `DiscardFrames`: daqd.py's
  `acquire`, `__getDecodedDataFrame` and `__synchronizeDataToConfig`, and write_raw.
- `StreamRestart`: the card begins a new run after it has delivered what is left of the old.

The size of a frame is checked against the 16384 slots of the ring (`DAQFrameServer.cpp:177`) and not against
the 2048 words of a slot, so that one of 2049 words and more passes and is read over the slots behind its own
(line 202). `cur.span` is how many it reaches; `WorkerSpill` is the read while it is going on, `WorkerBody` its
end, and `Overwritten` what it leaves there. Past the end of the shared memory, or past `devNull` on the heap,
this is undefined behaviour: either nothing that the model has is hit, or daqd is gone (`WorkerCrash`). A heap
that is damaged and shows it later is not modelled.

The state of a slot says whether it holds the frame it claims to: a `part` of it, the `whole`, or words of a frame
too long for one slot (`over`). `FrameStream` is the abstract specification: a bounded queue of frames
with no ring, pointers or threads, of which those that wait may be spoiled if `MaySpoil`, which is `MaxSpill > 0`.
`DeliversFrameStream` states that `RawAcquisition` implements it; the abstract queue
is the part of the ring between the client's place and the write pointer.

### DAQ cards: `DmaCard`, `WordStream`

The DMA worker and `getWords` of both cards; `card`, chosen in `Init`, is the class: they differ in what the
worker does with a transfer that ends after `die` and in whether `getWords_` looks at `die`
first. A word is its number in the order of arrival, so that a buffer is a count, a status and
the number of its first word. `WordStream` is the abstract specification: words come, failures
come, and the reader gets them in that order.

### Commands: `CommandLink`

`sendCommand` of daqd.py, of `DAQFrameServer` and of the cards, and `recvReply`. The client waits
for daqd and daqd for nothing else, so that the two are one thread with one `pc`. The links and
the FEB/Ds are external: they take, lose, delay and answer commands. The conversion of the
serial number through signed chars is modelled by what it does (`Received`). `WriteAndCheck` and
the other register accesses are one step.

### ASIC configuration: `AsicConfig`

`___doAsicCommand` with its tries, read-back and cache; `initializeSystem` stage by stage; and a
script that reads and writes afterwards, may catch exceptions, and initializes again. A command
may fail with an error status or with no reply, and the ASIC may have taken it all the same. One
register stands for an ASIC's global and channel configuration, which are handled alike.

### Raw data file: `RawFile`

write_raw's frame loop with its markers and index (`WriteFrame`, `EndOfStep`), and
`RawReader::processStep`. Frames are records of ID, lost flag, number of events and step;
offsets count frames. The IDs come in any order, as write_raw only warns of one that goes back. An assertion
of RawReader (`RawReader.cpp:158`) has no room for a frame that fills its slot, though daqd and write_raw
have: `FailAssertion` is the end of the program that reads such a step.

### Pipeline: `ThreadPool`, `EventPipeline`, `EventStream`

`ThreadPool` has the pool's critical sections and condition variables, with spurious wakeups and
with a signal waking any one waiter. `EventPipeline` EXTENDS it with the main thread: building
the chain, `pushEvents` and `extractWorker` as the recursion through the stages leaves them on
its stack, `finish`, and the destructors, step after step. `EventStream` is the abstract
specification: a file that gets the blocks of a step in order.

### UDP server and event loop: `UdpDaqd`

EXTENDS `FrameServer` too, with the other worker: `UDPFrameServer::doWork` takes a datagram of
several frames and claims, copies and publishes each (`Worker`); and with the whole event loop,
which serves one request at a time and, for a command, waits itself for the reply (`SendCommand`,
`TakeReply`, `GiveUp`). One client acquires data, another sends commands; each waits for its answer
before it asks again, and may hang up at any time, also with a request on its way. The board, the
socket and the clients are bounded, each behaviour in its own way (`Bounds`).

A frame is copied with the 15-bit size that stands in it, before `parseDataFrame` looks whether that is the size of
its events (`UDPFrameServer.cpp:115`, `:125`). `Copy` writes a garbled frame over up to `MaxSpan` slots behind its
own; what it takes from behind the buffer on the stack, or writes past the shared memory or past
`devNull`, is undefined, with the outcomes of `Crash` or of nothing that is hit. A frame that is garbled so that size and number
of events still agree, and one whose size is 0, which would keep the worker at it for ever, are not modelled: UDP
has a checksum, and the board sends neither.

### Calibration: `Calibration`

`process_tdc_calibration` and `process_qdc_calibration`, which `tool` tells apart. The parent's
stream on the list of files is modelled by what `fork` does to it: the buffer (`ahead`) is copied,
the offset of the file is shared, and `exit(0)` of a worker gives the copy back by moving that
offset (`Leave`). What the fits find is fixed by the data in `Init`; what is modelled is who writes
which entry when (`Calibrate`, an iteration at a time), who waits for whom, and what becomes of
workers that die, or that could not be forked: `fork() = -1` is not told from the parent's own return, and
counted as a worker (`ForkFails`). Each ASIC has an offset t0 for either branch, T and E, and each branch is adjusted by
its own average (`NValid(b)`). Times are integers, in units that make that average one too.

### Offline programs: `DrsConversion`, `TrackMerge`, `HitChain`, composed in `OfflinePrograms`

Sequential programs on files or on a block, whose difficulty is in the input; each module is a
state machine over an `input` that `Init` chooses and that carries what the programs do not know,
so that the properties can say what the result should be. `OfflinePrograms` runs one of the three in
each behaviour and names, in `OfflineAssumption`, what inputs there may be: any damage, any hits,
any tables. `MCOfflinePrograms` only has the inputs of the run.

- `DrsConversion`: `dat2root`, `dat2rootPixels` and `datroot2root`. A word is the event it is of
  and its place in it, so that a file with lost words is a sequence with holes. `SeekBack` is
  `found_corruption`. A channel is the event its values are of, because that is the hazard: what
  no statement overwrites stays from an earlier event.
- `TrackMerge`: `ConvertTOFPETSinglesToEvents` (`TakeHit`, `EndOfHits`), then
  `MergeTOFPETWithPixels` (`MergeEvent`). Hits and readings carry the trigger they are truly of, and
  the input says when each of these was. Times have one unit; the drift between the clocks is left out,
  and what is left of their difference is the constant `Jitter`.
- `HitChain`: `convert_raw_to_singles` and `convert_raw_to_coincidence`, which `input.program` tells
  apart: the tables (`Load`), then the handlers each of them builds its chain from (`Chain`):
  `CoarseSorter`, `ProcessHit`, `SimpleGrouper` hit by hit, `CoincidenceGrouper`, and the rows that go
  into the file (`Write`). The reference definitions (`PhotonsAreApart`, `CoincidencesFound`) look
  at all pairs; a coincidence counts as found when the file has its row, with the brightest hits, and the second
  states what there is in between whenever one is not (`PassedOver`).

## 3. Runs

An MC module only names model values and sets of them; the numbers are in the cfg. `RawFile` and `Calibration` need none and are run as they are.

| Run | Bounds | Properties | Shows |
|---|---|---|---|
| `raw_acquisition` | 2 slots, 2 runs of up to 5 frames of up to 2 slots | `TypeOK`, `NoWriteUnderRead`, `BlockStaysAvailable`, `OnlyWholeFrames`, `DeliversFrameStream` | the ring is never written under a reader by a frame that fits, offers frames of this run only, which only one too long for its slot can spoil, and implements `FrameStream` |
| `raw_acquisition_live` | 2 slots, 1 run of 3 frames of up to 2 slots, 1 in 2 lost frames kept | `FullRingDrains`, `ShutdownCompletes` | a full ring is drained; shutdown ends wherever the worker is |
| `dma_card` | both classes, 2 buffers of 2 words, 3 transfers, reads of up to 3 words | `BuffersAreSafe`, `DeliversWordStream`, `NobodyWaitsForever` | no transfer goes into a buffer being read; the card implements `WordStream`; `getWords` returns and the worker is joined |
| `udp_daqd` | 2 slots, 3 serial numbers, and one of: 2 runs of 2 frames with a hang-up; 1 run of 5 frames; 1 run of 3 frames, garbled ones of two slots among them; a run and a command with a hang-up; 3 commands and 2 datagrams waiting | `SlotsAreSafe`, `OffersCurrentFrames`, `ReplyIsToCommand`, `ServesUntilStopped` | the other worker keeps the ring as safe, garbled frames of two slots and crashes among what happens; a reply answers its command though others come late; no client is kept waiting for ever |
| `command_link` | 2 FEB/Ds, 2 + 2 slots, 2 calls of 2 tries, 3 serial numbers, bytes of 4 values | `SlotsAreQueues`, `ReplyAnswersCommand`, `NothingExecutesLate`, `CommandReturns` | the reply handed out is that of the last try; nothing sent before is executed after it; every call returns |
| `asic_config` | 2 ASICs, 3 tries, 2 tries of `initializeSystem`, 3 commands | `BeliefsAreTrue`, `ActiveAsicsConfigured`, `InitializeEnds` | the cache may be trusted unless a command raised; an initialized system has its ASICs configured; `initializeSystem` ends |
| `raw_file` | 3 frames in 2 steps, IDs to 3 in any order, 3 events per frame (a full one), blocks of 3 | `FilesAgree`, `EventsSurvive`, `BuffersHoldWholeFrames` | of a step without a full frame every event in the ring is pushed, in its step, in whole frames, and every frame that came in order is accounted |
| `event_pipeline` | 3 stages, 3 + 1 threads, 2 steps of up to 3 blocks | `PipelineInv`, `NoJobTouchedAfterDelete`, `WritesEventStream`, `ConversionEnds` | no wakeup is lost, no deleted job is touched, nothing is left at the destructors; the file implements `EventStream`; the conversion ends |
| `calibration` | 3 ASICs, 2 channels of 2 converters, up to 2 workers, 4 descriptors, 1 death, 1 fork that fails | `ParentKnowsWorkers`, `CalibratedRight`, `OffsetsRight`, `CalibrationEnds` | nobody writes to the table after the parent; each ASIC has its own result, whoever else died or was calibrated twice; the programs end |
| `offline_programs` | DRS: files of 3 events, words lost once or twice, or cut short, groups on and off; merge: 6 triggers in 3 spills (3, 2 and 1), any of the first 5 missed by either, times off by up to 2 with triggers 5 apart; hits: blocks of 4 | `RowsAreTheWholeEvents`, `RowsAreOfOneEvent`, `AlwaysForward`, `EventsAreBetweenGaps`, `MatchIsOwnTrigger`, `SeenByBothIsMatched`, `PhotonsAreApart`, `CoincidencesFound` | what the trees hold is what was in the files, per component as listed below |
| `asic_config_sync`, `calibration_restart` | | `CheckedAfterSync`; `CalibrationSucceeds` | findings, section 6 |

Several properties are conjunctions of named parts that belong together; each part has a comment
of its own in its module, and the mutants of such a property break different parts.

For the offline programs this means:

- DRS: the rows are the events that came whole, as long as every loss is one the reader can notice
  (three words or more, behind the header's zero, not in the last event); a row has the samples and
  the fitted times of its own event, or those the property names, and its track as long as the events can
  be told apart (`Recognized`); and the recovery never goes round in circles (`RowsAreTheWholeEvents`,
  `RowsAreOfOneEvent`, `AlwaysForward`). What happens with other losses is in the model and not in the
  property: garbled rows.
- Merge: what is between two gaps is an event. At the first trigger and from the first pause on, as long
  as both sides saw the first trigger after each pause, a match is the event's own trigger, given once, and
  none that both saw is missed (`EventsAreBetweenGaps`, `MatchIsOwnTrigger`, `SeenByBothIsMatched`). Between the
  first trigger and the first pause nothing is claimed but that no trigger is given twice: section 5, on
  `MergeTOFPETWithPixels.cc:336`.
- Hits: no hit of a photon is missed by the early end of the scan, and no two photons share a hit. The scan for
  coincidences can miss one, as photons are in the order of their first hits and have the times of their
  brightest; `CoincidencesFound` says when, for all settings and any overlap: only behind a photon in between
  whose brightest hit lags its first by more than that of the second photon does, namely by more than the overlap less the disorder of the hits
  (`Disorder`: a coarse time less one, and the correction). Then none is missed if the overlap is at
  least the group window and twice the disorder. The run has the misses, with a group window of 6 and an overlap of 8, and with one of 2 what is on either side of
  the condition. With the 40 and 20 that the code ships, the condition holds as long as the corrections of the
  channels (`q_T` and `t0`, `ProcessHit.cpp:47`) differ by no more than 7 clocks.

Why the bounds are enough:

- Ring: with two slots the pointers wrap after four frames, so that the fifth of a run meets a ring
  that is full with the write pointer wrapped and the read pointer not; the ring can be
  full and empty at every position, and half a block is one slot. Two runs give a restart with a
  frame in flight. A frame of two slots reaches the other slot or past the end. That one which is too long does no harm
  when there is room for it (`NoWriteUnderRead`) takes three slots to matter; the proofs cover that and all other sizes.
- DMA: the code itself has two buffers. Words of more than one transfer and a transfer of more
  than one read both occur. Transfers beyond the bound time out, as many times as they like, and these
  take a buffer each too: pointers wrap at the fourth. The proof covers all other sizes.
- UDP: what is hard takes two runs, or a ring that is full and wrapped (five frames), or a late reply, seldom all of them, so that
  each behaviour has one of five bounds instead of all maxima at once. Three commands over three serial
  numbers are two that were given up before the one that is answered.
- Link: two slots make full slots and pointers that wrap reachable within four commands. A serial
  number that starts over after three is met within the run, and with bytes of four values some of
  them have the sign bit set.
- ASICs: two are needed for "one fails, the other goes on"; a third try allows fail, fail, succeed.
- Pipeline: three stages are a first, a middle and the writing one; three blocks are all that
  three threads work on at once; a second step reuses the pools. `maxQueueSize` is one,
  as it is in the code for up to seven threads, so that the producer waits for room.
- File: three frames give a gap, an empty frame, its successor, one that goes back and the end of a step in any order,
  on both sides of a step boundary. Three events are a full frame, two fit with one of one, and two of two make a new buffer.
- Calibration: an ASIC more than there may be workers is what makes the parent wait with lines read
  ahead; ASIC IDs 0, 1, 3 leave a gap. One descriptor more than ASICs, so that it takes a list read
  again to run out of them; as many deaths as it takes to leave the others to finish, and a fork that fails before,
  between or after those that do not.
- Offline: every place of three events (60 words) is the first lost one, for every number of lost
  words up to a whole event and beyond, so that both sides of every threshold of `found_corruption`
  occur. Six triggers in three spills have first triggers, triggers after a pause and others, and
  every set of them missed; triggers are 5 apart, exactly `Near + Jitter`, and the pauses between spills are
  longer than `Pause` for any set. The clock of the chips starts close to zero or far from it. Four hits on up to four channels are two photons with a hit between.

Deadlock is checked in all runs but those of `AsicConfig`, `CommandLink`, `RawFile`, `UdpDaqd`,
`Calibration` and the offline programs, where the script, the clients, the file or the program come
to an end; where one of them could stop too early, a liveness property says that it does not. `RawAcquisition`, `DmaCard` and `EventPipeline`
have an explicit step for the final state, and a deadlock anywhere else is an error.

Some assumptions are stated as constants. `SleepCoversFrame`: the 220 ms sleep of
`startAcquisition` is longer than the frame in flight, and the words of the old run are gone by
then; the whole-frame properties need it, the ring's do not.
`MaxSpill`, `MaxSpan`: how many slots a frame that is too long reaches behind its own, 7 and 15 in the code. With 0 no
frame is, and the properties say that none is ever spoiled.
`MaxDeaths`, `MaxForkFailures`: how many calibration workers are killed or abort, and how many forks find no memory.
`MaxDisturbed`: how many ASICs lose their configuration when the card syncs; 0 but in the run that
shows that the code would not notice.
`Jitter`: how far the times of one trigger are off between the two sides. `TriggersAssumption` asks that it is
less than both windows, that triggers are at least `Near + Jitter` apart, and that a pause is
longer than both windows and twice the jitter; with the 0.5 ms, 0.1 s and 1 s of the code, the second is the only one that
is about the beam.

### Fairness

- `RawAcquisition`: weak fairness of the worker, of the event loop inside a request, of the card's
  switch to a new run and of the client, which polls in a loop. Each is a thread or process whose
  calls all return: `getWords` returns because the driver's transfers time out (`GetWordsReturns`
  shows it for the card), and the mutexes are held for short sections only. Nobody is obliged to start, stop or shut down.
- `DmaCard`: the two threads, and the shutdown once begun. A transfer ends because the driver times out.
- `CommandLink`: the daqd side only (`Transmit`, `Receive`, `CommandTimeout`), as time passes. The
  card, the links and the FEB/Ds have none: calls return even when they all stop.
- `AsicConfig`: the one Python thread.
- `UdpDaqd`: weak fairness of the worker and of the event loop inside a request, as time passes; a
  request that is waiting is served under strong fairness, because another client's may always come
  first, but epoll puts a descriptor it has reported behind the others. Board and clients have none.
- `Calibration`: the parent and each worker, which are processes that wait for nothing but `wait`;
  nobody has to die.
- `EventPipeline`: the main thread and each worker. No strong fairness is assumed for mutexes: a
  critical section is one action, and a pending signal leaves its waiter enabled until it runs.

## 4. Proofs

The proofs are in modules `M_proofs`, one for each module `M` they are about, but for `Offline_proofs`, which
is about the programs that run after the data taking, `Calibration` and `OfflinePrograms`, and `Channels_proofs`, about
what is done channel by channel: `AsicConfig`, and the hits of `OfflinePrograms`. TLAPS checks them from the named
ASSUMEs of those modules, which the runs evaluate, and from nothing else; a theorem with a condition of
its own states it (`OffersWholeFrames` and `ImplementsFrameStream`, `Beliefs`, `ReplyWithinRound`). Every invariant below is that of the
whole specification, with all its actions, and for every value of the constants.

All invariance theorems have one shape: an inductive invariant `Inv`, a lemma for `Init`, a lemma for
each action and each conjunct it can disturb, `Inv` as a theorem of the specification, and the
property from `Inv`. The properties the runs check are never inductive alone, and each section says
what had to be added and why.

### `RawAcquisition_proofs`

For every `QueueSize >= 2`, number of runs, number of frames, drop period and length of the frames (`MaxSpill`):

- `TypeCorrect`: `Spec => []TypeOK`.
- `FramesInBlockIsDistance`: the block size `acquire` computes with `abs` and a case split is
  the number of frames between the pointers, if the ring has not overflowed. `SlotIsMod`: the
  conditional that `Slot` is written as is the modulo of the code.
- `NeverOverflows`, `NeverWritesUnderRead`, `BlockStays`: from the inductive invariant `RingInv`.
  None of the three is inductive alone. Publishing adds one to the distance of the pointers, so
  the invariant has to know that a worker with a claimed slot has seen a ring with room and that
  nobody but it has added to the ring since. A wipe breaks "the claimed slot is that of the write
  pointer", but leaves the ring empty, and until that very frame is published nothing else is; so
  `RingInv` says "empty, or the claimed slot is that of the write pointer". The client's part says that its
  block lies inside the window; `SetDataFrameReadPointer` then only moves the read pointer towards
  the write pointer. The sleep is not used: the ring is safe however long a frame takes. `NeverWritesUnderRead` is about all slots a worker writes
  to (`Written`): for a frame that fits, its own; for one that is too long, also those it reaches, as long as the ring has
  room for them (`BehindDistinct`). Without that room such a frame does write under a reader, which is the defect of section 5.
- `OffersWholeFrames` (with `SleepCoversFrame`): from `WholeInv` on top of `RingInv`: once an
  acquisition is on, the worker's frame and slot belong to it, and a slot on its way to be
  published holds the whole frame. A frame that is too long leaves run and ID of the slots it reaches and spoils their
  words (`OverwrittenKeeps`), so that with `MaxSpill = 0` every frame offered is whole, and else each is of the run, and
  never cut short by anything but such a frame.
- `ImplementsFrameStream` (with `SleepCoversFrame`): `Spec => DeliversFrameStream`, the refinement of
  `FrameStream`. `OrderInv` adds what the order of the queue rests on: the stream is never behind
  the frame of the worker (`FrameAhead`), and what the client read last, what is unread in the ring
  and what the worker can store next have ascending IDs (`InOrder`). `PublishFrame` is `Store`, `ReadFrame` is `Take`,
  `DiscardFrames` is `DiscardAll`, the steps that start and stop an acquisition are `Reset`; a frame that is
  too long is `Spoil` while it is read (`WorkerSpoils`), and every other action
  stutters, the worker because what it writes lies outside the window (`SameQueue`).

### `DmaCard_proofs`

For every number of buffers, of words in one, of transfers and of words asked for, and both cards:

- `BuffersSafe`: `Spec => []BuffersAreSafe`, from `CardInvariant`: `Spec => []CardInv`.
  `CardInv` adds four facts to the types. `ReaderGone`: whenever `die` is set the reader has been
  joined; this is what lets the worker skip its wait for room then, and holds because
  `~DAQFrameServer` joins the frame worker first. `Room`: until then at most `NB` buffers are ready, fewer while
  the worker transfers, and one at least while the reader looks into it; the worker has seen room
  under the lock, and only the reader changes that, to its advantage. `Copying`: what is copied lies
  within the buffer, which is an invariant of the counts only because the worker never fills
  the buffer that is being read (`SlotsApart`: two pointers have one buffer if and only if they are 0 or
  `NB` apart), so that the types and the exclusion have to be proved together. `Wanting` is for the refinement.
- `ImplementsWordStream`: `Spec => DeliversWordStream`, the refinement of `WordStream`. `WorkerDma` is
  `Arrive` or `Fail`, `EndCopy` is `Deliver`, `ReportFailure` is `Report`, `StopWorker` is `Close`, and every other
  action stutters: `WorkerPublish` because a buffer counts from the moment it is filled, `NextBuffer`
  because it gives back a buffer with nothing left in it. The queue is `QueuedItems`, the contents of the
  buffers from the read pointer on, joined one after the other. Three lemmas say what a step can do to
  it: a buffer filled at the write pointer adds its contents at the end (`FilledAtEnd`, which is where `Room`
  is needed: none of the buffers that count is the one filled), an empty buffer at the front leaves it
  the same without it (`EmptyAtFront`), and a change in the first buffer changes the front alone
  (`FrontOfQueue`). They rest on facts about sums of sequences (`SumsExist`, `SumsAgree`, `SumsFront`), which
  are proved by least counterexamples, since the provers have no induction. `Wanting` adds that each copy is of
  one word at least, so that it is a `Deliver`.
- The lemmas about `Advance`, `Distance` and `Slot` reduce the modulo of the pointers, which the solver
  does not find by itself, to case splits.

### `EventPipeline_proofs`

For chains of any length, any number of blocks and steps, and pools of any number of threads:
`PipelineInvariant`, and from it `NothingLost` (`PipelineInv`), `NoUseAfterDelete`
(`NoJobTouchedAfterDelete`) and `PipelineImplements`: `Spec => WritesEventStream`, the refinement of
`EventStream`.

The invariant has the following parts.

- `Stack`, `Phases`, `Clients`: what the call stack of the main thread says. `pushEvents` and
  `extractWorker` call the next stage, so that from the stage that drains to the one being called each
  holds one block; and how far a chain is built or torn down tells the clients of both pools.
- `InOrder`: there are numbers `got[s]`, how many blocks stage `s` has been given, that fit together
  (`Flow`): the deque of stage `s` holds the last of them, in order, and all before went on to `s + 1`,
  but for one that may be under way; the first stage has been given what was read, and the writer has
  written (`WrittenInOrder`) what its queue and its thread do not hold. So order in the file is reduced to
  equations between neighbours. The numbers are a witness in the proof and no variable of the model:
  each action names the new ones.
- `Alive`, `Queued`, `Taken`, `Finished`: a job lives while its worker is in a deque or held; until it has
  finished it is in one place of its pool. These make `delete` after `Job::wait` safe.
- `NoLostWakeup` is inductive together with the types: the queue and the jobs change under the lock under
  which a waiter looks and goes to sleep, and each change that ends a wait signals. It says nothing of `die`,
  which the code stores with no lock held; that the workers then wake up and leave is part of `ConversionEnds`.

Where an action affects the stages below `at`, the chain is followed by least elements (`LeastOf`) of the
set of stages, since the provers have no induction. For the refinement, the single writer's
`HandleEvents` is `Write`, `ReadBlock` is `Read`, the last `NextStage` of `finish` is `CloseStep`, which needs
`InOrder` to show that all is written, and every other action stutters.

### `CommandLink_proofs`

For every set of FEB/Ds, number of slots, serial numbers, tries and requests: `Queues`
(`SlotsAreQueues`), `Answers` (`ReplyAnswersCommand`), `NothingLate` (`NothingExecutesLate`). `CommandInv` adds:

- `Numbers`: whatever is in a slot or on a link has the serial number that its try had, counted back
  from the last one drawn modulo their number. Two tries with one number are therefore a whole
  round apart, which is the exception in `Recent`. `ReceivedInjective` shows that daqd's comparison of sums
  of signed chars (`DAQFrameServer.cpp:88`) confuses no two serial numbers.
- `InOrder`: commands reach the links in the order of their tries, and each FEB/D answers in
  order. So when the reply to the last try is there, whatever was sent before has been executed or lost.
- `Budget` bounds the tries by those of the requests, as the type invariant needs.
- The lemmas on pointers (`ModThrice`, `ModTwice`) turn the wrapped pointers of any number of slots into
  case splits.

### `UdpDaqd_proofs`

For every ring, number of serial numbers and bounds: `NeverUnderRead` (`SlotsAreSafe`), `CurrentFrames`
(`OffersCurrentFrames`), `ReplyWithinRound`. `UdpInv` adds:

- `Serving`: what the event loop is at and what the clients wait for agree.
- `Settled`: an acquisition was started, its second wipe is done, and no signal ended that wait before. Only
  then is the claimed slot that of the write pointer (`Room`), is what is under way of the run of the
  board (`Coming`), and is the ring in order (`RingInOrder`). A block is held only in a settled run.
- `RingInOrder` keeps run and number of the frames in the ring also where a garbled frame was copied over them
  (`OverwrittenIs`, `CopyKeeps`), and says that only with `MaxSpan > 0` one is. `NeverUnderRead` is, as above, about all slots
  the copy reaches, as long as there is room for them; a crash may come in the middle of it.
- `DataInOrder`, `RepliesInOrder`: the board numbers frames and answers commands in order, through
  socket, datagram, ring and reply queue. With the second, the only reply with the serial number of the
  command under way is its own, if none is a round of numbers old: `command - answer < NSN`. The code
  cannot tell a reply a round late from the right one; the run stays within one round.

### `Channels_proofs`

ASICs. For any set of ASICs and number of tries: `ActiveConfigured` (the action property
`ActiveAsicsConfigured`, also when ASICs lose their configuration at sync), and `Beliefs` (`BeliefsAreTrue`),
which assumes `MaxDisturbed = 0`: the code does not notice such a loss, as the finding in section 6 shows.
`AsicInv` says why the last stage of `initializeSystem` cannot be fooled by the cache: no entry of
the cache claims the configuration before that stage (`NoneNormalYet`), so that each ASIC it is done
with was written and read back (`NormalByAccess`). Beside it, the cache may be stale not only after an
exception but while a write is under way that got through (`CacheStaleUnderWrite`).

Hits. For any block, tables and settings, and all constants with
`Coarse + Correction <= Overlap \div 2 + 1` (`OfflineAssumption`, 4 clocks of coarse time and a correction of
less than 18 with the code's overlap of 40): `NoPhotonInTwo` (`PhotonsAreApart`) and `MissedBehindLagOnly`
(`CoincidencesFound`). `HitInv` has four parts:

- `Ordered`: raw hits are out of order by less than a coarse time, hits by less than that and the
  correction, since a hit keeps its place while its time is shifted. The sorted block is described by the
  rank of its hits (`InOrder`), so that no sorting algorithm has to be followed.
- `PhotonsInv` (`PhotonsRight`): the hits taken are those of the photons, kept, in excess or rejected, and no
  hit behind the first of a photon that could be of it is free; the firsts of two photons could not be of
  one. That the scan may end early is `NoneMissed`:
  a hit that joins is within its reach, by `Ordered`.
- `Handled`: which handlers are done; when the block is written the pairs are those within reach that coincide,
  and there is one row for each.

From it, `PairMissed`: if the scan for `p` ends at a photon `r` before it comes to `q`, then `r` is later than `p` by more than
the reach and `q` by no more than the window, so that `r` is later than `q` by more than the overlap; but the first hit of `r`
is not later than that of `q` by more than the disorder (`Ordered`), so that the rest is what `r` lags more
(`LaterAndLater`). `NonePassedOver`: no photon lags by more than the group window, or is ahead of its first hit by more than the disorder.

### `RawFile_proofs`

For any number of frames, steps and events and any block size: `FilesRight` (`FilesAgree`), `EventsKept` (`EventsSurvive`),
`WholeFrames` (`BuffersHoldWholeFrames`). Counts, and the order of the buffers, are claimed for steps whose frames came in order;
events are for all that RawReader finishes, and it stops only at a full frame, which was given for that very step (`AbortsAtFull`).
`FileInv` adds `StepBegun` (a first frame is never left out), `RegionsHold`
(the frames of each region of the file ascend if those given do, and have all events of the frames given for its step, though not
all frames) and `BuffersInOrder`, `NothingLost`: what was pushed and what is in the buffer is what lies
between the begin of the region and the position of the reader. All events of a list of frames are a
`FlattenSeq`; what it does with one more frame is proved in lemmas from the definition of the
community module, whose recursive function is one over numbers (by a smallest counterexample, with
`WellFoundedInduction`), so that no induction over data is needed in the steps.

### `Offline_proofs`

Calibration. For any numbers of ASICs, channels, converters, processes, deaths and forks that fail: `KnowsWorkers` (`ParentKnowsWorkers`), `RowsRight`
(`CalibratedRight`), `OffsetsOfTheData` (`OffsetsRight`). `CalibInv` adds `NoneForgotten`: a line of the list is read ahead,
taken, being worked on, or in the table, or its worker died, also when the offset moves back, as long as no fork failed; `OneFileEach`:
until the offset moves back, no descriptor is opened twice for a line, so that the program does not run out of
them; `TableSoFar`: the row of an ASIC is what a worker at that point leaves, and a second worker
for the same ASIC writes the same; `OffsetSoFar`: after its three passes the offset of an ASIC nobody
shares is that of its data; `Adjusted`: for either branch there is one number that was taken off all of them. `Alone`: the parent's count is that of its
workers and of the forks that failed, and as it never falls below the second, no table is written after one. The
average itself is a sum over a finite set: the lemmas about it are proved by least sets.

Digitizer files. For any file, with words of any events in any order: `GoesForward` (`AlwaysForward`), from
`ForwardInv`. While an event is read the file is at least the four words of a header behind its start, or
at its end; `found_corruption` goes back by fewer, because it looks for the one zero of the header among
the words after it, and the next header is read before the step is over.

For any file that only lost words (`LossesOnly`, the assumption `LossesAssumption`: what is left is in order; only
`dat2rootPixels`, with both groups on in every event, is given files with losses, the other two have no
recovery): `WholeEventsStored` (`RowsAreTheWholeEvents`) and `RowsOfOneEvent` (`RowsAreOfOneEvent`). Three invariants, each on top of
the one before:

- `RowsInv`. `ReadInv` says what the words read so far are: those from where the event was begun, unless the
  file came to its end, and as many as are still to be read (`ToRead`) are missing of what the header
  announces. `RowsSoFar`: as long as the events so far are sound, the next one is begun at its first word
  (`InStep`), and the rows are as many as the whole events before it. The step that matters is
  `GivenUpRight`: a damaged event is always given up, because a loss of three words or more brings the next
  zero into what is read, and the file goes back from that zero to the next event's first word.
- `TrackInv`: the next event is begun at most three words before the zero of the event that has its
  number (`ZeroBehind`), also behind a garbled row, so that the count of events is right where a whole one is read.
- `ValueInv`: what a group holds is of an event whose words are behind the start of this one (`Old`), until
  its samples of this event were analysed (`Finished`); for `datroot2root` over a tree, the last event that had the
  group on.

The first proof attempt of `RowsOfOneEvent` failed for a reason: that every event still has its zero is not
enough for the tracks. When so little is left between the zeros of two events that both are read as one
header, the second is not looked at, and one event is counted for two. It takes five events with two losses,
more than the run has; `Recognized` now excludes it.

Merging. For any hits, any times of the telescope and all thresholds: `GapsMakeEvents`
(`EventsAreBetweenGaps`) and `TriggersOnce` (two of the three parts of `MatchIsOwnTrigger`). `Gathered`, in `GapsInv`,
says what the row at hand is: the last hit of each channel among those since the last gap; the events
before are those between earlier gaps, in order. `MatchInv` adds that no match is
later than `matched`, from which the search begins.

For any number of triggers, spills and times that `TriggersAssumption` allows, whichever triggers either side
missed: `MatchesAreOwn` (`MatchIsOwnTrigger`) and `NoneIsMissed` (`SeenByBothIsMatched`). Their invariant `TimesInv` adds
three parts to the one above:

- `ShotsInv`: the trigger hits of the events are in order.
- `ClockInv`: what the program keeps of the chips' clock, as a function of the events written: the first
  trigger, the last one, and the last with a pause before it (`ClockIs`), with the reset time absolute until
  there is such a pause.
- `ResultInv`: each row is `RightFor` its event, which is the two properties, and that no match is as much as
  `Far` ahead of its hit, also where nothing else is claimed. Without it a wrong match before the first pause
  could stand in the way of the matches after it; with it, that match is before the pause (`BeforePause`).

The argument about one trigger has no state in it. The counter of the telescope gives the true time since its
first reading though it wraps (`TrackerTimeIs`), and the index it keeps is that of its last pause (`ResetIndexIs`).
The first trigger is the same for both (`FirstAlike`). A reading that agrees in both times has a last
pause that is off by less than `Far + Near`, while there is more than that between two pauses: so it is the
same pause (`SameBreak`). Then the reading is off by less than `Near + Jitter`, and triggers are further apart
(`OwnTrigger`). The own reading agrees (`OwnAgrees`), none before it is too far ahead (`MatchAgrees`), and
none behind it was taken (`OwnIsLater`).

The first attempt at this proof failed for a reason: the property claimed of all triggers what is true only at the
first one and from the first pause on. TLC then found a wrong match with three triggers in the first spill and the
clock of the chips near zero, which the run has now and had not before.

### Only model-checked

Every liveness property, as liveness under fairness is not in reach of the prover. Every invariant of the
runs that pass has a theorem.

## 5. What the models leave out

### Not modelled

- Values: charges, the layout of registers and frames, file formats, wording; the fits of the
  calibration and the pulse shapes (`Aux.cc`), which are floating point on one histogram or waveform.
- More than one client that acquires, or that sends commands. daqd accepts several; two that both
  acquire would move each other's read pointer (`Client.cpp:101`), and two connections, or one that is
  restarted, may draw serial numbers of commands that are still on their way (`daqd.py:35`). Nothing in
  the code claims to serve two.
- The bias cache of `daqd.py`, and the registers of the FEB/D: one command each, without read-back.
- The frame ID's own width (36 bits) and its wrap.
- `stopAcquisition` wipes once: a frame in flight may be published after it, in mode 0. The model
  has this; no property speaks of the ring while no acquisition is on.
- Idle-time counters, port status, trigger and gate registers: values passed through.
- Byte offsets in the data file, and a full disk: write_raw does not look at what `fwrite` returns.
- Acquisition scripts, bit fields, INI files and plotting macros: no state that outlives a call.
- Hits of one photon on both sides of a block boundary: `SimpleGrouper` works on a block and what it
  is handed overlaps in no way with the next, so that such photons are split.

### Weak points of the code without a property

Met while modelling. Each is a single place that a reader can judge, or depends on something
outside the repository, so that a run would show nothing more.

- `T/base/OverlappedEventHandler.tpp:33`: the deque of a stage has no bound; behind one slow block,
  blocks that are done pile up in memory.
- `daqd.py:455`: a reply of 2 or 3 bytes is passed on by daqd, but `sendCommand` goes on to its next
  try with the rest of it still in the socket; whether a FEB/D sends one is up to its firmware.
- `daqd.py:227`: a reset that raises after the ASICs were reset leaves the cache; `AsicConfig` has it
  and counts it as raised. `daqd.py:276` reports an error through a name that is not defined there.
- `DAQFrameServer.cpp:177` checks the size of a frame against `MaxRawDataFrameQueueSize`, the 16384 slots of the ring,
  where `MaxRawDataFrameSize`, the 2048 words of a slot, would be right; `UDPFrameServer.cpp:125` checks nothing. Frames that a client is
  reading are overwritten then, or memory past the ring (`WorkerSpill`, `WorkerCrash`, `Copy`, `Crash`). The properties except only
  this: a frame of at most 2048 words harms nobody, and a longer one nobody whose frames are out of its reach.
  Whether one comes is up to the front end, which has no such frames when it works.
- `RawReader.cpp:158`: the assertion asks for `N + 2` less than the size of a slot, and the ring has frames of `N + 2` equal to it
  (`FailAssertion`): a step with a frame of 2046 events cannot be read to its end. `EventsSurvive` says that nothing else can
  make it fail.
- `DAQFrameServer.cpp:66`: the card's refusal of a command is not looked at, so that a full slot costs the
  whole timeout; `:88` compares the serial number through signed chars (modelled in `CommandLink`).
- `PFP_KX7.cpp:261`: a failure drops the words `getWords` has already copied (modelled in `DmaCard`).
- `UDPFrameServer.cpp:182`: the deadline carries at 10^8 nanoseconds instead of 10^9, so that a wait of 10 ms
  may last up to 9 s when no reply comes, and the 250 ms of a command with it; `:89` assigns in a condition.
- `Client.cpp:41`: the rest of a request is waited for without a limit, so that a client that stalls inside one holds up
  the event loop and all others; the clients of the model send requests whole, as daqd.py does, and hang up between them.
- `Client.cpp:69`: `=` for `==`, so that every request of an unknown type is taken for a gate setting.
- `write_raw.cpp:122` and `:152`: the types of a frame after a gap, and of a normal empty frame, are swapped
  against the comment at line 158; `RawReader.cpp:156` skips empty frames before it counts them, so that
  "frames missing all data" is always 0. Both are in `RawFile`, whose properties hold all the same.
- `process_tdc_calibration.cpp`: `fread` is not checked (:206), a fit is rejected only when this try and
  the one before were both bad (:581), the data files are never closed (:837), and with less than 4 GiB of memory `maxWorkers` is 0 and
  nothing is calibrated (:831; in `Calibration`, excepted from its properties). `fork() = -1` (:842, and `process_qdc_calibration.cpp:505`)
  counts as a worker, whose ASIC is left out: sooner or later the parent waits for a child it does not have, and fails, so that at least no table
  without that ASIC is written (`ParentKnowsWorkers`). How a worker ended is not looked at (:859): the row of an ASIC whose
  worker died is written as it was left. `CalibratedRight` and `OffsetsRight` except these, and the second also those two workers
  had at once; they say that the rows of all others are right.
- `ConvertTOFPETSinglesToEvents.cc:111` takes for granted that channel IDs are below 64, and
  `dat2root.cc:286` that a group has at most 1024 samples; the models do too.
- `MergeTOFPETWithPixels.cc:336`: the time of the last pause is absolute at the first trigger, and relative to
  it from the first pause on. Until then the two times since the last pause differ by the chips' clock at
  the first trigger: matches are missed when that is far from zero, and with a clock at about the
  distance of two triggers the event may get the reading of another trigger, as long as the times differ by
  less than 0.1 s. `Comparable` leaves these triggers out; `TriggersOnce` holds for them as well.
- `SimpleGrouper.cpp:62`: a clamp without effect.
- DRS: `found_corruption` does not look at what `fread` returned, so that at the end of a file
  `event_header` may never have been set (`dat2rootPixels.cc:50`); `datroot2root.cc:331` follows a
  null pointer for a `.dat` file (modelled: "crashed"); an empty line in the
  configuration ends the program (`Config.cc:36`).

## 6. Findings

- `calibration_restart`: `process_tdc_calibration.cpp:836` forks while it reads the list of files from a
  stdio stream, and the workers leave through `exit(0)`, which moves the offset they share with the
  parent back over what was read ahead. With more ASICs than workers, the parent may read lines
  again: an ASIC is calibrated twice, two workers may have it at once, and in the end the
  descriptors run out and the program fails. `process_qdc_calibration.cpp:498` has the same loop. What
  remains true is in the run `calibration`: nothing else makes it fail but a fork that fails (`ParentKnowsWorkers`), and the table, if
  one is written, is right but for the t0 of ASICs that two workers had at once.
- `asic_config_sync`: `daqd.py:274` checks the configuration after the sync without `forceAccess`,
  so that it reads the cache, which the read-back of the upload has filled: it cannot find the ASIC
  that lost its configuration, which the comment at line 268 says it checks.

## 7. Plan

The order was that of importance: what is lost or mixed up in the acquisition cannot be repaired
offline. Done are the acquisition chain, what feeds it (cards, UDP), what controls it
(link, configuration), what stores it (file), what reads it back (pipeline, hits), what
calibrates it, and what merges it with the other detectors; and proofs about all of these.

What is left:

- Two acquiring clients over `UdpDaqd`, once the code says what they may expect; the bias cache beside
  `AsicConfig`.
