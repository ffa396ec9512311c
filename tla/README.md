# Verification of zzping

zzping pings a handful of hosts many times a second, keeps what it saw in a log
on disk, sends a summary to a GUI by UDP, and has tools that recompress the
logs and show them. This directory holds TLA+ models of it, the TLC
configurations that check them, and proofs of their main theorems by TLAPS.

The paths below are those of the repository: `zzping-daemon/`, `zzping-lib/`,
`zzping-gui/`.

* [1. Inventory](#1-inventory)
* [2. Plan](#2-plan)
* [3. The models](#3-the-models)
* [4. What is checked](#4-what-is-checked)
* [5. What is proved](#5-what-is-proved)
* [6. What the work found](#6-what-the-work-found)
* [7. What is not modelled](#7-what-is-not-modelled)

## 1. Inventory

| Component | State | Operations | Interacts with |
|---|---|---|---|
| Pinger core: `transport.rs`, `icmp.rs` | per host three queues (`inflight_packets`, `recv_packets`, `lost_packets`), two counters, identifier, sequence number, time of the last ping; the buffer shared with the reader thread | `recv_all`, `send_all`, `cleanup`; `Destination::recv`, `send`; `receiver_thread` | the raw socket, the reader thread (a mutex), the refresh of `main` |
| Disk log: `main.rs`, `create_log_file`, `framedata.rs` | one file per host and hour behind a `BufWriter`; the report timer | refresh, rotation, write of a frame; `FrameDataVec::read` | queues of the pinger; two clocks; the tools that read the logs |
| Statistics: `main.rs`, `transport.rs`, `framestats.rs` | none | a summary of the queues per refresh, a datagram per host | UDP to the GUI |
| FrameDataQ codec: `framedataq.rs` | `FDCodecState`: the last frame | `peek_encode`, `push`, `encode`, `decode`, `FDCodecIter` | `datareadq`, `fdqread`, the GUI |
| Aggregation: `framedataq.rs` | `FDCodecIterFold`: a window of frames | `next`, `fold_vec` | `fdqread`, the GUI |
| `datareadq`, `fdqread` | one codec per input; up to eight threads and their handles; the output buffers | convert, join, recompress, aggregate | files |
| Quantizers: `compress/quantize.rs` | none | `encode`, `decode`, `bucket_size`; `compress` and packing of the logarithmic and the linear one | the codec, the Huffman coder |
| Composite stage: `compress/composite.rs`, `predict.rs`, `corrector.rs`, `huffmapper.rs` | recent values on either side; blocks of differences | `encode`, `decode`, `update_from_fn` | the quantizer, a library's huffman code; `batchdata` |
| Huffman coder: `compress/huffman.rs` | weights, merged symbols | `compress`, `decompress` | the quantizers; no program: `dataread` has its call commented out |
| FFT, weight functions: `compress/` | tables of floats | `compress` | `dataread` |
| `dynrmp` (msgpack values) | none | read and write variants and maps | the header and frames of a FrameDataQ file |
| GUI, live view: `gui.rs`, `udp_comm.rs`, `graph_plot.rs` | socket, samples of each graph | start-up, tick, `recv_all`, `add_sample` | UDP from the daemon |
| GUI, file view: `fdq_graph.rs` | frames of a file, caches of folded frames, zoom, position | `load_file`, `update`, `draw`, the timer | files, the aggregation |

How the parts interact:

* The **reader thread** stamps every ICMP packet with the time of its arrival and
  collects it in a vector of its own. When its last sync is older than 100 µs
  (`transport.rs:313`) it tries the mutex and moves the vector over. The **main thread**
  is a loop: `recv_all` drains the shared vector and matches it against the
  pings in flight, again and again until the round's delay is over; `send_all`
  sends at most two pings; every `cli_refresh` (20 ms as shipped) a *refresh* cleans the
  queues up, computes statistics, sends them by UDP and appends a frame to the
  log of every host.
* A **log** frame is full (wall clock) when the report timer ran out (15 s) and
  a difference to the report otherwise. The file is exchanged when a report
  finds that the hour of the wall clock has changed.
* **datareadq** turns logs into FrameDataQ files, each input with a codec of
  its own, and joins them; **fdqread** recompresses or aggregates such a file.
* The **live view** of the GUI takes the daemon's datagrams out of its socket at
  every tick and keeps the newest for each graph.
* The **GUI** loads a FrameDataQ file, fills its gaps with empty frames, folds
  it into up to four caches, and redraws a slice of one of them whenever a
  slider or the 20 ms timer moves the view.

What is hard here, and what would make it correct:

* *Two threads and a network.* A reply can be stamped before its ping is, can
  come twice, after the ping was given up, or match the ping of another host.
  Correct: every ping is in one place, once; counters and queues agree; a
  latency is a real one.
* *Time limits that different places apply.* `cleanup` has three, the queue a
  random throttle, `send` an interval with slack. Correct: a ping is given up
  no earlier than configured, dropped only past its retention, queues and
  rates stay bounded.
* *Two clocks, two timers and files.* The report timer, the hour, the kind of
  a frame and the window of a frame are decided in four places, the daemon may
  be killed and the clock set. Correct: every file can be read and gives the
  times back.
* *A stateful codec on unsigned integers* whose writer and reader must reach
  the same reference at every frame, over wraps and joints.
* *Threads joined in an order* that is not the one they end in, a file that a
  kill may cut anywhere, and a reader that has to tell its end from a cut.
* *Datagrams* that are lost, repeated, reordered or not understood, and two
  vectors per graph that are filled and trimmed apart.
* *Symbols merged in the order of a hash map*, each of which must keep a code.
* *Two predictors in lockstep*, one that is asked before its value is known and
  one after; a difference with its sign in the number of a block.
* *A sliding window with three ends*: before it is full, full, after the source
  has ended.
* *Indices computed from several lengths at once*: the slice that the GUI draws
  from whichever cache, for any zoom and position.

`PROJECT.json` lists every hazard at its line with the properties aimed at it,
or the reason why there is none.

## 2. Plan

Written, in this order:

1. `Pinger` over `Ledger`, its abstract specification; `PingerProofs`.
2. `FrameLog` with its reader; `FrameLogProofs`.
3. `FDCodec` over `FrameChannel`; `CodecProofs`.
4. `Windows`, `Aggregate`, `FdqView`; `NatProofs`, `FdqViewProofs`.
5. `LiveView`: the daemon's statistics, UDP, the GUI that draws them; `LiveViewProofs`.
6. `DynRmp`, `FrameFile`, `DataReadQ`: the bytes of a FrameDataQ file as atoms,
   the threads that write one, its reader; `FrameFileProofs`, which has the proof
   about `Aggregate`, too.
7. `Composite` with `Predictor`, over `LinearLog` and `Signs`; `HuffmanQ`,
   `Quantizers`; `CompressProofs` about all of them.

What would come next:

8. Liveness of `Pinger`: with a limit of two pings per round, is every host
   pinged in the end?

## 3. The models

### Pinger (`transport.rs`, `icmp.rs`, the loop of `main.rs`)

`now` is the monotone clock, an integer; `Tick` may come between any two
steps, so a thread that is preempted and a round that takes long are ordinary
behaviours. `pc` is where the main thread is:

    drain -> match -> (sleep -> drain)* -> send -> timer -> drain
                                           stamp     cleanup

| Action | Code |
|---|---|
| `ReaderTurn` | one turn of `receiver_thread`: waiting for a packet, stamping it, the attempt to sync |
| `Drain`, `Match`, `Matched`, `Wake` | `Comms::recv_all`; `Match` is `Destination::recv` on every host for one reply |
| `Skip`, `Transmit`, `TransmitFails`, `Stamp` | `Comms::send_all` and `Destination::send` |
| `Timer`, `Cleanup` | the refresh timer of `main`, `Comms::cleanup` |

What to know when reading it next to the code:

* A `Vec` of packets is a set of records. The ordinal `n`, the time
  `declared` at which a ping was declared lost and the packet `by` that
  completed it are history: no guard reads them. No queue is read in an order
  that matters. `Match` takes the replies in the order they were stamped.
* The network (`wire`) answers any ping sent, any number of times, at any time
  or never. `Foreign` are packets that the socket delivers and nobody asked for.
* `send_to` and the reading of the sending time are two steps (`Transmit`,
  `Stamp`), and `sent` is any time in between: a reply can be older than its
  ping (section 6).
* The reader's `try_lock` can fail only while `main` holds the lock, and `main`
  holds it only to drain.
* `send_all` sorts by a duration until a past instant, which saturates to zero
  for every host, and the sort is an unstable one: a round asks the hosts in any
  order (`asked` are those it has asked, `turn` the next).
* `recv_all` panics on a timeout above 5 s; intervals of at most a second
  exclude it.

`Ledger` is what the comments on the three queues and `daemon_config.ron`
promise of a ping: it waits, is answered or declared lost not before its
time, never both and never twice, and is forgotten only past its retention.
`KeepsLedger` is the refinement; it maps a packet to its ordinal and its
sending time.

### FrameLog (`main.rs` 130-241, `transport.rs`, `framedata.rs`)

One host, since the files of hosts do not interact. `now` is the clock of the
timers, `now + skew` the wall clock, which `SetClock` sets to any of `Skews`.

| Action | Code |
|---|---|
| `Reply`, `Sync` | `receiver_thread`: a reply is stamped into its own `buffer`; later it is handed over (`stamped`, the shared vector) |
| `Drain` | the last turn of `recv_all`, which takes the shared vector and completes the pings that are still in flight (`Matched`), and `send_all` |
| `NotYet`, `RefreshStart` | the refresh timer; a refresh up to the log: cleanup of the queue, report timer, rotation |
| `WriteFrame` | the log: a frame into the `BufWriter`, which keeps up to `BufCap` of them |
| `Kill`, `Restart` | the end of the daemon, with what its `BufWriter` held; its start, with timers set back by 60 s, and `File::create` |

`Decoded` is the reader. `Stall` bounds how long a phase of the loop takes, and `Lag`
how long a reply stays in the reader's buffer: the 100 µs between two syncs,
each `try_lock` that fails, and any time that the thread is not scheduled. Properties that need
threads that keep up say so in a premise on the two (`KeepsUp`). A reply is `skipped` when
its ping was forgotten before the reply was drained, when it leaves the queue, or when
a frame passes it by, and no frame holds it.

### FDCodec (`framedataq.rs`), FrameChannel

The writer's and the reader's `FDCodecState`, the file between them.
`Encode`, `Decode` and `NextInput` (a further input file of `datareadq` is
encoded by a new codec into the same output). Sums and differences of
`subsec_ms` are those of a `u32` (`Width` values): they wrap or, in a build
with overflow checks, panic. The seven percentiles are one value, since the
code treats them alike. `FrameChannel` is the abstract file: what was written
comes back in order, once each. The refinement has three configurations in mind: without a
quantizer a value comes back as it was, with one as precise as it keeps it, and with a
quantizer and `delta_enc` together (`Lossy`) only the frame and its time do, since there the code
loses the values (section 6).

### DynRmp, FrameFile, DataReadQ (`dynrmp/`, `framedataq.rs`, `datareadq.rs`)

`DynRmp` is MessagePack in atoms: a marker, or the data behind one, so a file
can be cut between the two. Its writing side is the crate `rmp` (external), its
reading side is the repository's `dynrmp`. A read returns a value and the place
behind it or an error, of which only a missing marker is the end of a file.
A variant holds variants, and `Variant::read` calls itself for them: `Read` is a
function of the depth that is left and of the place, whose value at one depth uses that at the
depth below (`ReadFromMarker`, with `inner` for the call), and a file has no more
levels than atoms. `ReadRow` is the loop over the parts of an array or a map.
`FrameFile` writes and reads the header and a frame on top of it; `EncodedFrame`
is what the codec hands over, where a frame without replies has -1 for each percentile.

`DataReadQ` is `main` of `datareadq`:

| Action | Code |
|---|---|
| `Spawn` | `thread::spawn` and the push of its handle |
| `ReadInputfile` | a thread, from opening its log to the encoded frames it returns |
| `Join`, `JoinPanics` | `handles.remove(0).join().unwrap()`, in the loop and in the one behind it, and the writing |
| `Finish`, `Kill` | the end of `main`, and a kill that leaves any part of the output on the disk |
| `Open`, `NextFrame` | `FDCodecIter::new` and `next` on that output |

`MaxHandles` is the code's 7. The frames of a log are already encoded: how is
`FDCodec`'s matter.

### LinearLog, HuffmanQ, Quantizers (`compress/quantize.rs`, `huffman.rs`, `fdqread.rs`)

`LinearLogQuantizer` for the precisions 1/m in integers. The rounded logarithm
is compared through its powers (`Pow`, a recursive function: TLA+'s own `^` is
not known to the provers); `Signs` has the absolute value and the sign. The definition agrees with the
double-precision code on every latency in the range for m = 1, 2, 3, 4, 5, 10.
`DecodeHalves` is `decode_f64` between two codes, which `bucket_size` uses.
`HuffmanQ` has the other two quantizers and the weights of `HuffmanU64`.
In `Quantizers`, `Rewrite` writes a latency and reads it back, over and over;
`CountSymbols`, `Look` and `Decompress` take a column through `HuffmanQ`, where `Look`
is one turn of the loop over the keys of a hash map, in any order. That half is code of the
library that no program runs: its one caller, `test_batchdata_compression`, is marked dead in
`dataread.rs` (182) and its call is commented out (160).

### LiveView (`main.rs` 150-213, `framestats.rs`; `gui.rs`, `udp_comm.rs`, `graph_plot.rs`)

`Refresh` computes the statistics of every host from any of the given queues and
sends a datagram for each host up to the first that fails. `Deliver` takes one
off the network or leaves it there to come again, in any order; a full socket or
none drops it. `DeliverGarbled` is a datagram that `from_buf` refuses.
`Startup`, `Tick`, `DrawPanics` are the GUI: `recv_all` reads up to the first
datagram it cannot parse, which is gone then, and leaves the rest; `update` and
`draw` are those of `LatencyGraph`. `Relaunch` closes the GUI and starts it
again. `taken` (what `recv_all` has returned) and the `queue` of a datagram are
history. Floats are computed as exact fractions and truncated at the end.

### Composite, Predictor (`compress/composite.rs` and what it calls)

`Build` is one call of `update_from_fn_range`, which both sides make, `StageEncode`
and `StageDecode` one value on its way in and out; between the two is the sequence of
symbols `bits`. `enc` and `dec` are the buffers of the two
`WindowMedianPredictor`s. `Quantize`, `Dequantize` and `Prediction` are constants:
`MCComposite` gives them `LinearLog` and `Predictor`, the proof takes any. The
code's `f64` holds a prediction exactly, so `Predictor` counts in eighths and
rounds halves away from zero as `f64::round` does. The huffman code is a
library's; the model assumes of it that a symbol comes back, and keeps the
order of a symbol and its extra bits. A raw symbol keeps the low bits of a
value. A panic ends its side.

### Windows, Aggregate (`framedataq.rs`)

`Aggregate` has the buffer of `FDCodecIterFold` and `fold_vec`. `Windows` is
the closed form of the windows, which `Aggregate` is checked against
(`SlidingWindows`) and `FdqView` builds its caches with. Frames are reduced to
their time, their number of replies and the range of their percentiles.
`Aggregate`'s specification is called `FoldSpec`, and that of `Quantizers`
`LatencySpec`, since one module proves about them and another component.

### FdqView (`fdq_graph.rs`, `gui.rs`)

`ReadFrame` and `Loaded` are `load_file` with its gap fillers, `AddCache` one turn of
the loop that folds the caches; the sliders and `Tick` are the messages of
`update`. `Shown` and `Points` are what `draw` selects and folds. Each frame
carries the range of frames of the recording that it was folded from, so that
a property can say which part of the recording is seen. The step by which a
tick moves the position, and the rounding of the `f32` where the slider comes to
rest, are nondeterministic.

### Abstractions that hold throughout

Text on the terminal, drawing, colours and the bytes of packets and files are
left out. Every definition under the comment "Fault" is not part of the
model: it is a variant of the definition below it, with an error that could be
made there, which the mutants in `PROJECT.json` put in its place.

## 4. What is checked

Every passing run ends with the whole state space explored.

| Run | What it asks | Bounds, and why they do |
|---|---|---|
| `pinger_queues` | One host: are the queues and counters right and is the ledger kept, under late and repeated replies and slow rounds? | Three pings, of two sequence numbers, so two in flight can have the same one; five units of time, longer than every retention but the sum of two; one reply between the threads, replaced at will |
| `pinger_hosts` | Two hosts: credit, spacing | Equal or different identifiers, intervals 6 and 4, longer than two rounds, so that a ping can come too soon; a foreign packet; two replies between the threads; one ping per round (`SendLimit`), so a round ends before the second host |
| `framelog` | Are files readable and right, and is every reply in one or two frames? | Two hours, a buffer of one frame, two settings of the clock, kills and restarts at any time; reports longer than a refresh and shorter than an hour; one reply at any time, which the reader thread hands over at once or a unit later, two refreshes whose windows overlap by half. The premise of `NoneSkipped` holds and is tight: four phases and the delay are 5 of less than 6 units, latency, delay and phase 6 of less than 7 |
| `codec` | Do frames come back? | Three frames cover a full one, a difference and a return to full; the seconds 1, 2, 4 are closer and further apart than `FullEncodeSecs`; 4000 values of the `u32` are more than a difference can be, as in the code, but differences below zero wrap. Three configurations: a release build with a quantizer, a checked build with `delta_enc`, a release build with both |
| `quantizers` | Margin, wear, buckets, codes | Every latency up to where 32-bit integers reach, for three precisions; both parts of the scale and the seam are in it. Columns of six latencies out of six (in order, which nothing in the code depends on), so that symbols occur once or more, next to each other and apart; weights up to 1 (`MaxCount` 2), so that they are scaled down |
| `datareadq` | Is the output in order and readable, and does it end? | Three inputs and one more thread than may wait; logs of one and three frames, which have every optional field; a missing input at each place; a cut at every atom; headers of this version, an older and a newer one, and of another program |
| `live_view` | Do the graphs show what was reported? | Two refreshes of two hosts, in two graphs that are not in the daemon's order; three arrivals and a socket for two; sample limits of 0, 1, 3 and 4, of which the last can overflow |
| `aggregate` | Are the windows right, and does it end? | Up to nine frames: three steps beyond the longest window; windows that the step divides and does not; window = step; window = 1 |
| `fdq_view` | Is what is seen what was selected, with bounded work? | The real ratios of the constants (window = 4 steps, `CacheMin` = 4 limits, the cache limit = 1.5 limits) at a smaller scale; up to four frames that fillers make a hundred and fifty; zooms from the whole to two frames |
| `composite` | Does every value come back? Can a side panic? | Five values, two more than the window of three (3 is the default of the code), so it fills and moves on; blocks of one, two and four values in place of 1 to 32; values whose differences meet each block from both sides, its borders, and go beyond the last; first values that fit into a raw symbol and that do not |
| `pinger_short_recv`, `aggregate_sparse` | The findings of section 6 | the smallest that show them |

The properties, by what they are for:

* *Pinger.* `AccountedOnce` and `Conservation`: each ping in one queue, and
  the counters in agreement. `KeepsLedger`: the whole life of a ping.
  `RttSound`: a latency is real although two threads stamp its ends.
  `LostOnlyAfterTimeout`, `Retention`, `InflightBound`: the time
  limits and the throttle. `SendSpacing`: the rate. `OwnReply`: credit, unless
  identifiers or sequence numbers collide.
* *FrameLog.* `FirstFrameFull`, `DecodedRight`, `DecodedInOrder`: the file can
  be read, gives the times back within the length of a refresh, in order while
  nobody sets the clock. `LogsKept`: what a restart or a clock that is set back
  may destroy, and nothing else. `AtMostTwice`, `NoneSkipped`: the overlapping
  windows of frames.
* *FDCodec.* `KeepsFrames`, `NoPanic`: frames come back over wraps and joints.
* *DataReadQ.* `InArgumentOrder`: whichever thread ends first. `ReadsFrames`,
  `PanicsOnCutOnly`: the reader tells the end of a file from a cut in it, and
  takes no frame that was not written. `Completes`: no join waits for ever.
* *Quantizers.* `WithinMargin`, `Stable`: the documented margin, also after
  rewriting. `BucketCounts`: `bucket_size` is the number of values of a bucket.
  `CodesAll`: no symbol is left without a code by merging or scaling.
  `PacksBack`: what is serialized comes back.
* *LiveView.* `ShowsLatest`: a graph is the newest reports of its host.
  `ReportsTrue`: a report is true of the queues. `NoPanic`, `Drains`.
* *Composite.* `ValuesKept`, `NoPanic`. *Aggregate.* `SlidingWindows`, `Ends`.
* *FdqView.* `GapsFilled`, `SameView`, `WorkBounded`, `NoPanic`, `ComesToRest`.

Every property has a mutant in `PROJECT.json`: an error in one definition of
the model with which TLC finds the property violated.

*Premises.* `AccountedOnce`, `Conservation`, `LostOnlyAfterTimeout` and
`KeepsLedger` need `ForgetInflight <= ForgetRecv` (the ledger also the
converse); the theorem about `NoSilentDrop` needs `ForgetRecv <= ForgetInflight`. The
shipped configuration has them equal. `DecodedInOrder` needs refreshes that take less than
`cli_refresh` and a clock that nobody sets, `NoneSkipped` what `KeepsUp` says: four
phases of the loop and the delay of the reader thread within half a refresh, and retentions longer than
a latency with these delays (as shipped, half a refresh is 10 ms, the retentions 10 s and 20 s). `NoPanic` of `LiveView` needs a socket, and a `sample_limit` that is not zero and whose
samples add up within a `u32` (8590 of them); `PacksBack` a greatest symbol that is no power of two. `ValuesKept` needs the first value to fit into the
12 bits of a raw symbol, `NoPanic` of `Composite` values that lie together
within two thirds of what the blocks reach. `NoPanic` of `FdqView` needs two frames and times
that do not go back: the code does panic on one frame, and on a negative width.

*Fairness.* `Aggregate` has weak fairness of `Next`: the consumer, a loop in
`fdqread` and `collect` in the GUI, keeps calling `next`. `FdqView` has weak
fairness of loading, which is one call, and of `Tick`: the GUI subscribes to a
20 ms timer and a tick is not disabled by anything but rest. The sliders are
not fair. `LiveView` has weak fairness of `Tick`, the same timer. `DataReadQ` has weak
fairness of the main thread and of each reading thread: the system runs every
thread that can run, and neither waits for anything but a join. No other specification has fairness, and no liveness is claimed for
it.

*Deadlock.* Every model stops where its bound does (a clock, a file or a number of
moves, datagrams or values) or where the program ends, and `Pinger` where a failed `send_to` ends the daemon, so deadlock is not
checked. There is no waiting for each other in the code: the only lock is tried by
the reader and held by `main` for one swap.

## 5. What is proved

All invariants of the passing runs are theorems, and so are both refinements (`KeepsLedger`,
`KeepsFrames`) and the two action properties: `LogsKept`, which says what a step may do to a
log, and `Stable`. They hold for every value of the constants
that the assumptions of the modules allow: any number of hosts, frames, graphs
and datagrams, any intervals, limits, delays and clocks; any logs, headers and cuts; any
precision 1/m, latency and column; any quantizer and any
blocks. A component's theorems are in the module named after it, those of `DataReadQ` and `Aggregate` in
`FrameFileProofs` and those of `Composite` and `Quantizers` in `CompressProofs`; `NatProofs` holds
what several of them need.

| Theorem | Says | Needs |
|---|---|---|
| `TypeCorrect` | `[]TypeOK`, and the queues are finite | |
| `InflightBounded` | `[]InflightBound` | |
| `LatencySound` | `[]RttSound` | |
| `PingsSpaced` | `[]SendSpacing` | |
| `QueuesRetained` | `[]Retention` | `ForgetInflight > 0` |
| `EveryPingOnce` | `[]AccountedOnce` | `ForgetInflight <= ForgetRecv` |
| `CountersConserved` | `[]Conservation` | `ForgetInflight <= ForgetRecv` |
| `LostInTime` | `[]LostOnlyAfterTimeout` | `ForgetInflight <= ForgetRecv` |
| `NothingDropped` | `NoSilentDrop`, which no run checks: `KeepsLedger` covers it where both limits are equal | `ForgetRecv <= ForgetInflight` |
| `LedgerKept` | `Spec => KeepsLedger` | both equal |
| `RepliesCredited` | `[]OwnReply` | the draws that collide are the property's premise |
| `FilesBeginFull` | `[]FirstFrameFull` | |
| `FramesDecodedRight` | `[]DecodedRight` | |
| `FramesInOrder` | `[]DecodedInOrder` | its premise: short refreshes, a clock left alone |
| `LogFilesKept` | `LogsKept` | |
| `LoggedTwiceAtMost` | `[]AtMostTwice` | |
| `RepliesNotSkipped` | `[]NoneSkipped` | its premise: a loop and a reader thread that keep up, and long enough retentions |
| `CodecNeverPanics` | `[]NoPanic` of `FDCodec` | |
| `FramesKept` | `Spec => KeepsFrames`, in every configuration; it claims no values where `delta_enc` loses them | |
| `InputsInOrder` | `[]InArgumentOrder` | |
| `FramesAreRead` | `[]ReadsFrames` | `InputAssumption`, `CfgAssumption` of `DataReadQ` |
| `PanicsOnlyOnCut` | `[]PanicsOnCutOnly` | the same |
| `FoldsSlidingWindows` | `[]SlidingWindows` | |
| `MarginHolds` | `[]WithinMargin` | a precision 1/m, and columns of positive latencies |
| `RewritesAreStable` | `Stable` | a precision 1/m |
| `BucketsAreCounted` | `[]BucketCounts` | the same |
| `AllSymbolsCoded` | `[]CodesAll` | `max_count` above 1 |
| `SymbolsPackBack` | `[]PacksBack` | its premise: the greatest symbol |
| `EveryValueKept` | `[]ValuesKept` | the huffman code gives symbols back; any predictor |
| `StageNeverPanics` | `[]NoPanic` of `Composite` | a predictor that goes no further than `DistanceAssumption` |
| `LoadFillsGaps` | `[]GapsFilled` | |
| `DrawingBounded` | `[]WorkBounded` | whole-number zooms |
| `DrawingNeverPanics` | `[]NoPanic` of `FdqView` | its premise: two frames, times in order; whole-number zooms |
| `SeesSelection` | `[]SameView` | windows of two steps at least (the code's have four); whole-number zooms |
| `ReportsTrueOfQueues` | `[]ReportsTrue` | `Scaled` |
| `GraphsShowLatest` | `[]ShowsLatest` | |
| `GuiPanicsWhenUnfit` | `[]NoPanic` of `LiveView` | |

`Scaled` says that latencies fit into a `u32` of microseconds (71 minutes, and a queue
forgets its packets long before) and that fewer than 100,000 packets are in the
window of the loss: with more, a single one lost is less than the last digit
and is reported as none. `DistanceAssumption` says of the predictor that
it leaves the values it holds by half of their range and a rounding at most; it goes on from the
last value by half of its distance to the median, and TLC evaluates the assumption for `Predictor`.
`InputAssumption` of `FdqView` has the files begin after the first second of 1970,
since `load_file` takes a time of zero for that of no frame. That the queues of
`LiveView` are finite is what a `Vec` is. `InputAssumption` and `CfgAssumption` of `DataReadQ` give
frames and headers the types of `FDCodec`'s output and of `FDCodecCfg`: unsigned
times and counts, -1 for each percentile where there were no replies.
`PrecisionAssumption` has columns that are not empty, of positive latencies: `LogQuantizer` divides
by the least of them and takes the logarithm.

The argument for `Pinger`:

* *Types* go together with the finiteness of the queues: `recv_count` grows by
  a cardinality, which is a number only for a finite set.
* `ClockInv` orders the times: a reply waiting between the threads was stamped
  not after `now`, a ping sent not after `now`, `send_start` likewise.
  `RttSound` follows because `Completed` compares the two stamps.
* `OnceInv` is what makes `AccountedOnce` inductive: every ordinal in a queue is
  at most `sent_count`, so the next ping is new (`OrdinalInv`). `Match` moves a
  ping from flight; `Cleanup` declares lost what it removes from flight in the
  same step, and that is where `ForgetInflight <= ForgetRecv` is used: what is
  older than the second limit is older than the first.
* `SpacingInv` adds to `SendSpacing` that `last_pckt_sent` is not more than the
  jitter before the last ping's time.
* `Conservation` counts: a step that takes k pings from flight adds at most k to
  what was received or lost.
* `LedgerKept` proves, from these, that each action is a step of `Ledger`:
  `Match` an `Answer`, `Stamp` an `Issue`, `Cleanup` an `Expire`, `Tick` a `Pass`,
  all others stutter.

* `CreditInv` says that what the reader thread holds came from the wire, and that a
  completed ping has the identifier and sequence number of its reply: `recv` compares no more.

The argument for `FrameLog`:

* `FirstFrameFull` is not inductive, since a refresh that writes a difference into a
  new file would break it. `EmptyDue` says what is missing: the current file is
  empty only while the report timer has run out (or the refresh that found it so
  is not over), so the first frame is full. It holds because a file is created
  only at a start, which sets the timer back by longer than `ReportEvery`, and
  in a refresh in which the timer ran out; that `Long > ReportEvery` (60 s
  against 15 s) is `TimerAssumption`.
* *Times.* `RightInv` is about each file: its frames are more than a
  refresh apart, and each has a key, not older than `ReportEvery`, that its time is
  counted from. `LastInv` ties the timers to the last frame: the report timer
  began with its key. `PhaseInv` bounds how old the timers are by the phase of
  the loop, which is where the `Stall` of `DecodedRight` comes from.
* *Files.* `HourInv`: until somebody sets the clock, no hour to come has a file, so a
  rotation truncates none.
* *Replies.* `CountInv` gives each reply in the queue an age by the number of
  frames that hold it, and a frame looks back for less than two refreshes, so a reply that two hold is too
  old for a third. `FreshInv` is the other side: a reply that no frame holds, in either
  buffer or in the queue, is younger than a frame looks back, by the reader's delay and the phases
  that may have passed, and one that is not drained yet was stamped so lately that no
  cleanup has forgotten its ping. Only this one needs threads that keep up.

The argument for `FDCodec`: `TimeInv` and `ValueInv` relate the two codecs and
the file. The writer's last frame is that of the file's end, the reader's that of
the place it has reached, and each frame in the file is a full one or a
difference to the one before it, modulo `Width`. So a difference that wrapped wraps
back. `ProgressInv` says what a panic leaves behind. From these each `Encode` is
a write of `FrameChannel` and each `Decode` a read.

The argument for `Composite` has two halves.

* *Blocks.* `RowInv`: each call of `update_from_fn_range` puts its blocks behind
  the last ones, in values and in keys, and only the first block has the key
  and the value zero. So the keys of two blocks are apart (`BlockOfKey`), and a
  difference goes to a key and extra bits from which it is computed again
  (`KeyOfBlock`, by the division theorem; the sign survives since only zero has
  the key zero). Together: `KeyLeadsBack`.
* *Lockstep.* `Synced`: after n values a side's predictor holds the last
  `WindowSize` of the n quantized values (`Recent`), so before value n both make
  the same prediction; symbol n is that of what value n differs from it by
  (`Written`). `Decode` then restores value n, which moves the reader's window
  on (`RecentPushed`). All of it holds if the first value fits (`FirstFits`); a
  first value that does not would shift every later one.
* *Panics* (`PanicInv`): the blocks cover what `cur` says (`Covered`), a prediction is off
  by at most one and a half times the range of the values, so two thirds of the blocks
  are enough; and what the reader meets is a symbol of some block (`Readable`),
  behind a raw one.

The argument for `Aggregate`: `WindowInv` says that after k calls the buffer is the
k-th window of `Windows`, with its ends as a closed form; a call moves each end
as far as the closed form does, in each of the three phases (before the
window is full, full, after the end of the source).

The argument for `DataReadQ`:

* *What a file holds.* `Holds(file, pos, w)` says that the words w are there from
  a place on, `CutIn` that the file ends before it has all of them. For every
  function of the reader there is a lemma for either: on what the writer wrote it
  returns the value and the place behind it; on a cut it returns an error, which is the
  end of the file only if not even the first marker is there. They go up from
  the integers over strings, arrays and maps (`RowRun` takes `ReadRow` part by part) to the
  header and to a frame, whose five parts are read one behind the other.
* *Order.* `OrderInv`: there are n and s, so that the output has the first n inputs and the
  handles are those from n + 1 to s, in a row (`Handles`). A join takes the first of them,
  whichever thread has ended; a thread that panicked had an input that is missing.
* *Reading.* `ReadInv`: what is on the disk begins like the output with the first
  k frames, for some k, and is that where nobody killed (`OnDisk`); the reader has
  returned k frames and is behind them (`ReadTo`). The frames of all inputs one behind the
  other and the words of all of them are the same concatenation, which `Layout` says
  without a sum over lengths.

The argument for `Quantizers`. The inductive invariant is `LatencyInv`: a
latency that is rewritten is the one logged or what came back of it
the first time (`RewriteInv`), and a column is not counted yet, or being looked at, or came
back (`ColumnInv`).

* *Powers.* `Pow` is the recursive function one expects (`PowIs`); its laws, and
  Bernoulli's inequality, by induction over sets of naturals. So the bound up to which
  `LogOver` looks is far enough (`BelowBound`), there is exactly
  one rounded logarithm (`RoundsOnce`), and `LogIs`.
* *Rewriting.* `Between` says of v and the two powers A and B what the rounding says,
  and `Divides` that P is A / B, rounded. From `Divides` follows `Between` for P itself
  (`QuotientBetween`), so P has the logarithm it was computed from: a second pass changes
  nothing. That is `Stable`. From both `Between`s follows the margin (`MarginBetween`).
* *Buckets.* The values with one logarithm are a row, since the
  encoding keeps the order (`EncodeOrdered`); `decode_f64` between two codes lies not inside
  of the row on either end (`HalvesAbove`, `HalvesBelow`, `StepEnds`), so what `bucket_size` finds are its first
  and its last (`BucketIs`). Negative codes mirror it.
* *Sharing.* `Sharing` relates the weights, the keys to look at and the symbols that share: one whose weight is 0 shares
  the code of a neighbour, which shares none itself, has been given its weight, so has more than 1, and
  therefore is not taken later. That holds in any order of the keys, and it puts a symbol that
  comes back at most one from the one that went in; `NearSymbol` and `NearPart` say what one
  symbol is in latency.
* *Bits.* A symbol below 2^b is what b bits keep of it, and the greatest is 2^b only if it is
  a power of two (`BitsIs`, `BitsKeep`).

The arguments for `FdqView`:

* *Loading.* `LoadInv`: the frames read so far are there, in a chain whose neighbours
  are near, and the chain ends with the last of them; a filler is a second after the one before.
* *Work.* `CacheInv`: a level has at most `Step` times the frames of the cache folded
  from it. So where that cache is too short for the zoom, the slice of the level is bounded, too.
* *Order.* `OrderInv`: the caches keep the order of the file. A cache's times are means,
  and windows that slide forward over times in order have means in order: `MeansOrdered`,
  from sums of prefixes. The same lemma takes the chunks and windows of `draw` to
  its first and last point.
* *View.* `LaidInv`: fold k of a level ends k strides into the recording, or at its end,
  begins no further back than its span, and overlaps the one before by a stride
  (`Laid`). Whether a slice's length and position are rounded in folds or in frames then
  makes less than a span of difference at either end (`ViewsApart`, `SharesApart`).
  With windows of a single step it does not hold: folds that do not overlap lose the bound.

The arguments for `LiveView`:

* *Reports.* What is on its way, in the socket or taken was computed by `FrameStats` from
  some queue (`SentInv`). A mean is between a lower and an upper bound of what it is taken of,
  for which the sum over a finite set is unfolded packet by packet (`TotalBounds`).
* *Graphs.* `ShownInv` is `ShowsLatest` without its premise. Its step is that filtering tick by
  tick is filtering at the end (`OwnConcat`), and that what was trimmed away is not missed when more
  comes (`NewestOfKept`); values are taken of reports one by one, so they go through both (`UpdateKeeps`).
* *Panics.* A sum of what a graph shows is at most the number of its samples
  times the cap (`SumBounds`).

*Induction.* The library's theorems of induction have an operator for a parameter
and cannot be used. `NatProofs` proves induction in a form that takes a set
(`SetInduction`, from the well-foundedness of the naturals), and with it that the
recursive function by which the community modules define a fold exists and has the values one
expects (`FoldingExists`, `FollowsFolding`). That covers folds from the left, sums over sets
and recursive functions on the naturals, one by one. No module has a RECURSIVE operator,
which it would not cover.

Only model-checked is liveness, which is out of the prover's reach: `Ends`, `ComesToRest`, `Drains`,
`Completes`. And what TLC alone says is what the models leave to their instances: that
`LinearLog` and `Predictor` satisfy the assumptions that the proofs about `Composite` make of
any quantizer and predictor is evaluated for the constants of the run.

## 6. What the work found

1. `pinger_short_recv`. `cleanup` declares lost by `recv_secs` and removes from
   flight by `inflight_secs`. With `recv_secs` below, a ping is declared lost
   before its time, again at every refresh, while it is still in flight and may
   be answered. With `recv_secs` above, an unanswered ping vanishes without being counted
   as lost. The shipped configuration has them equal.
2. `aggregate_sparse`. `fold_vec` divides the number of replies by the number
   of frames in integers; a window with fewer replies than frames is written
   without its percentiles.
3. `delta_enc`. `zzping-lib/README.md:240` says that it "is broken for now. Activating it will
   yield wrong values when decoding" (and lines 32 and 56 that the files "might not be
   readable"). The code is otherwise, both ways. Alone it changes nothing in a file: what it keeps of the last frame
   (`framedataq.rs:342`) is used only behind a quantizer (380-386), so every value
   comes back, as `KeepsFrames` shows for the configuration `Checked`. With a quantizer, which the
   options of `datareadq` and `fdqread` allow, `peek_encode` subtracts the code of the last frame's
   least latency (383) and `peek_decode` never adds it again (406-412): the values are
   wrong in the frames behind the first, and with them the "0.1% margin" of line 234. With precision 1, latencies of 3 and 1 are
   written as the codes 3 and 1 - 3 = -2, and come back as 4 and -2. The files stay
   readable, their frames in order with their times: that is what `KeepsFrames` says of the configuration
   `Deltas`, and it claims no values there.

Observed without a run of their own:

* A reply that the reader thread stamps between `send_to` and the reading of the
  sending time is discarded as a duplicate (`transport.rs:186`), and its ping is
  later counted as lost.
* A reply may be in two frames, by the overlap of their windows
  (`zzping-lib/README.md:161` speaks of one).
* Differences in the log are counted from the report timer and not from the
  timestamp of the full frame (`README.md:155`), which `DecodedRight` shows to be
  right within the length of a refresh.
* The file view panics on a file of one frame.
* `full_encode_secs` is compared with the time since the last frame, not since the
  last full one (`framedataq.rs:360`; `zzping-lib/README.md:31`), so a file of
  frames close to each other has one full frame.
* `LogQuantizer` gives its symbols one bit too few where the greatest is a power
  of two (`quantize.rs:90`), which then comes back as 0 (`PacksBack`).
* `inflight_after` returns what was sent before the last `wait` seconds
  (`transport.rs:250`); its comment says in them.
* One failed `send_to` keeps the statistics of the hosts after it from being sent
  in that refresh (`zzping-daemon/src/main.rs:206`).
* "It will create one frame out of every 10" for `agg-step` 10 (`zzping-lib/README.md:60-63`) is silent
  about both ends of a file: partial windows come until the window is full, and
  again after the end of the source (`SlidingWindows` has the closed form).
* The comment "Negative keys are not handled yet!" (`huffmapper.rs:81`) is out of date: the
  code below it handles them (`ValuesKept`).
* The range of seconds that fills a gap ends one second early (`fdq_graph.rs:156`), so a
  hole of two seconds stays before the next frame; `GapsFilled` allows it.
* A graph with a `sample_limit` of 1 shows nothing, and with 0 ends the GUI at
  its first tick; a host without replies is drawn with a latency of 0.
* `dynrmp` cannot read a binary or an extension (`dynrmp/mod.rs:170` and 233): the
  length is asked of `rmp` where the marker itself is served. No file has one.
* The composite stage cuts a first value above 22 ms (at a precision of 0.001)
  to 12 bits, and all values after it come back as wrong as the first.

## 7. What is not modelled

* Checksums and layout of ICMP packets: pnet's.
* Of the statistics, what no part of the GUI reads, and the lines of the terminal.
* A frame of the daemon's log that is written in part (`write` instead of
  `write_all`, beyond 8 KiB or on a full disk): `FrameLog` and `FDCodec` have
  files of whole frames; `DataReadQ` has files that are cut anywhere.
* The percentiles that `from_framedata` takes of a log frame, interpolated in
  `f32`.
* Liveness of the GUI's start-up: a tick that comes before it panics
  (`gui.rs:102`), and nothing in the code orders the two.
* The 32-bit width of a difference in the daemon's log (71 minutes):
  `DecodedRight` bounds it by the report timer.
* An aggregation with a step of zero, which yields nothing.
* Sliders that are moved before a file is loaded.
* `dataread`, `batchdata`, the FFT, the weight functions and the unsigned Huffman
  map: floats that decide the size of an experiment's output, documented as
  obsolete or experimental. Of `HuffmanU64` its code, a library's.
* Errors of a socket's `recv` in the GUI other than that nothing is there, and panics of a reading thread of
  `datareadq` other than on an input that is missing; `join` treats them alike.
* Zooms between whole numbers, which the slider has.
* Parsing of configuration and options, text output, drawing.
