# A TLA+ model of edgevision-rv1126b

This directory holds a formal model of the program in this repository: an
embedded camera process (capture, AI inference, overlay, H.264 encoding, push
over TCP) and a gateway process that fans the stream out to viewers. The models
are checked with TLC on small instances. What is said of the safety of the frame
queue, the camera process and its devices, the detector's post-processing and the
overlay, the incoming stream, the cache for viewers that come later, the viewers'
queues and the gateway's connections is also proved with TLAPS, for every value of
the constants. Source paths below are relative to
the root of the repository.

## 1. The system

```
            camera process (camera/src/main.cpp)                    gateway process
 V4L2 --> capture thread --encode_queue--> encode thread ==TCP==> epoll thread --send queues--> sender thread --> viewers
                 \--ai_queue--> AI thread --overlay snapshot--^        |  maps: viewers, producers, pending_probe
 signal --> g_running --> main: stops the queues, joins                \-- bootstrap_config, bootstrap_frame
 all threads --> MetricsCollector --> metrics thread
```

| component | code | state | operations | interacts with |
|---|---|---|---|---|
| Frame queue | `capture/include/FrameQueue.h` | deque, capacity, stopped flag, drop counter, condition variable | `push`, `waitAndPop`, `stop`, `droppedFrames` | capture thread (producer), encode or AI thread (consumer), main (stop) |
| Camera threads | `camera/src/main.cpp` | `g_running`, the two queues, the overlay snapshot, the counters | the five thread bodies, the signal handler | everything below |
| Overlay | `camera/src/DetectionOverlay.cpp` | `snapshot_` under a mutex | `update`, `apply` | AI thread writes, encode thread reads |
| H.264 encoder | `camera/src/H264Encoder.cpp` | one VENC channel, one input buffer | `encode`, set-up, teardown | encode thread, hardware |
| Detector | `ai/src/RknnDetector.cpp` | RKNN context | `initialize`, `infer` | AI thread, NPU |
| Camera device | `camera/src/CameraDevice.cpp` | V4L2 buffers, the format the driver chose | `initCamera`, `startStream`, `captureFrame` | capture thread, driver |
| ISP controller | `camera/src/IspController.cpp` | the context of the tuning library | `start`, `stop` | main |
| Configuration | `camera/src/AppConfig.cpp` | none | `fromEnvironment` | main, the environment |
| Metrics | `metrics/src/MetricsCollector.cpp` | atomic counters, the last sample | `record*`, `sample`, `write` | all threads |
| TCP client | `stream/src/FramedTcpClient.cpp` | the socket | `connectOnce`, `sendPacket`, `sendAll`, `closeConnection` | encode thread, gateway |
| Gateway, incoming | `camera_gateway/src/TcpServer.cpp` | `pending_probe`, `producers[fd].recv_buffer` | recognition of the first bytes, `handleProducerBytes` | epoll thread |
| Gateway, bootstrap | same | `bootstrap_config`, `bootstrap_frame` | Annex B scan, `handleCompleteFrame` | epoll thread |
| Gateway, outgoing | same | `viewers`, each `send_queue`, `current_offset`, `active` | `handleViewerRequest`, `queueFrameForViewers`, `senderLoop` | epoll and sender thread |
| Gateway, connections | same | the maps and the kernel's descriptors | `start`, accept, `removeViewer` | epoll and sender thread |
| Event log, utilities, ring buffer, scripts | see PROJECT.json | files | | |

What makes it hard: condition variables shared by three threads; queues that
drop under load; a snapshot that one thread replaces while another draws it;
three different ways for a run to end; a byte stream cut anywhere; a queue
trimmed in the middle of a chunk; a notification that may be lost; descriptors
that the kernel reuses while two threads close them; buffers that a driver and an
encoder read and write while the threads do. There are no tests in the
repository, so the comments and the documents are all that says what is
intended. `PROJECT.json` lists every hazard at its line, with the properties
that speak about it.

What makes each component correct:

* frame queue: newest frames kept, order, drops counted, no consumer asleep
  beside work, `stop` ends everybody;
* camera threads: frames leave in order with boxes from the right result,
  inference never delays video, the run always ends and the counters then add up;
* incoming stream: every packet comes out whole, once and in order; memory is
  bounded; a camera is never taken for a viewer;
* bootstrap: what is cached is exactly what the last packets carried;
* outgoing queues: the bytes a viewer gets are whole chunks in order, lag is
  bounded, nobody is starved;
* detector: boxes lie in the frame and are the objects in the tensor, the best
  of each cluster is kept;
* overlay drawing: boxes are seen in full, within the frame;
* camera and encoder: a packet shows one whole frame, the one it was made for; a
  failed call costs no more than it must; buffers go after those who use them;
* metrics: what the file reports of a run adds up to what happened in it;
* configuration: whatever the environment holds, the program can work with it;
* connections: nothing leaks, everything dead is closed, nothing alive is closed.

## 2. Modules

| module | models | state and actions against the code |
|---|---|---|
| `FreshWindow` | abstract: a window on the newest frames | `Produce` and `Deliver` |
| `FrameQueue` | `FrameQueue.h` | Every method runs under `mutex_` and is one action (`Push`, `Stop`). `waitAndPop` releases the mutex while it blocks, so a call is `WaitAndPop` (`Take`, `GiveUp` or `Block`), with the thread in `waiting` until it is notified or wakes spuriously. Frames are numbers; `taken`, `pushed` and `finished` are history. |
| `FrameQueueProofs` | proofs about `FrameQueue` | |
| `CameraPipeline` | `main.cpp` with the overlay, the encoder's packets and the counters | `pc` is the line each thread is at; both queues are instances of `FrameQueue`. A step touches one shared object; captureFrame and the push to each queue are steps of their own. |
| `CameraPipelineProofs` | proofs about `CameraPipeline` | Carries the theorems of `FrameQueueProofs` over to both queues. |
| `CameraSession`, `MCCameraSession` | `main.cpp` from the first device to the last destructor | Composes the five modules below. `pc` is where each thread is; the destructors of main's locals are steps in the reverse order of their declarations; a failed set-up ends in `exit`. |
| `CameraSessionProofs` | proofs about `CameraSession` and the modules it composes | |
| `CameraDevice` | `CameraDevice.cpp` | The V4L2 buffers are in `incoming`, `outgoing` or `held`; `SensorFrame` is the driver. `captureFrame` is `Dequeue`, `CopyChroma`, `Requeue`, with its failures between them. A picture is the sensor frame that each of its planes comes from. |
| `H264Encoder` | `H264Encoder.cpp` | `encode` is `Clear`, `CopyRows`, `SendFrame`, `GetStream`, with every failure. A packet is the picture it shows, without its bytes. The hardware takes `channel`'s frames in its own time (`HardwareBegins`, `HardwareEnds`), reads the shared `input`, and keeps packets in `stream`. |
| `MetricsCollector` | the counters and `sample` | `Count` is one `fetch_add`; `sample` loads the counters one by one, in any order, since they are relaxed. |
| `IspController` | `IspController.cpp` | the context and whether it runs |
| `AppConfig` | `AppConfig.cpp` | `fromEnvironment` as an operator, with the width of an int |
| `NV12Layout` | `derive_vir_height`, the copies in `captureFrame` and `encode` | Bytes by plane, row and column, through three layouts |
| `FrameChannel` | abstract: a channel of packets that may break | `Hand`, `Deliver`, `Break` |
| `ProducerStream`, `MCProducerStream` | `FramedTcpClient.cpp`, and the recognition and reassembly in `TcpServer.cpp` | Bytes, in a small base; every `send` and `read` moves some of them; each round of the parse loop is a step. |
| `ProducerStreamProofs` | proofs about `ProducerStream` | |
| `Bootstrap`, `MCBootstrap` | Annex B scan and the two caches | The loops are the operators `Starts`, `ContainsNalType`, `ExtractBootstrapConfig` on byte sequences; the reference is the list of NAL units the bytes were made of. |
| `BootstrapProofs` | proofs about `Bootstrap` | |
| `ViewerQueue`, `MCViewerQueue` | send queues and `senderLoop` | Sections under `viewers_mtx` are steps; each `send()` of a pass is a step, during which the map stays locked. `notified` is what a `notify_one` leaves behind. Each chunk has a size of its own. |
| `ViewerQueueProofs` | proofs about `ViewerQueue` | |
| `Detections`, `MCDetections` | the post-processing in `RknnDetector.cpp` | One output tensor; a row of it is a step, then a candidate of NMS is a step, with the order of `std::sort` free among equal scores. The tensor is made from a scene of objects by a model's conventions, and `FrameBox`, `ClassAndScore`, `InferTensorLayout` must undo them. Floats are integers in a unit in which every division is exact, for any ratio of frame and input; only the size of the scaled frame is rounded, as in the code. |
| `DetectionOverlay` | `drawDetections`, `drawRectangleY` | On the result of `Detections`; what is drawn is the set of places in the luma plane that show each of the two lines |
| `DetectionsProofs` | proofs about `Detections` and `DetectionOverlay` | |
| `GatewayConnections` | the epoll loop, `removeViewer`, descriptors | Each critical section and system call is a step, since the two threads share the maps under different locks and the descriptor table under none. |
| `GatewayConnectionsProofs` | proofs about `GatewayConnections` | |

`CameraPipeline` composes two `FrameQueue`s and touches them by their actions
alone, so that what is proved about `FrameQueue` applies to each. `CameraSession` looks at the same process from the
other side: it leaves out the AI thread and takes for `encode_queue` the window that
`FrameQueue` is proved to implement, and has the devices, the encoder, the metrics
and main's set-up and teardown in full. `DetectionOverlay` draws what `Detections`
yields. `ViewerQueue` takes the outcome of `Bootstrap` (a
packet may bring a config or be an IDR frame) and of `ProducerStream` (whole
packets, one after the other) as its input; `GatewayConnections` abstracts
the contents of both.

Definitions whose comment begins with "Mutant" are alternative forms of the
definition that follows, each with a mistake that would be plausible in the
code. They are not used by the specifications. For each property of a passing
run, PROJECT.json names one with which TLC finds the property violated.

## 3. Runs

| run | bounds | what it shows |
|---|---|---|
| `MCCameraSession.cfg` | 2 V4L2 buffers, 1 frame in the channel and 1 packet behind it, queue of 1, 3 frames, 1 sample before the last; ints of 8 bits; pictures of 4 by 4, 252 layouts of the camera's buffer and 4 of the encoder's | `PictureWhole`, `BuffersConserved`, `LagIsTimeouts`, `ReleasedInOrder`, `SamplesAddUp`, `ConfigUsable`, `PixelsInPlace`; no deadlock. Two buffers are the least with which one is refilled while the other is copied; three frames reuse the first buffer; one place in channel and stream each is filled by two time-outs, after which the third frame finds none. 8 bits let three times an interval overflow (45), fit (40) and cross the default window (20); -40, 0 and 1 are what the code corrects or nearly so. Strides up to two bytes and heights up to two rows larger than the picture; the buffer's size is not told, or it is every size from the one that just takes the last pixel in to one 26 bytes larger, so that the guess of the second plane's place is right, a row too low and rows too high. The configuration and the layouts are evaluated in the states in which main uses them. |
| `FrameQueue.cfg` | capacity 2, 3 consumers, 6 pushes | All safety properties, the refinement of `FreshWindow`, and that consumers end and frames leave. Two queued frames and three consumers are the least with which a single notification can go to the wrong thread while another stays asleep. |
| `CameraPipeline.cfg` | both queues of capacity 1, every second frame inferred, stale after 1, 3 frames | `FateAtExit`, `BoxesFresh`, `WireOrder`, `StopsSending` and `CaptureNeverWaits`. The capture thread has a step for each push, so that one that waits in either would be seen. Capacity 1 with 3 frames (2 of them inferred) fills both queues and drops from both; a result can be fresh, stale or of a later frame. |
| `CameraPipelineLive.cfg` | the same with 2 frames | `ShutdownCompletes` and `VideoIndependentOfAi`, under fairness |
| `MCProducerStream.cfg` | base 4, two-digit prefixes, lengths up to 2 legal, 4 packets of four kinds, reads and pipe of 6 bytes | Prefix and payload cut at every byte; several packets in one read; a payload that looks like a prefix; a packet too long, and an empty one, whose length of zero the gateway refuses; `FrameChannel` is implemented, and what was sent comes out |
| `MCBootstrap.cfg` | 2 packets of up to 3 NAL units out of 5 kinds | The scan against the reference, for every combination of start codes, with zeros and NAL types among the payload bytes |
| `MCViewerQueue.cfg` | 1 viewer, 3 chunks queued at most, chunks of 1, 2 and 3 bytes in turn, a socket buffer of 3, 5 frames | The byte stream and the queue under partial sends, backlog and removal. What was sent of a chunk may be more than the chunk behind it has, so that a half-sent head that is dropped shows at once |
| `MCViewerQueueHeader.cfg` | the same | Finding 1 |
| `MCViewerQueueLive.cfg` | 2 viewers, 1 frame, chunks of 1 byte | `ReaderServed`, `GonePeerRemoved`, under fairness |
| `MCDetections.cfg` | frames of 14 by 10, an input of 8 by 4, 3 classes, up to 6 objects, 48 kinds of output, 3 results at most; lines of 1 and 4 pixels | `BoxesInFrame`, `FindsWhatWasSeen`, `KeepsBestOfEach`, `BoxesDrawn`. A ratio of two and a half, a scaled width that is rounded, padding on one side, boxes that leave or miss the frame, a chain in which only neighbours overlap (so that NMS is not transitive), more boxes than results, and six candidates, from which on layouts are mistaken. A line of 4 pixels fills the smaller boxes, and some boxes are too thin to be drawn. Drawing does not depend on the tensor's conventions and is evaluated for one of them |
| `GatewayConnections.cfg` | 2 descriptors, 2 connections | `NoLeak`, and `GoneClosed` under fairness. With as many connections as descriptors a closed descriptor is reused while the other thread still knows its number. |
| `GatewayConnectionsReuse.cfg` | the same | Finding 2 |

The configurations do not name the type invariants: `TypeOK` of `FrameQueue`,
`ViewerQueue`, `CameraPipeline`, `GatewayConnections` and `ProducerStream` is proved
(section 5), and the invariants that the other proofs rest on include the types.

The bounds named `MaxPushes`, `MaxFrames`, `MaxPackets` and `MaxSamples` cap the
number of frames that the environment brings, and of samples; every other constant is a parameter of the
code, made small. A viewer's queue needs 3 chunks because the code's limit of
15 leaves room for the header, the config and a frame.

Fairness. `FrameQueue`: each consumer calls `waitAndPop` in a loop and gets the
mutex in the end; nothing is assumed of producers or of spurious wake-ups.
`StopEndsConsumers` also needs a producer that goes quiet, which the bound on
pushes provides and, in the program, the capture loop's own test of
`g_running`. `CameraPipeline`: each thread is scheduled, and `connect`, `send`
and `encode` return. Of `infer` nothing is assumed: a hung NPU is the step
`InferHangs`, which `ShutdownCompletes` excepts, because `rknn_run` has no
timeout and `main` does wait for that thread. A `send` to a gateway that keeps
the connection and stops reading blocks for ever in the same way; the
assumption that it returns is the kernel's and the gateway's to keep.
`ProducerStream`: the gateway handles what epoll reports and `sendAll` goes on.
`ViewerQueue`: the sender thread runs (its wait ends after 5 ms), and the epoll
thread gets the viewers' lock again and again, since the sender thread sleeps
between two passes: strong fairness for the two removals that need the lock.
`GatewayConnections`: both threads run. Of clients nothing is assumed anywhere.

## 4. Findings

1. `StartsWithHeader` is violated. `queueFrameForViewers` drops from the front
   of a queue while nothing of its head was sent (`TcpServer.cpp:318-322`), the
   HTTP header and the config included, although the comments say that the
   header comes first and that complete frames are dropped (`:187`, `:300`).
2. `OnlyDeadClosed` is violated. `senderLoop` removes dead viewers by descriptor
   after it released the lock (`:410-412`). If the epoll thread closed the
   same viewer meanwhile and accepted a new connection under its descriptor, the
   new connection is closed. The events of one `epoll_wait` are exposed to the
   same reuse (`:476`).

Three more disagreements have no run of their own.

`handleCompleteFrame` replaces the whole `bootstrap_config` by what one packet carries
(`TcpServer.cpp:283-286`), so that a packet with SEI alone, or with one parameter set,
throws the other headers away, although the comments say that SPS and PPS are kept so
that a viewer can start (`:81`, `:291-292`). `CachesExact` holds on such packets, which
are among those of its run: it says that the cache is what the last packet with a header
carried, and not that a viewer can start with it. An encoder that repeats all headers
together never meets the difference.

The repository's `README.md:77` lists `[1, 84, N]` among the supported outputs, but
`inferTensorLayout` looks at the last dimension first (`RknnDetector.cpp:226`, and
`:207` for two dimensions) and takes the tensor for N-attribute rows as soon as N is 6
or more. `FindsWhatWasSeen` therefore speaks of tensors that `LayoutKnown` admits; when
that conjunct is left out TLC finds it violated by six objects in a tensor by attributes.
`BoxesInFrame` and `KeepsBestOfEach` hold for misread tensors too.

Some settings are corrected less than `AppConfig.h:44` says, which is that illegal
values are corrected, though nothing says which values are legal.
`fps`, the gateway's port, `max_results` and the two thresholds are taken as they are.
`overlay_stale_frames` follows `infer_every_n_frames` only when it is set to 0 or less:
when it is not set it stays 30, and an interval above that leaves frames without boxes
between two inferences. `ConfigUsable` excepts this case. `main.cpp:219` multiplies
`metrics_interval_sec` by 10, which overflows for an interval above a tenth of the
largest int.

## 5. Proofs

Each module of proofs holds for every value of the constants that its component's
assumptions admit. The assumptions are few and the code or its environment keeps
them; section 5.10 lists those that are more than the type of a constant. Every
inductive invariant below was first checked with TLC, as an invariant of the
component's run.

| module | theorems | for every |
|---|---|---|
| `FrameQueueProofs` | `TypeCorrect`, `QueueHoldsNewest`, `DropsAccounted`, `WakeupNotLost`, `FramesInOrder`, `QueueImplementsFreshWindow` | capacity, finite set of consumers, number of pushes |
| `ViewerQueueProofs` | `TypeCorrect`, `OffsetsLieInHead`, `ChunksUnbroken`, `StreamMovesForward`, `BacklogKeepsNewest` | set of viewers, limit of chunks, size of each chunk, size of socket buffers |
| `GatewayConnectionsProofs` | `TypeCorrect`, `NoConnectionLeaks` | finite set of descriptors and of connections |
| `CameraPipelineProofs` | `TypeCorrect`, `BothQueuesSound`, `SendingStops`, `FateOfEveryFrame`, `WireKeepsOrder`, `BoxesAreFresh` | capacities, inference interval, staleness, number of frames |
| `CameraSessionProofs` | `NothingUsedAfterRelease`, `BuffersAreConserved`, `PicturesAreWhole`, `LagIsWhatTimedOut`, `ReportsAddUp`, `ConfigIsUsable`, `PixelsAreInPlace` | number of buffers, depth of channel and stream, capacity, size of picture, layout that takes the picture in, width of an int |
| `DetectionsProofs` | `BoxesStayInFrame`, `BestOfEachIsKept`, `WhatWasSeenIsFound`, `BoxesAreDrawn` | size of frame and input, their ratio included, number of classes and objects, threshold, limit, thickness of lines |
| `BootstrapProofs` | `CachesAreExact` | set of NAL units that the encoder may make, length and number of packets |
| `ProducerStreamProofs` | `TypeCorrect`, `MemoryIsBounded`, `EveryByteArrives`, `CameraIsNoViewer`, `StreamIsAChannel` | base, size of the prefix, limit of a packet, size of a read, number of packets |

### 5.1 FrameQueue

`HoldsNewest` says which frames are queued in terms of how many were pushed;
together with the types it is inductive. `InOrder` is not: that an earlier frame is
older than a queued one must also hold when the queue is empty, so that the next
frame pushed is newer than all those handed out. The strengthening is `TakenBehind`:
everything handed out has a number of at most `pushed - Len(queue)`. With it, `IInv`
(types, `HoldsNewest`, `Accounted`, `TakenBehind`) is inductive, `TakenInOrder`
follows step by step and `InOrder` from the two. `NoLostWakeup` compares the length
of the queue with the number of woken threads: `WokenCardinality` says how that
number changes when one thread is added or removed. For the refinement, `Push` is
`Produce` because dropping the head of a full queue and appending is the same as
keeping the newest `Capacity` frames, and `Take` is `Deliver`.

### 5.2 ViewerQueue

What was sent and what is queued meet in the head chunk, and that is where the
properties alone are not inductive: trimming may not touch a head of which bytes are
sent, so `HeadStarted` ties the last run of the wire to the head whenever the offset
is positive. An offset that lies within one chunk need not lie within the next, since
chunks differ in size: `OffsetIn` survives a trim only because a head with a positive
offset stays (`TrimmedShape`). `QueueSorted` and `WireSorted` order each side and, between two chunks,
all that was sent before all that is queued; `Untouched` gives a viewer that joins an
empty wire and queue. `OffsetIn`, `Unbroken` and `Newest` are the properties
themselves, for one viewer. Three step lemmas prove the conjunction preserved:
`RequestIInv` (a viewer joins), `FrameIInv` (a packet is queued, with `TrimmedShape`
for what is dropped) and `SendIInv` (some bytes go out, with `SentShape` for the wire).

### 5.3 GatewayConnections

A descriptor leaks when it is open and in no map of the gateway. Between `accept4` and
the first map, and while a connection moves from `pending_probe` to `producers` or
`viewers`, only the epoll thread knows it; between the end of a viewer in the map and
`close`, only the call of `removeViewer` does, in either thread. `IInv` adds to `NoLeak`
that the descriptors in hand are descriptors (`FdInHand`, `CallsOnFds`) and that whatever
is open was accepted (`OpenAccepted`). That the kernel has a lowest free descriptor is a
case of the least element of a set of numbers.

### 5.4 CameraPipeline

Both queues are `FrameQueue`s, and each step of a thread is a step of each queue or
leaves it as it is. The lemma `EachQueueBehaves` says so; it follows from the definitions
and is there only to carry the theorems of 5.1 over to both queues, by an instance of
`FrameQueueProofs` for each (`BothQueuesSound`). The rest of the proof works with them:
nothing about the inside of a queue is proved twice.

`Control` says where threads can be: a packet that left after `g_running` fell was the
last (`LateIsLast`), and threads are joined in order. `Ledger` balances, for each thread,
what it took, what it holds and what it counted; `FateAtExit` is the three balances
when all threads are done. For `WireOrder` and `BoxesFresh` the invariant is `Wire`:
packets are in order within the stream, the encoder and the thread's hand and from one
to the next (`StreamOrdered`); results only get newer from the snapshot on, and the
frame at hand is newer than every packet made (`ResultsFlow`, `MadeFromPast`). That the
results get newer rests on the AI queue's order and on `AiFrame`, which numbers the
frames the AI thread is offered.

### 5.5 CameraSession

One inductive invariant with a part for each thing shared: `Control` (threads run only
while main polls or joins them), `Open` and `Tuned` (what main has open at each of its
steps), `OnePlaceEach` and `AllPlaced` (no buffer in two places, none in no place),
`PicturesCaptured` and `PicturesEncoded` (what may be mixed, and where it no longer may),
`Inside` and `InTime` (the hardware holds one frame for each `GetStream` that failed, and
the one in hand; the latter is first in line as long as none failed), and `Counted` (a
counter goes up at most once after the last sample loaded it). `PictureWhole` is the
deep one: while the plane of a picture is copied the driver may write other buffers, so
the proof needs where each buffer is, and then that the channel's input is not
overwritten while a frame in it has still to be read. The counts of buffers and of frames
are cardinalities and lengths, which the proof bounds for any depth.

`ConfigIsUsable` is about `fromEnvironment` with an int of any width, and `PixelsAreInPlace`
about the arithmetic of the three layouts: a pixel's place is a row times a stride
plus a column, and the proof that two copies agree is the uniqueness of row and column.
It says that brightness always arrives in place, that `captureFrame` reads no byte
outside of a buffer of known size, and that colours are in place exactly when the
buffer's size tells where they begin (`SizeTells`): when it is rounded up by less than a
row and a half and not down, or when there are no spare rows. Nothing is assumed of the
rounding; both directions are proved, the second from a pixel that comes out wrong.

### 5.6 Detections

`Parsed` (the boxes found come from rows, lie in the frame and have an area), `Chosen`
(what was kept was found and is not kept twice), `Ordered` (what is kept is at least as
good as what comes) and `LeftOut` (what was looked at is kept or is beaten by something
kept) are inductive. `KeepsBestOfEach` is not, since it speaks of the end; it follows from
them. Nothing is assumed of the tensor's contents: mistaken layouts are covered.

`FindsWhatWasSeen` needs `InStep`: at every row the boxes found are those of the objects
so far. Underneath is a chain of lemmas about arithmetic: a cell of the tensor is where
the layout says it is (`ReadsCell`), centre and size give back the corners
(`CentreAndSize`), the letterbox undone gives back the camera's coordinates
(`BoxComesBack`). The scale is a fraction
`Num / Den`, the smaller of the two ratios, and `Unit` makes every division by it exact;
the size of the scaled frame is rounded to pixels, of which the proof needs only that
the padding is the same both ways. Last, the best class is that of the object (`FindsClassAndScore`).

### 5.7 ProducerStream

What is buffered, in flight and unsent is what remains of the packets: this is
`NoByteLost`, but only while both ends are open, and so it is not inductive. A client
that ends in the middle of a packet leaves bytes in flight that the gateway still parses,
and what it finds must be whole packets. `Lossless` says that some bytes follow the stream
to make it complete, none while the client is open, and that the packets found are the
first ones sent, always. `Control` ties the thread's place to the kind of connection.

The step of the parser needs that the prefix at the head of the buffer is that of the next
packet. `NextPacket` proves it by cutting one stream twice (`CutsAgree`), and
`RoundTrip` proves that `ntohl` undoes `htonl` whatever follows: by induction over the
digits, the first `i` of them make the number without its last `PrefixSize - i`. That a
camera is no viewer then follows from the assumption that no packet's length reads as
`GET `. The refinement of `FrameChannel` maps a read's last step to `Deliver`, as many
packets at once as it found, and an invalid length or a hang-up to `Break`.

### 5.8 DetectionOverlay

`drawRectangleY` draws a line as nested rectangles, each a pixel further in. The lemma
`DrawnRing` says that together they are a ring, all the pixels of the rectangle but those
further in than the thickness, also when the thickness is more than the rectangle has
(`RectangleIs`, with every row and column inside the plane). `PlacesApart` says that two
pixels of a frame never share a place in the plane, so that set operations on pixels are
those on places. The outline is drawn with one pixel more on each side and then cut to
the frame: `DetectionDrawn` compares both rings with `Line` and `Around`, which do not
cut the rectangle but the result. There the frame's edge matters: a cut rectangle has its
edge inside of the frame, so that one pixel of outline stands in the box, and the
property allows for it.

`DrawingUnfolds` turns the recursive function of `drawDetections` into one step per
detection, and `DrawnInFull` is an induction over the detections: what is drawn of each
is there, except where a later one reaches. It holds for any sequence of boxes within
the frame; `BoxesDrawn` is evaluated for one of the tensor's conventions, which matters
to TLC alone. The proof showed that the property has to except thin boxes:
`drawDetections` leaves out (`DetectionOverlay.cpp:97`) a box that is less than two columns or rows wide once its
corners are rounded, so of such a box there is no line to be seen.

### 5.9 Bootstrap

The bytes of a packet are those of its NAL units one after the other (`FlattenIs`, by
induction over the sequence; `BytesAre`), so that each unit has its place. Where a unit
begins, the scan sees its start code, of the right length, and behind it its type
(`AtStart`). Behind the type no start code begins before that of the next unit
(`NothingInside`); this is where emulation prevention and the stop bit are needed, because
zeros at the end of a payload would otherwise become one with the next start code, and
because a search for one may look past the end of its unit. Hence each search finds the
next unit (`FindsNext`), and `Starts` is the list of all units (`StartsAre`, by induction
from the end of the packet). What is copied is then each unit whole (`UnitIsCut`,
`ExtractIs`), the configuration is empty only if no unit belongs to it (`ConfigFound`), and
the inductive invariant `Kept` is `CachesExact` with the packets received so far.

### 5.10 What the proofs assume

* `FrameQueue`: a positive capacity, which `AppConfig.cpp:82-87` enforces.
* `ViewerQueue`: the limit of chunks has room for the header, the config and a frame; the
  code's 15 has. A chunk has at least one byte; chunks may differ in size.
* `CameraSession`: rows are at least as wide and planes at least as high as the picture,
  and a buffer whose size the driver tells takes the last pixel in (`LayoutsAssumption`).
  How the driver rounds that size is free.
* `Detections`: sizes are positive and a model has a class. Frame and input may have any
  ratio, enlarging included, and the corners of objects may be anywhere. What the theorem
  `WhatWasSeenIsFound` leaves out is in `LayoutKnown`, at the place where the property is
  stated: rows of class scores with at most six attributes, which infer takes for decoded
  ones or refuses, and tensors by attributes with six candidates or more (section 4).
* `DetectionOverlay`: lines are at least one pixel thick, to which the code raises thinner ones.
* `Bootstrap`: NAL units are as H.264 has them: a payload holds bytes, neither a start code nor
  three zeros in a row (emulation prevention), and does not end with a zero (the stop bit).
* `ProducerStream`: packets are shorter than the prefix can tell (4 GiB; `sendPacket` casts
  the size to 32 bits); they may be empty. None has the length that `GET ` is as a
  number, more than a gigabyte and above the gateway's limit.

### 5.11 Only model-checked

* Liveness, which the prover does not handle under fairness: `StopEndsConsumers` and its
  like, `ShutdownCompletes`, `VideoIndependentOfAi`, `AllDelivered`, `ReaderServed`,
  `GonePeerRemoved`, `GoneClosed`.
* `CaptureNeverWaits`, which is about `ENABLED`.

Every other property of a passing run is proved.

The library's induction theorems take an operator as a parameter, which the installed
provers cannot instantiate. What a recursive function computes is proved here from the
well-founded order of the numbers instead: a least counterexample
(`DetectionsProofs`, `BootstrapProofs`), or induction over a set of numbers (`Below` in
`ProducerStreamProofs`). The definitions in question are recursive functions
(`Shifted`, `Value`, `Wire`, `Found`, `drawDetections`, `Starts`) and not folds for this reason.

## 6. Not modelled

* The text of logs, events and metrics; the rates that `sample` computes from the
  counters' gains and the values it reads from `/proc`; conversion of pixels to RGB.
* That an average in one sample may mix the times of different frames, and what
  relaxed atomics allow beyond the order of the loads.
* Loading a model and its labels, and the life cycle of the NPU's context (vendor
  calls in sequence).
* The bytes of an encoder's packet: a pack whose address is null is left out of it and
  the rest is sent (`H264Encoder.cpp:173-176`).
* The guard of `safeRate` against a time that did not pass (`MetricsCollector.cpp:16-21`).
* The overflow of `metrics_interval_sec * 10` (`main.cpp:219`).
* The attributes of the encoder's channel, and which packets are IDR frames: the
  gateway does not look at groups of pictures, so whether a viewer can decode what
  it gets after a drop is not stated.
* Settings that nothing else depends on.
* What `exit` leaves behind: when a device cannot be set up, main's destructors do
  not run; the model ends there.
* `ThreadPool.h`, `EncodedPacket.h`: unused. `RingBuffer`: unused since
  `FrameQueue` replaced it.
* Several producers at once: their frames are broadcast interleaved, and nothing
  says what should happen.
* The end of the gateway: `start` never returns in normal operation.
* Scripts and build files.

## 7. Plan

Done: all components of section 1 that are modelled, and proofs of all their safety
properties but the one about `ENABLED`.

Left: what section 6 lists, first of all which packets are IDR frames, so that it can be
said whether a viewer can decode what it gets after a drop, and two producers at once.
