--------------------------- MODULE CameraSession ---------------------------
(***************************************************************************)
(* camera/src/main.cpp: a run of the camera process from the first device  *)
(* it opens to the last one it releases, with the hardware that its        *)
(* threads share buffers with.                                             *)
(*                                                                         *)
(*   sensor --V4L2 buffers--> capture --encode_queue--> encode --> VENC    *)
(*                                                                         *)
(* CameraPipeline models the two queues and the AI thread.  Here a frame   *)
(* is a picture, the queue is the window that FrameQueue implements, and   *)
(* the devices, the encoder and the metrics are their own modules.         *)
(*                                                                         *)
(* An init step that fails calls exit, which runs no destructor of main.   *)
(***************************************************************************)
EXTENDS AppConfig, NV12Layout, Integers, Sequences, FiniteSets

CONSTANTS
  BufferCount,    \* V4L2 buffers
  ChannelDepth,   \* frames the VENC channel takes
  StreamCount,    \* packets it holds
  QueueCapacity,  \* config.encode_queue_capacity
  MaxFrames,      \* bound on the number of frames of the sensor
  MaxSamples      \* bound on the number of samples before the last

ASSUME BuffersAssumption ==
  {BufferCount, ChannelDepth, StreamCount, QueueCapacity} \subseteq Nat \ {0}
ASSUME BoundsAssumption == {MaxFrames, MaxSamples} \subseteq Nat

\* Those that two threads bump; the others are bumped in the same way.
Counters == {"captured_frames", "encoded_frames"}

VARIABLES
  running,  \* g_running
  pc,       \* where each thread is
  queue,    \* encode_queue: the pictures in it
  stopped,  \* whether it was stopped
  frame,    \* the picture of the frame that the encode thread took last
  samples,  \* the number of samples begun
  device, incoming, outgoing, image, sensor, held, scratch, lost,
  sys_initialized, channel_created, allocated, input, channel, reading, seen,
  stream, packet, timeouts,
  total, sampling, loaded, last, reported,
  ctx, isp_running, aiq

Camera == INSTANCE CameraDevice
Encoder == INSTANCE H264Encoder
Metrics == INSTANCE MetricsCollector
Isp == INSTANCE IspController

handOver == <<queue, stopped, frame>>
cameraVars == <<device, incoming, outgoing, image, sensor, held, scratch, lost>>
encoderVars == <<sys_initialized, channel_created, allocated, input, channel,
                 reading, seen, stream, packet, timeouts>>
metricsVars == <<total, sampling, loaded, last, reported>>
ispVars == <<ctx, isp_running, aiq>>
vars == <<running, pc, handOver, samples, cameraVars, encoderVars, metricsVars, ispVars>>

At(t, label) == pc[t] = label
Goto(t, label) == pc' = [pc EXCEPT ![t] = label]

Init ==
  /\ running = TRUE
  /\ pc = [t \in {"main", "capture", "encode", "metrics"} |->
             IF t = "main" THEN "isp" ELSE "none"]
  /\ queue = << >> /\ stopped = FALSE /\ frame = Camera!Blank /\ samples = 0
  /\ Camera!Init /\ Encoder!Init /\ Metrics!Init /\ Isp!Init

-----------------------------------------------------------------------------
(* main, before the threads run: tuning may fail, the devices may not.     *)

MainIsp ==
  /\ \/ At("main", "isp") /\ Isp!StartFails /\ Goto("main", "camera")
     \/ At("main", "isp") /\ Isp!CreateContext /\ Goto("main", "prepare")
     \/ At("main", "prepare") /\ Isp!StartContext /\ Goto("main", "camera")
     \/ At("main", "prepare") /\ Isp!Stop /\ Goto("main", "camera")
  /\ UNCHANGED <<running, handOver, samples, cameraVars, encoderVars, metricsVars>>

MainCamera ==
  /\ \/ At("main", "camera") /\ Camera!Open /\ Goto("main", "buffers")
     \/ At("main", "buffers") /\ Camera!InitCamera /\ Goto("main", "stream")
     \/ At("main", "stream") /\ Camera!StartStream /\ Goto("main", "encoder")
  /\ UNCHANGED <<running, handOver, samples, encoderVars, metricsVars, ispVars>>

MainEncoder ==
  /\ At("main", "encoder")
  /\ Encoder!InitEncoder
  /\ Goto("main", "threads")
  /\ UNCHANGED <<running, handOver, samples, cameraVars, metricsVars, ispVars>>

MainFails ==
  /\ pc["main"] \in {"camera", "buffers", "stream", "encoder"}
  /\ Goto("main", "failed")
  /\ UNCHANGED <<running, handOver, samples, cameraVars, encoderVars, metricsVars, ispVars>>

MainStartsThreads ==
  /\ At("main", "threads")
  /\ pc' = [main |-> "poll", capture |-> "check", encode |-> "connect", metrics |-> "sleep"]
  /\ UNCHANGED <<running, handOver, samples, cameraVars, encoderVars, metricsVars, ispVars>>

-----------------------------------------------------------------------------
(* The capture thread.                                                     *)

CaptureCheck ==
  /\ At("capture", "check")
  /\ Goto("capture", IF running THEN "grab" ELSE "done")
  /\ UNCHANGED <<running, handOver, samples, cameraVars, encoderVars, metricsVars, ispVars>>

CaptureGrab ==
  /\ \/ At("capture", "grab") /\ Camera!CaptureFails /\ Goto("capture", "check")
     \/ At("capture", "grab") /\ Camera!Dequeue /\ Goto("capture", "chroma")
     \/ At("capture", "chroma") /\ Camera!CopyChroma /\ Goto("capture", "requeue")
     \/ At("capture", "requeue") /\ Camera!Requeue /\ Goto("capture", "push")
     \/ At("capture", "requeue") /\ Camera!RequeueFails /\ Goto("capture", "check")
  /\ UNCHANGED <<running, handOver, samples, encoderVars, metricsVars, ispVars>>

CapturePush ==
  /\ At("capture", "push")
  /\ queue' = Append(IF Len(queue) >= QueueCapacity THEN Tail(queue) ELSE queue, scratch)
  /\ Goto("capture", "record")
  /\ UNCHANGED <<running, stopped, frame, samples, cameraVars, encoderVars, metricsVars, ispVars>>

CaptureRecord ==
  /\ At("capture", "record")
  /\ Metrics!Count("captured_frames")
  /\ Goto("capture", "check")
  /\ UNCHANGED <<running, handOver, samples, cameraVars, encoderVars, ispVars>>

CaptureThread == CaptureCheck \/ CaptureGrab \/ CapturePush \/ CaptureRecord

-----------------------------------------------------------------------------
(* The encode and stream thread.                                           *)

\* A failed connect ends the run.
EncodeConnect ==
  /\ At("encode", "connect")
  /\ \/ Goto("encode", "check") /\ UNCHANGED <<running, stopped>>
     \/ Goto("encode", "done") /\ running' = FALSE /\ stopped' = TRUE
  /\ UNCHANGED <<queue, frame, samples, cameraVars, encoderVars, metricsVars, ispVars>>

EncodeCheck ==
  /\ At("encode", "check")
  /\ Goto("encode", IF running THEN "pop" ELSE "done")
  /\ UNCHANGED <<running, handOver, samples, cameraVars, encoderVars, metricsVars, ispVars>>

\* waitAndPop, and the beginning of encode.
EncodePop ==
  /\ At("encode", "pop")
  /\ \/ /\ queue # << >>
        /\ frame' = Head(queue) /\ queue' = Tail(queue)
        /\ Encoder!Clear
        /\ Goto("encode", "copy")
     \/ /\ queue = << >> /\ stopped
        /\ Goto("encode", "done")
        /\ UNCHANGED <<queue, frame, encoderVars>>
  /\ UNCHANGED <<running, stopped, samples, cameraVars, metricsVars, ispVars>>

\* Whatever fails in encode, the thread goes on with the next frame.
Encode ==
  /\ \/ At("encode", "copy") /\ Encoder!CopyRows(frame) /\ Goto("encode", "submit")
     \/ At("encode", "submit") /\ Encoder!SendFrameFails /\ Goto("encode", "check")
     \/ At("encode", "submit") /\ Encoder!SendFrame(frame) /\ Goto("encode", "fetch")
     \/ At("encode", "fetch") /\ Encoder!GetStream /\ Goto("encode", "record")
     \/ At("encode", "fetch") /\ Encoder!GetStreamEmpty /\ Goto("encode", "check")
     \/ At("encode", "fetch") /\ Encoder!GetStreamFails /\ Goto("encode", "check")
  /\ UNCHANGED <<running, handOver, samples, cameraVars, metricsVars, ispVars>>

EncodeRecord ==
  /\ At("encode", "record")
  /\ Metrics!Count("encoded_frames")
  /\ Goto("encode", "send")
  /\ UNCHANGED <<running, handOver, samples, cameraVars, encoderVars, ispVars>>

\* A failed send ends the run.
EncodeSend ==
  /\ At("encode", "send")
  /\ \/ Goto("encode", "check") /\ UNCHANGED running
     \/ Goto("encode", "done") /\ running' = FALSE
  /\ UNCHANGED <<handOver, samples, cameraVars, encoderVars, metricsVars, ispVars>>

EncodeThread ==
  EncodeConnect \/ EncodeCheck \/ EncodePop \/ Encode \/ EncodeRecord \/ EncodeSend

Hardware ==
  /\ \/ Camera!SensorFrame /\ UNCHANGED encoderVars
     \/ (Encoder!HardwareBegins \/ Encoder!HardwareEnds) /\ UNCHANGED cameraVars
  /\ UNCHANGED <<running, pc, handOver, samples, metricsVars, ispVars>>

-----------------------------------------------------------------------------
(* The metrics thread, and the signal handler.                             *)

\* A sample every interval, and a last one when the thread finds g_running false.
MetricsWakes ==
  /\ At("metrics", "sleep")
  /\ Metrics!BeginSample
  /\ IF running
     THEN samples < MaxSamples /\ samples' = samples + 1 /\ Goto("metrics", "sample")
     ELSE Goto("metrics", "lastSample") /\ UNCHANGED samples
  /\ UNCHANGED <<running, handOver, cameraVars, encoderVars, ispVars>>

MetricsSamples ==
  /\ pc["metrics"] \in {"sample", "lastSample"}
  /\ \/ (\E c \in Counters : Metrics!Load(c)) /\ UNCHANGED pc
     \/ /\ Metrics!EndSample
        /\ Goto("metrics", IF At("metrics", "sample") THEN "sleep" ELSE "done")
  /\ UNCHANGED <<running, handOver, samples, cameraVars, encoderVars, ispVars>>

MetricsThread == MetricsWakes \/ MetricsSamples

HandleSignal ==
  /\ running
  /\ running' = FALSE
  /\ UNCHANGED <<pc, handOver, samples, cameraVars, encoderVars, metricsVars, ispVars>>

-----------------------------------------------------------------------------
(* main, once g_running is false.  Its locals go in the reverse order of   *)
(* their declarations.                                                     *)

MainStopsQueue ==
  /\ At("main", "poll")
  /\ ~running
  /\ stopped' = TRUE
  /\ Goto("main", "joinCapture")
  /\ UNCHANGED <<running, queue, frame, samples, cameraVars, encoderVars, metricsVars, ispVars>>

MainJoins ==
  /\ \/ At("main", "joinCapture") /\ At("capture", "done") /\ Goto("main", "joinEncode")
     \/ At("main", "joinEncode") /\ At("encode", "done") /\ Goto("main", "joinMetrics")
     \/ At("main", "joinMetrics") /\ At("metrics", "done") /\ Goto("main", "freeChannel")
  /\ UNCHANGED <<running, handOver, samples, cameraVars, encoderVars, metricsVars, ispVars>>

MainReleases ==
  /\ \/ /\ \/ At("main", "freeChannel") /\ Encoder!DestroyChannel /\ Goto("main", "freeInput")
           \/ At("main", "freeInput") /\ Encoder!FreeInput /\ Goto("main", "closeCamera")
        /\ UNCHANGED <<cameraVars, ispVars>>
     \/ /\ At("main", "closeCamera") /\ Camera!Close /\ Goto("main", "stopIsp")
        /\ UNCHANGED <<encoderVars, ispVars>>
     \/ /\ At("main", "stopIsp") /\ Isp!Stop /\ Goto("main", "exited")
        /\ UNCHANGED <<cameraVars, encoderVars>>
  /\ UNCHANGED <<running, handOver, samples, metricsVars>>

MainThread ==
  \/ MainIsp \/ MainCamera \/ MainEncoder \/ MainFails \/ MainStartsThreads
  \/ MainStopsQueue \/ MainJoins \/ MainReleases

Terminated == pc["main"] \in {"failed", "exited"} /\ UNCHANGED vars

Next ==
  \/ MainThread \/ CaptureThread \/ EncodeThread \/ MetricsThread
  \/ Hardware \/ HandleSignal \/ Terminated

Spec == Init /\ [][Next]_vars

-----------------------------------------------------------------------------
(* Properties                                                              *)

\* The frame a packet was made for is one of the sensor's whole frames, although the
\* driver refills buffers while they are copied and queued.  And as long as the encoder
\* has answered in time, the packet shows this frame, although encode refills its one
\* input buffer for every frame and the hardware reads it when it likes.
PictureWhole ==
  packet # Encoder!NoPacket =>
    /\ packet.of.y # 0 /\ packet.of.y = packet.of.uv
    /\ timeouts = 0 => packet.of = frame /\ packet.shows = <<frame>>

\* Every V4L2 buffer is in one place: with the driver, empty or filled, or held by
\* captureFrame, or given up because VIDIOC_QBUF failed.  So whatever else captureFrame
\* runs into, the camera keeps its buffers.
BuffersConserved ==
  device \in {"mapped", "streaming"} =>
    LET places == incoming \o outgoing \o (IF held = 0 THEN << >> ELSE <<held>>) IN
    /\ Len(places) + Cardinality(lost) = BufferCount
    /\ {places[i] : i \in DOMAIN places} \cup lost = Camera!Buffers

\* Between two calls of encode the hardware holds one frame for each GetStream that
\* failed so far, and no more: so late are the packets from then on.  And no call gets
\* as far as GetStream once this failed as often as there is room in the hardware, which
\* is the end of the video although the process runs on.
LagIsTimeouts ==
  /\ pc["encode"] \in {"check", "pop", "done"} /\ channel_created => Encoder!Inside = timeouts
  /\ At("encode", "fetch") => timeouts < ChannelDepth + StreamCount

\* Nothing is used after it was released: neither by the threads nor by the hardware,
\* which may still read the input buffer when the process ends.  At the end nothing is
\* left, the tuning library's context included.
ReleasedInOrder ==
  /\ reading => channel_created /\ allocated /\ sys_initialized
  /\ pc["capture"] \notin {"none", "done"} => device = "streaming"
  /\ pc["encode"] \notin {"none", "done"} => channel_created /\ allocated
  /\ aiq # "none" => ctx
  /\ At("main", "exited") =>
       device = "closed" /\ aiq = "none" /\ ~channel_created /\ ~allocated /\ ~sys_initialized

\* What the metrics file reports of a run adds up to what happened in it, but for the
\* one frame that a thread may still finish after the last sample was begun.
SamplesAddUp ==
  At("main", "exited") => \A c \in Counters : total[c] - reported[c] \in {0, 1}

\* main runs with what the environment says: whatever that is, the queues, intervals and
\* windows that the threads work with have a size, and a window that the program derives,
\* as it does for one set to zero or less, holds the boxes from one inference to the next.
\* Excepted are a window that is not set, which is 30 whatever the interval, and an
\* interval too large to be tripled.
ConfigUsable ==
  At("main", "isp") =>
    \A env \in Environments : \A config \in fromEnvironment(env) : Usable(env, config)

\* Whatever sizes and layouts the camera and the encoder come with, captureFrame reads
\* nothing but the camera's buffer and every pixel of the brightness plane ends up where
\* the hardware looks for it; and those of the chroma plane, whose place the code guesses
\* from the size of that buffer, do exactly when the size tells it.
PixelsInPlace == At("main", "threads") => PicturesArrive
=============================================================================
