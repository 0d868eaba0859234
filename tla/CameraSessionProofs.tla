------------------------ MODULE CameraSessionProofs ------------------------
(***************************************************************************)
(* Proofs about CameraSession, for any number of V4L2 buffers, any depth   *)
(* of the encoder's channel and its stream buffers, every capacity of the  *)
(* queue and runs of any length.                                           *)
(*                                                                         *)
(* The inductive invariant has a part for each thing that the threads      *)
(* share.  Each is inductive together with those before it: where the      *)
(* threads are, what is open, where the buffers are, which pictures are    *)
(* under way, what the hardware holds, which of it is in time, and what    *)
(* the counters say.                                                       *)
(***************************************************************************)
EXTENDS CameraSession, FiniteSetTheorems, TLAPS

-----------------------------------------------------------------------------
(* The invariants.                                                         *)

Threads == {"main", "capture", "encode", "metrics"}

Unstarted == {"isp", "prepare", "camera", "buffers", "stream", "encoder", "failed", "threads"}
Joining == {"poll", "joinCapture", "joinEncode", "joinMetrics"}
Ending == {"freeChannel", "freeInput", "closeCamera", "stopIsp", "exited"}

\* Where the channel exists, or does not exist yet.
BeforeRelease == Unstarted \cup Joining \cup {"freeChannel"}

MainLabels == Unstarted \cup Joining \cup Ending
CaptureLabels == {"none", "check", "grab", "chroma", "requeue", "push", "record", "done"}
EncodeLabels ==
  {"none", "connect", "check", "pop", "copy", "submit", "fetch", "record", "send", "done"}
MetricsLabels == {"none", "sleep", "sample", "lastSample", "done"}

\* Where the threads are: they run only while main polls or joins them.
Control ==
  /\ pc \in [Threads -> MainLabels \cup CaptureLabels \cup EncodeLabels \cup MetricsLabels]
  /\ pc["main"] \in MainLabels /\ pc["capture"] \in CaptureLabels
  /\ pc["encode"] \in EncodeLabels /\ pc["metrics"] \in MetricsLabels
  /\ pc["main"] \in Unstarted <=> pc["capture"] = "none"
  /\ pc["main"] \in Unstarted <=> pc["encode"] = "none"
  /\ pc["main"] \in Unstarted <=> pc["metrics"] = "none"
  /\ pc["main"] \in {"joinEncode", "joinMetrics"} \cup Ending => pc["capture"] = "done"
  /\ pc["main"] \in {"joinMetrics"} \cup Ending => pc["encode"] = "done"
  /\ pc["main"] \in Ending => pc["metrics"] = "done"

\* What main has open at each of its steps.
Open ==
  /\ pc["main"] \in {"isp", "prepare", "camera", "stopIsp", "exited"} => device = "closed"
  /\ pc["main"] = "buffers" => device = "open"
  /\ pc["main"] = "stream" => device = "mapped"
  /\ pc["main"] \in {"encoder", "threads", "freeChannel", "freeInput", "closeCamera"} \cup Joining
       => device = "streaming"
  /\ channel_created \in BOOLEAN /\ allocated \in BOOLEAN
  /\ sys_initialized \in BOOLEAN /\ reading \in BOOLEAN
  /\ channel_created <=> pc["main"] \in {"threads", "freeChannel"} \cup Joining
  /\ allocated <=> pc["main"] \in {"threads", "freeChannel", "freeInput"} \cup Joining
  /\ sys_initialized <=> allocated
  /\ ~channel_created => channel = << >> /\ ~reading /\ stream = << >>

\* The tuning library is not left with a context that no one knows.
Tuned ==
  /\ ctx \in BOOLEAN /\ isp_running \in BOOLEAN /\ aiq \in {"none", "context", "started"}
  /\ aiq # "none" => ctx
  /\ aiq = "started" => isp_running
  /\ isp_running => ctx
  /\ pc["main"] = "isp" => ~ctx
  /\ pc["main"] = "prepare" => ~isp_running
  /\ pc["main"] = "exited" => aiq = "none"

Ran(s) == {s[i] : i \in 1 .. Len(s)}
Distinct(s) == \A i, j \in 1 .. Len(s) : s[i] = s[j] => i = j

BufferTypes ==
  /\ incoming \in Seq(Camera!Buffers) /\ outgoing \in Seq(Camera!Buffers)
  /\ held \in Camera!Buffers \cup {0} /\ lost \in SUBSET Camera!Buffers
  /\ held # 0 <=> pc["capture"] \in {"chroma", "requeue"}
  /\ pc["main"] \in {"isp", "prepare", "camera", "buffers"} =>
       incoming = << >> /\ outgoing = << >> /\ lost = {}

\* No buffer is in two places.
OnePlaceEach ==
  /\ Distinct(incoming) /\ Distinct(outgoing)
  /\ Ran(incoming) \cap Ran(outgoing) = {}
  /\ held \notin Ran(incoming) \cup Ran(outgoing) \cup lost
  /\ lost \cap (Ran(incoming) \cup Ran(outgoing)) = {}

\* And none in no place.
AllPlaced ==
  device \in {"mapped", "streaming"} =>
    /\ Ran(incoming) \cup Ran(outgoing) \cup {held} \cup lost \cup {0} = Camera!Buffers \cup {0}
    /\ Len(incoming) + Len(outgoing) + (IF held = 0 THEN 0 ELSE 1) + Cardinality(lost) = BufferCount

Picture == [y : Nat, uv : Nat]
WholePicture == {p \in Picture : p.y # 0 /\ p.y = p.uv}
Packet == [of : WholePicture, shows : Seq(Picture)]

\* The pictures in the camera.
PicturesCaptured ==
  /\ image \in [Camera!Buffers -> Nat] /\ sensor \in Nat /\ scratch \in Picture
  /\ \A i \in 1 .. Len(outgoing) : image[outgoing[i]] # 0
  /\ held # 0 => image[held] # 0
  /\ pc["capture"] = "chroma" => scratch.y = image[held]
  /\ pc["capture"] \in {"requeue", "push"} => scratch \in WholePicture

\* The pictures from the queue to the packet.
PicturesEncoded ==
  /\ queue \in Seq(WholePicture)
  /\ frame \in Picture
  /\ pc["encode"] \in {"copy", "submit", "fetch", "record", "send"} => frame \in WholePicture
  /\ input \in Picture /\ seen \in Picture
  /\ channel \in Seq(WholePicture) /\ stream \in Seq(Packet)
  /\ packet \in Packet \cup {Encoder!NoPacket}

\* The hardware holds a frame for each GetStream that failed, and the one in hand.
Inside ==
  /\ timeouts \in Nat
  /\ Len(channel) <= ChannelDepth /\ Len(stream) <= StreamCount
  /\ reading => channel # << >> /\ Len(stream) < StreamCount
  /\ pc["main"] \in BeforeRelease =>
       Encoder!Inside = timeouts + (IF At("encode", "fetch") THEN 1 ELSE 0)

\* As long as none failed, that one is the frame in hand.
InTime ==
  timeouts = 0 =>
    /\ pc["encode"] \in {"submit", "fetch"} => input = frame
    /\ At("encode", "fetch") =>
         /\ Len(channel) = 1 => channel[1] = frame
         /\ reading => seen = frame
         /\ Len(stream) = 1 => stream[1] = [of |-> frame, shows |-> <<frame>>]
    /\ packet # Encoder!NoPacket => packet.of = frame /\ packet.shows = <<frame>>

\* What a thread between its test of g_running and the end of its round may still count.
CaptureCounts == {"grab", "chroma", "requeue", "push", "record"}
EncodeCounts == {"pop", "copy", "submit", "fetch", "record"}

Pending(c) ==
  IF \/ c = "captured_frames" /\ pc["capture"] \in CaptureCounts
     \/ c = "encoded_frames" /\ pc["encode"] \in EncodeCounts
  THEN 1 ELSE 0

\* A counter is counted up at most once after the last sample loaded it.
Counted ==
  /\ total \in [Counters -> Nat] /\ last \in [Counters -> Nat] /\ reported = last
  /\ running \in BOOLEAN /\ sampling \in BOOLEAN
  /\ sampling <=> pc["metrics"] \in {"sample", "lastSample"}
  /\ DOMAIN loaded \subseteq Counters /\ loaded \in [DOMAIN loaded -> Nat]
  /\ ~sampling => DOMAIN loaded = {}
  /\ pc["metrics"] \in {"lastSample", "done"} => ~running
  /\ pc["metrics"] = "lastSample" =>
       \A c \in DOMAIN loaded : total[c] - loaded[c] \in 0 .. 1 - Pending(c)
  /\ pc["metrics"] = "done" => \A c \in Counters : total[c] - last[c] \in 0 .. 1 - Pending(c)

-----------------------------------------------------------------------------
(* Where the threads are.                                                  *)

LEMMA InitControl == Init => Control
BY DEF Init, Control, Threads, MainLabels, CaptureLabels, EncodeLabels, MetricsLabels,
  Unstarted, Joining, Ending

LEMMA NextControl == Control /\ [Next]_vars => Control'
<1> SUFFICES ASSUME Control, [Next]_vars PROVE Control'
  OBVIOUS
<1> USE DEF Control, Threads, MainLabels, CaptureLabels, EncodeLabels, MetricsLabels,
      Unstarted, Joining, Ending, At, Goto
<1>1. CASE MainIsp
  BY <1>1 DEF MainIsp
<1>2. CASE MainCamera
  BY <1>2 DEF MainCamera
<1>3. CASE MainEncoder
  BY <1>3 DEF MainEncoder
<1>4. CASE MainFails
  BY <1>4 DEF MainFails
<1>5. CASE MainStartsThreads
  BY <1>5 DEF MainStartsThreads
<1>6. CASE MainStopsQueue
  BY <1>6 DEF MainStopsQueue
<1>7. CASE MainJoins
  BY <1>7 DEF MainJoins
<1>8. CASE MainReleases
  BY <1>8 DEF MainReleases
<1>9. CASE CaptureThread
  BY <1>9 DEF CaptureThread, CaptureCheck, CaptureGrab, CapturePush, CaptureRecord
<1>10. CASE EncodeConnect \/ EncodeCheck \/ EncodePop
  BY <1>10 DEF EncodeConnect, EncodeCheck, EncodePop
<1>11. CASE Encode \/ EncodeRecord \/ EncodeSend
  BY <1>11 DEF Encode, EncodeRecord, EncodeSend
<1>12. CASE MetricsThread
  BY <1>12 DEF MetricsThread, MetricsWakes, MetricsSamples
<1>13. CASE Hardware \/ HandleSignal \/ UNCHANGED vars
  BY <1>13 DEF Hardware, HandleSignal, vars
<1> QED
  BY <1>1, <1>2, <1>3, <1>4, <1>5, <1>6, <1>7, <1>8, <1>9, <1>10, <1>11, <1>12, <1>13
     DEF Next, MainThread, EncodeThread, Terminated

-----------------------------------------------------------------------------
(* What is open.                                                           *)

LEMMA InitOpen == Init => Open /\ Tuned
BY DEF Init, Open, Tuned, Joining, Camera!Init, Encoder!Init, Isp!Init

\* The steps of main that the devices see.
LEMMA NextOpen == Control /\ Open /\ [Next]_vars => Open'
<1> SUFFICES ASSUME Control, Open, [Next]_vars PROVE Open'
  OBVIOUS
<1> USE DEF Control, Threads, Unstarted, Joining, Ending, Open, At, Goto
<1>1. CASE MainIsp
  BY <1>1 DEF MainIsp, cameraVars, encoderVars
<1>2. CASE MainCamera
  BY <1>2 DEF MainCamera, encoderVars, Camera!Open, Camera!InitCamera, Camera!StartStream
<1>3. CASE MainEncoder
  BY <1>3 DEF MainEncoder, cameraVars, Encoder!InitEncoder, Encoder!hardwareVars
<1>4. CASE MainFails \/ MainStartsThreads \/ MainStopsQueue \/ MainJoins
  BY <1>4 DEF MainFails, MainStartsThreads, MainStopsQueue, MainJoins, cameraVars, encoderVars
<1>5. CASE MainReleases
  <2>1. CASE At("main", "freeChannel") /\ Encoder!DestroyChannel /\ Goto("main", "freeInput")
             /\ UNCHANGED cameraVars
    BY <2>1 DEF cameraVars, Encoder!DestroyChannel
  <2>2. CASE At("main", "freeInput") /\ Encoder!FreeInput /\ Goto("main", "closeCamera")
             /\ UNCHANGED cameraVars
    BY <2>2 DEF cameraVars, Encoder!FreeInput, Encoder!hardwareVars
  <2>3. CASE At("main", "closeCamera") /\ Camera!Close /\ Goto("main", "stopIsp")
             /\ UNCHANGED encoderVars
    BY <2>3 DEF encoderVars, Camera!Close
  <2>4. CASE At("main", "stopIsp") /\ Goto("main", "exited") /\ UNCHANGED <<cameraVars, encoderVars>>
    BY <2>4 DEF cameraVars, encoderVars
  <2> QED
    BY <1>5, <2>1, <2>2, <2>3, <2>4 DEF MainReleases
<1>6. CASE CaptureThread
  BY <1>6 DEF CaptureThread, CaptureCheck, CaptureGrab, CapturePush, CaptureRecord, cameraVars,
    encoderVars, Camera!CaptureFails, Camera!Dequeue, Camera!CopyChroma, Camera!Requeue,
    Camera!RequeueFails, Camera!deviceVars
<1>7. CASE EncodeConnect \/ EncodeCheck \/ EncodeRecord \/ EncodeSend
  BY <1>7 DEF EncodeConnect, EncodeCheck, EncodeRecord, EncodeSend, cameraVars, encoderVars
<1>8. CASE EncodePop
  BY <1>8 DEF EncodePop, cameraVars, encoderVars, Encoder!Clear, Encoder!resourceVars,
    Encoder!hardwareVars
<1>9. CASE Encode
  <2>1. channel_created /\ pc'["main"] = pc["main"] /\ UNCHANGED device
    BY <1>9 DEF Encode, cameraVars, MainLabels
  <2>2. UNCHANGED <<channel_created, allocated, sys_initialized, reading>>
    BY <1>9 DEF Encode, encoderVars, Encoder!CopyRows, Encoder!SendFrame, Encoder!SendFrameFails,
      Encoder!GetStream, Encoder!GetStreamEmpty, Encoder!GetStreamFails, Encoder!resourceVars,
      Encoder!hardwareVars, Encoder!encoderVars
  <2> QED
    BY <2>1, <2>2
<1>10. CASE MetricsThread \/ HandleSignal \/ UNCHANGED vars
  BY <1>10 DEF MetricsThread, MetricsWakes, MetricsSamples, HandleSignal, vars, cameraVars, encoderVars
<1>11. CASE Hardware
  <2>1. CASE Camera!SensorFrame /\ UNCHANGED encoderVars
    BY <1>11, <2>1 DEF Hardware, encoderVars, Camera!SensorFrame
  <2>2. CASE (Encoder!HardwareBegins \/ Encoder!HardwareEnds) /\ UNCHANGED cameraVars
    <3>1. channel_created
      BY <2>2 DEF Encoder!HardwareBegins, Encoder!HardwareEnds
    <3>2. /\ UNCHANGED <<channel_created, allocated, sys_initialized, device, pc>>
          /\ reading' \in BOOLEAN
      BY <1>11, <2>2 DEF Hardware, cameraVars, Encoder!HardwareBegins, Encoder!HardwareEnds,
        Encoder!resourceVars
    <3> QED
      BY <3>1, <3>2
  <2> QED
    BY <1>11, <2>1, <2>2 DEF Hardware
<1> QED
  BY <1>1, <1>2, <1>3, <1>4, <1>5, <1>6, <1>7, <1>8, <1>9, <1>10, <1>11
     DEF Next, MainThread, EncodeThread, Terminated

LEMMA NextTuned == Control /\ Tuned /\ [Next]_vars => Tuned'
<1> SUFFICES ASSUME Control, Tuned, [Next]_vars PROVE Tuned'
  OBVIOUS
<1> USE DEF Control, Threads, Tuned, At, Goto
<1>1. CASE MainIsp
  <2>1. CASE At("main", "isp") /\ Isp!StartFails /\ Goto("main", "camera")
    BY <2>1 DEF Isp!StartFails, Isp!ispVars
  <2>2. CASE At("main", "isp") /\ Isp!CreateContext /\ Goto("main", "prepare")
    BY <2>2 DEF Isp!CreateContext
  <2>3. CASE At("main", "prepare") /\ Isp!StartContext /\ Goto("main", "camera")
    BY <2>3 DEF Isp!StartContext
  <2>4. CASE At("main", "prepare") /\ Isp!Stop /\ Goto("main", "camera")
    BY <2>4 DEF Isp!Stop
  <2> QED
    BY <1>1, <2>1, <2>2, <2>3, <2>4 DEF MainIsp
<1>2. CASE MainReleases
  <2>1. CASE At("main", "stopIsp") /\ Isp!Stop /\ Goto("main", "exited")
    BY <2>1 DEF Isp!Stop
  <2>2. CASE UNCHANGED ispVars /\ pc'["main"] \in {"freeInput", "closeCamera", "stopIsp"}
    BY <2>2 DEF ispVars
  <2> QED
    BY <1>2, <2>1, <2>2 DEF MainReleases
<1>3. CASE \/ MainCamera \/ MainEncoder \/ MainFails \/ MainStartsThreads \/ MainStopsQueue
           \/ MainJoins
  BY <1>3 DEF MainCamera, MainEncoder, MainFails, MainStartsThreads, MainStopsQueue, MainJoins, ispVars
<1>4. CASE CaptureThread \/ EncodeThread \/ MetricsThread \/ Hardware \/ HandleSignal \/ UNCHANGED vars
  <2>1. UNCHANGED ispVars
    BY <1>4 DEF CaptureThread, CaptureCheck, CaptureGrab, CapturePush, CaptureRecord,
      EncodeThread, EncodeConnect, EncodeCheck, EncodePop, Encode, EncodeRecord, EncodeSend,
      MetricsThread, MetricsWakes, MetricsSamples, Hardware, HandleSignal, vars
  <2>2. pc'["main"] = pc["main"]
    BY <1>4 DEF CaptureThread, CaptureCheck, CaptureGrab, CapturePush, CaptureRecord,
      EncodeThread, EncodeConnect, EncodeCheck, EncodePop, Encode, EncodeRecord, EncodeSend,
      MetricsThread, MetricsWakes, MetricsSamples, Hardware, HandleSignal, vars
  <2> QED
    BY <2>1, <2>2 DEF ispVars
<1> QED
  BY <1>1, <1>2, <1>3, <1>4 DEF Next, MainThread, Terminated

\* Nothing is used after it was released, whichever of the threads and the hardware
\* is in the middle of what when the process winds down.
THEOREM NothingUsedAfterRelease == Spec => []ReleasedInOrder
<1>1. Control /\ Open /\ Tuned => ReleasedInOrder
  BY DEF Control, Open, Tuned, ReleasedInOrder, Unstarted, Joining, Ending, At, MainLabels
<1> QED
  BY <1>1, InitControl, NextControl, InitOpen, NextOpen, NextTuned, PTL DEF Spec

-----------------------------------------------------------------------------
(* Where the buffers are.                                                  *)

LEMMA HeadAndTail ==
  ASSUME NEW S, NEW s \in Seq(S), s # << >>
  PROVE  /\ Head(s) \in S /\ Tail(s) \in Seq(S) /\ Len(Tail(s)) = Len(s) - 1
         /\ Ran(s) = {Head(s)} \cup Ran(Tail(s))
         /\ Distinct(s) => Distinct(Tail(s)) /\ Head(s) \notin Ran(Tail(s))
<1>1. /\ Head(s) = s[1] /\ Head(s) \in S /\ Tail(s) \in Seq(S) /\ Len(Tail(s)) = Len(s) - 1
      /\ \A i \in 1 .. Len(Tail(s)) : Tail(s)[i] = s[i + 1]
      /\ Len(s) \in Nat \ {0}
  OBVIOUS
<1>2. Ran(s) \subseteq {Head(s)} \cup Ran(Tail(s))
  <2> SUFFICES ASSUME NEW i \in 1 .. Len(s) PROVE s[i] \in {Head(s)} \cup Ran(Tail(s))
    BY DEF Ran
  <2>1. CASE i = 1
    BY <1>1, <2>1
  <2>2. CASE i # 1
    <3>1. i - 1 \in 1 .. Len(Tail(s)) /\ Tail(s)[i - 1] = s[i]
      BY <1>1, <2>2
    <3> QED
      BY <3>1 DEF Ran
  <2> QED
    BY <2>1, <2>2
<1>3. {Head(s)} \cup Ran(Tail(s)) \subseteq Ran(s)
  <2>1. Head(s) \in Ran(s)
    BY <1>1 DEF Ran
  <2>2. \A i \in 1 .. Len(Tail(s)) : i + 1 \in 1 .. Len(s) /\ Tail(s)[i] = s[i + 1]
    BY <1>1
  <2> QED
    BY <2>1, <2>2 DEF Ran
<1>4. ASSUME Distinct(s) PROVE Distinct(Tail(s)) /\ Head(s) \notin Ran(Tail(s))
  BY <1>1, <1>4 DEF Distinct, Ran
<1> QED
  BY <1>1, <1>2, <1>3, <1>4

LEMMA Appended ==
  ASSUME NEW S, NEW s \in Seq(S), NEW x \in S
  PROVE  /\ Append(s, x) \in Seq(S) /\ Len(Append(s, x)) = Len(s) + 1
         /\ Ran(Append(s, x)) = Ran(s) \cup {x}
         /\ Distinct(s) /\ x \notin Ran(s) => Distinct(Append(s, x))
<1>1. /\ Append(s, x) \in Seq(S) /\ Len(Append(s, x)) = Len(s) + 1 /\ Len(s) \in Nat
      /\ \A i \in 1 .. Len(s) : Append(s, x)[i] = s[i]
      /\ Append(s, x)[Len(s) + 1] = x
  OBVIOUS
<1>2. Ran(Append(s, x)) = Ran(s) \cup {x}
  <2>1. 1 .. Len(s) + 1 = (1 .. Len(s)) \cup {Len(s) + 1}
    BY <1>1
  <2> QED
    BY <1>1, <2>1 DEF Ran
<1>3. ASSUME Distinct(s), x \notin Ran(s) PROVE Distinct(Append(s, x))
  BY <1>1, <1>3 DEF Distinct, Ran
<1> QED
  BY <1>1, <1>2, <1>3

Unmapped == {"isp", "prepare", "camera", "buffers"}

\* A step that leaves the buffers alone.
CameraQuiet ==
  /\ UNCHANGED <<incoming, outgoing, image, sensor, held, scratch, lost>>
  /\ device' \in {"mapped", "streaming"} => device \in {"mapped", "streaming"}
  /\ \/ pc'["capture"] = pc["capture"]
     \/ /\ pc["capture"] \notin {"chroma", "requeue"}
        /\ pc'["capture"] \notin {"chroma", "requeue", "push"}
  /\ pc'["main"] \in Unmapped => pc["main"] \in Unmapped

\* What a step does to the buffers.
CameraStep ==
  \/ pc["main"] = "buffers" /\ Camera!InitCamera /\ Goto("main", "stream")
  \/ Camera!SensorFrame /\ UNCHANGED pc
  \/ At("capture", "grab") /\ Camera!Dequeue /\ Goto("capture", "chroma")
  \/ At("capture", "chroma") /\ Camera!CopyChroma /\ Goto("capture", "requeue")
  \/ At("capture", "requeue") /\ Camera!Requeue /\ Goto("capture", "push")
  \/ At("capture", "requeue") /\ Camera!RequeueFails /\ Goto("capture", "check")
  \/ pc["main"] = "closeCamera" /\ Camera!Close /\ Goto("main", "stopIsp")
  \/ CameraQuiet

LEMMA CameraSteps == Control /\ Open /\ [Next]_vars => CameraStep
<1> SUFFICES ASSUME Control, Open, [Next]_vars, ~CameraStep PROVE FALSE
  OBVIOUS
<1> USE DEF Control, Threads, Unstarted, Joining, Ending, Unmapped, At, Goto, cameraVars
<1>1. CASE MainIsp
  BY <1>1 DEF MainIsp, CameraStep, CameraQuiet
<1>2. CASE MainCamera
  BY <1>2 DEF MainCamera, CameraStep, CameraQuiet, Camera!Open, Camera!StartStream
<1>3. CASE MainEncoder \/ MainFails \/ MainStartsThreads \/ MainStopsQueue \/ MainJoins
  BY <1>3 DEF MainEncoder, MainFails, MainStartsThreads, MainStopsQueue, MainJoins,
    CameraStep, CameraQuiet
<1>4. CASE MainReleases
  BY <1>4 DEF MainReleases, CameraStep, CameraQuiet
<1>5. CASE CaptureThread
  BY <1>5 DEF CaptureThread, CaptureCheck, CaptureGrab, CapturePush, CaptureRecord,
    CameraStep, CameraQuiet, Camera!CaptureFails, Camera!deviceVars
<1>6. CASE EncodeThread
  BY <1>6 DEF EncodeThread, EncodeConnect, EncodeCheck, EncodePop, Encode, EncodeRecord, EncodeSend,
    CameraStep, CameraQuiet
<1>7. CASE MetricsThread \/ HandleSignal \/ UNCHANGED vars
  BY <1>7 DEF MetricsThread, MetricsWakes, MetricsSamples, HandleSignal, vars, CameraStep, CameraQuiet
<1>8. CASE Hardware
  BY <1>8 DEF Hardware, CameraStep, CameraQuiet
<1> QED
  BY <1>1, <1>2, <1>3, <1>4, <1>5, <1>6, <1>7, <1>8 DEF Next, MainThread, Terminated

LEMMA BuffersAre == /\ BufferCount \in Nat \ {0} /\ ChannelDepth \in Nat \ {0}
                    /\ StreamCount \in Nat \ {0} /\ QueueCapacity \in Nat \ {0}
                    /\ 0 \notin Camera!Buffers
                    /\ IsFiniteSet(Camera!Buffers)
<1>1. BufferCount \in Nat \ {0}
  BY BuffersAssumption
<1>2. IsFiniteSet(Camera!Buffers)
  BY <1>1, FS_Interval, 1 \in Int, BufferCount \in Int DEF Camera!Buffers
<1> QED
  BY <1>1, <1>2, BuffersAssumption DEF Camera!Buffers

LEMMA InitBuffers == Init => BufferTypes /\ OnePlaceEach /\ AllPlaced
BY BuffersAre, FS_EmptySet
   DEF Init, Camera!Init, BufferTypes, OnePlaceEach, AllPlaced, Distinct, Ran

\* The buffers after InitCamera: all with the driver.
LEMMA AllQueued ==
  ASSUME Camera!InitCamera
  PROVE  /\ incoming' \in Seq(Camera!Buffers) /\ Len(incoming') = BufferCount
         /\ Ran(incoming') = Camera!Buffers /\ Distinct(incoming')
<1>1. incoming' = [b \in 1 .. BufferCount |-> b] /\ BufferCount \in Nat
  BY BuffersAre DEF Camera!InitCamera, Camera!Buffers
<1>2. incoming' \in Seq(1 .. BufferCount) /\ Len(incoming') = BufferCount
  BY <1>1
<1> QED
  BY <1>1, <1>2 DEF Ran, Distinct, Camera!Buffers

\* Where no buffer moves.
LEMMA QuietBuffers ==
  BufferTypes /\ OnePlaceEach /\ AllPlaced /\ CameraQuiet
    => BufferTypes' /\ OnePlaceEach' /\ AllPlaced'
<1> SUFFICES ASSUME BufferTypes, OnePlaceEach, AllPlaced, CameraQuiet
             PROVE  BufferTypes' /\ OnePlaceEach' /\ AllPlaced'
  OBVIOUS
<1>1. BufferTypes'
  BY DEF BufferTypes, CameraQuiet, Unmapped
<1>2. OnePlaceEach'
  BY DEF OnePlaceEach, CameraQuiet, Distinct, Ran
<1>3. AllPlaced'
  BY DEF AllPlaced, CameraQuiet, Ran
<1> QED
  BY <1>1, <1>2, <1>3

LEMMA NextBuffers ==
  Control /\ Open /\ BufferTypes /\ OnePlaceEach /\ AllPlaced /\ [Next]_vars
    => BufferTypes' /\ OnePlaceEach' /\ AllPlaced'
<1> SUFFICES ASSUME Control, Open, BufferTypes, OnePlaceEach, AllPlaced, CameraStep
             PROVE  BufferTypes' /\ OnePlaceEach' /\ AllPlaced'
  BY CameraSteps
<1> USE BuffersAre DEF Control, Threads, Goto, At
<1>0. Len(incoming) \in Nat /\ Len(outgoing) \in Nat /\ IsFiniteSet(lost) /\ Cardinality(lost) \in Nat
  BY FS_Subset, FS_CardinalityType DEF BufferTypes
<1>1. CASE pc["main"] = "buffers" /\ Camera!InitCamera /\ Goto("main", "stream")
  <2>1. /\ outgoing = << >> /\ held = 0 /\ lost = {}
        /\ UNCHANGED <<outgoing, held, lost>> /\ pc'["main"] = "stream"
        /\ pc'["capture"] = pc["capture"]
    BY <1>1 DEF BufferTypes, Camera!InitCamera, Unstarted
  <2>2. BufferTypes'
    BY <1>1, <2>1, AllQueued DEF BufferTypes
  <2>3. OnePlaceEach'
    BY <1>1, <2>1, AllQueued DEF OnePlaceEach, Distinct, Ran
  <2>4. AllPlaced'
    BY <1>1, <2>1, AllQueued, FS_EmptySet DEF AllPlaced, Ran
  <2> QED
    BY <2>2, <2>3, <2>4
<1>2. CASE Camera!SensorFrame /\ UNCHANGED pc
  <2>1. CASE incoming = << >>
    <3>1. UNCHANGED <<incoming, outgoing, held, lost, device, pc>>
      BY <1>2, <2>1 DEF Camera!SensorFrame
    <3>2. BufferTypes'
      BY <3>1 DEF BufferTypes
    <3>3. OnePlaceEach' /\ AllPlaced'
      BY <3>1 DEF OnePlaceEach, AllPlaced
    <3> QED
      BY <3>2, <3>3
  <2>2. CASE incoming # << >>
    <3> DEFINE b == Head(incoming)
    <3>1. /\ incoming' = Tail(incoming) /\ outgoing' = Append(outgoing, b)
          /\ UNCHANGED <<held, lost, device, pc>>
      BY <1>2, <2>2 DEF Camera!SensorFrame
    <3>2. /\ b \in Camera!Buffers /\ Tail(incoming) \in Seq(Camera!Buffers)
          /\ Len(incoming') = Len(incoming) - 1
          /\ Ran(incoming) = {b} \cup Ran(incoming')
          /\ Distinct(incoming') /\ b \notin Ran(incoming')
      BY <3>1, <2>2, HeadAndTail DEF BufferTypes, OnePlaceEach
    <3>3. /\ outgoing' \in Seq(Camera!Buffers) /\ Len(outgoing') = Len(outgoing) + 1
          /\ Ran(outgoing') = Ran(outgoing) \cup {b} /\ Distinct(outgoing')
      BY <3>1, <3>2, Appended DEF BufferTypes, OnePlaceEach
    <3>4. BufferTypes'
      <4>1. pc["main"] \notin Unmapped
        BY <1>2 DEF Open, Camera!SensorFrame, Unmapped
      <4> QED
        BY <3>1, <3>2, <3>3, <4>1 DEF BufferTypes, Unmapped
    <3>5. OnePlaceEach'
      BY <3>1, <3>2, <3>3 DEF OnePlaceEach
    <3>6. AllPlaced'
      BY <1>0, <3>1, <3>2, <3>3 DEF AllPlaced
    <3> QED
      BY <3>4, <3>5, <3>6
  <2> QED
    BY <2>1, <2>2
<1>3. CASE At("capture", "grab") /\ Camera!Dequeue /\ Goto("capture", "chroma")
  <2> DEFINE b == Head(outgoing)
  <2>1. /\ outgoing # << >> /\ held = 0 /\ outgoing' = Tail(outgoing) /\ held' = b
        /\ UNCHANGED <<incoming, lost, device>>
        /\ pc' = [pc EXCEPT !["capture"] = "chroma"]
    BY <1>3 DEF Camera!Dequeue
  <2>2. /\ b \in Camera!Buffers /\ outgoing' \in Seq(Camera!Buffers)
        /\ Len(outgoing') = Len(outgoing) - 1
        /\ Ran(outgoing) = {b} \cup Ran(outgoing')
        /\ Distinct(outgoing') /\ b \notin Ran(outgoing')
    BY <2>1, HeadAndTail DEF BufferTypes, OnePlaceEach
  <2>3. BufferTypes'
    BY <2>1, <2>2 DEF BufferTypes
  <2>4. OnePlaceEach'
    BY <2>1, <2>2 DEF OnePlaceEach
  <2>5. AllPlaced'
    <3>1. held' # 0 /\ held' \notin Ran(outgoing') /\ Ran(outgoing) = {held'} \cup Ran(outgoing')
      BY <2>1, <2>2
    <3>2. Len(outgoing) = Len(outgoing') + 1 /\ Len(outgoing') \in Nat
      BY <2>2
    <3> QED
      BY <1>0, <2>1, <3>1, <3>2 DEF AllPlaced
  <2> QED
    BY <2>3, <2>4, <2>5
<1>4. CASE At("capture", "chroma") /\ Camera!CopyChroma /\ Goto("capture", "requeue")
  <2>1. UNCHANGED <<incoming, outgoing, held, lost, device>>
    BY <1>4 DEF Camera!CopyChroma
  <2>2. BufferTypes'
    BY <1>4, <2>1 DEF BufferTypes
  <2>3. OnePlaceEach' /\ AllPlaced'
    BY <2>1 DEF OnePlaceEach, AllPlaced
  <2> QED
    BY <2>2, <2>3
<1>5. CASE At("capture", "requeue") /\ Camera!Requeue /\ Goto("capture", "push")
  <2>1. /\ held # 0 /\ incoming' = Append(incoming, held) /\ held' = 0
        /\ UNCHANGED <<outgoing, lost, device>>
        /\ pc' = [pc EXCEPT !["capture"] = "push"] /\ pc["main"] \notin Unmapped
    BY <1>5 DEF Camera!Requeue, Unmapped, Unstarted
  <2>2. /\ held \in Camera!Buffers /\ incoming' \in Seq(Camera!Buffers)
        /\ Len(incoming') = Len(incoming) + 1
        /\ Ran(incoming') = Ran(incoming) \cup {held} /\ Distinct(incoming')
    BY <2>1, Appended DEF BufferTypes, OnePlaceEach
  <2>3. BufferTypes'
    BY <2>1, <2>2 DEF BufferTypes, Unmapped
  <2>4. 0 \notin Ran(incoming') \cup Ran(outgoing') \cup lost'
    BY <2>1, <2>2, <2>3 DEF BufferTypes, Ran
  <2>5. OnePlaceEach'
    BY <2>1, <2>2, <2>4 DEF OnePlaceEach
  <2>6. AllPlaced'
    BY <1>0, <2>1, <2>2 DEF AllPlaced
  <2> QED
    BY <2>3, <2>5, <2>6
<1>6. CASE At("capture", "requeue") /\ Camera!RequeueFails /\ Goto("capture", "check")
  <2>1. /\ held # 0 /\ lost' = lost \cup {held} /\ held' = 0
        /\ UNCHANGED <<incoming, outgoing, device>>
        /\ pc' = [pc EXCEPT !["capture"] = "check"] /\ pc["main"] \notin Unmapped
    BY <1>6 DEF Camera!RequeueFails, Unmapped, Unstarted
  <2>2. BufferTypes'
    BY <2>1 DEF BufferTypes, Unmapped
  <2>3. Cardinality(lost') = Cardinality(lost) + 1
    BY <1>0, <2>1, FS_AddElement DEF OnePlaceEach
  <2>4. 0 \notin Ran(incoming') \cup Ran(outgoing') \cup lost'
    BY <2>1, <2>2 DEF BufferTypes, Ran
  <2>5. OnePlaceEach'
    BY <2>1, <2>4 DEF OnePlaceEach
  <2>6. AllPlaced'
    BY <1>0, <2>1, <2>3 DEF AllPlaced
  <2> QED
    BY <2>2, <2>5, <2>6
<1>7. CASE pc["main"] = "closeCamera" /\ Camera!Close /\ Goto("main", "stopIsp")
  <2>1. /\ incoming' = << >> /\ outgoing' = << >> /\ held' = 0 /\ device' = "closed"
        /\ UNCHANGED lost /\ pc' = [pc EXCEPT !["main"] = "stopIsp"]
    BY <1>7 DEF Camera!Close
  <2>2. pc["capture"] = "done"
    BY <1>7 DEF Ending
  <2> QED
    BY <2>1, <2>2 DEF BufferTypes, OnePlaceEach, AllPlaced, Distinct, Ran
<1> QED
  BY <1>1, <1>2, <1>3, <1>4, <1>5, <1>6, <1>7, QuietBuffers DEF CameraStep

LEMMA Concatenated ==
  ASSUME NEW S, NEW s \in Seq(S), NEW t \in Seq(S)
  PROVE  s \o t \in Seq(S) /\ Len(s \o t) = Len(s) + Len(t) /\ Ran(s \o t) = Ran(s) \cup Ran(t)
<1>1. /\ s \o t \in Seq(S) /\ Len(s \o t) = Len(s) + Len(t) /\ Len(s) \in Nat /\ Len(t) \in Nat
      /\ \A i \in 1 .. Len(s) : (s \o t)[i] = s[i]
      /\ \A i \in 1 .. Len(t) : (s \o t)[Len(s) + i] = t[i]
  OBVIOUS
<1>2. Ran(s \o t) \subseteq Ran(s) \cup Ran(t)
  <2> SUFFICES ASSUME NEW i \in 1 .. Len(s \o t) PROVE (s \o t)[i] \in Ran(s) \cup Ran(t)
    BY DEF Ran
  <2>1. CASE i \in 1 .. Len(s)
    BY <1>1, <2>1 DEF Ran
  <2>2. CASE i \notin 1 .. Len(s)
    <3>1. i - Len(s) \in 1 .. Len(t) /\ (s \o t)[i] = t[i - Len(s)]
      BY <1>1, <2>2
    <3> QED
      BY <3>1 DEF Ran
  <2> QED
    BY <2>1, <2>2
<1>3. Ran(s) \cup Ran(t) \subseteq Ran(s \o t)
  <2>1. \A i \in 1 .. Len(s) : i \in 1 .. Len(s \o t)
    BY <1>1
  <2>2. \A i \in 1 .. Len(t) : Len(s) + i \in 1 .. Len(s \o t)
    BY <1>1
  <2> QED
    BY <1>1, <2>1, <2>2 DEF Ran
<1> QED
  BY <1>1, <1>2, <1>3

\* Whatever captureFrame runs into, each of the camera's buffers stays in one place,
\* and only those whose VIDIOC_QBUF failed are out of use.
THEOREM BuffersAreConserved == Spec => []BuffersConserved
<1>1. BufferTypes /\ OnePlaceEach /\ AllPlaced => BuffersConserved
  <2> SUFFICES ASSUME BufferTypes, OnePlaceEach, AllPlaced, device \in {"mapped", "streaming"}
               PROVE  BuffersConserved
    BY DEF BuffersConserved
  <2> DEFINE hand == IF held = 0 THEN << >> ELSE <<held>>
             places == incoming \o outgoing \o hand
  <2>0. hand \in Seq(Camera!Buffers) /\ Len(hand) = (IF held = 0 THEN 0 ELSE 1)
        /\ Ran(hand) \cup {0} = {held} \cup {0}
    <3>1. CASE held = 0
      BY <3>1 DEF Ran
    <3>2. CASE held # 0
      <4>1. hand = <<held>> /\ held \in Camera!Buffers
        BY <3>2 DEF BufferTypes
      <4>2. <<held>> \in Seq(Camera!Buffers) /\ Len(<<held>>) = 1 /\ <<held>>[1] = held
        BY <4>1
      <4>3. Ran(<<held>>) = {held}
        BY <4>2 DEF Ran
      <4> QED
        BY <3>2, <4>1, <4>2, <4>3
    <3> QED
      BY <3>1, <3>2
  <2> HIDE DEF hand
  <2>1. /\ (incoming \o outgoing) \in Seq(Camera!Buffers)
        /\ Len(incoming \o outgoing) = Len(incoming) + Len(outgoing)
        /\ Ran(incoming \o outgoing) = Ran(incoming) \cup Ran(outgoing)
    BY Concatenated DEF BufferTypes
  <2>2. /\ places \in Seq(Camera!Buffers)
        /\ Len(places) = Len(incoming) + Len(outgoing) + Len(hand)
        /\ Ran(places) = Ran(incoming) \cup Ran(outgoing) \cup Ran(hand)
    <3> DEFINE both == incoming \o outgoing
    <3>1. both \in Seq(Camera!Buffers) /\ hand \in Seq(Camera!Buffers)
      BY <2>0, <2>1
    <3> HIDE DEF both
    <3>2. /\ both \o hand \in Seq(Camera!Buffers)
          /\ Len(both \o hand) = Len(both) + Len(hand)
          /\ Ran(both \o hand) = Ran(both) \cup Ran(hand)
      BY <3>1, Concatenated
    <3> QED
      BY <2>1, <3>2 DEF both
  <2>3. Len(places) + Cardinality(lost) = BufferCount
    BY <2>0, <2>2 DEF AllPlaced
  <2>4. {places[i] : i \in DOMAIN places} = Ran(places)
    BY <2>2, SMTT(30) DEF Ran
  <2>5. Ran(places) \cup lost = Camera!Buffers
    <3>1. Ran(places) \cup lost \cup {0} = Camera!Buffers \cup {0}
      BY <2>0, <2>2 DEF AllPlaced
    <3>2. Ran(places) \subseteq Camera!Buffers /\ lost \subseteq Camera!Buffers
      BY <2>2 DEF Ran, BufferTypes
    <3> QED
      BY <3>1, <3>2, BuffersAre
  <2> QED
    BY <2>3, <2>4, <2>5 DEF BuffersConserved, hand
<1> QED
  BY <1>1, InitControl, NextControl, InitOpen, NextOpen, InitBuffers, NextBuffers, PTL DEF Spec

-----------------------------------------------------------------------------
(* What the pictures show.                                                 *)

LEMMA InitPictures == Init => PicturesCaptured /\ PicturesEncoded
<1> SUFFICES ASSUME Init PROVE PicturesCaptured /\ PicturesEncoded
  OBVIOUS
<1>1. Camera!Blank \in Picture /\ Encoder!Cleared \in Picture
  BY DEF Picture, Camera!Blank, Encoder!Cleared
<1>2. PicturesCaptured
  BY <1>1 DEF Init, Camera!Init, PicturesCaptured
<1>3. PicturesEncoded
  BY <1>1 DEF Init, Encoder!Init, PicturesEncoded
<1> QED
  BY <1>2, <1>3

LEMMA NextPicturesCaptured ==
  Control /\ Open /\ BufferTypes /\ OnePlaceEach /\ PicturesCaptured /\ [Next]_vars
    => PicturesCaptured'
<1> SUFFICES ASSUME Control, Open, BufferTypes, OnePlaceEach, PicturesCaptured, CameraStep
             PROVE  PicturesCaptured'
  BY CameraSteps
<1> USE BuffersAre DEF Control, Threads, Goto, At
<1>1. CASE pc["main"] = "buffers" /\ Camera!InitCamera /\ Goto("main", "stream")
  BY <1>1 DEF Camera!InitCamera, PicturesCaptured
<1>2. CASE Camera!SensorFrame /\ UNCHANGED pc
  <2>1. CASE incoming = << >>
    BY <1>2, <2>1 DEF Camera!SensorFrame, PicturesCaptured
  <2>2. CASE incoming # << >>
    <3> DEFINE b == Head(incoming)
    <3>1. /\ outgoing' = Append(outgoing, b) /\ image' = [image EXCEPT ![b] = sensor + 1]
          /\ sensor' = sensor + 1 /\ UNCHANGED <<held, scratch, pc>>
      BY <1>2, <2>2 DEF Camera!SensorFrame
    <3>2. b \in Camera!Buffers /\ b \in Ran(incoming)
      BY <2>2, HeadAndTail DEF BufferTypes
    <3>3. image'[b] # 0 /\ \A a \in Camera!Buffers \ {b} : image'[a] = image[a]
      BY <3>1, <3>2 DEF PicturesCaptured
    <3>4. held # b
      BY <3>2 DEF OnePlaceEach
    <3>5. ASSUME NEW i \in 1 .. Len(outgoing') PROVE image'[outgoing'[i]] # 0
      <4>1. outgoing \in Seq(Camera!Buffers)
        BY DEF BufferTypes
      <4>2. CASE i = Len(outgoing) + 1
        BY <3>1, <3>3, <4>1, <4>2
      <4>3. CASE i # Len(outgoing) + 1
        <5>1. i \in 1 .. Len(outgoing) /\ outgoing'[i] = outgoing[i] /\ outgoing[i] \in Camera!Buffers
          BY <3>1, <4>1, <4>3
        <5> QED
          BY <3>3, <5>1 DEF PicturesCaptured
      <4> QED
        BY <4>2, <4>3
    <3>6. held # 0 => held \in Camera!Buffers /\ image'[held] = image[held]
      BY <3>3, <3>4 DEF BufferTypes
    <3>7. image' \in [Camera!Buffers -> Nat] /\ sensor' \in Nat
      BY <3>1, <3>2 DEF PicturesCaptured
    <3>8. pc["capture"] = "chroma" => held # 0
      BY DEF BufferTypes
    <3> QED
      BY <3>1, <3>5, <3>6, <3>7, <3>8 DEF PicturesCaptured
  <2> QED
    BY <2>1, <2>2
<1>3. CASE At("capture", "grab") /\ Camera!Dequeue /\ Goto("capture", "chroma")
  <2> DEFINE b == Head(outgoing)
  <2>1. /\ outgoing # << >> /\ outgoing' = Tail(outgoing) /\ held' = b
        /\ scratch' = [y |-> image[b], uv |-> 0]
        /\ UNCHANGED <<image, sensor>> /\ pc'["capture"] = "chroma"
    BY <1>3 DEF Camera!Dequeue
  <2>2. outgoing \in Seq(Camera!Buffers)
    BY DEF BufferTypes
  <2>3. /\ b = outgoing[1] /\ 1 \in 1 .. Len(outgoing) /\ b \in Camera!Buffers
        /\ \A i \in 1 .. Len(outgoing') :
             i + 1 \in 1 .. Len(outgoing) /\ outgoing'[i] = outgoing[i + 1]
    BY <2>1, <2>2
  <2>4. image[b] # 0 /\ image[b] \in Nat
    BY <2>3 DEF PicturesCaptured
  <2>5. scratch' \in Picture /\ scratch'.y = image[b]
    BY <2>1, <2>4 DEF Picture
  <2> QED
    BY <2>1, <2>3, <2>4, <2>5 DEF PicturesCaptured
<1>4. CASE At("capture", "chroma") /\ Camera!CopyChroma /\ Goto("capture", "requeue")
  <2>1. /\ scratch' = [scratch EXCEPT !.uv = image[held]] /\ held # 0
        /\ UNCHANGED <<outgoing, image, sensor, held>> /\ pc'["capture"] = "requeue"
    BY <1>4 DEF Camera!CopyChroma
  <2>2. image[held] \in Nat /\ image[held] # 0 /\ scratch.y = image[held]
    BY <1>4, <2>1 DEF PicturesCaptured, BufferTypes
  <2>3. scratch' \in WholePicture
    BY <2>1, <2>2 DEF PicturesCaptured, Picture, WholePicture
  <2> QED
    BY <2>1, <2>3 DEF PicturesCaptured, WholePicture
<1>5. CASE At("capture", "requeue") /\ Camera!Requeue /\ Goto("capture", "push")
  BY <1>5 DEF Camera!Requeue, PicturesCaptured
<1>6. CASE At("capture", "requeue") /\ Camera!RequeueFails /\ Goto("capture", "check")
  BY <1>6 DEF Camera!RequeueFails, PicturesCaptured
<1>7. CASE pc["main"] = "closeCamera" /\ Camera!Close /\ Goto("main", "stopIsp")
  <2>1. /\ outgoing' = << >> /\ held' = 0 /\ UNCHANGED <<image, sensor, scratch>>
        /\ pc'["capture"] = "done"
    BY <1>7 DEF Camera!Close, Ending
  <2> QED
    BY <2>1 DEF PicturesCaptured
<1>8. CASE CameraQuiet
  BY <1>8 DEF CameraQuiet, PicturesCaptured
<1> QED
  BY <1>1, <1>2, <1>3, <1>4, <1>5, <1>6, <1>7, <1>8 DEF CameraStep

\* A step that leaves the encoder alone.
EncodeQuiet ==
  /\ UNCHANGED <<input, channel, reading, seen, stream, packet, timeouts, frame>>
  /\ \/ UNCHANGED queue
     \/ /\ At("capture", "push")
        /\ queue' = Append(IF Len(queue) >= QueueCapacity THEN Tail(queue) ELSE queue, scratch)
  /\ \/ pc'["encode"] = pc["encode"]
     \/ pc["encode"] # "fetch" /\ pc'["encode"] \in {"connect", "check", "pop", "done"}
     \/ pc["encode"] = "record" /\ pc'["encode"] = "send"
  /\ pc'["main"] \in BeforeRelease => pc["main"] \in BeforeRelease

\* What a step does to the frame in hand and to the encoder.
EncodeStep ==
  \/ /\ At("encode", "pop") /\ queue # << >> /\ frame' = Head(queue) /\ queue' = Tail(queue)
     /\ Encoder!Clear /\ Goto("encode", "copy")
  \/ /\ At("encode", "copy") /\ Encoder!CopyRows(frame) /\ Goto("encode", "submit")
     /\ UNCHANGED <<queue, frame>>
  \/ /\ At("encode", "submit") /\ Encoder!SendFrame(frame) /\ Goto("encode", "fetch")
     /\ UNCHANGED <<queue, frame>>
  \/ /\ At("encode", "fetch") /\ Encoder!GetStream /\ Goto("encode", "record")
     /\ UNCHANGED <<queue, frame>>
  \/ /\ At("encode", "fetch") /\ (Encoder!GetStreamEmpty \/ Encoder!GetStreamFails)
     /\ Goto("encode", "check") /\ UNCHANGED <<queue, frame>>
  \/ (Encoder!HardwareBegins \/ Encoder!HardwareEnds) /\ UNCHANGED <<queue, frame, pc>>
  \/ /\ pc["main"] = "freeChannel" /\ Encoder!DestroyChannel /\ Goto("main", "freeInput")
     /\ UNCHANGED <<queue, frame>>
  \/ EncodeQuiet

LEMMA EncodeSteps == Control /\ [Next]_vars => EncodeStep
<1> SUFFICES ASSUME Control, [Next]_vars, ~EncodeStep PROVE FALSE
  OBVIOUS
<1> USE DEF Control, Threads, Unstarted, Joining, Ending, BeforeRelease, At, Goto, handOver,
      encoderVars
<1>1. CASE MainIsp \/ MainCamera \/ MainFails \/ MainStartsThreads \/ MainStopsQueue \/ MainJoins
  BY <1>1 DEF MainIsp, MainCamera, MainFails, MainStartsThreads, MainStopsQueue, MainJoins,
    EncodeStep, EncodeQuiet
<1>2. CASE MainEncoder
  BY <1>2 DEF MainEncoder, EncodeStep, EncodeQuiet, Encoder!InitEncoder, Encoder!hardwareVars
<1>3. CASE MainReleases
  BY <1>3 DEF MainReleases, EncodeStep, EncodeQuiet, Encoder!FreeInput, Encoder!hardwareVars
<1>4. CASE CaptureThread
  BY <1>4 DEF CaptureThread, CaptureCheck, CaptureGrab, CapturePush, CaptureRecord,
    EncodeStep, EncodeQuiet
<1>5. CASE EncodeConnect \/ EncodeCheck \/ EncodePop
  BY <1>5 DEF EncodeConnect, EncodeCheck, EncodePop, EncodeStep, EncodeQuiet
<1>6. CASE Encode
  BY <1>6 DEF Encode, EncodeStep, EncodeQuiet, Encoder!SendFrameFails, Encoder!encoderVars,
    Encoder!hardwareVars
<1>7. CASE EncodeRecord \/ EncodeSend
  BY <1>7 DEF EncodeRecord, EncodeSend, EncodeStep, EncodeQuiet
<1>8. CASE MetricsThread \/ HandleSignal \/ UNCHANGED vars
  BY <1>8 DEF MetricsThread, MetricsWakes, MetricsSamples, HandleSignal, vars, EncodeStep, EncodeQuiet
<1>9. CASE Hardware
  BY <1>9 DEF Hardware, EncodeStep, EncodeQuiet
<1> QED
  BY <1>1, <1>2, <1>3, <1>4, <1>5, <1>6, <1>7, <1>8, <1>9 DEF Next, MainThread, EncodeThread, Terminated

LEMMA NextPicturesEncoded ==
  Control /\ PicturesCaptured /\ PicturesEncoded /\ Inside /\ [Next]_vars => PicturesEncoded'
<1> SUFFICES ASSUME Control, PicturesCaptured, PicturesEncoded, Inside, EncodeStep
             PROVE  PicturesEncoded'
  BY EncodeSteps
<1> USE DEF Control, Threads, Goto, At, PicturesEncoded
<1>0. Encoder!Cleared \in Picture /\ WholePicture \subseteq Picture
  BY DEF Encoder!Cleared, Picture, WholePicture
<1>1. CASE At("encode", "pop") /\ queue # << >> /\ frame' = Head(queue) /\ queue' = Tail(queue)
           /\ Encoder!Clear /\ Goto("encode", "copy")
  <2>1. Head(queue) \in WholePicture /\ Tail(queue) \in Seq(WholePicture)
    BY <1>1
  <2> QED
    BY <1>0, <1>1, <2>1 DEF Encoder!Clear, Encoder!hardwareVars
<1>2. CASE At("encode", "copy") /\ Encoder!CopyRows(frame) /\ Goto("encode", "submit")
           /\ UNCHANGED <<queue, frame>>
  BY <1>2 DEF Encoder!CopyRows, Encoder!hardwareVars
<1>3. CASE At("encode", "submit") /\ Encoder!SendFrame(frame) /\ Goto("encode", "fetch")
           /\ UNCHANGED <<queue, frame>>
  BY <1>3 DEF Encoder!SendFrame
<1>4. CASE At("encode", "fetch") /\ Encoder!GetStream /\ Goto("encode", "record")
           /\ UNCHANGED <<queue, frame>>
  <2>1. stream # << >> /\ Head(stream) \in Packet /\ Tail(stream) \in Seq(Packet)
    BY <1>4 DEF Encoder!GetStream
  <2> QED
    BY <1>4, <2>1 DEF Encoder!GetStream
<1>5. CASE At("encode", "fetch") /\ (Encoder!GetStreamEmpty \/ Encoder!GetStreamFails)
           /\ Goto("encode", "check") /\ UNCHANGED <<queue, frame>>
  <2>1. stream' \in Seq(Packet)
    BY <1>5, SMTT(30) DEF Encoder!GetStreamEmpty, Encoder!GetStreamFails, Encoder!hardwareVars
  <2> QED
    BY <1>5, <2>1 DEF Encoder!GetStreamEmpty, Encoder!GetStreamFails, Encoder!hardwareVars
<1>6. CASE (Encoder!HardwareBegins \/ Encoder!HardwareEnds) /\ UNCHANGED <<queue, frame, pc>>
  <2>1. CASE Encoder!HardwareBegins
    BY <1>6, <2>1 DEF Encoder!HardwareBegins
  <2>2. CASE Encoder!HardwareEnds
    <3> DEFINE new == [of |-> Head(channel),
                       shows |-> IF seen = input THEN <<input>> ELSE <<seen, input>>]
    <3>1. channel # << >> /\ Head(channel) \in WholePicture /\ Tail(channel) \in Seq(WholePicture)
      BY <2>2 DEF Encoder!HardwareEnds, Inside
    <3>2. <<input>> \in Seq(Picture) /\ <<seen, input>> \in Seq(Picture)
      OBVIOUS
    <3>3. new \in Packet
      BY <3>1, <3>2 DEF Packet
    <3>4. stream' = Append(stream, new) /\ channel' = Tail(channel) /\ seen' = Encoder!Cleared
          /\ UNCHANGED <<input, packet, queue, frame, pc>>
      BY <1>6, <2>2 DEF Encoder!HardwareEnds
    <3> HIDE DEF new
    <3> QED
      BY <1>0, <3>1, <3>3, <3>4
  <2> QED
    BY <1>6, <2>1, <2>2
<1>7. CASE pc["main"] = "freeChannel" /\ Encoder!DestroyChannel /\ Goto("main", "freeInput")
           /\ UNCHANGED <<queue, frame>>
  BY <1>0, <1>7 DEF Encoder!DestroyChannel
<1>8. CASE EncodeQuiet
  <2>1. queue' \in Seq(WholePicture)
    <3>1. At("capture", "push") => scratch \in WholePicture
      BY DEF PicturesCaptured
    <3>2. Len(queue) >= QueueCapacity => queue # << >> /\ Tail(queue) \in Seq(WholePicture)
      BY BuffersAre
    <3>3. CASE At("capture", "push") /\ queue' =
               Append(IF Len(queue) >= QueueCapacity THEN Tail(queue) ELSE queue, scratch)
      <4> DEFINE room == IF Len(queue) >= QueueCapacity THEN Tail(queue) ELSE queue
      <4>1. room \in Seq(WholePicture)
        BY <3>2
      <4> HIDE DEF room
      <4>2. Append(room, scratch) \in Seq(WholePicture)
        BY <3>1, <3>3, <4>1
      <4> QED
        BY <3>3, <4>2 DEF room
    <3> QED
      BY <1>8, <3>3 DEF EncodeQuiet
  <2> QED
    BY <1>8, <2>1 DEF EncodeQuiet
<1> QED
  BY <1>1, <1>2, <1>3, <1>4, <1>5, <1>6, <1>7, <1>8 DEF EncodeStep

-----------------------------------------------------------------------------
(* How far the packets lag behind.                                         *)

LEMMA InitInside == Init => Inside /\ InTime
BY BuffersAre DEF Init, Encoder!Init, Inside, InTime, Encoder!Inside, At

LEMMA NextInside == Control /\ Open /\ PicturesEncoded /\ Inside /\ [Next]_vars => Inside'
<1> SUFFICES ASSUME Control, Open, PicturesEncoded, Inside, EncodeStep PROVE Inside'
  BY EncodeSteps
<1> USE BuffersAre DEF Control, Threads, Goto, At, Encoder!Inside
<1>0. /\ Len(channel) \in Nat /\ Len(stream) \in Nat
      /\ Len(channel) <= ChannelDepth /\ Len(stream) <= StreamCount
      /\ channel \in Seq(WholePicture) /\ stream \in Seq(Packet)
  BY DEF PicturesEncoded, Inside
<1>1. CASE At("encode", "pop") /\ queue # << >> /\ frame' = Head(queue) /\ queue' = Tail(queue)
           /\ Encoder!Clear /\ Goto("encode", "copy")
  BY <1>1 DEF Encoder!Clear, Encoder!hardwareVars, Inside, BeforeRelease
<1>2. CASE At("encode", "copy") /\ Encoder!CopyRows(frame) /\ Goto("encode", "submit")
           /\ UNCHANGED <<queue, frame>>
  BY <1>2 DEF Encoder!CopyRows, Encoder!hardwareVars, Inside, BeforeRelease
<1>3. CASE At("encode", "submit") /\ Encoder!SendFrame(frame) /\ Goto("encode", "fetch")
           /\ UNCHANGED <<queue, frame>>
  <2>1. Len(channel') = Len(channel) + 1 /\ Len(channel') <= ChannelDepth /\ channel' # << >>
    BY <1>0, <1>3 DEF Encoder!SendFrame
  <2> QED
    <3>1. /\ UNCHANGED <<stream, reading, timeouts>> /\ pc'["main"] = pc["main"]
          /\ pc["encode"] = "submit" /\ pc'["encode"] = "fetch"
      BY <1>3 DEF Encoder!SendFrame
    <3>2. pc["main"] \in BeforeRelease => Len(channel) + Len(stream) = timeouts
      BY <3>1 DEF Inside
    <3> QED
      BY <1>0, <2>1, <3>1, <3>2 DEF Inside
<1>4. CASE At("encode", "fetch")
           /\ (Encoder!GetStream \/ Encoder!GetStreamEmpty \/ Encoder!GetStreamFails)
           /\ pc'["encode"] \in {"record", "check"} /\ pc'["main"] = pc["main"]
  <2>1. UNCHANGED <<channel, reading>>
    BY <1>4 DEF Encoder!GetStream, Encoder!GetStreamEmpty, Encoder!GetStreamFails,
      Encoder!hardwareVars
  <2>2. \/ Len(stream') = Len(stream) - 1 /\ timeouts' = timeouts
        \/ stream' = stream /\ timeouts' = timeouts + 1
    BY <1>0, <1>4 DEF Encoder!GetStream, Encoder!GetStreamEmpty, Encoder!GetStreamFails,
      Encoder!hardwareVars
  <2>3. Len(stream') \in Nat /\ Len(stream') <= Len(stream)
    <3>1. CASE stream # << >> /\ stream' = Tail(stream)
      BY <1>0, <3>1
    <3>2. CASE stream' = stream
      BY <1>0, <3>2
    <3> QED
      BY <1>4, <3>1, <3>2 DEF Encoder!GetStream, Encoder!GetStreamEmpty, Encoder!GetStreamFails,
        Encoder!hardwareVars
  <2> QED
    BY <1>0, <1>4, <2>1, <2>2, <2>3, SMTT(30) DEF Inside, BeforeRelease
<1>5. CASE (Encoder!HardwareBegins \/ Encoder!HardwareEnds) /\ UNCHANGED <<queue, frame, pc>>
  <2>1. CASE Encoder!HardwareBegins
    BY <1>5, <2>1 DEF Encoder!HardwareBegins, Inside
  <2>2. CASE Encoder!HardwareEnds
    <3>1. /\ Len(stream') = Len(stream) + 1 /\ Len(channel') = Len(channel) - 1
          /\ Len(stream) < StreamCount /\ reading' = FALSE /\ UNCHANGED <<timeouts, pc>>
          /\ Len(channel) > 0
      BY <1>0, <1>5, <2>2 DEF Encoder!HardwareEnds, Inside
    <3> QED
      BY <1>0, <3>1 DEF Inside
  <2> QED
    BY <1>5, <2>1, <2>2
<1>6. CASE pc["main"] = "freeChannel" /\ Encoder!DestroyChannel /\ Goto("main", "freeInput")
           /\ UNCHANGED <<queue, frame>>
  BY <1>6 DEF Encoder!DestroyChannel, Inside, BeforeRelease, Unstarted, Joining
<1>7. CASE EncodeQuiet
  BY <1>7 DEF EncodeQuiet, Inside
<1> QED
  BY <1>1, <1>2, <1>3, <1>4, <1>5, <1>6, <1>7 DEF EncodeStep

\* While nothing failed, the hardware is empty but for the frame in hand.
LEMMA OneInside ==
  ASSUME Control, Open, PicturesEncoded, Inside, timeouts = 0
  PROVE  /\ At("encode", "fetch") => Len(channel) + Len(stream) = 1
         /\ ~At("encode", "fetch") => channel = << >> /\ stream = << >>
<1>1. Len(channel) \in Nat /\ Len(stream) \in Nat
      /\ channel \in Seq(WholePicture) /\ stream \in Seq(Packet)
  BY DEF PicturesEncoded
<1>2. CASE pc["main"] \in BeforeRelease
  BY <1>1, <1>2 DEF Inside, Encoder!Inside
<1>3. CASE pc["main"] \notin BeforeRelease
  <2>1. ~channel_created /\ ~At("encode", "fetch")
    BY <1>3 DEF Open, Control, BeforeRelease, MainLabels, At, Ending
  <2> QED
    BY <2>1 DEF Open
<1> QED
  BY <1>2, <1>3

LEMMA NextInTime ==
  Control /\ Open /\ PicturesEncoded /\ Inside /\ InTime /\ [Next]_vars => InTime'
<1> SUFFICES ASSUME Control, Open, PicturesEncoded, Inside, InTime, EncodeStep, timeouts' = 0
             PROVE  InTime'
  BY EncodeSteps DEF InTime
<1>0. timeouts = 0 /\ timeouts \in Nat
  BY DEF EncodeStep, EncodeQuiet, Inside, Encoder!Clear, Encoder!CopyRows, Encoder!SendFrame,
    Encoder!GetStream, Encoder!GetStreamEmpty, Encoder!GetStreamFails, Encoder!HardwareBegins,
    Encoder!HardwareEnds, Encoder!DestroyChannel
<1>a. /\ Len(channel) \in Nat /\ Len(stream) \in Nat
      /\ channel \in Seq(WholePicture) /\ stream \in Seq(Packet)
  BY DEF PicturesEncoded
<1> USE DEF Control, Threads, Goto, At, InTime
<1>1. CASE At("encode", "pop") /\ queue # << >> /\ frame' = Head(queue) /\ queue' = Tail(queue)
           /\ Encoder!Clear /\ Goto("encode", "copy")
  BY <1>1 DEF Encoder!Clear
<1>2. CASE At("encode", "copy") /\ Encoder!CopyRows(frame) /\ Goto("encode", "submit")
           /\ UNCHANGED <<queue, frame>>
  BY <1>0, <1>2 DEF Encoder!CopyRows
<1>3. CASE At("encode", "submit") /\ Encoder!SendFrame(frame) /\ Goto("encode", "fetch")
           /\ UNCHANGED <<queue, frame>>
  <2>1. channel = << >> /\ stream = << >> /\ ~reading
    BY <1>0, <1>3, OneInside DEF Inside
  <2>2. channel' = Append(channel, frame) /\ channel'[1] = frame /\ Len(stream') = 0
    BY <1>3, <2>1 DEF Encoder!SendFrame
  <2> QED
    BY <1>0, <1>3, <2>1, <2>2 DEF Encoder!SendFrame
<1>4. CASE At("encode", "fetch") /\ Encoder!GetStream /\ Goto("encode", "record")
           /\ UNCHANGED <<queue, frame>>
  <2>1. Len(stream) = 1 /\ Head(stream) = stream[1]
    BY <1>0, <1>a, <1>4, OneInside DEF Encoder!GetStream
  <2> QED
    BY <1>0, <1>4, <2>1 DEF Encoder!GetStream
<1>5. CASE At("encode", "fetch") /\ (Encoder!GetStreamEmpty \/ Encoder!GetStreamFails)
           /\ Goto("encode", "check") /\ UNCHANGED <<queue, frame>>
  BY <1>0, <1>5 DEF Encoder!GetStreamEmpty, Encoder!GetStreamFails
<1>6. CASE (Encoder!HardwareBegins \/ Encoder!HardwareEnds) /\ UNCHANGED <<queue, frame, pc>>
  <2>0. channel # << >>
    BY <1>6 DEF Encoder!HardwareBegins, Encoder!HardwareEnds, Inside
  <2>1. At("encode", "fetch") /\ Len(channel) = 1 /\ stream = << >> /\ input = frame
        /\ channel[1] = frame
    BY <1>0, <1>a, <2>0, OneInside
  <2>2. CASE Encoder!HardwareBegins
    BY <1>0, <1>6, <2>1, <2>2 DEF Encoder!HardwareBegins
  <2>3. CASE Encoder!HardwareEnds
    <3>1. seen = frame
      BY <1>0, <2>1, <2>3 DEF Encoder!HardwareEnds
    <3>2. stream' = <<[of |-> frame, shows |-> <<frame>>]>> /\ Len(channel') = 0
      BY <1>a, <2>1, <2>3, <3>1 DEF Encoder!HardwareEnds
    <3> QED
      BY <1>0, <1>6, <2>1, <2>3, <3>2 DEF Encoder!HardwareEnds
  <2> QED
    BY <1>6, <2>2, <2>3
<1>7. CASE pc["main"] = "freeChannel" /\ Encoder!DestroyChannel /\ Goto("main", "freeInput")
           /\ UNCHANGED <<queue, frame>>
  BY <1>0, <1>7 DEF Encoder!DestroyChannel, Ending
<1>8. CASE EncodeQuiet
  BY <1>0, <1>8 DEF EncodeQuiet
<1> QED
  BY <1>1, <1>2, <1>3, <1>4, <1>5, <1>6, <1>7, <1>8 DEF EncodeStep

\* Every packet is for a whole frame of the sensor, and shows that frame as long as the
\* encoder answered in time, whatever the driver and the hardware do meanwhile.
THEOREM PicturesAreWhole == Spec => []PictureWhole
<1>1. PicturesEncoded /\ Inside /\ InTime => PictureWhole
  BY DEF PicturesEncoded, InTime, PictureWhole, Packet, WholePicture
<1> QED
  BY <1>1, InitControl, NextControl, InitOpen, NextOpen, InitBuffers, NextBuffers, InitPictures,
    NextPicturesCaptured, NextPicturesEncoded, InitInside, NextInside, NextInTime, PTL DEF Spec

\* The hardware stays behind by one frame for each time it did not answer, and when there
\* is no more room in it, no packet comes out any more.
THEOREM LagIsWhatTimedOut == Spec => []LagIsTimeouts
<1>1. Control /\ Open /\ PicturesEncoded /\ Inside => LagIsTimeouts
  <2> SUFFICES ASSUME Control, Open, PicturesEncoded, Inside PROVE LagIsTimeouts
    OBVIOUS
  <2>1. Len(channel) \in Nat /\ Len(stream) \in Nat
    BY DEF PicturesEncoded
  <2>2. channel_created => pc["main"] \in BeforeRelease
    BY DEF Open, BeforeRelease, Unstarted, Joining
  <2>3. At("encode", "fetch") => pc["main"] \in BeforeRelease
    BY DEF Control, At, BeforeRelease, MainLabels, Ending, Joining
  <2> QED
    BY <2>1, <2>2, <2>3, BuffersAre DEF Inside, LagIsTimeouts, Encoder!Inside, At
<1> QED
  BY <1>1, InitControl, NextControl, InitOpen, NextOpen, InitBuffers, NextBuffers, InitPictures,
    NextPicturesCaptured, NextPicturesEncoded, InitInside, NextInside, PTL DEF Spec

-----------------------------------------------------------------------------
(* The counters.                                                           *)

LEMMA InitCounted == Init => Counted
<1> SUFFICES ASSUME Init PROVE Counted
  OBVIOUS
<1>1. /\ total \in [Counters -> Nat] /\ last \in [Counters -> Nat] /\ reported = last
      /\ running = TRUE /\ sampling = FALSE /\ loaded = << >> /\ pc["metrics"] = "none"
  BY DEF Init, Metrics!Init, Metrics!Nothing
<1>2. DOMAIN << >> = {} /\ << >> \in [{} -> Nat]
  OBVIOUS
<1> QED
  BY <1>1, <1>2 DEF Counted

\* A step that counts nothing and samples nothing.
MetricsQuiet ==
  /\ UNCHANGED metricsVars
  /\ \/ UNCHANGED pc["metrics"]
     \/ {pc["metrics"], pc'["metrics"]} \cap {"sample", "lastSample", "done"} = {}
  /\ running' \in {running, FALSE}
  /\ pc'["capture"] \in CaptureCounts => pc["capture"] \in CaptureCounts \/ running
  /\ pc'["encode"] \in EncodeCounts => pc["encode"] \in EncodeCounts \/ running

MetricsStep ==
  \/ At("capture", "record") /\ Metrics!Count("captured_frames") /\ Goto("capture", "check")
     /\ UNCHANGED running
  \/ At("encode", "record") /\ Metrics!Count("encoded_frames") /\ Goto("encode", "send")
     /\ UNCHANGED running
  \/ At("metrics", "sleep") /\ Metrics!BeginSample /\ UNCHANGED running
     /\ Goto("metrics", IF running THEN "sample" ELSE "lastSample")
  \/ pc["metrics"] \in {"sample", "lastSample"} /\ (\E c \in Counters : Metrics!Load(c))
     /\ UNCHANGED <<pc, running>>
  \/ pc["metrics"] \in {"sample", "lastSample"} /\ Metrics!EndSample /\ UNCHANGED running
     /\ Goto("metrics", IF At("metrics", "sample") THEN "sleep" ELSE "done")
  \/ MetricsQuiet

LEMMA MetricsSteps == Control /\ Counted /\ [Next]_vars => MetricsStep
<1> SUFFICES ASSUME Control, Counted, [Next]_vars, ~MetricsStep PROVE FALSE
  OBVIOUS
<1> USE DEF Control, Threads, Unstarted, At, Goto, CaptureCounts, EncodeCounts
<1>0. running \in BOOLEAN
  BY DEF Counted
<1>1. CASE MainIsp \/ MainCamera \/ MainEncoder \/ MainFails \/ MainStopsQueue \/ MainJoins
  BY <1>1 DEF MainIsp, MainCamera, MainEncoder, MainFails, MainStopsQueue, MainJoins,
    MetricsStep, MetricsQuiet
<1>2. CASE MainStartsThreads
  BY <1>2 DEF MainStartsThreads, MetricsStep, MetricsQuiet
<1>3. CASE MainReleases
  BY <1>3 DEF MainReleases, MetricsStep, MetricsQuiet
<1>4. CASE CaptureThread
  BY <1>0, <1>4 DEF CaptureThread, CaptureCheck, CaptureGrab, CapturePush, CaptureRecord,
    MetricsStep, MetricsQuiet
<1>5. CASE EncodeConnect \/ EncodeCheck \/ EncodePop
  BY <1>0, <1>5 DEF EncodeConnect, EncodeCheck, EncodePop, MetricsStep, MetricsQuiet
<1>6. CASE Encode
  BY <1>6 DEF Encode, MetricsStep, MetricsQuiet
<1>7. CASE EncodeRecord \/ EncodeSend
  BY <1>0, <1>7 DEF EncodeRecord, EncodeSend, MetricsStep, MetricsQuiet
<1>8. CASE MetricsThread
  BY <1>8 DEF MetricsThread, MetricsWakes, MetricsSamples, MetricsStep
<1>9. CASE Hardware \/ HandleSignal \/ UNCHANGED vars
  BY <1>9 DEF Hardware, HandleSignal, vars, MetricsStep, MetricsQuiet
<1> QED
  BY <1>1, <1>2, <1>3, <1>4, <1>5, <1>6, <1>7, <1>8, <1>9 DEF Next, MainThread, EncodeThread, Terminated

LEMMA PendingIs ==
  ASSUME NEW c
  PROVE  /\ Pending(c) \in {0, 1} /\ Pending(c)' \in {0, 1}
         /\ /\ pc'["capture"] \in CaptureCounts => pc["capture"] \in CaptureCounts
            /\ pc'["encode"] \in EncodeCounts => pc["encode"] \in EncodeCounts
            => Pending(c)' <= Pending(c)
BY DEF Pending

\* One more in a counter: what the thread had pending, it has no more.
LEMMA CountCounted ==
  ASSUME Control, Counted, NEW c \in Counters, Metrics!Count(c), UNCHANGED running,
         pc'["metrics"] = pc["metrics"], Pending(c) = 1, Pending(c)' = 0,
         \A d \in Counters \ {c} : Pending(d)' = Pending(d)
  PROVE  Counted'
<1>1. /\ total' = [total EXCEPT ![c] = @ + 1] /\ total \in [Counters -> Nat]
      /\ UNCHANGED <<sampling, loaded, last, reported>>
  BY DEF Metrics!Count, Counted
<1>2. /\ total' \in [Counters -> Nat] /\ total'[c] = total[c] + 1
      /\ \A d \in Counters \ {c} : total'[d] = total[d]
  BY <1>1
<1>3. ASSUME pc["metrics"] = "lastSample", NEW d \in DOMAIN loaded
      PROVE  total'[d] - loaded[d] \in 0 .. 1 - Pending(d)'
  <2>1. d \in Counters /\ loaded[d] \in Nat /\ total[d] \in Nat
        /\ total[d] - loaded[d] \in 0 .. 1 - Pending(d)
    BY <1>3, <1>1 DEF Counted
  <2>2. CASE d = c
    BY <1>2, <2>1, <2>2
  <2>3. CASE d # c
    BY <1>2, <2>1, <2>3
  <2> QED
    BY <2>2, <2>3
<1>4. ASSUME pc["metrics"] = "done", NEW d \in Counters
      PROVE  total'[d] - last[d] \in 0 .. 1 - Pending(d)'
  <2>1. last[d] \in Nat /\ total[d] \in Nat /\ total[d] - last[d] \in 0 .. 1 - Pending(d)
    BY <1>4, <1>1 DEF Counted
  <2>2. CASE d = c
    BY <1>2, <2>1, <2>2
  <2>3. CASE d # c
    BY <1>2, <2>1, <2>3
  <2> QED
    BY <2>2, <2>3
<1> QED
  BY <1>1, <1>2, <1>3, <1>4 DEF Counted

LEMMA NextCounted == Control /\ Counted /\ [Next]_vars => Counted'
<1> SUFFICES ASSUME Control, Counted, MetricsStep PROVE Counted'
  BY MetricsSteps
<1> USE DEF Control, Threads, At, Goto
<1>1. CASE At("capture", "record") /\ Metrics!Count("captured_frames") /\ Goto("capture", "check")
           /\ UNCHANGED running
  <2>1. /\ Pending("captured_frames") = 1 /\ Pending("captured_frames")' = 0
        /\ Pending("encoded_frames")' = Pending("encoded_frames")
    BY <1>1 DEF Pending, CaptureCounts, EncodeCounts
  <2> QED
    BY <1>1, <2>1, CountCounted DEF Counters
<1>2. CASE At("encode", "record") /\ Metrics!Count("encoded_frames") /\ Goto("encode", "send")
           /\ UNCHANGED running
  <2>1. /\ Pending("encoded_frames") = 1 /\ Pending("encoded_frames")' = 0
        /\ Pending("captured_frames")' = Pending("captured_frames")
    BY <1>2 DEF Pending, CaptureCounts, EncodeCounts
  <2> QED
    BY <1>2, <2>1, CountCounted DEF Counters
<1>3. CASE At("metrics", "sleep") /\ Metrics!BeginSample /\ UNCHANGED running
           /\ Goto("metrics", IF running THEN "sample" ELSE "lastSample")
  <2>1. DOMAIN loaded = {} /\ UNCHANGED <<total, loaded, last, reported>> /\ sampling' = TRUE
    BY <1>3 DEF Metrics!BeginSample, Counted
  <2>2. \/ running /\ pc'["metrics"] = "sample"
        \/ ~running /\ pc'["metrics"] = "lastSample"
    BY <1>3
  <2> QED
    BY <1>3, <2>1, <2>2 DEF Counted
<1>4. CASE pc["metrics"] \in {"sample", "lastSample"} /\ (\E c \in Counters : Metrics!Load(c))
           /\ UNCHANGED <<pc, running>>
  <2>1. PICK c \in Counters : Metrics!Load(c)
    BY <1>4
  <2>2. /\ DOMAIN loaded' = DOMAIN loaded \cup {c} /\ UNCHANGED <<total, sampling, last, reported>>
        /\ \A d \in DOMAIN loaded' : loaded'[d] = IF d = c THEN total[c] ELSE loaded[d]
        /\ loaded' = [d \in DOMAIN loaded' |-> loaded'[d]] /\ sampling
    BY <2>1 DEF Metrics!Load
  <2>3. \A d \in Counters : total[d] \in Nat
    BY DEF Counted
  <2>4. \A d \in DOMAIN loaded : loaded[d] \in Nat /\ d \in Counters
    BY DEF Counted
  <2>5. loaded' \in [DOMAIN loaded' -> Nat] /\ DOMAIN loaded' \subseteq Counters
    BY <2>2, <2>3, <2>4
  <2>6. ASSUME pc["metrics"] = "lastSample", NEW d \in DOMAIN loaded'
        PROVE  total[d] - loaded'[d] \in 0 .. 1 - Pending(d)
    <3>1. CASE d = c
      BY <2>2, <2>3, <3>1, PendingIs
    <3>2. CASE d # c
      BY <2>2, <2>6, <3>2 DEF Counted
    <3> QED
      BY <3>1, <3>2
  <2>7. \A d : Pending(d)' = Pending(d)
    BY <1>4 DEF Pending
  <2> QED
    BY <1>4, <2>2, <2>5, <2>6, <2>7 DEF Counted
<1>5. CASE pc["metrics"] \in {"sample", "lastSample"} /\ Metrics!EndSample /\ UNCHANGED running
           /\ Goto("metrics", IF At("metrics", "sample") THEN "sleep" ELSE "done")
  <2>1. /\ DOMAIN loaded = Counters /\ last' = loaded /\ UNCHANGED total /\ sampling' = FALSE
        /\ reported' = [c \in Counters |-> reported[c] + (loaded[c] - last[c])]
        /\ loaded' = << >>
    BY <1>5 DEF Metrics!EndSample
  <2>2. loaded \in [Counters -> Nat] /\ last \in [Counters -> Nat] /\ reported = last
    BY <2>1 DEF Counted
  <2>3. \A c \in Counters : reported[c] + (loaded[c] - last[c]) = loaded[c]
    BY <2>2
  <2>4. reported' = loaded
    BY <2>1, <2>2, <2>3
  <2>5. DOMAIN << >> = {} /\ << >> \in [{} -> Nat]
    OBVIOUS
  <2>6. \A d : Pending(d)' = Pending(d)
    BY <1>5 DEF Pending
  <2>7. \/ pc["metrics"] = "sample" /\ pc'["metrics"] = "sleep"
        \/ pc["metrics"] = "lastSample" /\ pc'["metrics"] = "done"
    BY <1>5
  <2> QED
    BY <1>5, <2>1, <2>2, <2>4, <2>5, <2>6, <2>7 DEF Counted
<1>6. CASE MetricsQuiet
  <2>1. UNCHANGED <<total, sampling, loaded, last, reported>>
    BY <1>6 DEF MetricsQuiet, metricsVars
  <2>2. ~running => ~running' /\ \A c : Pending(c)' \in {0, 1} /\ Pending(c)' <= Pending(c)
    BY <1>6, PendingIs DEF MetricsQuiet
  <2>3. pc'["metrics"] \in {"sample", "lastSample", "done"} => pc'["metrics"] = pc["metrics"]
    BY <1>6 DEF MetricsQuiet
  <2>4. sampling <=> pc'["metrics"] \in {"sample", "lastSample"}
    BY <1>6 DEF MetricsQuiet, Counted
  <2>5. ASSUME pc'["metrics"] = "lastSample", NEW c \in DOMAIN loaded
        PROVE  total[c] - loaded[c] \in 0 .. 1 - Pending(c)'
    <3>1. ~running /\ total[c] - loaded[c] \in 0 .. 1 - Pending(c)
      BY <2>3, <2>5 DEF Counted
    <3> QED
      BY <2>2, <3>1, PendingIs
  <2>6. ASSUME pc'["metrics"] = "done", NEW c \in Counters
        PROVE  total[c] - last[c] \in 0 .. 1 - Pending(c)'
    <3>1. ~running /\ total[c] - last[c] \in 0 .. 1 - Pending(c)
      BY <2>3, <2>6 DEF Counted
    <3> QED
      BY <2>2, <3>1, PendingIs
  <2>7. running' \in BOOLEAN /\ (pc'["metrics"] \in {"lastSample", "done"} => ~running')
    <3>1. running \in BOOLEAN /\ running' \in {running, FALSE}
      BY <1>6 DEF MetricsQuiet, Counted
    <3>2. pc["metrics"] \in {"lastSample", "done"} => ~running
      BY DEF Counted
    <3> QED
      BY <2>2, <2>3, <3>1, <3>2
  <2> QED
    BY <2>1, <2>4, <2>5, <2>6, <2>7 DEF Counted
<1> QED
  BY <1>1, <1>2, <1>3, <1>4, <1>5, <1>6 DEF MetricsStep

\* However the loads of a sample interleave with the counting, the samples together
\* account for all that happened but one frame per thread.
THEOREM ReportsAddUp == Spec => []SamplesAddUp
<1>1. Control /\ Counted => SamplesAddUp
  <2> SUFFICES ASSUME Control, Counted, At("main", "exited"), NEW c \in Counters
               PROVE  total[c] - reported[c] \in {0, 1}
    BY DEF SamplesAddUp
  <2>1. total[c] - last[c] \in 0 .. 1 - Pending(c) /\ reported = last
    BY DEF Control, Ending, At, Counted
  <2> QED
    BY <2>1, PendingIs
<1> QED
  BY <1>1, InitControl, NextControl, InitCounted, NextCounted, PTL DEF Spec

-----------------------------------------------------------------------------
(* The configuration.                                                      *)

LEMMA MaxOfTwo ==
  ASSUME NEW a \in Int, NEW b \in Int
  PROVE  Max({a, b}) = IF a >= b THEN a ELSE b
<1> DEFINE m == IF a >= b THEN a ELSE b
<1>1. m \in {a, b} /\ \A y \in {a, b} : m >= y
  OBVIOUS
<1>2. \A x \in {a, b} : (\A y \in {a, b} : x >= y) => x = m
  OBVIOUS
<1> HIDE DEF m
<1>3. Max({a, b}) = CHOOSE x \in {a, b} : \A y \in {a, b} : x >= y
  BY DEF Max
<1>4. Max({a, b}) \in {a, b} /\ \A y \in {a, b} : Max({a, b}) >= y
  BY <1>1, <1>3
<1> QED
  BY <1>2, <1>4 DEF m

\* The derived window is an int, and long enough for what it was derived from.
LEMMA DerivedWindow ==
  ASSUME NEW interval \in Ints, NEW w \in DerivedWindows(interval)
  PROVE  w \in 1 .. IntMax /\ w >= 30 /\ (interval * 3 <= IntMax => w >= interval)
<1> USE IntMaxAssumption DEF Ints
<1> DEFINE triples == IF interval * 3 \in Ints THEN {interval * 3} ELSE Ints
<1>1. PICK triple \in triples : w = Max({30, triple})
  BY DEF DerivedWindows
<1>2. triple \in Ints /\ (interval * 3 \in Ints => triple = interval * 3)
  BY <1>1
<1>3. w = IF 30 >= triple THEN 30 ELSE triple
  BY <1>1, <1>2, MaxOfTwo
<1>4. interval > 0 /\ interval * 3 <= IntMax => interval * 3 \in Ints
  OBVIOUS
<1> QED
  BY <1>2, <1>3, <1>4

LEMMA ConfigurationIsUsable ==
  \A env \in Environments : \A config \in fromEnvironment(env) : Usable(env, config)
<1> SUFFICES ASSUME NEW env \in Environments, NEW config \in fromEnvironment(env)
             PROVE  Usable(env, config)
  OBVIOUS
<1> USE IntMaxAssumption
<1> DEFINE read == [s \in Settings |-> readIntEnv(env.ints[s], Default[s])]
           positive(s, otherwise) == IF read[s] <= 0 THEN otherwise ELSE read[s]
<1>1. PICK window \in DerivedWindows(read["infer_every_n_frames"]) :
        config =
          [encode_queue_capacity |-> positive("encode_queue_capacity", 5),
           ai_queue_capacity     |-> positive("ai_queue_capacity", 3),
           metrics_interval_sec  |-> positive("metrics_interval_sec", 5),
           overlay_stale_frames  |-> positive("overlay_stale_frames", window),
           infer_every_n_frames  |-> positive("infer_every_n_frames", 1),
           ai_enabled |-> IF env.enabled = Unset THEN env.model_path ELSE env.enabled]
  BY DEF fromEnvironment
<1>2. \A s \in Settings : env.ints[s] \in Numbers \cup {Unset} /\ Default[s] \in 1 .. 30
  BY DEF Environments, Settings, Default
<1>3. \A s \in Settings : read[s] \in Ints
  <2> SUFFICES ASSUME NEW s \in Settings PROVE readIntEnv(env.ints[s], Default[s]) \in Ints
    OBVIOUS
  <2>1. CASE env.ints[s] = Unset
    BY <1>2, <2>1 DEF readIntEnv, Ints
  <2>2. CASE env.ints[s] # Unset
    <3>1. env.ints[s] \in -IntMax .. IntMax
      BY <1>2, <2>2, NumbersAssumption
    <3>2. readIntEnv(env.ints[s], Default[s]) = env.ints[s]
      BY <2>2 DEF readIntEnv
    <3> QED
      BY <3>1, <3>2 DEF Ints
  <2> QED
    BY <2>1, <2>2
<1>4. \A s \in Settings : read[s] > 0 => read[s] \in 1 .. IntMax
  BY <1>3 DEF Ints
<1>5. /\ window \in 1 .. IntMax /\ window >= 30
      /\ read["infer_every_n_frames"] * 3 <= IntMax => window >= read["infer_every_n_frames"]
  BY <1>3, DerivedWindow DEF Settings
<1>6. \A s \in Settings : config[s] \in 1 .. IntMax
  <2>1. \A s \in Settings : \A otherwise \in 1 .. IntMax : positive(s, otherwise) \in 1 .. IntMax
    BY <1>3, <1>4 DEF Ints
  <2>2. {1, 3, 5, window} \subseteq 1 .. IntMax
    BY <1>5
  <2> HIDE DEF positive
  <2> QED
    BY <1>1, <2>1, <2>2 DEF Settings
<1>7. ASSUME env.ints["overlay_stale_frames"] # Unset, env.ints["overlay_stale_frames"] <= 0,
             config.infer_every_n_frames * 3 <= IntMax
      PROVE  config.overlay_stale_frames >= config.infer_every_n_frames
  <2>1. read["overlay_stale_frames"] <= 0
    BY <1>7 DEF readIntEnv, Settings
  <2>2. config.overlay_stale_frames = window
    BY <1>1, <2>1
  <2>3. config.infer_every_n_frames =
          IF read["infer_every_n_frames"] <= 0 THEN 1 ELSE read["infer_every_n_frames"]
    BY <1>1
  <2>4. read["infer_every_n_frames"] \in Int
    BY <1>3 DEF Ints, Settings
  <2> HIDE DEF read
  <2> QED
    BY <1>5, <1>7, <2>2, <2>3, <2>4
<1> QED
  BY <1>6, <1>7 DEF Usable

\* Whatever the environment says, the configuration made of it can be run with.
THEOREM ConfigIsUsable == Spec => []ConfigUsable
<1>1. ConfigUsable
  BY ConfigurationIsUsable DEF ConfigUsable
<1> QED
  BY <1>1, PTL

-----------------------------------------------------------------------------
(* The places of the pixels.                                               *)

LEMMA RowsApart ==
  ASSUME NEW a \in Nat, NEW b \in Nat, NEW s \in Nat, a < b
  PROVE  a * s + s <= b * s
<1>1. PICK k \in Nat : b = a + 1 + k
  BY b - a - 1 \in Nat, b = a + 1 + (b - a - 1)
<1>2. b * s = a * s + s + k * s /\ k * s \in Nat /\ a * s \in Nat
  BY <1>1
<1> QED
  BY <1>2

\* A place determines its row and column.
LEMMA RowAndColumn ==
  ASSUME NEW a \in Nat, NEW b \in Nat, NEW s \in Nat, NEW x \in 0 .. s - 1, NEW y \in 0 .. s - 1,
         a * s + x = b * s + y
  PROVE  a = b /\ x = y
<1>1. a * s \in Nat /\ b * s \in Nat
  OBVIOUS
<1>2. ~ a < b
  BY <1>1, RowsApart
<1>3. ~ b < a
  BY <1>1, RowsApart
<1> QED
  BY <1>1, <1>2, <1>3

\* Where there is room for the picture, no two of its pixels are in one place.
LEMMA PlacesApart ==
  ASSUME NEW s \in Nat, NEW l \in Nat, s >= Width, l >= Height,
         NEW p \in Pixels, NEW q \in Pixels, Place(s, l, p) = Place(s, l, q)
  PROVE  p = q
<1>1. Width \in Nat \ {0} /\ Height \in Nat \ {0} /\ Height \div 2 \in 0 .. Height
  BY PictureAssumption
<1>2. ASSUME NEW r \in Pixels
      PROVE  /\ r = <<r[1], r[2], r[3]>> /\ r[1] \in {0, 1} /\ r[2] \in 0 .. l - 1
             /\ r[3] \in 0 .. s - 1
  BY <1>1 DEF Pixels
<1> DEFINE row(r) == r[1] * l + r[2]
<1>3. ASSUME NEW r \in Pixels PROVE row(r) \in Nat
  BY <1>2
<1>4. row(p) * s + p[3] = row(q) * s + q[3]
  BY DEF Place
<1>5. row(p) = row(q) /\ p[3] = q[3]
  <2>1. row(p) \in Nat /\ row(q) \in Nat /\ p[3] \in 0 .. s - 1 /\ q[3] \in 0 .. s - 1
    BY <1>2, <1>3
  <2> DEFINE a == row(p)
             b == row(q)
             x == p[3]
             y == q[3]
  <2>2. a \in Nat /\ b \in Nat /\ x \in 0 .. s - 1 /\ y \in 0 .. s - 1 /\ a * s + x = b * s + y
    BY <1>4, <2>1
  <2> HIDE DEF a, b, x, y
  <2>3. a = b /\ x = y
    BY <2>2, RowAndColumn
  <2> QED
    BY <2>3 DEF a, b, x, y
<1>6. p[1] = q[1] /\ p[2] = q[2]
  BY <1>2, <1>5
<1> QED
  BY <1>2, <1>5, <1>6

\* So what a place is looked up for is what was put there.
LEMMA PlaceChosen ==
  ASSUME NEW s \in Nat, NEW l \in Nat, s >= Width, l >= Height, NEW p \in Pixels
  PROVE  (CHOOSE q \in Pixels : Place(s, l, q) = Place(s, l, p)) = p
BY PlacesApart

\* Rows of more lines take more room.
LEMMA RowsGrow ==
  ASSUME NEW a \in Nat, NEW b \in Nat, NEW s \in Nat, a <= b
  PROVE  a * s <= b * s
<1>1. PICK k \in Nat : b = a + k
  BY b - a \in Nat, b = a + (b - a)
<1>2. b * s = a * s + k * s /\ k * s \in Nat /\ a * s \in Nat
  BY <1>1
<1> QED
  BY <1>2

\* What the code takes for the number of lines, of a size that the driver told.
LEMMA LinesBounded ==
  ASSUME NEW n \in Nat, NEW d \in Nat \ {0}
  PROVE  /\ n \div d \in Nat /\ (n \div d) * d <= n
         /\ \A k \in Nat : (n \div d <= k <=> n < d * (k + 1)) /\ (k <= n \div d <=> d * k <= n)
<1> DEFINE q == n \div d
           r == n % d
<1>1. q \in Nat /\ r \in 0 .. d - 1 /\ n = q * d + r
  OBVIOUS
<1> HIDE DEF q, r
<1>2. q * d \in Nat
  BY <1>1
<1>3. ASSUME NEW k \in Nat
      PROVE  (q <= k <=> n < d * (k + 1)) /\ (k <= q <=> d * k <= n)
  <2>1. d * k = k * d /\ d * (k + 1) = k * d + d /\ k * d \in Nat
    OBVIOUS
  <2>2. q <= k => q * d <= k * d
    BY <1>1, RowsGrow
  <2>3. k < q => k * d + d <= q * d
    BY <1>1, RowsApart
  <2>4. k <= q => k * d <= q * d
    BY <1>1, RowsGrow
  <2>5. q < k => q * d + d <= k * d
    BY <1>1, RowsApart
  <2> DEFINE kd == k * d
             qd == q * d
  <2>6. kd \in Nat /\ qd \in Nat /\ n = qd + r
    BY <1>1, <1>2, <2>1
  <2>7. /\ (q <= k => qd <= kd) /\ (k < q => kd + d <= qd)
        /\ (k <= q => kd <= qd) /\ (q < k => qd + d <= kd)
    BY <2>2, <2>3, <2>4, <2>5
  <2> HIDE DEF kd, qd
  <2>8. (q <= k <=> n < kd + d) /\ (k <= q <=> kd <= n)
    BY <1>1, <2>6, <2>7
  <2> QED
    BY <2>1, <2>8 DEF kd
<1> QED
  BY <1>1, <1>2, <1>3 DEF q

\* The lines it takes are at least those of the picture, and those of the camera's
\* planes exactly when the size tells them.
LEMMA LinesDerived ==
  ASSUME NEW c \in CameraLayouts
  PROVE  /\ DeriveVirHeight(c.size, c.stride) \in Nat
         /\ DeriveVirHeight(c.size, c.stride) >= Height
         /\ DeriveVirHeight(c.size, c.stride) = c.lines <=> SizeTells(c)
<1>1. /\ c.stride \in Nat \ {0} /\ c.lines \in Nat /\ c.size \in Nat /\ c.lines >= Height
      /\ Height \in Nat
  BY LayoutsAssumption, PictureAssumption
<1>2. CASE c.size = 0
  BY <1>1, <1>2 DEF DeriveVirHeight, SizeTells
<1>3. CASE c.size # 0
  <2> DEFINE d == 3 * c.stride
             q == (2 * c.size) \div d
  <2>1. /\ q \in Nat
        /\ \A k \in Nat : (q <= k <=> 2 * c.size < d * (k + 1)) /\ (k <= q <=> d * k <= 2 * c.size)
    BY <1>1, LinesBounded, 2 * c.size \in Nat, d \in Nat \ {0}
  <2>2. DeriveVirHeight(c.size, c.stride) = Max({q, Height})
    BY <1>3 DEF DeriveVirHeight
  <2>3. SizeTells(c) <=> q <= c.lines /\ (c.lines > Height => c.lines <= q)
    BY <1>1, <1>3, <2>1 DEF SizeTells
  <2> HIDE DEF q
  <2>4. q \in Nat
    BY <2>1
  <2> DEFINE v == DeriveVirHeight(c.size, c.stride)
  <2>5. v = IF q >= Height THEN q ELSE Height
    BY <1>1, <2>2, <2>4, MaxOfTwo
  <2> HIDE DEF v
  <2>6. v \in Nat /\ v >= Height /\ (v = c.lines <=> SizeTells(c))
    BY <1>1, <2>3, <2>4, <2>5
  <2> QED
    BY <2>6 DEF v
<1> QED
  BY <1>2, <1>3

\* captureFrame stays within the camera's buffer, whatever it takes for the lines.
LEMMA ReadsStayInside ==
  ASSUME NEW c \in CameraLayouts
  PROVE  ReadInside(c)
<1> SUFFICES ASSUME c.size # 0, NEW p \in Pixels
             PROVE  Place(c.stride, DeriveVirHeight(c.size, c.stride), p) < c.size
  BY DEF ReadInside
<1> DEFINE s == c.stride
           h == Height \div 2
           d == 3 * s
           n == 2 * c.size
           q == n \div d
           v == DeriveVirHeight(c.size, c.stride)
<1>1. /\ s \in Nat \ {0} /\ c.lines \in Nat /\ c.size \in Nat /\ c.lines >= Height
      /\ h \in Nat \ {0} /\ Height = 2 * h /\ Height \in Nat /\ Width \in Nat \ {0} /\ s >= Width
  BY LayoutsAssumption, PictureAssumption
<1>2. (c.lines + (h - 1)) * s + (Width - 1) < c.size
  BY LayoutsAssumption DEF Place
<1>3. /\ p[1] \in {0, 1} /\ p[2] \in Nat /\ p[3] \in Nat /\ p[3] <= Width - 1
      /\ (p[1] = 0 => p[2] <= Height - 1) /\ (p[1] = 1 => p[2] <= h - 1)
  BY <1>1 DEF Pixels
<1>0. d \in Nat \ {0} /\ n \in Nat /\ d = 3 * s
  BY <1>1
<1>5. v = Max({q, Height})
  BY DEF DeriveVirHeight
<1> HIDE DEF d, n
<1>4. q \in Nat /\ q * d <= n
  BY <1>0, LinesBounded
<1> HIDE DEF q
<1>51. v = IF q < Height THEN Height ELSE q
  BY <1>1, <1>4, <1>5, MaxOfTwo
<1>6. Place(c.stride, v, p) = (p[1] * v + p[2]) * s + p[3]
  BY DEF Place
<1> DEFINE row == p[1] * v + p[2]
<1>7. v \in Nat /\ row \in Nat
  BY <1>1, <1>3, <1>4, <1>51
<1>8. CASE q < Height
  <2>1. row <= c.lines + (h - 1)
    BY <1>1, <1>3, <1>51, <1>8
  <2> HIDE DEF row
  <2>2. row * s <= (c.lines + (h - 1)) * s /\ row * s \in Nat
    BY <1>1, <1>7, <2>1, RowsGrow
  <2> DEFINE b == (c.lines + (h - 1)) * s
             a == row * s
  <2>3. a \in Nat /\ b \in Int /\ a <= b /\ b + (Width - 1) < c.size
    BY <1>1, <1>2, <2>2
  <2> HIDE DEF a, b
  <2>4. a + p[3] < c.size
    BY <1>1, <1>3, <2>3
  <2> QED
    BY <1>6, <2>4 DEF a, row
<1>9. CASE ~ q < Height
  <2>1. row + 1 <= q + h
    BY <1>1, <1>3, <1>4, <1>51, <1>9
  <2> HIDE DEF row
  <2>2. (row + 1) * s <= (q + h) * s
    BY <1>1, <1>4, <1>7, <2>1, RowsGrow
  <2>3. (2 * h) * s <= q * s
    BY <1>1, <1>4, <1>9, RowsGrow
  <2>4. /\ (row + 1) * s = row * s + s /\ (q + h) * s = q * s + h * s /\ (2 * h) * s = 2 * (h * s)
        /\ q * d = 3 * (q * s) /\ row * s \in Nat /\ q * s \in Nat /\ h * s \in Nat
    BY <1>0, <1>1, <1>4, <1>7
  <2> DEFINE rs == row * s
             qs == q * s
             hs == h * s
  <2>5. rs \in Nat /\ qs \in Nat /\ hs \in Nat /\ rs + s <= qs + hs /\ 2 * hs <= qs
        /\ 3 * qs <= 2 * c.size
    BY <1>4, <2>2, <2>3, <2>4 DEF n
  <2> HIDE DEF rs, qs, hs
  <2>6. rs + p[3] < c.size
    BY <1>1, <1>3, <2>5
  <2> QED
    BY <1>6, <2>6 DEF rs, row
<1> QED
  BY <1>8, <1>9

\* The encoder gets at a pixel's place the byte that captureFrame found for it.
LEMMA InputIsPacked ==
  ASSUME NEW c \in CameraLayouts, NEW e \in EncoderLayouts, NEW p \in Pixels
  PROVE  Input(c, e)[Place(e.stride, e.lines, p)] = PackedByte(c, p)
<1>1. /\ e.stride \in Nat /\ e.lines \in Nat /\ e.stride >= Width /\ e.lines >= Height
      /\ Width \in Nat /\ Height \in Nat /\ Width >= Width /\ Height >= Height
  BY LayoutsAssumption, PictureAssumption
<1>2. Packed(c)[Place(Width, Height, p)] = PackedByte(c, p)
  <2>1. Packed(c)[Place(Width, Height, p)] =
          PackedByte(c, CHOOSE q \in Pixels : Place(Width, Height, q) = Place(Width, Height, p))
    BY DEF Packed
  <2>2. (CHOOSE q \in Pixels : Place(Width, Height, q) = Place(Width, Height, p)) = p
    BY <1>1, PlaceChosen
  <2> QED
    BY <2>1, <2>2
<1>3. Input(c, e)[Place(e.stride, e.lines, p)] =
        Packed(c)[Place(Width, Height,
          CHOOSE q \in Pixels : Place(e.stride, e.lines, q) = Place(e.stride, e.lines, p))]
  BY DEF Input
<1>4. (CHOOSE q \in Pixels : Place(e.stride, e.lines, q) = Place(e.stride, e.lines, p)) = p
  BY <1>1, PlaceChosen
<1> QED
  BY <1>2, <1>3, <1>4

\* captureFrame finds a pixel of the first plane always, one of the second where the
\* camera has it if it takes the right number of lines, and not the first one if it
\* takes another.
LEMMA PackedFinds ==
  ASSUME NEW c \in CameraLayouts
  PROVE  /\ \A p \in Pixels :
              p[1] = 0 \/ DeriveVirHeight(c.size, c.stride) = c.lines => PackedByte(c, p) = p
         /\ DeriveVirHeight(c.size, c.stride) # c.lines => PackedByte(c, <<1, 0, 0>>) # <<1, 0, 0>>
<1> DEFINE v == DeriveVirHeight(c.size, c.stride)
<1>1. /\ c.stride \in Nat \ {0} /\ c.lines \in Nat /\ c.stride >= Width /\ c.lines >= Height
      /\ v \in Nat
  BY LayoutsAssumption, PictureAssumption, LinesDerived
<1> HIDE DEF v
<1>2. ASSUME NEW p \in Pixels, p[1] = 0 \/ v = c.lines
      PROVE  PackedByte(c, p) = p
  <2>1. p[2] \in Nat /\ p[1] \in {0, 1}
    BY PictureAssumption DEF Pixels
  <2>2. Place(c.stride, v, p) = Place(c.stride, c.lines, p)
    BY <1>1, <1>2, <2>1 DEF Place
  <2> DEFINE there == {q \in Pixels : Place(c.stride, c.lines, q) = Place(c.stride, c.lines, p)}
  <2>3. there = {p}
    BY <1>1, PlacesApart
  <2>4. CameraByte(c, Place(c.stride, c.lines, p)) = p
    BY <2>3 DEF CameraByte
  <2> QED
    BY <2>2, <2>4 DEF PackedByte, v
<1>3. ASSUME v # c.lines
      PROVE  PackedByte(c, <<1, 0, 0>>) # <<1, 0, 0>>
  <2> DEFINE p == <<1, 0, 0>>
             place == Place(c.stride, v, p)
             there == {q \in Pixels : Place(c.stride, c.lines, q) = place}
  <2>1. place = v * c.stride /\ Place(c.stride, c.lines, p) = c.lines * c.stride
    BY <1>1 DEF Place
  <2>2. v < c.lines => v * c.stride + c.stride <= c.lines * c.stride
    BY <1>1, RowsApart
  <2>3. c.lines < v => c.lines * c.stride + c.stride <= v * c.stride
    BY <1>1, RowsApart
  <2>4. v * c.stride # c.lines * c.stride
    BY <1>1, <1>3, <2>2, <2>3, v * c.stride \in Nat, c.lines * c.stride \in Nat
  <2>5. p \notin there
    BY <2>1, <2>4
  <2>6. CASE there = {}
    BY <2>6 DEF PackedByte, CameraByte, Padding, v
  <2>7. CASE there # {}
    <3>1. (CHOOSE q \in there : TRUE) \in there
      BY <2>7
    <3>2. PackedByte(c, p) = CHOOSE q \in there : TRUE
      BY <2>7 DEF PackedByte, CameraByte, v
    <3> HIDE DEF there
    <3> QED
      BY <2>5, <3>1, <3>2
  <2> QED
    BY <2>6, <2>7
<1> QED
  BY <1>2, <1>3 DEF v

\* What the encoder gets of a picture, for all sizes of it and of the camera's buffer and
\* all layouts that the driver and the encoder may choose: the brightness plane whole, the
\* colours in place exactly when the size of the buffer tells where they begin, and no
\* byte from outside of the buffer.
THEOREM PixelsAreInPlace == Spec => []PixelsInPlace
<1>1. ASSUME NEW c \in CameraLayouts, NEW e \in EncoderLayouts
      PROVE  InPlace(c, e, 0) /\ (InPlace(c, e, 1) <=> SizeTells(c))
  <2>1. InPlace(c, e, 0) /\ (SizeTells(c) => InPlace(c, e, 1))
    BY InputIsPacked, PackedFinds, LinesDerived DEF InPlace
  <2>2. <<1, 0, 0>> \in Pixels
    BY PictureAssumption DEF Pixels
  <2>3. ~SizeTells(c) => ~InPlace(c, e, 1)
    BY <2>2, InputIsPacked, PackedFinds, LinesDerived DEF InPlace
  <2> QED
    BY <2>1, <2>3
<1>2. PixelsInPlace
  BY <1>1, ReadsStayInside DEF PixelsInPlace, PicturesArrive
<1> QED
  BY <1>2, PTL
=============================================================================
