--------------------------- MODULE CameraPipeline ---------------------------
(***************************************************************************)
(* camera/src/main.cpp: the threads of the camera process and what they    *)
(* share.                                                                  *)
(*                                                                         *)
(*   capture --encode_queue--> encode --TCP--> gateway                     *)
(*          \--ai_queue------> ai ----overlay snapshot----> encode         *)
(*                                                                         *)
(* main polls g_running, stops both queues when it is false and joins the  *)
(* threads.  Both queues are instances of FrameQueue, condition variable   *)
(* included.  A step reaches one shared object; what a thread does to its  *)
(* own locals is folded into the step that follows.                        *)
(*                                                                         *)
(* Frame n is the frame with sequence n - 1, the n-th one captured.  Only  *)
(* every InferEveryN-th goes to the AI thread, so the k-th frame of        *)
(* ai_queue is frame AiFrame(k).                                           *)
(***************************************************************************)
EXTENDS Naturals, Integers, Sequences, FiniteSets

CONSTANTS
  EncodeCapacity,  \* config.encode_queue_capacity
  AiCapacity,      \* config.ai_queue_capacity
  InferEveryN,     \* config.ai.infer_every_n_frames
  StaleFrames,     \* config.overlay_stale_frames
  MaxFrames        \* bound on the number of frames the camera delivers

ASSUME CapacitiesAssumption ==
  EncodeCapacity \in Nat \ {0} /\ AiCapacity \in Nat \ {0}
ASSUME IntervalAssumption ==
  InferEveryN \in Nat \ {0} /\ StaleFrames \in Nat \ {0}
ASSUME MaxFramesAssumption == MaxFrames \in Nat

VARIABLES
  running,    \* g_running
  ai_ready,   \* whether the detector initialised: without it there is no AI thread
  pc,         \* where each thread is
  encQueue, encStopped, encDropped, encWaiting, encWoken, encFinished,
  encPushed, encTaken,    \* encode_queue
  aiQueue, aiStopped, aiDropped, aiWaiting, aiWoken, aiFinished,
  aiPushed, aiTaken,      \* ai_queue
  snapshot,   \* DetectionOverlay::snapshot_: the frame of the last result, 0 if none
  copied,     \* the copy of snapshot_ that apply works on, 0 outside apply
  boxes,      \* the result drawn on the frame to be encoded, 0 if none
  counts,     \* the counters of MetricsCollector
  venc,       \* what the hardware encoder holds: frames in, packets out, in order
  packet,     \* h264_packet to be sent: the frame it encodes and its boxes
  discarded,  \* calls of encode that failed, which nothing counts
  sent,       \* packets handed to TCP
  late        \* packets handed to TCP after g_running became false

encVars == <<encQueue, encStopped, encDropped, encWaiting, encWoken,
             encFinished, encPushed, encTaken>>
aiVars == <<aiQueue, aiStopped, aiDropped, aiWaiting, aiWoken,
            aiFinished, aiPushed, aiTaken>>
overlayVars == <<snapshot, copied, boxes>>
encoderVars == <<venc, packet, discarded>>
sentVars == <<encoderVars, sent, late>>
vars == <<running, ai_ready, pc, encVars, aiVars, overlayVars, counts, sentVars>>

EncQ == INSTANCE FrameQueue WITH
  Capacity <- EncodeCapacity, Consumers <- {"encode"}, MaxPushes <- MaxFrames,
  queue <- encQueue, stopped <- encStopped, dropped_frames <- encDropped,
  waiting <- encWaiting, woken <- encWoken, finished <- encFinished,
  pushed <- encPushed, taken <- encTaken

AiQ == INSTANCE FrameQueue WITH
  Capacity <- AiCapacity, Consumers <- {"ai"}, MaxPushes <- MaxFrames,
  queue <- aiQueue, stopped <- aiStopped, dropped_frames <- aiDropped,
  waiting <- aiWaiting, woken <- aiWoken, finished <- aiFinished,
  pushed <- aiPushed, taken <- aiTaken

Threads == {"main", "capture", "encode", "ai", "metrics"}

Counters == {"captured", "encoded", "ai", "sent", "events", "encDrops", "aiDrops"}

AiFrame(k) == (k - 1) * InferEveryN + 1

\* frame.sequence % infer_every_n_frames == 0, for the frame just captured.
InferThisFrame(n) == ai_ready /\ (n - 1) % InferEveryN = 0

\* The frame a consumer got from its last waitAndPop.
EncodeFrame == encTaken[Len(encTaken)]
InferredFrame == AiFrame(aiTaken[Len(aiTaken)])

NoPacket == [frame |-> 0, boxes |-> 0]

At(t, label) == pc[t] = label
Goto(t, label) == pc' = [pc EXCEPT ![t] = label]
Record(c) == counts' = [counts EXCEPT ![c] = @ + 1]

Init ==
  /\ running = TRUE
  /\ ai_ready \in BOOLEAN
  /\ pc = [t \in Threads |->
             CASE t = "main" -> "poll"
               [] t = "capture" -> "check"
               [] t = "encode" -> "connect"
               [] t = "ai" -> IF ai_ready THEN "check" ELSE "done"
               [] t = "metrics" -> "sleep"]
  /\ EncQ!Init
  /\ AiQ!Init
  /\ snapshot = 0 /\ copied = 0 /\ boxes = 0
  /\ counts = [c \in Counters |-> 0]
  /\ venc = << >> /\ packet = NoPacket /\ discarded = 0
  /\ sent = << >> /\ late = 0

-----------------------------------------------------------------------------
(* Every loop tests g_running at its head.                                 *)

LoopTest(t, body) ==
  /\ At(t, "check")
  /\ Goto(t, IF running THEN body ELSE "done")
  /\ UNCHANGED <<running, ai_ready, encVars, aiVars, overlayVars, counts, sentVars>>

-----------------------------------------------------------------------------
(* The capture thread.                                                     *)

CaptureCheck == LoopTest("capture", "grab")

\* captureFrame timed out or an ioctl failed: continue.
CaptureFails ==
  /\ At("capture", "grab")
  /\ Goto("capture", "check")
  /\ UNCHANGED <<running, ai_ready, encVars, aiVars, overlayVars, counts, sentVars>>

\* Where the capture thread goes once the frame is in encode_queue and its
\* drop, if any, is recorded.
AfterEncodePush(n) == IF InferThisFrame(n) THEN "pushAi" ELSE "record"

\* captureFrame has a frame.
CaptureFrame ==
  /\ At("capture", "grab")
  /\ encPushed < MaxFrames
  /\ Goto("capture", "pushEncode")
  /\ UNCHANGED <<running, ai_ready, encVars, aiVars, overlayVars, counts, sentVars>>

\* Mutant: the capture thread waits for room in encode_queue.
CapturePushEncodeWaits ==
  /\ At("capture", "pushEncode")
  /\ ~EncQ!Full
  /\ EncQ!Push
  /\ Goto("capture", AfterEncodePush(encPushed + 1))
  /\ UNCHANGED <<running, ai_ready, aiVars, overlayVars, counts, sentVars>>

CapturePushEncode ==
  /\ At("capture", "pushEncode")
  /\ EncQ!Push
  /\ Goto("capture",
       IF EncQ!Full THEN "encDrop" ELSE AfterEncodePush(encPushed + 1))
  /\ UNCHANGED <<running, ai_ready, aiVars, overlayVars, counts, sentVars>>

RecordEncodeQueueDrop ==
  /\ At("capture", "encDrop")
  /\ Record("encDrops")
  /\ Goto("capture", AfterEncodePush(encPushed))
  /\ UNCHANGED <<running, ai_ready, encVars, aiVars, overlayVars, sentVars>>

\* Mutant: the capture thread waits for room in ai_queue.
CapturePushAiWaits ==
  /\ At("capture", "pushAi")
  /\ ~AiQ!Full
  /\ AiQ!Push
  /\ Goto("capture", "record")
  /\ UNCHANGED <<running, ai_ready, encVars, overlayVars, counts, sentVars>>

CapturePushAi ==
  /\ At("capture", "pushAi")
  /\ AiQ!Push
  /\ Goto("capture", IF AiQ!Full THEN "aiDrop" ELSE "record")
  /\ UNCHANGED <<running, ai_ready, encVars, overlayVars, counts, sentVars>>

RecordAiQueueDrop ==
  /\ At("capture", "aiDrop")
  /\ Record("aiDrops")
  /\ Goto("capture", "record")
  /\ UNCHANGED <<running, ai_ready, encVars, aiVars, overlayVars, sentVars>>

RecordCapture ==
  /\ At("capture", "record")
  /\ Record("captured")
  /\ Goto("capture", "check")
  /\ UNCHANGED <<running, ai_ready, encVars, aiVars, overlayVars, sentVars>>

CaptureThread ==
  \/ CaptureCheck \/ CaptureFails \/ CaptureFrame \/ CapturePushEncode
  \/ RecordEncodeQueueDrop \/ CapturePushAi \/ RecordAiQueueDrop \/ RecordCapture

-----------------------------------------------------------------------------
(* The encode and stream thread.                                           *)

Connect ==
  /\ At("encode", "connect")
  /\ \/ Goto("encode", "check") /\ UNCHANGED running
     \/ Goto("encode", "abort") /\ running' = FALSE
  /\ UNCHANGED <<ai_ready, encVars, aiVars, overlayVars, counts, sentVars>>

\* connectOnce failed: stop both queues and return.
AbortStopEncode ==
  /\ At("encode", "abort")
  /\ EncQ!Stop
  /\ Goto("encode", "abortAi")
  /\ UNCHANGED <<running, ai_ready, aiVars, overlayVars, counts, sentVars>>

AbortStopAi ==
  /\ At("encode", "abortAi")
  /\ AiQ!Stop
  /\ Goto("encode", "done")
  /\ UNCHANGED <<running, ai_ready, encVars, overlayVars, counts, sentVars>>

\* Mutant: the loop asks the queue only, so a stopped queue is drained.
EncodeCheckDrains ==
  /\ At("encode", "check")
  /\ Goto("encode", "pop")
  /\ UNCHANGED <<running, ai_ready, encVars, aiVars, overlayVars, counts, sentVars>>

EncodeCheck == LoopTest("encode", "pop")

\* Mutant: the result of waitAndPop is ignored.
EncodePopIgnoresResult ==
  /\ At("encode", "pop")
  /\ EncQ!WaitAndPop("encode")
  /\ Goto("encode", CASE encTaken' # << >> -> "apply"
                      [] encTaken' = << >> /\ encStopped -> "done"
                      [] OTHER -> "pop")
  /\ UNCHANGED <<running, ai_ready, aiVars, overlayVars, counts, sentVars>>

\* One evaluation of waitAndPop's predicate: a frame, the end of the loop, or
\* the thread blocks in the call.
EncodePop ==
  /\ At("encode", "pop")
  /\ EncQ!WaitAndPop("encode")
  /\ Goto("encode", CASE encQueue # << >> -> "apply"
                      [] encQueue = << >> /\ encStopped -> "done"
                      [] OTHER -> "pop")
  /\ UNCHANGED <<running, ai_ready, aiVars, overlayVars, counts, sentVars>>

\* Mutant: the frame waits for its inference.
OverlayCopyWaits ==
  /\ At("encode", "apply")
  /\ ai_ready => snapshot >= EncodeFrame
  /\ copied' = snapshot
  /\ Goto("encode", "draw")
  /\ UNCHANGED <<running, ai_ready, encVars, aiVars, snapshot, boxes, counts, sentVars>>

\* DetectionOverlay::apply copies the snapshot under the lock ...
OverlayCopy ==
  /\ At("encode", "apply")
  /\ copied' = snapshot
  /\ Goto("encode", "draw")
  /\ UNCHANGED <<running, ai_ready, encVars, aiVars, snapshot, boxes, counts, sentVars>>

\* ... and decides and draws from the copy, without it.
Drawable(r) == r # 0 /\ EncodeFrame >= r /\ EncodeFrame - r <= StaleFrames

\* Mutant: the copy is tested, snapshot_ itself is drawn.
OverlayDrawRereads ==
  /\ At("encode", "draw")
  /\ boxes' = IF Drawable(copied) THEN snapshot ELSE 0
  /\ copied' = 0
  /\ Goto("encode", "encode")
  /\ UNCHANGED <<running, ai_ready, encVars, aiVars, snapshot, counts, sentVars>>

OverlayDraw ==
  /\ At("encode", "draw")
  /\ boxes' = IF Drawable(copied) THEN copied ELSE 0
  /\ copied' = 0
  /\ Goto("encode", "encode")
  /\ UNCHANGED <<running, ai_ready, encVars, aiVars, snapshot, counts, sentVars>>

\* encoder.encode and recordEncode.  The encoder may refuse the frame; or take it
\* and not give a packet in time, which then stays inside and comes out next time;
\* or give a packet without bytes.  Each of these skips the frame.
Encode ==
  LET held == Append(venc, [frame |-> EncodeFrame, boxes |-> boxes]) IN
  /\ At("encode", "encode")
  /\ boxes' = 0
  /\ \/ /\ venc' \in {venc, held, Tail(held)}
        /\ discarded' = discarded + 1
        /\ Goto("encode", "check")
        /\ UNCHANGED <<packet, counts>>
     \/ /\ packet' = Head(held) /\ venc' = Tail(held)
        /\ Record("encoded")
        /\ Goto("encode", "send")
        /\ UNCHANGED discarded
  /\ UNCHANGED <<running, ai_ready, encVars, aiVars, snapshot, copied, sent, late>>

SendPacket ==
  /\ At("encode", "send")
  /\ sent' = Append(sent, packet)
  /\ packet' = NoPacket
  /\ late' = IF running THEN late ELSE late + 1
  /\ Goto("encode", "recordBytes")
  /\ UNCHANGED <<running, ai_ready, encVars, aiVars, overlayVars, counts, venc, discarded>>

\* The connection is gone: the whole process winds down.
SendFails ==
  /\ At("encode", "send")
  /\ running' = FALSE
  /\ packet' = NoPacket
  /\ Goto("encode", "done")
  /\ UNCHANGED <<ai_ready, encVars, aiVars, overlayVars, counts, venc, discarded, sent, late>>

RecordBytesSent ==
  /\ At("encode", "recordBytes")
  /\ Record("sent")
  /\ Goto("encode", "check")
  /\ UNCHANGED <<running, ai_ready, encVars, aiVars, overlayVars, sentVars>>

EncodeThread ==
  \/ Connect \/ AbortStopEncode \/ AbortStopAi \/ EncodeCheck \/ EncodePop
  \/ OverlayCopy \/ OverlayDraw \/ Encode \/ SendPacket \/ SendFails
  \/ RecordBytesSent

-----------------------------------------------------------------------------
(* The AI thread.                                                          *)

AiCheck == LoopTest("ai", "pop")

AiPop ==
  /\ At("ai", "pop")
  /\ AiQ!WaitAndPop("ai")
  /\ Goto("ai", CASE aiQueue # << >> -> "infer"
                  [] aiQueue = << >> /\ aiStopped -> "done"
                  [] OTHER -> "pop")
  /\ UNCHANGED <<running, ai_ready, encVars, overlayVars, counts, sentVars>>

\* An invalid result is skipped; a valid one becomes the snapshot.
InferInvalid ==
  /\ At("ai", "infer")
  /\ Goto("ai", "check")
  /\ UNCHANGED <<running, ai_ready, encVars, aiVars, overlayVars, counts, sentVars>>

\* rknn_run has no timeout: a hung NPU keeps the AI thread for good.
InferHangs ==
  /\ At("ai", "infer")
  /\ Goto("ai", "hung")
  /\ UNCHANGED <<running, ai_ready, encVars, aiVars, overlayVars, counts, sentVars>>

OverlayUpdate ==
  /\ At("ai", "infer")
  /\ snapshot' = InferredFrame
  /\ Goto("ai", "recordAi")
  /\ UNCHANGED <<running, ai_ready, encVars, aiVars, copied, boxes, counts, sentVars>>

\* Only a result with detections is written to the event log.
RecordAi ==
  /\ At("ai", "recordAi")
  /\ Record("ai")
  /\ \E detections \in BOOLEAN : Goto("ai", IF detections THEN "event" ELSE "check")
  /\ UNCHANGED <<running, ai_ready, encVars, aiVars, overlayVars, sentVars>>

RecordEventWritten ==
  /\ At("ai", "event")
  /\ Record("events")
  /\ Goto("ai", "check")
  /\ UNCHANGED <<running, ai_ready, encVars, aiVars, overlayVars, sentVars>>

AiThread ==
  \/ AiCheck \/ AiPop \/ InferInvalid \/ InferHangs \/ OverlayUpdate
  \/ RecordAi \/ RecordEventWritten

-----------------------------------------------------------------------------
(* The metrics thread, the main thread and the signal handler.             *)

\* The thread sleeps in slices of 100 ms and writes a sample every interval, and
\* one more when it finds g_running false.  It changes nothing but its own file.
MetricsThread ==
  /\ At("metrics", "sleep")
  /\ ~running
  /\ Goto("metrics", "done")
  /\ UNCHANGED <<running, ai_ready, encVars, aiVars, overlayVars, counts, sentVars>>

MainStopEncode ==
  /\ At("main", "poll")
  /\ ~running
  /\ EncQ!Stop
  /\ Goto("main", "stopAi")
  /\ UNCHANGED <<running, ai_ready, aiVars, overlayVars, counts, sentVars>>

\* Mutant: main stops the encode queue only.
MainForgetsAi ==
  /\ At("main", "stopAi")
  /\ Goto("main", "capture")
  /\ UNCHANGED <<running, ai_ready, encVars, aiVars, overlayVars, counts, sentVars>>

MainStopAi ==
  /\ At("main", "stopAi")
  /\ AiQ!Stop
  /\ Goto("main", "capture")
  /\ UNCHANGED <<running, ai_ready, encVars, overlayVars, counts, sentVars>>

\* Mutant: the threads are detached.
Detach(t, next) ==
  /\ At("main", t)
  /\ Goto("main", next)
  /\ UNCHANGED <<running, ai_ready, encVars, aiVars, overlayVars, counts, sentVars>>

\* join: main is at the name of the thread it waits for.
Join(t, next) ==
  /\ At("main", t)
  /\ At(t, "done")
  /\ Goto("main", next)
  /\ UNCHANGED <<running, ai_ready, encVars, aiVars, overlayVars, counts, sentVars>>

MainThread ==
  \/ MainStopEncode \/ MainStopAi
  \/ Join("capture", "encode") \/ Join("encode", "ai")
  \/ Join("ai", "metrics") \/ Join("metrics", "exited")

\* SIGINT or SIGTERM, at any time.
HandleSignal ==
  /\ running
  /\ running' = FALSE
  /\ UNCHANGED <<ai_ready, pc, encVars, aiVars, overlayVars, counts, sentVars>>

SpuriousWakeup ==
  /\ \/ EncQ!SpuriousWakeup("encode") /\ UNCHANGED aiVars
     \/ AiQ!SpuriousWakeup("ai") /\ UNCHANGED encVars
  /\ UNCHANGED <<running, ai_ready, pc, overlayVars, counts, sentVars>>

\* The process is gone, or main waits for ever for the thread in a hung infer.
Terminated ==
  /\ At("main", "exited") \/ (At("main", "ai") /\ At("ai", "hung"))
  /\ UNCHANGED vars

Next ==
  \/ CaptureThread \/ EncodeThread \/ AiThread \/ MetricsThread \/ MainThread
  \/ HandleSignal \/ SpuriousWakeup \/ Terminated

Spec == Init /\ [][Next]_vars

\* Every thread is scheduled, and the calls it makes return: the select of
\* captureFrame and the calls of encode have timeouts; that connect and send return
\* is assumed of the kernel and the gateway.  Of infer nothing is assumed.
FairSpec ==
  /\ Spec
  /\ WF_vars(CaptureThread) /\ WF_vars(EncodeThread) /\ WF_vars(AiThread)
  /\ WF_vars(MetricsThread) /\ WF_vars(MainThread)

-----------------------------------------------------------------------------
(* Properties                                                              *)

Labels ==
  [main    |-> {"poll", "stopAi", "capture", "encode", "ai", "metrics", "exited"},
   capture |-> {"check", "grab", "pushEncode", "encDrop", "pushAi", "aiDrop",
                "record", "done"},
   encode  |-> {"connect", "abort", "abortAi", "check", "pop", "apply", "draw",
                "encode", "send", "recordBytes", "done"},
   ai      |-> {"check", "pop", "infer", "hung", "recordAi", "event", "done"},
   metrics |-> {"sleep", "done"}]

TypeOK ==
  /\ running \in BOOLEAN /\ ai_ready \in BOOLEAN
  /\ pc \in [Threads -> UNION {Labels[t] : t \in Threads}]
  /\ \A t \in Threads : pc[t] \in Labels[t]
  /\ EncQ!TypeOK /\ AiQ!TypeOK
  /\ snapshot \in 0 .. MaxFrames /\ copied \in 0 .. MaxFrames /\ boxes \in 0 .. MaxFrames
  /\ counts \in [Counters -> 0 .. MaxFrames]
  /\ discarded \in 0 .. MaxFrames /\ late \in 0 .. MaxFrames
  /\ packet \in [frame : 0 .. MaxFrames, boxes : 0 .. MaxFrames]
  /\ venc \in Seq([frame : 1 .. MaxFrames, boxes : 0 .. MaxFrames])
  /\ sent \in Seq([frame : 1 .. MaxFrames, boxes : 0 .. MaxFrames])

\* At exit the metrics tell what became of every frame: captured ones were
\* encoded, dropped by the queue, skipped by the encoder, or left in the queue; at
\* most one encoded packet, the one whose send failed, did not reach TCP; the
\* AI queue accounts for every InferEveryN-th frame in the same way.
FateAtExit ==
  At("main", "exited") =>
    /\ counts["captured"] = encPushed
    /\ encPushed = counts["encoded"] + discarded + counts["encDrops"] + Len(encQueue)
    /\ counts["sent"] = Len(sent)
    /\ counts["encoded"] - counts["sent"] \in {0, 1}
    /\ ai_ready =>
         /\ Len(aiTaken) + counts["aiDrops"] + Len(aiQueue)
              = (encPushed + InferEveryN - 1) \div InferEveryN
         /\ counts["events"] <= counts["ai"] /\ counts["ai"] <= Len(aiTaken)

\* The boxes on a frame come from a frame the AI thread did infer, never from a
\* later frame than the one they are drawn on and never from one more than
\* overlay_stale_frames older, although the AI thread may replace the snapshot
\* while the encode thread draws.
BoxesFresh ==
  \A i \in 1 .. Len(sent) : sent[i].boxes # 0 =>
    /\ sent[i].frame - sent[i].boxes \in 0 .. StaleFrames
    /\ \E k \in 1 .. Len(aiTaken) : AiFrame(aiTaken[k]) = sent[i].boxes

\* Frames leave for the gateway in the order of capture, none twice, and the
\* boxes drawn never go back to an older result.
WireOrder ==
  \A i, j \in 1 .. Len(sent) : i < j =>
    /\ sent[i].frame < sent[j].frame
    /\ sent[i].boxes # 0 /\ sent[j].boxes # 0 => sent[i].boxes <= sent[j].boxes

\* Once g_running is false the encode thread sends the frame it has in hand at
\* most: it does not drain its queue, whoever cleared the flag and whenever.
StopsSending == late <= 1

\* The capture thread never waits for a consumer: wherever it is in its loop, before
\* the push to encode_queue and before that to ai_queue included, it has a step to
\* take, also when this queue is full and its consumer is stuck or gone.
CaptureNeverWaits == ~At("capture", "done") => ENABLED CaptureThread

\* Whatever ends the run (a signal, no gateway, a lost connection), every thread
\* leaves its loop, also one blocked on its queue, and main joins them all, unless
\* the NPU hangs.
ShutdownCompletes == ~running ~> (At("main", "exited") \/ At("ai", "hung"))

\* A slow or hung inference does not hold up the video: the encode thread keeps
\* emptying its queue even if the AI thread never comes back from infer.
VideoIndependentOfAi == encQueue # << >> ~> (encQueue = << >> \/ ~running)
=============================================================================
