------------------------ MODULE CameraPipelineProofs ------------------------
(***************************************************************************)
(* Proofs about CameraPipeline for all capacities, every inference         *)
(* interval, every limit of staleness and any number of frames.  What      *)
(* FrameQueueProofs proves of a frame queue is carried over to the two     *)
(* queues of the pipeline by the refinement; the invariants of the threads *)
(* are proved on top of it.                                                *)
(***************************************************************************)
EXTENDS CameraPipeline, TLAPS

EncP == INSTANCE FrameQueueProofs WITH
  Capacity <- EncodeCapacity, Consumers <- {"encode"}, MaxPushes <- MaxFrames,
  queue <- encQueue, stopped <- encStopped, dropped_frames <- encDropped,
  waiting <- encWaiting, woken <- encWoken, finished <- encFinished,
  pushed <- encPushed, taken <- encTaken

AiP == INSTANCE FrameQueueProofs WITH
  Capacity <- AiCapacity, Consumers <- {"ai"}, MaxPushes <- MaxFrames,
  queue <- aiQueue, stopped <- aiStopped, dropped_frames <- aiDropped,
  waiting <- aiWaiting, woken <- aiWoken, finished <- aiFinished,
  pushed <- aiPushed, taken <- aiTaken

\* What is known of a queue whoever uses it.
EncSound ==
  EncQ!TypeOK /\ EncQ!HoldsNewest /\ EncQ!Accounted /\ EncQ!InOrder /\ EncQ!NoLostWakeup
AiSound ==
  /\ AiQ!TypeOK /\ AiQ!HoldsNewest /\ AiQ!Accounted /\ AiQ!InOrder /\ AiQ!NoLostWakeup
  /\ \A i \in 1 .. Len(aiTaken) : aiTaken[i] <= aiPushed - Len(aiQueue)

-----------------------------------------------------------------------------
(* The queues.                                                             *)

LEMMA OneThreadIsFinite ==
  ASSUME NEW t
  PROVE  \E seq \in Seq({t}) : \A s \in {t} : \E n \in 1 .. Len(seq) : seq[n] = s
<1>1. /\ <<t>> \in Seq({t}) /\ Len(<<t>>) = 1 /\ <<t>>[1] = t
  OBVIOUS
<1> WITNESS <<t>> \in Seq({t})
<1> QED
  BY <1>1

\* What the queue's module assumes of its parameters holds of encode_queue.
LEMMA EncodeQueueAssumptions ==
  EncP!CapacityAssumption /\ EncP!ConsumersAssumption /\ EncP!MaxPushesAssumption
<1>1. EncP!CapacityAssumption
  BY CapacitiesAssumption DEF EncP!CapacityAssumption
<1>2. EncP!ConsumersAssumption
  BY OneThreadIsFinite DEF EncP!ConsumersAssumption, EncP!IsFiniteSet
<1>3. EncP!MaxPushesAssumption
  BY MaxFramesAssumption DEF EncP!MaxPushesAssumption
<1> QED
  BY <1>1, <1>2, <1>3

LEMMA EncodeQueueSound == EncQ!Spec => []EncSound
<1>1. EncQ!Init => EncP!Init
  BY DEF EncP!Init, EncQ!Init
<1>2. [EncQ!Next]_(EncQ!vars) => [EncP!Next]_(EncP!vars)
  BY DEF EncP!Next, EncQ!Next, EncP!vars, EncQ!vars, EncP!Push, EncQ!Push, EncP!Full, EncQ!Full,
    EncP!NotifyOne, EncQ!NotifyOne, EncP!Stop, EncQ!Stop, EncP!WaitAndPop, EncQ!WaitAndPop,
    EncP!SpuriousWakeup, EncQ!SpuriousWakeup, EncP!Take, EncQ!Take, EncP!GiveUp, EncQ!GiveUp,
    EncP!Block, EncQ!Block
<1>3. EncP!TypeOK /\ EncP!HoldsNewest /\ EncP!Accounted /\ EncP!InOrder => 
        EncQ!TypeOK /\ EncQ!HoldsNewest /\ EncQ!Accounted /\ EncQ!InOrder
  BY DEF EncP!TypeOK, EncQ!TypeOK, EncP!HoldsNewest, EncQ!HoldsNewest,
    EncP!Accounted, EncQ!Accounted, EncP!InOrder, EncQ!InOrder
<1>4. EncP!NoLostWakeup => EncQ!NoLostWakeup
  BY DEF EncP!NoLostWakeup, EncQ!NoLostWakeup, EncP!Cardinality, EncQ!Cardinality,
    EncP!IsFiniteSet, EncQ!IsFiniteSet
<1>5. EncP!Spec => /\ []EncP!TypeOK /\ []EncP!HoldsNewest /\ []EncP!Accounted
                  /\ []EncP!InOrder /\ []EncP!NoLostWakeup
  BY EncodeQueueAssumptions, EncP!TypeCorrect, EncP!QueueHoldsNewest, EncP!DropsAccounted,
    EncP!FramesInOrder, EncP!WakeupNotLost
<1>6. EncP!TypeOK /\ EncP!HoldsNewest /\ EncP!Accounted /\ EncP!InOrder /\ EncP!NoLostWakeup
        => EncSound
  BY <1>3, <1>4 DEF EncSound
<1> QED
  BY <1>1, <1>2, <1>5, <1>6, PTL DEF EncQ!Spec, EncP!Spec

\* What the queue's module assumes of its parameters holds of ai_queue.
LEMMA AiQueueAssumptions ==
  AiP!CapacityAssumption /\ AiP!ConsumersAssumption /\ AiP!MaxPushesAssumption
<1>1. AiP!CapacityAssumption
  BY CapacitiesAssumption DEF AiP!CapacityAssumption
<1>2. AiP!ConsumersAssumption
  BY OneThreadIsFinite DEF AiP!ConsumersAssumption, AiP!IsFiniteSet
<1>3. AiP!MaxPushesAssumption
  BY MaxFramesAssumption DEF AiP!MaxPushesAssumption
<1> QED
  BY <1>1, <1>2, <1>3

LEMMA AiQueueSound == AiQ!Spec => []AiSound
<1>1. AiQ!Init => AiP!Init
  BY DEF AiP!Init, AiQ!Init
<1>2. [AiQ!Next]_(AiQ!vars) => [AiP!Next]_(AiP!vars)
  BY DEF AiP!Next, AiQ!Next, AiP!vars, AiQ!vars, AiP!Push, AiQ!Push, AiP!Full, AiQ!Full,
    AiP!NotifyOne, AiQ!NotifyOne, AiP!Stop, AiQ!Stop, AiP!WaitAndPop, AiQ!WaitAndPop,
    AiP!SpuriousWakeup, AiQ!SpuriousWakeup, AiP!Take, AiQ!Take, AiP!GiveUp, AiQ!GiveUp,
    AiP!Block, AiQ!Block
<1>3. AiP!TypeOK /\ AiP!HoldsNewest /\ AiP!Accounted /\ AiP!InOrder => 
        AiQ!TypeOK /\ AiQ!HoldsNewest /\ AiQ!Accounted /\ AiQ!InOrder
  BY DEF AiP!TypeOK, AiQ!TypeOK, AiP!HoldsNewest, AiQ!HoldsNewest,
    AiP!Accounted, AiQ!Accounted, AiP!InOrder, AiQ!InOrder
<1>4. AiP!NoLostWakeup => AiQ!NoLostWakeup
  BY DEF AiP!NoLostWakeup, AiQ!NoLostWakeup, AiP!Cardinality, AiQ!Cardinality,
    AiP!IsFiniteSet, AiQ!IsFiniteSet
<1>5. AiP!Spec => /\ []AiP!TypeOK /\ []AiP!HoldsNewest /\ []AiP!Accounted
                  /\ []AiP!InOrder /\ []AiP!NoLostWakeup
  BY AiQueueAssumptions, AiP!TypeCorrect, AiP!QueueHoldsNewest, AiP!DropsAccounted,
    AiP!FramesInOrder, AiP!WakeupNotLost
<1>6. AiP!Spec => []AiP!TakenBehind
  <2>1. AiP!Init => AiP!IInv
    BY AiQueueAssumptions, AiP!InitIInv
  <2>2. AiP!IInv /\ [AiP!Next]_(AiP!vars) => AiP!IInv'
    BY AiQueueAssumptions, AiP!NextIInv
  <2>3. AiP!IInv => AiP!TakenBehind
    BY DEF AiP!IInv
  <2> QED
    BY <2>1, <2>2, <2>3, PTL DEF AiP!Spec
<1>7. AiP!TypeOK /\ AiP!HoldsNewest /\ AiP!Accounted /\ AiP!InOrder /\ AiP!NoLostWakeup
        /\ AiP!TakenBehind => AiSound
  <2>1. AiP!TakenBehind => \A i \in 1 .. Len(aiTaken) : aiTaken[i] <= aiPushed - Len(aiQueue)
    BY DEF AiP!TakenBehind
  <2>2. AiP!TypeOK /\ AiP!HoldsNewest /\ AiP!Accounted /\ AiP!InOrder /\ AiP!NoLostWakeup
          => AiQ!TypeOK /\ AiQ!HoldsNewest /\ AiQ!Accounted /\ AiQ!InOrder /\ AiQ!NoLostWakeup
    BY <1>3, <1>4
  <2> QED
    BY <2>1, <2>2, Zenon DEF AiSound
<1> QED
  BY <1>1, <1>2, <1>5, <1>6, <1>7, PTL DEF AiQ!Spec, AiP!Spec

-----------------------------------------------------------------------------
\* What a step of the pipeline does to a queue: a method of the queue, called by
\* the thread that owns that end of it, or nothing.
LEMMA EncodeQueueSteps ==
  [Next]_vars => \/ EncQ!Push \/ EncQ!Stop \/ EncQ!WaitAndPop("encode")
                 \/ EncQ!SpuriousWakeup("encode") \/ UNCHANGED encVars
<1> SUFFICES ASSUME [Next]_vars
             PROVE  \/ EncQ!Push \/ EncQ!Stop \/ EncQ!WaitAndPop("encode")
                    \/ EncQ!SpuriousWakeup("encode") \/ UNCHANGED encVars
  OBVIOUS
<1>1. CASE CaptureThread
  BY <1>1 DEF CaptureThread, CaptureCheck, LoopTest, CaptureFails, CaptureFrame,
    CapturePushEncode, RecordEncodeQueueDrop, CapturePushAi, RecordAiQueueDrop, RecordCapture
<1>2. CASE EncodeThread
  BY <1>2 DEF EncodeThread, Connect, AbortStopEncode, AbortStopAi, EncodeCheck, LoopTest,
    EncodePop, OverlayCopy, OverlayDraw, Encode, SendPacket, SendFails, RecordBytesSent
<1>3. CASE AiThread
  BY <1>3 DEF AiThread, AiCheck, LoopTest, AiPop, InferInvalid, InferHangs, OverlayUpdate,
    RecordAi, RecordEventWritten
<1>4. CASE MetricsThread \/ MainThread \/ HandleSignal \/ SpuriousWakeup \/ Terminated
  BY <1>4 DEF MetricsThread, MainThread, MainStopEncode, MainStopAi, Join, HandleSignal,
    SpuriousWakeup, Terminated, vars
<1> QED
  BY <1>1, <1>2, <1>3, <1>4 DEF Next, vars

LEMMA AiQueueSteps ==
  [Next]_vars => \/ AiQ!Push \/ AiQ!Stop \/ AiQ!WaitAndPop("ai")
                 \/ AiQ!SpuriousWakeup("ai") \/ UNCHANGED aiVars
<1> SUFFICES ASSUME [Next]_vars
             PROVE  \/ AiQ!Push \/ AiQ!Stop \/ AiQ!WaitAndPop("ai")
                    \/ AiQ!SpuriousWakeup("ai") \/ UNCHANGED aiVars
  OBVIOUS
<1>1. CASE CaptureThread
  BY <1>1 DEF CaptureThread, CaptureCheck, LoopTest, CaptureFails, CaptureFrame,
    CapturePushEncode, RecordEncodeQueueDrop, CapturePushAi, RecordAiQueueDrop, RecordCapture
<1>2. CASE EncodeThread
  BY <1>2 DEF EncodeThread, Connect, AbortStopEncode, AbortStopAi, EncodeCheck, LoopTest,
    EncodePop, OverlayCopy, OverlayDraw, Encode, SendPacket, SendFails, RecordBytesSent
<1>3. CASE AiThread
  BY <1>3 DEF AiThread, AiCheck, LoopTest, AiPop, InferInvalid, InferHangs, OverlayUpdate,
    RecordAi, RecordEventWritten
<1>4. CASE MetricsThread \/ MainThread \/ HandleSignal \/ SpuriousWakeup \/ Terminated
  BY <1>4 DEF MetricsThread, MainThread, MainStopEncode, MainStopAi, Join, HandleSignal,
    SpuriousWakeup, Terminated, vars
<1> QED
  BY <1>1, <1>2, <1>3, <1>4 DEF Next, vars

\* The threads of main.cpp touch a queue by its methods only, so the behaviours of the
\* pipeline, seen from one queue, are behaviours of FrameQueue.
LEMMA EachQueueBehaves == Spec => EncQ!Spec /\ AiQ!Spec
<1>1. Init => EncQ!Init /\ AiQ!Init
  BY DEF Init
<1>2. [Next]_vars => [EncQ!Next]_(EncQ!vars)
  BY EncodeQueueSteps DEF EncQ!Next, EncQ!vars, encVars
<1>3. [Next]_vars => [AiQ!Next]_(AiQ!vars)
  BY AiQueueSteps DEF AiQ!Next, AiQ!vars, aiVars
<1> QED
  BY <1>1, <1>2, <1>3, PTL DEF Spec, EncQ!Spec, AiQ!Spec

\* What FrameQueue proves therefore holds of both queues of the process: each keeps
\* its newest frames, hands them out in order, counts its drops, and leaves no thread
\* asleep next to a frame.
THEOREM BothQueuesSound == Spec => [](EncSound /\ AiSound)
  BY EachQueueBehaves, EncodeQueueSound, AiQueueSound, PTL

-----------------------------------------------------------------------------
(* Where the threads are.                                                  *)

PcOK ==
  /\ running \in BOOLEAN /\ ai_ready \in BOOLEAN
  /\ pc \in [Threads -> UNION {Labels[t] : t \in Threads}]
  /\ \A t \in Threads : pc[t] \in Labels[t]

\* A packet that left after g_running became false was the last one: the encode
\* thread is past its send and finds the flag false before it takes a frame again.
LateIsLast ==
  /\ late \in {0, 1}
  /\ late = 1 => ~running /\ pc["encode"] \in {"recordBytes", "check", "done"}

\* main joins the threads in this order, and a thread that returned stays returned.
JoinedInOrder ==
  /\ pc["main"] \in {"encode", "ai", "metrics", "exited"} => At("capture", "done")
  /\ pc["main"] \in {"ai", "metrics", "exited"} => At("encode", "done")
  /\ pc["main"] \in {"metrics", "exited"} => At("ai", "done")

Control == PcOK /\ LateIsLast /\ JoinedInOrder

LEMMA LabelsOfThreads ==
  /\ Labels["main"] = {"poll", "stopAi", "capture", "encode", "ai", "metrics", "exited"}
  /\ Labels["capture"] = {"check", "grab", "pushEncode", "encDrop", "pushAi", "aiDrop",
                           "record", "done"}
  /\ Labels["encode"] = {"connect", "abort", "abortAi", "check", "pop", "apply", "draw",
                         "encode", "send", "recordBytes", "done"}
  /\ Labels["ai"] = {"check", "pop", "infer", "hung", "recordAi", "event", "done"}
  /\ Labels["metrics"] = {"sleep", "done"}
  BY DEF Labels

LEMMA InitControl == Init => Control
<1> SUFFICES ASSUME Init PROVE Control
  OBVIOUS
<1>1. PcOK
  <2>1. \A t \in Threads : pc[t] \in Labels[t]
    <3>1. /\ pc["main"] = "poll" /\ pc["capture"] = "check" /\ pc["encode"] = "connect"
          /\ pc["ai"] \in {"check", "done"} /\ pc["metrics"] = "sleep"
      BY DEF Init, Threads
    <3> QED
      BY <3>1, LabelsOfThreads DEF Threads
  <2>3. pc \in [Threads -> UNION {Labels[t] : t \in Threads}]
    <3> DEFINE first(t) == CASE t = "main" -> "poll"
                             [] t = "capture" -> "check"
                             [] t = "encode" -> "connect"
                             [] t = "ai" -> IF ai_ready THEN "check" ELSE "done"
                             [] t = "metrics" -> "sleep"
    <3>1. pc = [t \in Threads |-> first(t)]
      BY DEF Init
    <3> HIDE DEF first
    <3>2. \A t \in Threads : first(t) \in Labels[t]
      BY <2>1, <3>1
    <3> QED
      BY <3>1, <3>2
  <2> QED
    BY <2>1, <2>3 DEF Init, PcOK
<1>2. LateIsLast /\ JoinedInOrder
  BY DEF Init, LateIsLast, JoinedInOrder, At, Threads
<1> QED
  BY <1>1, <1>2 DEF Control

\* The steps of one thread, as far as control goes: the thread moves between its
\* own labels, the others stay where they are, and g_running is only ever cleared.
ThreadMoves(t) ==
  /\ \E label \in Labels[t] : pc' = [pc EXCEPT ![t] = label]
  /\ pc[t] # "done"
  /\ ai_ready' = ai_ready

LEMMA CaptureMoves ==
  ASSUME Control, CaptureThread
  PROVE  ThreadMoves("capture") /\ running' = running /\ late' = late
  BY DEF CaptureThread, CaptureCheck, LoopTest, CaptureFails, CaptureFrame,
    CapturePushEncode, RecordEncodeQueueDrop, CapturePushAi, RecordAiQueueDrop, RecordCapture, AfterEncodePush,
    At, Goto, ThreadMoves, Labels, sentVars

LEMMA EncodeMoves ==
  ASSUME Control, EncodeThread
  PROVE  /\ ThreadMoves("encode") /\ (running' = running \/ running' = FALSE)
         /\ LateIsLast'
<1> USE LabelsOfThreads DEF At, Goto, ThreadMoves, Control, PcOK, LateIsLast, Threads, sentVars
<1>1. CASE Connect
  BY <1>1 DEF Connect
<1>2. CASE AbortStopEncode
  BY <1>2 DEF AbortStopEncode
<1>3. CASE AbortStopAi
  BY <1>3 DEF AbortStopAi
<1>4. CASE EncodeCheck
  BY <1>4 DEF EncodeCheck, LoopTest
<1>5. CASE EncodePop
  BY <1>5 DEF EncodePop
<1>6. CASE OverlayCopy
  BY <1>6 DEF OverlayCopy
<1>7. CASE OverlayDraw
  BY <1>7 DEF OverlayDraw
<1>8. CASE Encode
  BY <1>8 DEF Encode
<1>9. CASE SendPacket
  BY <1>9 DEF SendPacket
<1>10. CASE SendFails
  BY <1>10 DEF SendFails
<1>11. CASE RecordBytesSent
  BY <1>11 DEF RecordBytesSent
<1> QED
  BY <1>1, <1>2, <1>3, <1>4, <1>5, <1>6, <1>7, <1>8, <1>9, <1>10, <1>11 DEF EncodeThread

LEMMA AiMoves ==
  ASSUME Control, AiThread
  PROVE  ThreadMoves("ai") /\ running' = running /\ late' = late
  BY DEF AiThread, AiCheck, LoopTest, AiPop, InferInvalid, InferHangs, OverlayUpdate,
    RecordAi, RecordEventWritten, At, Goto, ThreadMoves, Labels, sentVars

LEMMA NextControl == Control /\ [Next]_vars => Control'
<1> SUFFICES ASSUME Control, [Next]_vars PROVE Control'
  OBVIOUS
<1> USE DEF Control, PcOK, JoinedInOrder, Threads, At
<1>0. ASSUME NEW t \in Threads, t # "main", ThreadMoves(t),
             running' = running \/ running' = FALSE, LateIsLast'
      PROVE  Control'
  <2>1. PICK label \in Labels[t] : pc' = [pc EXCEPT ![t] = label]
    BY <1>0 DEF ThreadMoves
  <2>2. label \in UNION {Labels[u] : u \in Threads}
    BY <1>0, <2>1
  <2>3. PcOK'
    BY <1>0, <2>1, <2>2 DEF ThreadMoves
  <2>4. JoinedInOrder'
    BY <1>0, <2>1 DEF ThreadMoves
  <2> QED
    BY <1>0, <2>3, <2>4
<1>1. CASE CaptureThread
  <2>1. LateIsLast'
    BY <1>1, CaptureMoves DEF LateIsLast, ThreadMoves
  <2> QED
    BY <1>0, <1>1, <2>1, CaptureMoves
<1>2. CASE EncodeThread
  BY <1>0, <1>2, EncodeMoves
<1>3. CASE AiThread
  <2>1. LateIsLast'
    BY <1>3, AiMoves DEF LateIsLast, ThreadMoves
  <2> QED
    BY <1>0, <1>3, <2>1, AiMoves
<1>4. CASE MetricsThread
  BY <1>4, LabelsOfThreads DEF MetricsThread, Goto, LateIsLast, sentVars
<1>5. CASE MainThread
  <2>1. /\ UNCHANGED <<running, ai_ready, late>>
        /\ \E label \in Labels["main"] : pc' = [pc EXCEPT !["main"] = label]
    BY <1>5, LabelsOfThreads DEF MainThread, MainStopEncode, MainStopAi, Join, Goto, sentVars
  <2>2. PcOK' /\ LateIsLast'
    BY <2>1, LabelsOfThreads DEF LateIsLast
  <2>3. JoinedInOrder'
    BY <1>5, LabelsOfThreads DEF MainThread, MainStopEncode, MainStopAi, Join, Goto
  <2> QED
    BY <2>2, <2>3
<1>6. CASE HandleSignal
  BY <1>6 DEF HandleSignal, LateIsLast, sentVars
<1>7. CASE SpuriousWakeup
  BY <1>7 DEF SpuriousWakeup, LateIsLast, sentVars
<1>8. CASE UNCHANGED vars
  BY <1>8 DEF vars, LateIsLast, sentVars
<1> QED
  BY <1>1, <1>2, <1>3, <1>4, <1>5, <1>6, <1>7, <1>8 DEF Next, Terminated

\* Once g_running is false, whoever cleared it and whenever, at most the packet the
\* encode thread has in hand still goes to the gateway: the queue is not drained.
THEOREM SendingStops == Spec => []StopsSending
<1>1. Control => StopsSending
  BY DEF Control, LateIsLast, StopsSending
<1> QED
  BY <1>1, InitControl, NextControl, PTL DEF Spec

-----------------------------------------------------------------------------
(* Every InferEveryN-th frame.                                             *)

\* The number of frames among the first n that the AI thread is offered.
Offered(n) == (n + InferEveryN - 1) \div InferEveryN

LEMMA Quotient ==
  ASSUME NEW q \in Nat, NEW r \in 0 .. InferEveryN - 1, NEW n \in Nat,
         n = InferEveryN * q + r
  PROVE  n \div InferEveryN = q /\ n % InferEveryN = r
  BY IntervalAssumption

LEMMA OfferedCounts ==
  ASSUME NEW n \in Nat
  PROVE  /\ Offered(n) \in Nat /\ Offered(0) = 0
         /\ Offered(n + 1) = Offered(n) + (IF n % InferEveryN = 0 THEN 1 ELSE 0)
<1> DEFINE N == InferEveryN
           q == n \div N
           r == n % N
<1>0. N \in Nat /\ N >= 1
  BY IntervalAssumption
<1>1. q \in Nat /\ r \in 0 .. N - 1 /\ n = N * q + r
  BY <1>0
<1> HIDE DEF q, r
<1>2. N * (q + 1) = N * q + N
  BY <1>0, <1>1
<1>3. Offered(n) = IF r = 0 THEN q ELSE q + 1
  <2>1. CASE r = 0
    <3>1. n + N - 1 = N * q + (N - 1) /\ N - 1 \in 0 .. N - 1 /\ n + N - 1 \in Nat
      BY <1>0, <1>1, <2>1
    <3> QED
      BY <1>1, <2>1, <3>1, Quotient DEF Offered
  <2>2. CASE r # 0
    <3>1. n + N - 1 = N * (q + 1) + (r - 1) /\ r - 1 \in 0 .. N - 1 /\ n + N - 1 \in Nat
      BY <1>0, <1>1, <1>2, <2>2
    <3> QED
      BY <1>1, <2>2, <3>1, Quotient DEF Offered
  <2> QED
    BY <2>1, <2>2
<1>4. Offered(n + 1) = q + 1
  <2>1. n + 1 + N - 1 = N * (q + 1) + r /\ n + 1 + N - 1 \in Nat /\ q + 1 \in Nat
    BY <1>0, <1>1, <1>2
  <2> QED
    BY <1>1, <2>1, Quotient DEF Offered
<1>5. Offered(0) = 0
  <2>1. 0 + N - 1 = N * 0 + (N - 1) /\ N - 1 \in 0 .. N - 1 /\ 0 + N - 1 \in Nat
    BY <1>0
  <2> QED
    BY <2>1, Quotient DEF Offered
<1> QED
  BY <1>1, <1>3, <1>4, <1>5 DEF r

\* The k-th frame offered is one of the frames captured, and later than the
\* ones offered before it.
LEMMA AiFrameInRange ==
  ASSUME NEW n \in Nat, NEW k \in 1 .. Offered(n)
  PROVE  AiFrame(k) \in 1 .. n
<1> DEFINE N == InferEveryN
<1>0. N \in Nat /\ N >= 1
  BY IntervalAssumption
<1>1. Offered(n) \in Nat /\ k \in Nat /\ k >= 1 /\ k <= Offered(n)
  BY OfferedCounts
<1>2. n + N - 1 \in Nat
  BY <1>0
<1>3. N * Offered(n) <= n + N - 1
  BY <1>0, <1>2 DEF Offered
<1>4. N * k <= N * Offered(n) /\ N * k = (k - 1) * N + N /\ (k - 1) * N \in Nat
  BY <1>0, <1>1
<1> QED
  BY <1>0, <1>1, <1>3, <1>4 DEF AiFrame

LEMMA AiFrameIncreases ==
  ASSUME NEW j \in Nat \ {0}, NEW k \in Nat \ {0}, j < k
  PROVE  AiFrame(j) \in Nat /\ AiFrame(k) \in Nat /\ AiFrame(j) < AiFrame(k)
<1> DEFINE N == InferEveryN
<1>0. N \in Nat /\ N >= 1
  BY IntervalAssumption
<1>1. (j - 1) * N \in Nat /\ (k - 1) * N \in Nat /\ (j - 1) * N < (k - 1) * N
  BY <1>0
<1> QED
  BY <1>1 DEF AiFrame

-----------------------------------------------------------------------------
(* The ledger: what the counters say against what happened, with the step  *)
(* between an event and its counter taken into account.                    *)

One(b) == IF b THEN 1 ELSE 0

Packets == [frame : 1 .. MaxFrames, boxes : 0 .. MaxFrames]

Types ==
  /\ counts \in [Counters -> Nat] /\ discarded \in Nat
  /\ snapshot \in 0 .. MaxFrames /\ copied \in 0 .. MaxFrames /\ boxes \in 0 .. MaxFrames
  /\ venc \in Seq(Packets) /\ sent \in Seq(Packets)
  /\ packet \in [frame : 0 .. MaxFrames, boxes : 0 .. MaxFrames]
  /\ At("encode", "send") => packet \in Packets
  /\ late <= Len(sent)

CaptureLedger ==
  /\ counts["captured"] + One(pc["capture"] \in {"encDrop", "pushAi", "aiDrop", "record"})
       = encPushed
  /\ counts["encDrops"] + One(At("capture", "encDrop")) = encDropped
  /\ counts["aiDrops"] + One(At("capture", "aiDrop")) = aiDropped
  /\ At("capture", "pushAi") => InferThisFrame(encPushed)
  /\ ai_ready =>
       aiPushed + One(pc["capture"] \in {"encDrop", "pushAi"} /\ InferThisFrame(encPushed))
         = Offered(encPushed)
  /\ ~ai_ready => aiPushed = 0

EncodeLedger ==
  /\ counts["encoded"] + discarded + One(pc["encode"] \in {"apply", "draw", "encode"})
       = Len(encTaken)
  /\ counts["sent"] + One(At("encode", "recordBytes")) = Len(sent)
  /\ \/ counts["encoded"] = Len(sent) /\ ~At("encode", "send")
     \/ counts["encoded"] = Len(sent) + 1 /\ pc["encode"] \in {"send", "done"}

AiLedger ==
  /\ counts["ai"] + One(pc["ai"] \in {"infer", "recordAi"}) <= Len(aiTaken)
  /\ counts["events"] + One(At("ai", "event")) <= counts["ai"]

Ledger == CaptureLedger /\ EncodeLedger /\ AiLedger

Queues == EncSound /\ AiSound

LEMMA InitLedger == Init => Types /\ Ledger
<1> SUFFICES ASSUME Init PROVE Types /\ Ledger
  OBVIOUS
<1> USE MaxFramesAssumption
<1>1. /\ pc["capture"] = "check" /\ pc["encode"] = "connect" /\ pc["ai"] \in {"check", "done"}
      /\ counts = [c \in Counters |-> 0] /\ discarded = 0 /\ late = 0
      /\ encPushed = 0 /\ encDropped = 0 /\ encTaken = << >>
      /\ aiPushed = 0 /\ aiDropped = 0 /\ aiTaken = << >>
      /\ sent = << >> /\ venc = << >> /\ packet = NoPacket
      /\ snapshot = 0 /\ copied = 0 /\ boxes = 0
  BY DEF Init, Threads, EncQ!Init, AiQ!Init
<1>2. Types
  BY <1>1 DEF Types, At, NoPacket
<1>3. CaptureLedger
  BY <1>1, OfferedCounts DEF CaptureLedger, One, At, Counters
<1>4. EncodeLedger /\ AiLedger
  BY <1>1 DEF EncodeLedger, AiLedger, One, At, Counters
<1> QED
  BY <1>2, <1>3, <1>4 DEF Ledger

\* The methods of the queues, as the ledger sees them.
LEMMA EncPushEffect ==
  ASSUME EncQ!Push
  PROVE  /\ encPushed' = encPushed + 1 /\ encTaken' = encTaken
         /\ encDropped' = IF EncQ!Full THEN encDropped + 1 ELSE encDropped
  BY DEF EncQ!Push

LEMMA AiPushEffect ==
  ASSUME AiQ!Push
  PROVE  /\ aiPushed' = aiPushed + 1 /\ aiTaken' = aiTaken
         /\ aiDropped' = IF AiQ!Full THEN aiDropped + 1 ELSE aiDropped
  BY DEF AiQ!Push

LEMMA EncPopEffect ==
  ASSUME EncSound, EncQ!WaitAndPop("encode")
  PROVE  /\ encPushed' = encPushed /\ encDropped' = encDropped
         /\ encQueue = << >> => encTaken' = encTaken
         /\ encQueue # << >> => /\ encTaken' = Append(encTaken, Head(encQueue))
                                /\ Head(encQueue) \in 1 .. MaxFrames
<1>1. encQueue # << >> => Head(encQueue) \in 1 .. MaxFrames
  BY MaxFramesAssumption DEF EncSound, EncQ!TypeOK
<1> QED
  BY <1>1 DEF EncQ!WaitAndPop, EncQ!Take, EncQ!GiveUp, EncQ!Block

LEMMA AiPopEffect ==
  ASSUME AiSound, AiQ!WaitAndPop("ai")
  PROVE  /\ aiPushed' = aiPushed /\ aiDropped' = aiDropped
         /\ aiQueue = << >> => aiTaken' = aiTaken
         /\ aiQueue # << >> => /\ aiTaken' = Append(aiTaken, Head(aiQueue))
                               /\ Head(aiQueue) \in 1 .. MaxFrames
<1>1. aiQueue # << >> => Head(aiQueue) \in 1 .. MaxFrames
  BY MaxFramesAssumption DEF AiSound, AiQ!TypeOK
<1> QED
  BY <1>1 DEF AiQ!WaitAndPop, AiQ!Take, AiQ!GiveUp, AiQ!Block

LEMMA StopEffect ==
  /\ EncQ!Stop => UNCHANGED <<encPushed, encDropped, encTaken>>
  /\ AiQ!Stop => UNCHANGED <<aiPushed, aiDropped, aiTaken>>
  /\ EncQ!SpuriousWakeup("encode") => UNCHANGED <<encPushed, encDropped, encTaken>>
  /\ AiQ!SpuriousWakeup("ai") => UNCHANGED <<aiPushed, aiDropped, aiTaken>>
  BY DEF EncQ!Stop, AiQ!Stop, EncQ!SpuriousWakeup, AiQ!SpuriousWakeup

\* A thread that leaves the encode and AI sides alone leaves their ledgers alone.
EncodeSide ==
  <<pc["encode"], counts["encoded"], counts["sent"], discarded, sent, encTaken>>
AiSide == <<pc["ai"], counts["ai"], counts["events"], aiTaken>>
CaptureSide ==
  <<pc["capture"], counts["captured"], counts["encDrops"], counts["aiDrops"], ai_ready,
    encPushed, encDropped, aiPushed, aiDropped>>

LEMMA SidesUntouched ==
  /\ EncodeLedger /\ UNCHANGED EncodeSide => EncodeLedger'
  /\ AiLedger /\ UNCHANGED AiSide => AiLedger'
  /\ CaptureLedger /\ UNCHANGED CaptureSide => CaptureLedger'
<1>1. EncodeLedger /\ UNCHANGED EncodeSide => EncodeLedger'
  BY DEF EncodeLedger, EncodeSide, At, One
<1>2. AiLedger /\ UNCHANGED AiSide => AiLedger'
  BY DEF AiLedger, AiSide, At, One
<1>3. CaptureLedger /\ UNCHANGED CaptureSide => CaptureLedger'
  BY DEF CaptureLedger, CaptureSide, At, One, InferThisFrame, Offered
<1> QED
  BY <1>1, <1>2, <1>3

LEMMA CaptureThreadLedger ==
  ASSUME Control, Types, Ledger, Queues, CaptureThread
  PROVE  Types' /\ Ledger'
<1> USE DEF At, Goto, Threads, Counters
<1>0. pc \in [Threads -> UNION {Labels[t] : t \in Threads}] /\ counts \in [Counters -> Nat]
  BY DEF Control, PcOK, Types
<1>a. /\ encPushed \in Nat /\ encDropped \in Nat /\ aiPushed \in Nat /\ aiDropped \in Nat
  BY MaxFramesAssumption DEF Queues, EncSound, AiSound, EncQ!TypeOK, AiQ!TypeOK
<1>1. /\ UNCHANGED <<ai_ready, snapshot, copied, boxes, venc, packet, discarded, sent, late>>
      /\ UNCHANGED <<encTaken, aiTaken>>
      /\ pc'["encode"] = pc["encode"] /\ pc'["ai"] = pc["ai"]
      /\ counts' \in [Counters -> Nat]
      /\ \A c \in {"encoded", "ai", "sent", "events"} : counts'[c] = counts[c]
  BY <1>0, EncPushEffect, AiPushEffect
  DEF CaptureThread, CaptureCheck, LoopTest, CaptureFails, CaptureFrame,
    CapturePushEncode, RecordEncodeQueueDrop, CapturePushAi, RecordAiQueueDrop, RecordCapture, Record,
    encVars, aiVars, overlayVars, sentVars, encoderVars
<1>2. Types' /\ EncodeLedger' /\ AiLedger'
  BY <1>1, SidesUntouched DEF Types, Ledger, EncodeSide, AiSide
<1>3. CASE CaptureCheck
  BY <1>0, <1>2, <1>3 DEF CaptureCheck, LoopTest, encVars, aiVars, Ledger, CaptureLedger, One,
    InferThisFrame
<1>4. CASE CaptureFails
  BY <1>0, <1>2, <1>4 DEF CaptureFails, encVars, aiVars, Ledger, CaptureLedger, One,
    InferThisFrame
<1>10. CASE CaptureFrame
  BY <1>0, <1>2, <1>10 DEF CaptureFrame, encVars, aiVars, Ledger, CaptureLedger, One,
    InferThisFrame
<1>5. CASE CapturePushEncode
  <2>1. /\ pc["capture"] = "pushEncode" /\ counts' = counts /\ ai_ready' = ai_ready
        /\ encPushed' = encPushed + 1 /\ UNCHANGED <<aiPushed, aiDropped>>
        /\ encDropped' = IF EncQ!Full THEN encDropped + 1 ELSE encDropped
        /\ pc'["capture"] = IF EncQ!Full THEN "encDrop" ELSE AfterEncodePush(encPushed + 1)
    BY <1>0, <1>5, EncPushEffect DEF CapturePushEncode, aiVars
  <2>2. /\ Offered(encPushed + 1) =
             Offered(encPushed) + (IF encPushed % InferEveryN = 0 THEN 1 ELSE 0)
        /\ Offered(encPushed) \in Nat
    BY <1>a, OfferedCounts
  <2>3. InferThisFrame(encPushed + 1) <=> ai_ready /\ encPushed % InferEveryN = 0
    BY <1>a DEF InferThisFrame
  <2>4. (InferThisFrame(encPushed))' <=> InferThisFrame(encPushed + 1)
    BY <2>1 DEF InferThisFrame
  <2>5. (Offered(encPushed))' = Offered(encPushed + 1)
    BY <2>1 DEF Offered
  <2>6. pc'["capture"] \in {"encDrop", "pushAi"} /\ InferThisFrame(encPushed + 1)
          <=> InferThisFrame(encPushed + 1)
    BY <2>1 DEF AfterEncodePush
  <2>7. CaptureLedger'
    BY <1>0, <1>a, <2>1, <2>2, <2>3, <2>4, <2>5, <2>6
    DEF Ledger, CaptureLedger, One, AfterEncodePush
  <2> QED
    BY <1>2, <2>7 DEF Ledger
<1>6. CASE RecordEncodeQueueDrop
  BY <1>0, <1>a, <1>2, <1>6 DEF RecordEncodeQueueDrop, Record, AfterEncodePush, encVars, aiVars,
    Ledger, CaptureLedger, One, InferThisFrame, Offered
<1>7. CASE CapturePushAi
  <2>1. /\ pc["capture"] = "pushAi" /\ counts' = counts /\ ai_ready' = ai_ready
        /\ aiPushed' = aiPushed + 1 /\ UNCHANGED <<encPushed, encDropped>>
        /\ aiDropped' = IF AiQ!Full THEN aiDropped + 1 ELSE aiDropped
        /\ pc'["capture"] = IF AiQ!Full THEN "aiDrop" ELSE "record"
    BY <1>0, <1>7, AiPushEffect DEF CapturePushAi, encVars
  <2>2. InferThisFrame(encPushed) /\ ai_ready
    BY <2>1 DEF Ledger, CaptureLedger, InferThisFrame
  <2>3. CaptureLedger'
    BY <1>0, <1>a, <2>1, <2>2 DEF Ledger, CaptureLedger, One, InferThisFrame, Offered
  <2> QED
    BY <1>2, <2>3 DEF Ledger
<1>8. CASE RecordAiQueueDrop
  BY <1>0, <1>a, <1>2, <1>8 DEF RecordAiQueueDrop, Record, encVars, aiVars,
    Ledger, CaptureLedger, One, InferThisFrame, Offered
<1>9. CASE RecordCapture
  BY <1>0, <1>a, <1>2, <1>9 DEF RecordCapture, Record, encVars, aiVars,
    Ledger, CaptureLedger, One, InferThisFrame, Offered
<1> QED
  BY <1>3, <1>4, <1>5, <1>6, <1>7, <1>8, <1>9, <1>10 DEF CaptureThread

\* While the encode thread works on a frame, it is the last one it was handed.
LEMMA FrameInHand ==
  ASSUME Ledger, Types, Queues, pc["encode"] \in {"apply", "draw", "encode"}
  PROVE  encTaken # << >> /\ EncodeFrame \in 1 .. MaxFrames
<1>1. encTaken \in Seq(1 .. MaxFrames)
  BY DEF Queues, EncSound, EncQ!TypeOK
<1>2. Len(encTaken) >= 1
  BY <1>1, SMTT(30) DEF Ledger, EncodeLedger, Types, Counters, One
<1>3. Len(encTaken) \in 1 .. Len(encTaken) /\ encTaken # << >>
  BY <1>1, <1>2
<1>4. \A i \in 1 .. Len(encTaken) : encTaken[i] \in 1 .. MaxFrames
  BY <1>1, MaxFramesAssumption
<1> QED
  BY <1>3, <1>4 DEF EncodeFrame

LEMMA FrameInferred ==
  ASSUME Ledger, Types, Queues, pc["ai"] \in {"infer", "recordAi"}
  PROVE  Len(aiTaken) \in Nat \ {0} /\ aiTaken[Len(aiTaken)] \in 1 .. MaxFrames
<1>1. aiTaken \in Seq(1 .. MaxFrames)
  BY DEF Queues, AiSound, AiQ!TypeOK
<1>2. Len(aiTaken) >= 1
  BY <1>1 DEF Ledger, AiLedger, Types, Counters, One
<1>3. Len(aiTaken) \in 1 .. Len(aiTaken) /\ Len(aiTaken) \in Nat \ {0}
  BY <1>1, <1>2
<1>4. \A i \in 1 .. Len(aiTaken) : aiTaken[i] \in 1 .. MaxFrames
  BY <1>1, MaxFramesAssumption
<1> QED
  BY <1>3, <1>4

LEMMA EncodeThreadLedger ==
  ASSUME Control, Types, Ledger, Queues, EncodeThread
  PROVE  Types' /\ Ledger'
<1> USE DEF At, Goto, Threads, Counters
<1>0. pc \in [Threads -> UNION {Labels[t] : t \in Threads}] /\ counts \in [Counters -> Nat]
  BY DEF Control, PcOK, Types
<1>a. Len(encTaken) \in Nat /\ Len(sent) \in Nat /\ discarded \in Nat
  BY SMTT(30) DEF Queues, EncSound, EncQ!TypeOK, Types
<1>b. counts["encoded"] \in Nat /\ counts["sent"] \in Nat
  BY <1>0
<1>1. /\ UNCHANGED <<ai_ready, snapshot, aiPushed, aiDropped, aiTaken, encPushed, encDropped>>
      /\ pc'["capture"] = pc["capture"] /\ pc'["ai"] = pc["ai"]
      /\ \A c \in {"captured", "encDrops", "aiDrops", "ai", "events"} : counts'[c] = counts[c]
      /\ counts' \in [Counters -> Nat]
  BY <1>0, EncPopEffect, StopEffect, SMTT(30)
  DEF EncodeThread, Connect, AbortStopEncode, AbortStopAi, EncodeCheck, LoopTest, EncodePop,
    OverlayCopy, OverlayDraw, Encode, SendPacket, SendFails, RecordBytesSent, Record,
    encVars, aiVars, overlayVars, sentVars, encoderVars, Queues
<1>2. CaptureLedger' /\ AiLedger'
  BY <1>1, SidesUntouched DEF Ledger, AiSide, CaptureSide
<1>3. CASE Connect \/ AbortStopEncode \/ AbortStopAi \/ EncodeCheck
  <2>1. /\ UNCHANGED <<counts, discarded, sent, encTaken, venc, packet, copied, boxes, late>>
        /\ pc["encode"] \notin {"apply", "draw", "encode", "send", "recordBytes"}
        /\ pc'["encode"] \notin {"apply", "draw", "encode", "send", "recordBytes"}
    BY <1>0, <1>3, StopEffect DEF Connect, AbortStopEncode, AbortStopAi, EncodeCheck, LoopTest,
      encVars, overlayVars, sentVars, encoderVars
  <2>2. pc["encode"] # "done"
    BY <1>3 DEF Connect, AbortStopEncode, AbortStopAi, EncodeCheck, LoopTest
  <2>3. Types' /\ EncodeLedger'
    BY <1>1, <2>1, <2>2 DEF Types, Ledger, EncodeLedger, One
  <2> QED
    BY <1>2, <2>3 DEF Ledger
<1>4. CASE EncodePop
  <2>1. /\ UNCHANGED <<counts, discarded, sent, venc, packet, copied, boxes, late>>
        /\ pc["encode"] = "pop"
        /\ encQueue # << >> => /\ pc'["encode"] = "apply"
                               /\ Len(encTaken') = Len(encTaken) + 1
        /\ encQueue = << >> => /\ pc'["encode"] \in {"pop", "done"}
                               /\ encTaken' = encTaken
    BY <1>0, <1>4, EncPopEffect DEF EncodePop, Queues, EncSound, EncQ!TypeOK,
      overlayVars, sentVars, encoderVars
  <2>2. Types'
    BY <1>1, <2>1 DEF Types
  <2>3. EncodeLedger'
    BY <1>a, <1>b, <2>1, SMTT(30) DEF Ledger, EncodeLedger, One
  <2> QED
    BY <1>2, <2>2, <2>3 DEF Ledger
<1>5. CASE OverlayCopy \/ OverlayDraw
  <2>1. /\ UNCHANGED <<counts, discarded, sent, encTaken, venc, packet, late>>
        /\ pc["encode"] \in {"apply", "draw"} /\ pc'["encode"] \in {"draw", "encode"}
        /\ copied' \in 0 .. MaxFrames /\ boxes' \in 0 .. MaxFrames
    BY <1>0, <1>5, MaxFramesAssumption, SMTT(30)
    DEF OverlayCopy, OverlayDraw, encVars, sentVars, encoderVars, Types
  <2>2. Types' /\ EncodeLedger'
    BY <1>1, <2>1 DEF Types, Ledger, EncodeLedger, One
  <2> QED
    BY <1>2, <2>2 DEF Ledger
<1>6. CASE Encode
  <2> DEFINE h == [frame |-> EncodeFrame, boxes |-> boxes]
             held == Append(venc, h)
  <2>0. /\ pc["encode"] = "encode" /\ boxes' = 0
        /\ UNCHANGED <<encTaken, copied, sent, late>>
        /\ \/ /\ venc' \in {venc, held, Tail(held)} /\ discarded' = discarded + 1
              /\ pc'["encode"] = "check" /\ UNCHANGED <<packet, counts>>
           \/ /\ packet' = Head(held) /\ venc' = Tail(held)
              /\ counts' = [counts EXCEPT !["encoded"] = @ + 1]
              /\ pc'["encode"] = "send" /\ UNCHANGED discarded
    BY <1>0, <1>6 DEF Encode, Record, encVars
  <2>1. h \in Packets
    BY <2>0, FrameInHand DEF Packets, Types
  <2>2. venc \in Seq(Packets)
    BY DEF Types
  <2> HIDE DEF h
  <2>3. held \in Seq(Packets) /\ Len(held) = Len(venc) + 1 /\ Len(venc) \in Nat
    BY <2>1, <2>2
  <2> HIDE DEF held
  <2>4. Tail(held) \in Seq(Packets) /\ Head(held) \in Packets
    BY <2>3
  <2>5. Types'
    <3>0. Packets \subseteq [frame : 0 .. MaxFrames, boxes : 0 .. MaxFrames]
      BY MaxFramesAssumption DEF Packets
    <3>1. venc' \in Seq(Packets)
      BY <2>0, <2>2, <2>3, <2>4
    <3>a. discarded' \in Nat /\ boxes' \in 0 .. MaxFrames
      BY <1>a, <2>0, MaxFramesAssumption
    <3>2. packet' \in [frame : 0 .. MaxFrames, boxes : 0 .. MaxFrames]
      BY <2>0, <2>4, <3>0 DEF Types
    <3>3. pc'["encode"] = "send" => packet' \in Packets
      BY <2>0, <2>4
    <3> QED
      BY <1>1, <2>0, <3>1, <3>a, <3>2, <3>3 DEF Types
  <2>6. EncodeLedger'
    <3>1. CASE pc'["encode"] = "check"
      BY <1>a, <1>b, <2>0, <3>1 DEF Ledger, EncodeLedger, One
    <3>2. CASE pc'["encode"] = "send"
      BY <1>0, <1>a, <1>b, <2>0, <3>2, SMTT(30) DEF Ledger, EncodeLedger, One
    <3> QED
      BY <2>0, <3>1, <3>2
  <2> QED
    BY <1>2, <2>5, <2>6 DEF Ledger
<1>7. CASE SendPacket
  <2>1. /\ pc["encode"] = "send" /\ pc'["encode"] = "recordBytes"
        /\ sent' = Append(sent, packet) /\ packet' = NoPacket
        /\ late' = IF running THEN late ELSE late + 1
        /\ UNCHANGED <<counts, encTaken, copied, boxes, venc, discarded>>
    BY <1>0, <1>7 DEF SendPacket, encVars, overlayVars
  <2>2. sent' \in Seq(Packets) /\ Len(sent') = Len(sent) + 1
    BY <2>1 DEF Types
  <2>3. late \in {0, 1}
    BY DEF Control, LateIsLast
  <2>4. Types'
    BY <1>1, <1>a, <2>1, <2>2, <2>3, MaxFramesAssumption, SMTT(30) DEF Types, NoPacket
  <2>5. EncodeLedger'
    BY <1>a, <1>b, <2>1, <2>2 DEF Ledger, EncodeLedger, One
  <2> QED
    BY <1>2, <2>4, <2>5 DEF Ledger
<1>8. CASE SendFails
  <2>1. /\ pc["encode"] = "send" /\ pc'["encode"] = "done" /\ packet' = NoPacket
        /\ UNCHANGED <<counts, encTaken, copied, boxes, venc, discarded, sent, late>>
    BY <1>0, <1>8 DEF SendFails, encVars, overlayVars
  <2>2. Types' /\ EncodeLedger'
    BY <1>1, <1>a, <2>1, MaxFramesAssumption DEF Types, NoPacket, Ledger, EncodeLedger, One
  <2> QED
    BY <1>2, <2>2 DEF Ledger
<1>9. CASE RecordBytesSent
  <2>1. /\ pc["encode"] = "recordBytes" /\ pc'["encode"] = "check"
        /\ counts' = [counts EXCEPT !["sent"] = @ + 1]
        /\ UNCHANGED <<encTaken, copied, boxes, venc, packet, discarded, sent, late>>
    BY <1>0, <1>9 DEF RecordBytesSent, Record, encVars, overlayVars, sentVars, encoderVars
  <2>2. Types'
    BY <1>1, <2>1 DEF Types
  <2>3. EncodeLedger'
    BY <1>0, <1>a, <1>b, <2>1 DEF Ledger, EncodeLedger, One
  <2> QED
    BY <1>2, <2>2, <2>3 DEF Ledger
<1> QED
  BY <1>3, <1>4, <1>5, <1>6, <1>7, <1>8, <1>9 DEF EncodeThread

\* Every frame the AI thread was handed is one that was captured.
LEMMA InferredInRange ==
  ASSUME Ledger, Types, Control, Queues, NEW i \in 1 .. Len(aiTaken)
  PROVE  /\ aiTaken[i] \in 1 .. MaxFrames
         /\ AiFrame(aiTaken[i]) \in 1 .. encPushed /\ encPushed <= MaxFrames
<1> USE MaxFramesAssumption
<1>1. /\ aiTaken \in Seq(1 .. MaxFrames) /\ aiQueue \in Seq(1 .. MaxFrames)
      /\ aiPushed \in 0 .. MaxFrames /\ encPushed \in 0 .. MaxFrames
  BY DEF Queues, EncSound, AiSound, EncQ!TypeOK, AiQ!TypeOK
<1>2. aiTaken[i] \in 1 .. MaxFrames /\ Len(aiQueue) \in Nat
  BY <1>1
<1>3. aiTaken[i] <= aiPushed
  BY <1>1, <1>2 DEF Queues, AiSound
<1>4. encPushed \in Nat /\ Offered(encPushed) \in Nat
  <2>1. encPushed \in Nat
    BY <1>1
  <2> QED
    BY <2>1, OfferedCounts
<1>5. aiPushed <= Offered(encPushed)
  BY <1>1, <1>4 DEF Ledger, CaptureLedger, One, Control, PcOK
<1>6. aiTaken[i] \in 1 .. Offered(encPushed)
  BY <1>1, <1>2, <1>3, <1>4, <1>5
<1> QED
  BY <1>1, <1>2, <1>6, AiFrameInRange

LEMMA AiThreadLedger ==
  ASSUME Control, Types, Ledger, Queues, AiThread
  PROVE  Types' /\ Ledger'
<1> USE DEF At, Goto, Threads, Counters
<1>0. pc \in [Threads -> UNION {Labels[t] : t \in Threads}] /\ counts \in [Counters -> Nat]
  BY DEF Control, PcOK, Types
<1>a. Len(aiTaken) \in Nat /\ counts["ai"] \in Nat /\ counts["events"] \in Nat
  BY <1>0 DEF Queues, AiSound, AiQ!TypeOK
<1>1. /\ UNCHANGED <<ai_ready, aiPushed, aiDropped, encPushed, encDropped, encTaken>>
      /\ UNCHANGED <<copied, boxes, venc, packet, discarded, sent, late>>
      /\ pc'["capture"] = pc["capture"] /\ pc'["encode"] = pc["encode"]
      /\ \A c \in {"captured", "encDrops", "aiDrops", "encoded", "sent"} : counts'[c] = counts[c]
      /\ counts' \in [Counters -> Nat]
  BY <1>0, AiPopEffect
  DEF AiThread, AiCheck, LoopTest, AiPop, InferInvalid, InferHangs, OverlayUpdate,
    RecordAi, RecordEventWritten, Record, encVars, aiVars, overlayVars, sentVars,
    encoderVars, Queues
<1>2. CaptureLedger' /\ EncodeLedger'
  BY <1>1, SidesUntouched DEF Ledger, EncodeSide, CaptureSide
<1>3. Types'
  <2>1. snapshot' \in 0 .. MaxFrames
    <3>1. CASE OverlayUpdate
      <4>1. pc["ai"] = "infer" /\ snapshot' = AiFrame(aiTaken[Len(aiTaken)])
        BY <3>1 DEF OverlayUpdate, InferredFrame
      <4>2. Len(aiTaken) \in 1 .. Len(aiTaken)
        BY <4>1, FrameInferred
      <4>3. snapshot' \in 1 .. encPushed /\ encPushed <= MaxFrames /\ encPushed \in Nat
        BY <4>1, <4>2, InferredInRange DEF Queues, EncSound, EncQ!TypeOK
      <4> QED
        BY <4>3, MaxFramesAssumption
    <3>2. CASE ~OverlayUpdate
      BY <3>2 DEF AiThread, AiCheck, LoopTest, AiPop, InferInvalid, InferHangs, RecordAi,
        RecordEventWritten, overlayVars, Types
    <3> QED
      BY <3>1, <3>2
  <2> QED
    BY <1>1, <2>1 DEF Types
<1>4. AiLedger'
  <2>1. CASE AiCheck \/ InferInvalid \/ InferHangs \/ OverlayUpdate
    <3>1. /\ counts' = counts /\ aiTaken' = aiTaken
          /\ One(pc'["ai"] \in {"infer", "recordAi"}) <= One(pc["ai"] \in {"infer", "recordAi"})
          /\ pc'["ai"] # "event"
      BY <1>0, <2>1 DEF AiCheck, LoopTest, InferInvalid, InferHangs, OverlayUpdate, aiVars, One
    <3> QED
      BY <1>a, <3>1 DEF Ledger, AiLedger, One
  <2>2. CASE AiPop
    <3>1. /\ counts' = counts /\ pc["ai"] = "pop"
          /\ aiQueue # << >> => /\ pc'["ai"] = "infer"
                                /\ Len(aiTaken') = Len(aiTaken) + 1
          /\ aiQueue = << >> => pc'["ai"] \in {"pop", "done"} /\ aiTaken' = aiTaken
      BY <1>0, <2>2, AiPopEffect DEF AiPop, Queues, AiSound, AiQ!TypeOK
    <3> QED
      BY <1>a, <3>1 DEF Ledger, AiLedger, One
  <2>3. CASE RecordAi
    <3>1. /\ pc["ai"] = "recordAi" /\ pc'["ai"] \in {"event", "check"} /\ aiTaken' = aiTaken
          /\ counts'["ai"] = counts["ai"] + 1 /\ counts'["events"] = counts["events"]
      BY <1>0, <2>3 DEF RecordAi, Record, aiVars
    <3> QED
      BY <1>a, <3>1 DEF Ledger, AiLedger, One
  <2>4. CASE RecordEventWritten
    <3>1. /\ pc["ai"] = "event" /\ pc'["ai"] = "check" /\ aiTaken' = aiTaken
          /\ counts'["ai"] = counts["ai"] /\ counts'["events"] = counts["events"] + 1
      BY <1>0, <2>4 DEF RecordEventWritten, Record, aiVars
    <3> QED
      BY <1>a, <3>1 DEF Ledger, AiLedger, One
  <2> QED
    BY <2>1, <2>2, <2>3, <2>4 DEF AiThread
<1> QED
  BY <1>2, <1>3, <1>4 DEF Ledger

LEMMA NextLedger ==
  Control /\ Types /\ Ledger /\ Queues /\ [Next]_vars => Types' /\ Ledger'
<1> SUFFICES ASSUME Control, Types, Ledger, Queues, [Next]_vars PROVE Types' /\ Ledger'
  OBVIOUS
<1>1. CASE MetricsThread \/ MainThread \/ HandleSignal \/ SpuriousWakeup \/ UNCHANGED vars
  <2>1. /\ UNCHANGED <<ai_ready, counts, snapshot, copied, boxes, sent, late>>
        /\ UNCHANGED <<venc, packet, discarded>>
        /\ UNCHANGED <<encPushed, encDropped, encTaken, aiPushed, aiDropped, aiTaken>>
        /\ pc'["capture"] = pc["capture"] /\ pc'["encode"] = pc["encode"]
        /\ pc'["ai"] = pc["ai"]
    BY <1>1, StopEffect DEF MetricsThread, MainThread, MainStopEncode, MainStopAi, Join,
      HandleSignal, SpuriousWakeup, vars, Goto, Control, PcOK, Threads,
      encVars, aiVars, overlayVars, sentVars, encoderVars
  <2>2. Ledger'
    BY <2>1, SidesUntouched DEF Ledger, CaptureSide, EncodeSide, AiSide
  <2>3. Types'
    BY <2>1 DEF Types, At
  <2> QED
    BY <2>2, <2>3
<1> QED
  BY <1>1, CaptureThreadLedger, EncodeThreadLedger, AiThreadLedger DEF Next, Terminated

\* The ledger holds in every reachable state.
LEMMA LedgerHolds == Spec => [](Control /\ Types /\ Ledger /\ Queues)
<1>1. Init => Control /\ Types /\ Ledger
  BY InitControl, InitLedger
<1>2. Queues /\ Control /\ Types /\ Ledger /\ [Next]_vars => (Control /\ Types /\ Ledger)'
  BY NextControl, NextLedger
<1>3. Spec => []Queues
  BY BothQueuesSound DEF Queues
<1> QED
  BY <1>1, <1>2, <1>3, PTL DEF Spec

\* Every variable keeps its type, and the counters never exceed the frames captured.
THEOREM TypeCorrect == Spec => []TypeOK
<1>1. Control /\ Types /\ Ledger /\ Queues => TypeOK
  <2> SUFFICES ASSUME Control, Types, Ledger, Queues PROVE TypeOK
    OBVIOUS
  <2>1. /\ encPushed \in 0 .. MaxFrames /\ aiPushed \in 0 .. MaxFrames
        /\ encDropped \in 0 .. MaxFrames /\ aiDropped \in 0 .. MaxFrames
        /\ Len(encTaken) \in Nat /\ Len(aiTaken) \in Nat
        /\ Len(encQueue) \in Nat /\ Len(aiQueue) \in Nat /\ Len(sent) \in Nat
    BY SMTT(30) DEF Queues, EncSound, AiSound, EncQ!TypeOK, AiQ!TypeOK, Types
  <2>2. Len(encTaken) <= MaxFrames /\ Len(aiTaken) <= MaxFrames
    BY <2>1, MaxFramesAssumption DEF Queues, EncSound, AiSound, EncQ!Accounted, AiQ!Accounted
  <2>3. counts \in [Counters -> Nat] /\ discarded \in Nat
    BY DEF Types
  <2>4. /\ counts["captured"] \in Nat /\ counts["encDrops"] \in Nat /\ counts["aiDrops"] \in Nat
        /\ counts["encoded"] \in Nat /\ counts["sent"] \in Nat
        /\ counts["ai"] \in Nat /\ counts["events"] \in Nat
    BY <2>3 DEF Counters
  <2>5. counts["encoded"] + discarded <= Len(encTaken)
    <3> DEFINE d == One(pc["encode"] \in {"apply", "draw", "encode"})
    <3>1. d \in {0, 1} /\ counts["encoded"] + discarded + d = Len(encTaken)
      BY DEF Ledger, EncodeLedger, One
    <3> HIDE DEF d
    <3> QED
      BY <2>1, <2>3, <2>4, <3>1, SMTT(30)
  <2>6. counts["sent"] <= Len(sent) /\ Len(sent) <= counts["encoded"]
    <3> DEFINE d == One(At("encode", "recordBytes"))
    <3>1. /\ d \in {0, 1} /\ counts["sent"] + d = Len(sent)
          /\ counts["encoded"] = Len(sent) \/ counts["encoded"] = Len(sent) + 1
      BY DEF Ledger, EncodeLedger, One
    <3> HIDE DEF d
    <3>2. counts["sent"] <= Len(sent)
      BY <2>1, <2>4, <3>1, SMTT(30)
    <3>3. Len(sent) <= counts["encoded"]
      BY <2>1, <2>4, <3>1, SMTT(30)
    <3> QED
      BY <3>2, <3>3
  <2>7. /\ counts["captured"] <= encPushed /\ counts["encDrops"] <= encDropped
        /\ counts["aiDrops"] <= aiDropped
    <3> DEFINE d == One(pc["capture"] \in {"encDrop", "pushAi", "aiDrop", "record"})
               e == One(At("capture", "encDrop"))
               a == One(At("capture", "aiDrop"))
    <3>1. d \in {0, 1} /\ counts["captured"] + d = encPushed
      BY DEF Ledger, CaptureLedger, One
    <3>2. e \in {0, 1} /\ counts["encDrops"] + e = encDropped
      BY DEF Ledger, CaptureLedger, One
    <3>3. a \in {0, 1} /\ counts["aiDrops"] + a = aiDropped
      BY DEF Ledger, CaptureLedger, One
    <3> HIDE DEF d, e, a
    <3>4. counts["captured"] <= encPushed
      BY <2>1, <2>4, <3>1
    <3>5. counts["encDrops"] <= encDropped
      BY <2>1, <2>4, <3>2
    <3>6. counts["aiDrops"] <= aiDropped
      BY <2>1, <2>4, <3>3
    <3> QED
      BY <3>4, <3>5, <3>6
  <2>8. counts["ai"] <= Len(aiTaken) /\ counts["events"] <= counts["ai"]
    BY <2>1, <2>4, SMTT(30) DEF Ledger, AiLedger, One, At
  <2>9. counts \in [Counters -> 0 .. MaxFrames] /\ discarded \in 0 .. MaxFrames
    <3>1. \A c \in Counters : counts[c] <= MaxFrames
      BY <2>1, <2>2, <2>3, <2>4, <2>5, <2>6, <2>7, <2>8, MaxFramesAssumption, SMTT(30) DEF Counters
    <3>2. discarded <= MaxFrames
      BY <2>1, <2>2, <2>3, <2>4, <2>5, MaxFramesAssumption
    <3> QED
      BY <2>3, <3>1, <3>2, MaxFramesAssumption
  <2>10. late \in 0 .. MaxFrames
    BY <2>1, <2>2, <2>3, <2>4, <2>5, <2>6, MaxFramesAssumption, SMTT(30) DEF Types, Control, LateIsLast
  <2> QED
    BY <2>9, <2>10 DEF TypeOK, Control, PcOK, Types, Packets, Queues, EncSound, AiSound
<1> QED
  BY <1>1, LedgerHolds, PTL

\* At exit the metrics tell what became of every frame: the counters and the queues
\* account for each frame captured and for each one offered to the AI thread, and at
\* most one encoded packet, whose send failed, did not reach TCP.
THEOREM FateOfEveryFrame == Spec => []FateAtExit
<1>1. Control /\ Types /\ Ledger /\ Queues => FateAtExit
  <2> SUFFICES ASSUME Control, Types, Ledger, Queues, At("main", "exited") PROVE FateAtExit
    BY DEF FateAtExit
  <2>1. pc["capture"] = "done" /\ pc["encode"] = "done" /\ pc["ai"] = "done"
    BY DEF Control, JoinedInOrder, At
  <2>2. /\ encPushed \in Nat /\ aiPushed \in Nat /\ encDropped \in Nat /\ aiDropped \in Nat
        /\ Len(encTaken) \in Nat /\ Len(aiTaken) \in Nat
        /\ Len(encQueue) \in Nat /\ Len(aiQueue) \in Nat /\ Len(sent) \in Nat
        /\ discarded \in Nat
    BY MaxFramesAssumption
    DEF Queues, EncSound, AiSound, EncQ!TypeOK, AiQ!TypeOK, Types
  <2>a. /\ counts["captured"] \in Nat /\ counts["encDrops"] \in Nat /\ counts["aiDrops"] \in Nat
        /\ counts["encoded"] \in Nat /\ counts["sent"] \in Nat
        /\ counts["ai"] \in Nat /\ counts["events"] \in Nat
    BY DEF Types, Counters
  <2>3. /\ encPushed = encDropped + Len(encTaken) + Len(encQueue)
        /\ aiPushed = aiDropped + Len(aiTaken) + Len(aiQueue)
    BY DEF Queues, EncSound, AiSound, EncQ!Accounted, AiQ!Accounted
  <2>4. counts["captured"] = encPushed /\ counts["encDrops"] = encDropped
    BY <2>1, <2>2, <2>a DEF Ledger, CaptureLedger, One, At
  <2>5. /\ encPushed = counts["encoded"] + discarded + counts["encDrops"] + Len(encQueue)
        /\ counts["sent"] = Len(sent) /\ counts["encoded"] - counts["sent"] \in {0, 1}
    <3>1. /\ counts["encoded"] + discarded = Len(encTaken) /\ counts["sent"] = Len(sent)
          /\ counts["encoded"] = Len(sent) \/ counts["encoded"] = Len(sent) + 1
      BY <2>1, <2>2, <2>a, SMTT(30) DEF Ledger, EncodeLedger, One, At
    <3>2. counts["encoded"] - counts["sent"] \in {0, 1}
      BY <2>2, <2>a, <3>1
    <3>3. encPushed = encDropped + (counts["encoded"] + discarded) + Len(encQueue)
      BY <2>3, <3>1
    <3>4. encPushed = counts["encoded"] + discarded + counts["encDrops"] + Len(encQueue)
      BY <2>2, <2>4, <2>a, <3>3
    <3> QED
      BY <3>1, <3>2, <3>4
  <2>6. ASSUME ai_ready
        PROVE  /\ Len(aiTaken) + counts["aiDrops"] + Len(aiQueue) = Offered(encPushed)
               /\ counts["events"] <= counts["ai"] /\ counts["ai"] <= Len(aiTaken)
    <3>1. aiPushed = Offered(encPushed) /\ counts["aiDrops"] = aiDropped
      BY <2>1, <2>2, <2>6, <2>a DEF Ledger, CaptureLedger, One, At
    <3>2. counts["events"] <= counts["ai"] /\ counts["ai"] <= Len(aiTaken)
      BY <2>1, <2>2, <2>a DEF Ledger, AiLedger, One, At
    <3> QED
      BY <2>2, <2>3, <2>a, <3>1, <3>2
  <2> QED
    BY <2>4, <2>5, <2>6 DEF FateAtExit, Offered
<1> QED
  BY <1>1, LedgerHolds, PTL

-----------------------------------------------------------------------------
(* Order and freshness of the packets, from the encoder to the gateway.    *)

Precedes(p, q) ==
  p.frame < q.frame /\ (p.boxes # 0 /\ q.boxes # 0 => p.boxes <= q.boxes)
Ordered(s) == \A i, j \in 1 .. Len(s) : i < j => Precedes(s[i], s[j])
AllBefore(s, q) == \A i \in 1 .. Len(s) : Precedes(s[i], q)

\* The packets made so far that were not lost: sent, in hand, or in the encoder.
Made == {p \in Packets :
           \/ \E i \in 1 .. Len(sent) : p = sent[i]
           \/ \E i \in 1 .. Len(venc) : p = venc[i]
           \/ At("encode", "send") /\ p = packet}

\* They are in order in each place and from one place to the next.
StreamOrdered ==
  /\ Ordered(sent) /\ Ordered(venc)
  /\ \A i \in 1 .. Len(venc) : AllBefore(sent, venc[i])
  /\ At("encode", "send") =>
       AllBefore(sent, packet) /\ \A i \in 1 .. Len(venc) : Precedes(packet, venc[i])

\* r is no result, or one the AI thread had inferred.
Inferred(r) == r # 0 => \E k \in 1 .. Len(aiTaken) : AiFrame(aiTaken[k]) = r

\* Results only get newer on their way from the snapshot to the packets, and the
\* frame at hand is newer than every packet made.
ResultsFlow ==
  /\ Inferred(snapshot) /\ Inferred(copied) /\ Inferred(boxes)
  /\ copied <= snapshot /\ boxes <= snapshot
  /\ At("encode", "encode") /\ boxes # 0 => EncodeFrame - boxes \in 0 .. StaleFrames

MadeFromPast ==
  \A p \in Made :
    /\ encTaken # << >> /\ p.frame <= EncodeFrame
    /\ pc["encode"] \in {"apply", "draw", "encode"} => p.frame < EncodeFrame
    /\ p.boxes <= snapshot
    /\ At("encode", "draw") => p.boxes <= copied
    /\ At("encode", "encode") /\ boxes # 0 => p.boxes <= boxes
    /\ p.boxes # 0 => p.frame - p.boxes \in 0 .. StaleFrames
    /\ Inferred(p.boxes)

Wire == StreamOrdered /\ ResultsFlow /\ MadeFromPast

LEMMA InitWire == Init => Wire
<1> SUFFICES ASSUME Init PROVE Wire
  OBVIOUS
<1>1. /\ sent = << >> /\ venc = << >> /\ pc["encode"] = "connect"
      /\ snapshot = 0 /\ copied = 0 /\ boxes = 0
  BY DEF Init, Threads
<1>2. Made = {}
  BY <1>1 DEF Made, At
<1> QED
  BY <1>1, <1>2 DEF Wire, StreamOrdered, ResultsFlow, MadeFromPast, Ordered, AllBefore,
    Inferred, At

\* Appending a later packet, and taking the first one, keep a sequence in order.
LEMMA AppendOrdered ==
  ASSUME NEW s \in Seq(Packets), NEW q \in Packets, Ordered(s), AllBefore(s, q)
  PROVE  Ordered(Append(s, q))
<1> DEFINE t == Append(s, q)
<1>1. /\ Len(t) = Len(s) + 1 /\ Len(s) \in Nat /\ t[Len(s) + 1] = q
      /\ \A i \in 1 .. Len(s) : t[i] = s[i]
  OBVIOUS
<1> HIDE DEF t
<1> SUFFICES ASSUME NEW i \in 1 .. Len(t), NEW j \in 1 .. Len(t), i < j
             PROVE  Precedes(t[i], t[j])
  BY DEF Ordered, t
<1>2. i \in 1 .. Len(s)
  BY <1>1
<1>3. CASE j = Len(s) + 1
  BY <1>1, <1>2, <1>3 DEF AllBefore
<1>4. CASE j \in 1 .. Len(s)
  BY <1>1, <1>2, <1>4 DEF Ordered
<1> QED
  BY <1>1, <1>3, <1>4

LEMMA TailOrdered ==
  ASSUME NEW s \in Seq(Packets), Len(s) >= 1, Ordered(s)
  PROVE  /\ Ordered(Tail(s)) /\ Len(Tail(s)) = Len(s) - 1 /\ Head(s) = s[1]
         /\ \A i \in 1 .. Len(Tail(s)) : Tail(s)[i] = s[i + 1] /\ i + 1 \in 1 .. Len(s)
         /\ \A i \in 1 .. Len(Tail(s)) : Precedes(Head(s), Tail(s)[i])
<1>1. /\ Len(Tail(s)) = Len(s) - 1 /\ Len(s) \in Nat /\ Head(s) = s[1]
      /\ \A i \in 1 .. Len(Tail(s)) : Tail(s)[i] = s[i + 1] /\ i + 1 \in 1 .. Len(s)
  OBVIOUS
<1>2. Ordered(Tail(s))
  BY <1>1 DEF Ordered
<1>3. \A i \in 1 .. Len(Tail(s)) : Precedes(Head(s), Tail(s)[i])
  BY <1>1 DEF Ordered
<1> QED
  BY <1>1, <1>2, <1>3

\* Whoever leaves the packets and the places they are in alone.
LEMMA MadeUntouched ==
  ASSUME UNCHANGED <<sent, venc, packet>>,
         pc'["encode"] = "send" => pc["encode"] = "send"
  PROVE  /\ Made' \subseteq Made
         /\ StreamOrdered => StreamOrdered'
<1>1. Made' \subseteq Made
  BY DEF Made, At
<1>2. StreamOrdered => StreamOrdered'
  BY DEF StreamOrdered, Ordered, AllBefore, Precedes, At
<1> QED
  BY <1>1, <1>2

\* What was inferred stays inferred.
LEMMA InferredStays ==
  ASSUME Queues, aiTaken' = aiTaken \/ aiTaken' = Append(aiTaken, Head(aiQueue))
  PROVE  \A r : Inferred(r) => Inferred(r)'
<1>1. aiTaken \in Seq(1 .. MaxFrames)
  BY DEF Queues, AiSound, AiQ!TypeOK
<1>2. /\ \A k \in 1 .. Len(aiTaken) : k \in 1 .. Len(aiTaken') /\ aiTaken'[k] = aiTaken[k]
  BY <1>1
<1> QED
  BY <1>2 DEF Inferred

\* The frame the AI thread has is the newest it was handed.
LEMMA NewestInferred ==
  ASSUME Control, Types, Ledger, Queues, pc["ai"] = "infer", NEW r \in Nat, Inferred(r)
  PROVE  r <= InferredFrame /\ InferredFrame \in Nat \ {0} /\ Inferred(InferredFrame)
<1> DEFINE n == Len(aiTaken)
<1>1. n \in Nat \ {0} /\ n \in 1 .. n
  BY FrameInferred
<1>2. \A k \in 1 .. n : aiTaken[k] \in Nat \ {0} /\ AiFrame(aiTaken[k]) \in Nat \ {0}
  <2> SUFFICES ASSUME NEW k \in 1 .. n
               PROVE  aiTaken[k] \in Nat \ {0} /\ AiFrame(aiTaken[k]) \in Nat \ {0}
    OBVIOUS
  <2>1. aiTaken[k] \in 1 .. MaxFrames /\ AiFrame(aiTaken[k]) \in 1 .. encPushed
    BY InferredInRange
  <2> QED
    BY <2>1
<1>3. ASSUME NEW k \in 1 .. n PROVE AiFrame(aiTaken[k]) <= AiFrame(aiTaken[n])
  <2>1. CASE k = n
    BY <1>1, <1>2, <2>1
  <2>2. CASE k < n
    <3>1. aiTaken[k] < aiTaken[n]
      BY <1>1, <2>2 DEF Queues, AiSound, AiQ!InOrder
    <3>2. aiTaken[k] \in Nat \ {0} /\ aiTaken[n] \in Nat \ {0}
      BY <1>1, <1>2
    <3>3. /\ AiFrame(aiTaken[k]) \in Nat /\ AiFrame(aiTaken[n]) \in Nat
          /\ AiFrame(aiTaken[k]) < AiFrame(aiTaken[n])
      BY <3>1, <3>2, AiFrameIncreases
    <3> QED
      BY <3>3
  <2> QED
    BY <1>1, <2>1, <2>2
<1>4. InferredFrame = AiFrame(aiTaken[n])
  BY DEF InferredFrame
<1> QED
  BY <1>1, <1>2, <1>3, <1>4 DEF Inferred

LEMMA OverlayUpdateWire ==
  ASSUME Control, Types, Ledger, Queues, Wire, OverlayUpdate
  PROVE  Wire'
<1>1. /\ pc["ai"] = "infer" /\ snapshot' = InferredFrame
      /\ UNCHANGED <<sent, venc, packet, copied, boxes, encTaken, aiTaken>>
      /\ pc'["encode"] = pc["encode"]
  BY DEF OverlayUpdate, At, Goto, Control, PcOK, Threads, encVars, aiVars, sentVars, encoderVars
<1>2. Made' \subseteq Made /\ StreamOrdered'
  BY <1>1, MadeUntouched DEF Wire
<1>3. snapshot \in Nat /\ copied \in Nat /\ boxes \in Nat
  BY MaxFramesAssumption DEF Types
<1>4. snapshot <= snapshot' /\ snapshot' \in Nat /\ Inferred(snapshot')
  BY <1>1, <1>3, NewestInferred DEF Wire, ResultsFlow
<1>5. \A r : Inferred(r)' <=> Inferred(r)
  BY <1>1 DEF Inferred
<1>6. ResultsFlow'
  <2>1. copied' <= snapshot' /\ boxes' <= snapshot'
    BY <1>1, <1>3, <1>4 DEF Wire, ResultsFlow
  <2>2. (Inferred(snapshot))' /\ (Inferred(copied))' /\ (Inferred(boxes))'
    BY <1>1, <1>4 DEF Wire, ResultsFlow, Inferred
  <2> QED
    BY <1>1, <2>1, <2>2 DEF Wire, ResultsFlow, At, EncodeFrame
<1>7. MadeFromPast'
  <2> SUFFICES ASSUME NEW q \in Made'
               PROVE  /\ encTaken # << >> /\ q.frame <= EncodeFrame
                      /\ pc["encode"] \in {"apply", "draw", "encode"} => q.frame < EncodeFrame
                      /\ q.boxes <= snapshot'
                      /\ At("encode", "draw") => q.boxes <= copied
                      /\ At("encode", "encode") /\ boxes # 0 => q.boxes <= boxes
                      /\ q.boxes # 0 => q.frame - q.boxes \in 0 .. StaleFrames
                      /\ Inferred(q.boxes)
    BY <1>1 DEF MadeFromPast, At, EncodeFrame, Inferred
  <2>1. q \in Made /\ q.boxes \in Nat
    BY <1>2, MaxFramesAssumption DEF Made, Packets
  <2>2. q.boxes <= snapshot'
    BY <1>3, <1>4, <2>1 DEF Wire, MadeFromPast
  <2> QED
    BY <2>1, <2>2 DEF Wire, MadeFromPast
<1> QED
  BY <1>2, <1>6, <1>7 DEF Wire

\* Everything else that leaves the packets alone: the wire's invariant looks at the
\* place of the encode thread, its frame, and the results under way.
LEMMA WireUntouched ==
  ASSUME Queues, Wire, UNCHANGED <<sent, venc, packet, snapshot, copied, boxes, encTaken>>,
         aiTaken' = aiTaken \/ aiTaken' = Append(aiTaken, Head(aiQueue)),
         \/ pc'["encode"] = pc["encode"]
         \/ pc'["encode"] \notin {"apply", "draw", "encode", "send"}
  PROVE  Wire'
<1>1. Made' \subseteq Made /\ StreamOrdered'
  BY MadeUntouched DEF Wire
<1>2. \A r : Inferred(r) => Inferred(r)'
  BY InferredStays
<1>3. ResultsFlow'
  <2>1. (Inferred(snapshot))' /\ (Inferred(copied))' /\ (Inferred(boxes))'
    BY <1>2 DEF Wire, ResultsFlow, Inferred
  <2> QED
    BY <2>1 DEF Wire, ResultsFlow, At, EncodeFrame
<1>4. MadeFromPast'
  <2> SUFFICES ASSUME NEW q \in Made'
               PROVE  /\ encTaken # << >> /\ q.frame <= EncodeFrame
                      /\ pc'["encode"] \in {"apply", "draw", "encode"} => q.frame < EncodeFrame
                      /\ q.boxes <= snapshot
                      /\ pc'["encode"] = "draw" => q.boxes <= copied
                      /\ pc'["encode"] = "encode" /\ boxes # 0 => q.boxes <= boxes
                      /\ q.boxes # 0 => q.frame - q.boxes \in 0 .. StaleFrames
                      /\ (Inferred(q.boxes))'
    BY DEF MadeFromPast, At, EncodeFrame
  <2>1. q \in Made
    BY <1>1
  <2>2. (Inferred(q.boxes))'
    BY <1>2, <2>1 DEF Wire, MadeFromPast, Inferred
  <2> QED
    BY <2>1, <2>2 DEF Wire, MadeFromPast, At
<1> QED
  BY <1>1, <1>3, <1>4 DEF Wire

\* A frame popped from the queue is newer than every frame popped before.
LEMMA EncodePopWire ==
  ASSUME Control, Types, Ledger, Queues, Wire, EncodePop
  PROVE  Wire'
<1>1. /\ UNCHANGED <<sent, venc, packet, snapshot, copied, boxes, aiTaken>>
      /\ encQueue = << >> => /\ pc'["encode"] \in {"pop", "done"}
                             /\ encTaken' = encTaken
      /\ encQueue # << >> => /\ pc'["encode"] = "apply"
                             /\ encTaken' = Append(encTaken, Head(encQueue))
  BY EncPopEffect DEF EncodePop, At, Goto, Control, PcOK, Threads, Queues, aiVars,
    overlayVars, sentVars, encoderVars
<1>2. CASE encQueue = << >>
  BY <1>1, <1>2, WireUntouched
<1>3. CASE encQueue # << >>
  <2>1. Made' \subseteq Made /\ StreamOrdered'
    BY <1>1, <1>3, MadeUntouched DEF Wire
  <2>2. /\ encTaken \in Seq(1 .. MaxFrames) /\ encQueue \in Seq(1 .. MaxFrames)
    BY DEF Queues, EncSound, EncQ!TypeOK
  <2>3. /\ encTaken' # << >> /\ Len(encTaken') = Len(encTaken) + 1
        /\ encTaken'[Len(encTaken')] = encQueue[1] /\ 1 \in 1 .. Len(encQueue)
        /\ encQueue[1] \in 1 .. MaxFrames
    BY <1>1, <1>3, <2>2, MaxFramesAssumption
  <2>4. encTaken # << >> => EncodeFrame \in Nat /\ EncodeFrame < encQueue[1]
    <3> SUFFICES ASSUME encTaken # << >>
                 PROVE  EncodeFrame \in Nat /\ EncodeFrame < encQueue[1]
      OBVIOUS
    <3>1. Len(encTaken) \in 1 .. Len(encTaken)
      BY <2>2
    <3>2. \A i \in 1 .. Len(encTaken) : encTaken[i] \in 1 .. MaxFrames
      BY <2>2, MaxFramesAssumption
    <3>3. encTaken[Len(encTaken)] < encQueue[1]
      BY <2>3, <3>1 DEF Queues, EncSound, EncQ!InOrder
    <3> QED
      BY <3>1, <3>2, <3>3, MaxFramesAssumption DEF EncodeFrame
  <2>5. ResultsFlow'
    BY <1>1, <1>3 DEF Wire, ResultsFlow, Inferred, At
  <2>6. MadeFromPast'
    <3> SUFFICES ASSUME NEW q \in Made'
                 PROVE  /\ q.frame < encQueue[1]
                        /\ q.boxes <= snapshot
                        /\ q.boxes # 0 => q.frame - q.boxes \in 0 .. StaleFrames
                        /\ q.frame <= encQueue[1]
                        /\ Inferred(q.boxes)
      BY <1>1, <1>3, <2>3 DEF MadeFromPast, At, EncodeFrame, Inferred
    <3>1. q \in Made /\ q.frame \in Nat
      BY <2>1, MaxFramesAssumption DEF Made, Packets
    <3>2. encTaken # << >> /\ q.frame <= EncodeFrame
      BY <3>1 DEF Wire, MadeFromPast
    <3>3. q.frame < encQueue[1] /\ q.frame <= encQueue[1]
      BY <2>3, <2>4, <3>1, <3>2, MaxFramesAssumption
    <3> QED
      BY <3>1, <3>3 DEF Wire, MadeFromPast
  <2> QED
    BY <2>1, <2>5, <2>6 DEF Wire
<1> QED
  BY <1>2, <1>3

\* The copy of the snapshot is at least as new as every result drawn before, and so
\* are the boxes drawn from it, however often the snapshot changes meanwhile.
LEMMA OverlayWire ==
  ASSUME Control, Types, Ledger, Queues, Wire, OverlayCopy \/ OverlayDraw
  PROVE  Wire'
<1>1. /\ UNCHANGED <<sent, venc, packet, snapshot, encTaken, aiTaken>>
      /\ pc["encode"] \in {"apply", "draw"} /\ pc'["encode"] \in {"draw", "encode"}
  BY DEF OverlayCopy, OverlayDraw, At, Goto, Control, PcOK, Threads, encVars, aiVars,
    sentVars, encoderVars
<1>2. Made' \subseteq Made /\ StreamOrdered'
  BY <1>1, MadeUntouched DEF Wire
<1>3. /\ snapshot \in Nat /\ copied \in Nat /\ boxes \in Nat
      /\ encTaken # << >> /\ EncodeFrame \in Nat
  BY <1>1, FrameInHand, MaxFramesAssumption DEF Types
<1>4. \A r : Inferred(r)' <=> Inferred(r)
  BY <1>1 DEF Inferred
<1>5. \A q \in Made' : /\ q.frame < EncodeFrame /\ q.frame <= EncodeFrame
                       /\ q.boxes <= snapshot /\ Inferred(q.boxes)
                       /\ q.boxes # 0 => q.frame - q.boxes \in 0 .. StaleFrames
  BY <1>1, <1>2 DEF Wire, MadeFromPast
<1>6. CASE OverlayCopy
  <2>1. copied' = snapshot /\ boxes' = boxes /\ pc'["encode"] = "draw"
    BY <1>6 DEF OverlayCopy, Goto, Control, PcOK, Threads
  <2>2. ResultsFlow'
    BY <1>1, <1>3, <2>1 DEF Wire, ResultsFlow, At, Inferred
  <2>3. MadeFromPast'
    BY <1>1, <1>3, <1>5, <2>1 DEF MadeFromPast, At, EncodeFrame, Inferred
  <2> QED
    BY <1>2, <2>2, <2>3 DEF Wire
<1>7. CASE OverlayDraw
  <2>1. /\ boxes' = (IF Drawable(copied) THEN copied ELSE 0) /\ copied' = 0
        /\ pc["encode"] = "draw" /\ pc'["encode"] = "encode"
    BY <1>7 DEF OverlayDraw, At, Goto, Control, PcOK, Threads
  <2>2. boxes' # 0 => boxes' = copied /\ EncodeFrame - boxes' \in 0 .. StaleFrames
    BY <1>3, <2>1, IntervalAssumption DEF Drawable
  <2>3. ResultsFlow'
    BY <1>1, <1>3, <2>1, <2>2 DEF Wire, ResultsFlow, At, Inferred, EncodeFrame
  <2>4. \A q \in Made' : q.boxes <= copied
    BY <1>2, <2>1 DEF Wire, MadeFromPast, At
  <2>5. MadeFromPast'
    BY <1>1, <1>3, <1>5, <2>1, <2>2, <2>4 DEF MadeFromPast, At, EncodeFrame, Inferred
  <2> QED
    BY <1>2, <2>3, <2>5 DEF Wire
<1> QED
  BY <1>6, <1>7

\* The encoder takes the frame at hand last, so what it holds and gives stays in order.
LEMMA EncodeWire ==
  ASSUME Control, Types, Ledger, Queues, Wire, Encode
  PROVE  Wire'
<1> DEFINE h == [frame |-> EncodeFrame, boxes |-> boxes]
           held == Append(venc, h)
<1>1. /\ pc["encode"] = "encode" /\ boxes' = 0
      /\ UNCHANGED <<encTaken, aiTaken, snapshot, copied, sent>>
      /\ \/ /\ venc' \in {venc, held, Tail(held)}
            /\ pc'["encode"] = "check" /\ UNCHANGED packet
         \/ /\ packet' = Head(held) /\ venc' = Tail(held)
            /\ pc'["encode"] = "send"
  BY DEF Encode, At, Goto, Control, PcOK, Threads, encVars, aiVars
<1>2. /\ h \in Packets /\ venc \in Seq(Packets) /\ sent \in Seq(Packets)
      /\ EncodeFrame \in Nat /\ encTaken # << >> /\ h.frame = EncodeFrame /\ h.boxes = boxes
      /\ boxes \in Nat /\ snapshot \in Nat /\ copied \in Nat
  BY <1>1, FrameInHand, MaxFramesAssumption DEF Packets, Types
<1> HIDE DEF h
<1>3. \A q \in Made : Precedes(q, h)
  BY <1>1, <1>2 DEF Wire, MadeFromPast, Precedes, At
<1>4. /\ \A i \in 1 .. Len(venc) : venc[i] \in Made
      /\ \A i \in 1 .. Len(sent) : sent[i] \in Made
  BY <1>2 DEF Made
<1>5. AllBefore(venc, h) /\ AllBefore(sent, h)
  BY <1>3, <1>4 DEF AllBefore
<1>6. /\ held \in Seq(Packets) /\ Len(held) = Len(venc) + 1 /\ Len(venc) \in Nat
      /\ held[Len(venc) + 1] = h /\ \A i \in 1 .. Len(venc) : held[i] = venc[i]
  BY <1>2
<1>7. Ordered(held)
  BY <1>2, <1>5, AppendOrdered DEF Wire, StreamOrdered
<1> HIDE DEF held
<1>8. \A i \in 1 .. Len(held) : /\ AllBefore(sent, held[i])
                                /\ held[i] = h \/ \E j \in 1 .. Len(venc) : held[i] = venc[j]
  BY <1>5, <1>6 DEF Wire, StreamOrdered
<1>9. /\ Ordered(Tail(held)) /\ Tail(held) \in Seq(Packets)
      /\ Head(held) = held[1] /\ 1 \in 1 .. Len(held)
      /\ \A i \in 1 .. Len(Tail(held)) : /\ Tail(held)[i] = held[i + 1]
                                         /\ i + 1 \in 1 .. Len(held)
                                         /\ Precedes(Head(held), Tail(held)[i])
  BY <1>6, <1>7, TailOrdered
<1>10. \A i \in 1 .. Len(venc') : \E j \in 1 .. Len(held) : venc'[i] = held[j]
  <2>1. CASE venc' = venc
    BY <1>6, <2>1
  <2>2. CASE venc' = held
    BY <2>2
  <2>3. CASE venc' = Tail(held)
    BY <1>9, <2>3
  <2> QED
    BY <1>1, <2>1, <2>2, <2>3
<1>11. Made' \subseteq Made \cup {h}
  <2> SUFFICES ASSUME NEW q \in Made', q # h PROVE q \in Made
    OBVIOUS
  <2>1. CASE \E i \in 1 .. Len(sent) : q = sent[i]
    BY <1>4, <2>1
  <2>2. CASE \E i \in 1 .. Len(held) : q = held[i]
    BY <1>4, <1>8, <2>2
  <2>3. q \in Packets /\ \/ \E i \in 1 .. Len(sent) : q = sent[i]
                         \/ \E i \in 1 .. Len(venc') : q = venc'[i]
                         \/ pc'["encode"] = "send" /\ q = packet'
    BY <1>1 DEF Made, At
  <2> QED
    BY <1>1, <1>9, <1>10, <2>1, <2>2, <2>3
<1>12. StreamOrdered'
  <2>1. Ordered(venc')
    BY <1>1, <1>7, <1>9 DEF Wire, StreamOrdered
  <2>2. \A i \in 1 .. Len(venc') : AllBefore(sent, venc'[i])
    BY <1>8, <1>10
  <2>3. pc'["encode"] = "send" =>
          /\ AllBefore(sent, packet')
          /\ \A i \in 1 .. Len(venc') : Precedes(packet', venc'[i])
    BY <1>1, <1>8, <1>9
  <2>4. Ordered(sent)
    BY DEF Wire, StreamOrdered
  <2> QED
    BY <1>1, <2>1, <2>2, <2>3, <2>4 DEF StreamOrdered, Ordered, AllBefore, Precedes, At
<1>13. ResultsFlow'
  BY <1>1, <1>2 DEF Wire, ResultsFlow, At, Inferred
<1>14. MadeFromPast'
  <2>1. \A q \in Made : /\ q.frame <= EncodeFrame /\ q.boxes <= snapshot
                        /\ q.boxes # 0 => q.frame - q.boxes \in 0 .. StaleFrames
                        /\ Inferred(q.boxes)
    BY DEF Wire, MadeFromPast
  <2>2. /\ h.frame <= EncodeFrame /\ h.boxes <= snapshot
        /\ h.boxes # 0 => h.frame - h.boxes \in 0 .. StaleFrames
        /\ Inferred(h.boxes)
    BY <1>1, <1>2 DEF Wire, ResultsFlow, At
  <2> QED
    BY <1>1, <1>2, <1>11, <2>1, <2>2 DEF MadeFromPast, At, EncodeFrame, Inferred
<1> QED
  BY <1>12, <1>13, <1>14 DEF Wire

\* The packet at hand goes behind every packet sent and before those in the encoder,
\* or is lost.
LEMMA SendWire ==
  ASSUME Control, Types, Ledger, Queues, Wire, SendPacket \/ SendFails
  PROVE  Wire'
<1>1. /\ pc["encode"] = "send" /\ pc'["encode"] \in {"recordBytes", "done"}
      /\ UNCHANGED <<encTaken, aiTaken, snapshot, copied, boxes, venc>>
      /\ sent' = sent \/ sent' = Append(sent, packet)
  BY DEF SendPacket, SendFails, At, Goto, Control, PcOK, Threads, encVars, aiVars, overlayVars
<1>2. packet \in Packets /\ sent \in Seq(Packets) /\ venc \in Seq(Packets)
  BY <1>1 DEF Types, At
<1>3. /\ AllBefore(sent, packet) /\ Ordered(sent) /\ Ordered(venc)
      /\ \A i \in 1 .. Len(venc) : AllBefore(sent, venc[i]) /\ Precedes(packet, venc[i])
  BY <1>1 DEF Wire, StreamOrdered, At
<1>4. \A i \in 1 .. Len(sent') : sent'[i] = packet \/ \E j \in 1 .. Len(sent) : sent'[i] = sent[j]
  BY <1>1, <1>2
<1>5. Made' \subseteq Made
  BY <1>1, <1>2, <1>4 DEF Made, At
<1>6. StreamOrdered'
  <2>1. Ordered(sent')
    BY <1>1, <1>2, <1>3, AppendOrdered
  <2>2. \A i \in 1 .. Len(venc) : AllBefore(sent', venc[i])
    BY <1>3, <1>4 DEF AllBefore
  <2> QED
    BY <1>1, <1>3, <2>1, <2>2 DEF StreamOrdered, Ordered, AllBefore, Precedes, At
<1>7. ResultsFlow'
  BY <1>1 DEF Wire, ResultsFlow, At, Inferred
<1>8. MadeFromPast'
  BY <1>1, <1>5 DEF Wire, MadeFromPast, At, EncodeFrame, Inferred
<1> QED
  BY <1>6, <1>7, <1>8 DEF Wire

LEMMA NextWire ==
  Control /\ Types /\ Ledger /\ Queues /\ Wire /\ [Next]_vars => Wire'
<1> SUFFICES ASSUME Control, Types, Ledger, Queues, Wire, [Next]_vars PROVE Wire'
  OBVIOUS
<1> USE DEF At, Goto, Control, PcOK, Threads, encVars, aiVars, overlayVars, sentVars, encoderVars
<1>1. CASE CaptureThread
  <2>1. /\ UNCHANGED <<sent, venc, packet, snapshot, copied, boxes, encTaken, aiTaken>>
        /\ pc'["encode"] = pc["encode"]
    BY <1>1, EncPushEffect, AiPushEffect
    DEF CaptureThread, CaptureCheck, LoopTest, CaptureFails, CaptureFrame,
      CapturePushEncode, RecordEncodeQueueDrop, CapturePushAi, RecordAiQueueDrop, RecordCapture
  <2> QED
    BY <2>1, WireUntouched
<1>2. CASE Connect \/ AbortStopEncode \/ AbortStopAi \/ EncodeCheck \/ RecordBytesSent
  <2>1. /\ UNCHANGED <<sent, venc, packet, snapshot, copied, boxes, encTaken, aiTaken>>
        /\ pc'["encode"] \notin {"apply", "draw", "encode", "send"}
    BY <1>2, StopEffect DEF Connect, AbortStopEncode, AbortStopAi, EncodeCheck, LoopTest,
      RecordBytesSent
  <2> QED
    BY <2>1, WireUntouched
<1>3. CASE AiThread /\ ~OverlayUpdate
  <2>1. /\ UNCHANGED <<sent, venc, packet, snapshot, copied, boxes, encTaken>>
        /\ pc'["encode"] = pc["encode"]
        /\ aiTaken' = aiTaken \/ aiTaken' = Append(aiTaken, Head(aiQueue))
    BY <1>3, AiPopEffect DEF AiThread, AiCheck, LoopTest, AiPop, InferInvalid, InferHangs,
      RecordAi, RecordEventWritten, Queues
  <2> QED
    BY <2>1, WireUntouched
<1>4. CASE MetricsThread \/ MainThread \/ HandleSignal \/ SpuriousWakeup \/ UNCHANGED vars
  <2>1. /\ UNCHANGED <<sent, venc, packet, snapshot, copied, boxes, encTaken, aiTaken>>
        /\ pc'["encode"] = pc["encode"]
    BY <1>4, StopEffect DEF MetricsThread, MainThread, MainStopEncode, MainStopAi, Join,
      HandleSignal, SpuriousWakeup, vars
  <2> QED
    BY <2>1, WireUntouched
<1> QED
  BY <1>1, <1>2, <1>3, <1>4, EncodePopWire, OverlayWire, EncodeWire, SendWire,
    OverlayUpdateWire
  DEF Next, EncodeThread, AiThread, Terminated

LEMMA WireHolds == Spec => [](Types /\ Wire)
<1>1. Init => Control /\ Types /\ Ledger /\ Wire
  BY InitControl, InitLedger, InitWire
<1>2. Control /\ Types /\ Ledger /\ Queues /\ Wire /\ [Next]_vars => Wire'
  BY NextWire
<1> QED
  BY <1>1, <1>2, LedgerHolds, PTL DEF Spec

\* Packets reach TCP in the order of capture, none twice, and the boxes on them never
\* go back to an older result, although encoder, overlay and AI thread each lag on
\* their own.
THEOREM WireKeepsOrder == Spec => []WireOrder
<1>1. Types /\ Wire => WireOrder
  BY DEF Wire, StreamOrdered, Ordered, Precedes, WireOrder
<1> QED
  BY <1>1, WireHolds, PTL

\* The boxes on a frame sent are those of a frame the AI thread did infer, not later
\* than the frame itself and at most overlay_stale_frames before it, although the AI
\* thread replaces the snapshot while the encode thread draws.
THEOREM BoxesAreFresh == Spec => []BoxesFresh
<1>1. Types /\ Wire => BoxesFresh
  <2> SUFFICES ASSUME Types, Wire, NEW i \in 1 .. Len(sent), sent[i].boxes # 0
               PROVE  /\ sent[i].frame - sent[i].boxes \in 0 .. StaleFrames
                      /\ \E k \in 1 .. Len(aiTaken) : AiFrame(aiTaken[k]) = sent[i].boxes
    BY DEF BoxesFresh
  <2>1. sent[i] \in Made
    BY DEF Types, Made
  <2> QED
    BY <2>1 DEF Wire, MadeFromPast, Inferred
<1> QED
  BY <1>1, WireHolds, PTL
=============================================================================
