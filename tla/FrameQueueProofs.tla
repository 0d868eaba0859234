-------------------------- MODULE FrameQueueProofs --------------------------
(***************************************************************************)
(* Proofs about FrameQueue for every capacity, every finite set of         *)
(* consumers and every number of pushes.                                   *)
(***************************************************************************)
EXTENDS FrameQueue, FiniteSetTheorems, TLAPS

\* What was handed out is older than what is queued, also when nothing is.
TakenBehind == \A i \in 1 .. Len(taken) : taken[i] <= pushed - Len(queue)

\* The inductive invariant: every conjunct but the wake-up one needs another.
IInv == TypeOK /\ HoldsNewest /\ Accounted /\ TakenBehind

-----------------------------------------------------------------------------
\* The frame kept by a full queue after its oldest one left, and the new one,
\* are the newest frames: dropping the head of a gapless run keeps it gapless.
LEMMA PushKeepsNewest ==
  ASSUME IInv, Push
  PROVE  /\ queue' \in Seq(1 .. MaxPushes)
         /\ Len(queue') = IF Full THEN Len(queue) ELSE Len(queue) + 1
         /\ HoldsNewest'
<1> USE CapacityAssumption, MaxPushesAssumption
<1>1. pushed' \in 1 .. MaxPushes /\ pushed' = pushed + 1
  BY DEF IInv, TypeOK, Push
<1>2. CASE Full
  <2>1. queue # << >> /\ Len(queue) = Capacity
    BY <1>2 DEF IInv, TypeOK, HoldsNewest, Full
  <2>2. /\ Tail(queue) \in Seq(1 .. MaxPushes)
        /\ Len(Tail(queue)) = Len(queue) - 1
        /\ \A i \in 1 .. Len(queue) - 1 : Tail(queue)[i] = queue[i + 1]
    BY <2>1 DEF IInv, TypeOK
  <2>3. queue' = Append(Tail(queue), pushed + 1)
    BY <1>2 DEF Push
  <2>4. queue' \in Seq(1 .. MaxPushes) /\ Len(queue') = Len(queue)
    BY <1>1, <2>1, <2>2, <2>3
  <2>5. \A i \in 1 .. Len(queue') : queue'[i] = pushed' - Len(queue') + i
    <3> SUFFICES ASSUME NEW i \in 1 .. Len(queue)
                 PROVE  queue'[i] = pushed + 1 - Len(queue) + i
      BY <1>1, <2>4 DEF IInv, TypeOK
    <3>1. CASE i = Len(queue)
      BY <3>1, <1>1, <2>1, <2>2, <2>3 DEF IInv, TypeOK
    <3>2. CASE i < Len(queue)
      <4>1. queue'[i] = queue[i + 1]
        BY <3>2, <2>2, <2>3, <1>1
      <4> QED
        BY <4>1, <3>2 DEF IInv, TypeOK, HoldsNewest
    <3> QED
      BY <3>1, <3>2 DEF IInv, TypeOK
  <2> QED
    BY <1>2, <2>4, <2>5 DEF HoldsNewest, IInv
<1>3. CASE ~Full
  <2>1. queue' = Append(queue, pushed + 1) /\ Len(queue) < Capacity
    BY <1>3 DEF Push, Full, IInv, TypeOK
  <2>2. queue' \in Seq(1 .. MaxPushes) /\ Len(queue') = Len(queue) + 1
    BY <1>1, <2>1 DEF IInv, TypeOK
  <2>3. \A i \in 1 .. Len(queue') : queue'[i] = pushed' - Len(queue') + i
    <3> SUFFICES ASSUME NEW i \in 1 .. Len(queue) + 1
                 PROVE  queue'[i] = pushed - Len(queue) + i
      BY <1>1, <2>2 DEF IInv, TypeOK
    <3>1. CASE i = Len(queue) + 1
      BY <3>1, <1>1, <2>1 DEF IInv, TypeOK
    <3>2. CASE i \in 1 .. Len(queue)
      BY <3>2, <1>1, <2>1 DEF IInv, TypeOK, HoldsNewest
    <3> QED
      BY <3>1, <3>2 DEF IInv, TypeOK
  <2> QED
    BY <1>3, <2>1, <2>2, <2>3 DEF HoldsNewest, IInv, TypeOK
<1> QED
  BY <1>2, <1>3

\* Taking the oldest frame leaves a gapless run of the newest ones.
LEMMA TakeKeepsNewest ==
  ASSUME IInv, NEW c \in Consumers, Take(c)
  PROVE  /\ queue' \in Seq(1 .. MaxPushes)
         /\ Len(queue') = Len(queue) - 1
         /\ Head(queue) = pushed - Len(queue) + 1
         /\ Head(queue) \in 1 .. MaxPushes
         /\ HoldsNewest'
<1> USE CapacityAssumption, MaxPushesAssumption
<1>1. queue # << >> /\ queue' = Tail(queue) /\ pushed' = pushed
  BY DEF Take
<1>2. /\ Len(queue) >= 1
      /\ queue' \in Seq(1 .. MaxPushes)
      /\ Len(queue') = Len(queue) - 1
      /\ \A i \in 1 .. Len(queue) - 1 : queue'[i] = queue[i + 1]
  BY <1>1 DEF IInv, TypeOK
<1>3. Head(queue) = queue[1] /\ Head(queue) \in 1 .. MaxPushes
  BY <1>1, <1>2 DEF IInv, TypeOK
<1> QED
  BY <1>1, <1>2, <1>3 DEF IInv, TypeOK, HoldsNewest

LEMMA InitIInv == Init => IInv
<1> SUFFICES ASSUME Init PROVE IInv
  OBVIOUS
<1> USE CapacityAssumption, MaxPushesAssumption DEF Init
<1>1. Len(queue) = 0 /\ Len(taken) = 0
  OBVIOUS
<1>2. queue \in Seq(1 .. MaxPushes) /\ taken \in Seq(1 .. MaxPushes)
  OBVIOUS
<1>3. 0 \in 0 .. MaxPushes
  OBVIOUS
<1>4. TypeOK
  BY <1>2, <1>3 DEF TypeOK
<1> QED
  BY <1>1, <1>4 DEF IInv, HoldsNewest, Accounted, TakenBehind

LEMMA NextIInv == IInv /\ [Next]_vars => IInv'
<1> SUFFICES ASSUME IInv, [Next]_vars PROVE IInv'
  OBVIOUS
<1> USE CapacityAssumption, MaxPushesAssumption
<1>1. CASE Push
  <2>1. /\ queue' \in Seq(1 .. MaxPushes)
        /\ Len(queue') = IF Full THEN Len(queue) ELSE Len(queue) + 1
        /\ HoldsNewest'
    BY <1>1, PushKeepsNewest
  <2>2. /\ pushed' = pushed + 1 /\ pushed < MaxPushes
        /\ dropped_frames' = IF Full THEN dropped_frames + 1 ELSE dropped_frames
        /\ taken' = taken /\ stopped' = stopped /\ finished' = finished
    BY <1>1 DEF Push
  <2>3. Accounted' /\ dropped_frames' \in 0 .. MaxPushes
    <3>1. Len(queue') \in Nat /\ Len(taken') \in Nat /\ pushed' \in 0 .. MaxPushes
      BY <2>1, <2>2 DEF IInv, TypeOK
    <3>2. Accounted'
      BY <2>1, <2>2 DEF IInv, TypeOK, Accounted
    <3> QED
      BY <3>1, <3>2, <2>2 DEF Accounted, IInv, TypeOK
  <2>4. TakenBehind'
    <3> SUFFICES ASSUME NEW i \in 1 .. Len(taken')
                 PROVE  taken'[i] <= pushed' - Len(queue')
      BY DEF TakenBehind
    <3>0. taken' = taken /\ pushed' = pushed + 1
      BY <2>2
    <3>1. taken[i] \in Nat
      BY <3>0 DEF IInv, TypeOK
    <3>2. taken[i] <= pushed - Len(queue)
      BY <3>0 DEF IInv, TakenBehind
    <3>3. Len(queue) \in Nat /\ pushed \in Nat
      BY DEF IInv, TypeOK
    <3>4. CASE Full
      BY <3>0, <3>1, <3>2, <3>3, <3>4, <2>1
    <3>5. CASE ~Full
      BY <3>0, <3>1, <3>2, <3>3, <3>5, <2>1
    <3> QED
      BY <3>4, <3>5
  <2>5. /\ waiting' \subseteq Consumers /\ woken' \subseteq Consumers
        /\ waiting' \cap woken' = {}
    BY <1>1 DEF Push, NotifyOne, IInv, TypeOK
  <2> QED
    BY <2>1, <2>2, <2>3, <2>4, <2>5 DEF IInv, TypeOK
<1>2. CASE Stop
  BY <1>2 DEF Stop, IInv, TypeOK, HoldsNewest, Accounted, TakenBehind
<1>3. ASSUME NEW c \in Consumers, WaitAndPop(c) PROVE IInv'
  <2>1. CASE Take(c)
    <3>1. /\ queue' \in Seq(1 .. MaxPushes)
          /\ Len(queue') = Len(queue) - 1
          /\ Head(queue) = pushed - Len(queue) + 1
          /\ Head(queue) \in 1 .. MaxPushes
          /\ HoldsNewest'
      BY <2>1, TakeKeepsNewest
    <3>2. /\ taken' = Append(taken, Head(queue))
          /\ woken' = woken \ {c}
          /\ UNCHANGED <<stopped, dropped_frames, waiting, finished, pushed>>
      BY <2>1 DEF Take
    <3>3. /\ taken' \in Seq(1 .. MaxPushes)
          /\ Len(taken') = Len(taken) + 1
          /\ taken'[Len(taken) + 1] = Head(queue)
          /\ \A i \in 1 .. Len(taken) : taken'[i] = taken[i]
      BY <3>1, <3>2 DEF IInv, TypeOK
    <3>4. Accounted'
      BY <3>1, <3>2, <3>3 DEF IInv, TypeOK, Accounted
    <3>5. TakenBehind'
      <4> SUFFICES ASSUME NEW i \in 1 .. Len(taken) + 1
                   PROVE  taken'[i] <= pushed - (Len(queue) - 1)
        BY <3>1, <3>2, <3>3 DEF TakenBehind
      <4>1. CASE i = Len(taken) + 1
        BY <4>1, <3>1, <3>3 DEF IInv, TypeOK
      <4>2. CASE i \in 1 .. Len(taken)
        BY <4>2, <3>3, SMTT(30) DEF IInv, TypeOK, TakenBehind
      <4> QED
        BY <4>1, <4>2 DEF IInv, TypeOK
    <3> QED
      BY <3>1, <3>2, <3>3, <3>4, <3>5 DEF IInv, TypeOK
  <2>2. CASE GiveUp(c)
    BY <2>2 DEF GiveUp, IInv, TypeOK, HoldsNewest, Accounted, TakenBehind
  <2>3. CASE Block(c)
    BY <2>3 DEF Block, IInv, TypeOK, HoldsNewest, Accounted, TakenBehind
  <2> QED
    BY <1>3, <2>1, <2>2, <2>3 DEF WaitAndPop
<1>4. ASSUME NEW c \in Consumers, SpuriousWakeup(c) PROVE IInv'
  BY <1>4 DEF SpuriousWakeup, IInv, TypeOK, HoldsNewest, Accounted, TakenBehind
<1>5. CASE UNCHANGED vars
  BY <1>5 DEF vars, IInv, TypeOK, HoldsNewest, Accounted, TakenBehind
<1> QED
  BY <1>1, <1>2, <1>3, <1>4, <1>5 DEF Next

-----------------------------------------------------------------------------
\* One more consumer that has been woken, one fewer that will come.
LEMMA WokenCardinality ==
  ASSUME TypeOK, NEW c \in Consumers
  PROVE  /\ IsFiniteSet(woken) /\ Cardinality(woken) \in Nat
         /\ c \notin woken =>
              Cardinality(woken \cup {c}) = Cardinality(woken) + 1
         /\ Cardinality(woken \ {c}) =
              IF c \in woken THEN Cardinality(woken) - 1 ELSE Cardinality(woken)
<1>1. IsFiniteSet(woken)
  BY ConsumersAssumption, FS_Subset DEF TypeOK
<1>2. Cardinality(woken) \in Nat
  BY <1>1, FS_CardinalityType
<1>3. c \notin woken => Cardinality(woken \cup {c}) = Cardinality(woken) + 1
  BY <1>1, FS_AddElement
<1>4. Cardinality(woken \ {c}) =
        IF c \in woken THEN Cardinality(woken) - 1 ELSE Cardinality(woken)
  BY <1>1, FS_RemoveElement
<1> QED
  BY <1>1, <1>2, <1>3, <1>4

LEMMA NextNoLostWakeup ==
  IInv /\ NoLostWakeup /\ [Next]_vars => NoLostWakeup'
<1> SUFFICES ASSUME IInv, NoLostWakeup, [Next]_vars PROVE NoLostWakeup'
  OBVIOUS
<1>1. CASE Push
  <2>1. Len(queue) \in Nat /\ Len(queue') \in Nat /\ Len(queue') <= Len(queue) + 1
    BY <1>1, PushKeepsNewest DEF IInv, TypeOK
  <2>2. CASE waiting = {}
    BY <2>2, <1>1 DEF Push, NotifyOne, NoLostWakeup
  <2>3. CASE waiting # {}
    <3>1. PICK c \in waiting : waiting' = waiting \ {c} /\ woken' = woken \cup {c}
      BY <2>3, <1>1 DEF Push, NotifyOne
    <3>2. c \in Consumers /\ c \notin woken
      BY DEF IInv, TypeOK
    <3>3. Cardinality(woken') = Cardinality(woken) + 1 /\ Cardinality(woken) \in Nat
      BY <3>1, <3>2, WokenCardinality DEF IInv
    <3>4. stopped' = stopped
      BY <1>1 DEF Push
    <3> QED
      BY <2>1, <2>3, <3>3, <3>4 DEF NoLostWakeup
  <2> QED
    BY <2>2, <2>3
<1>2. CASE Stop
  BY <1>2 DEF Stop, NoLostWakeup
<1>3. ASSUME NEW c \in Consumers, WaitAndPop(c) PROVE NoLostWakeup'
  <2>1. CASE Take(c)
    <3>1. Len(queue) \in Nat /\ Len(queue') = Len(queue) - 1
      BY <2>1, TakeKeepsNewest DEF IInv, TypeOK
    <3>2. /\ Cardinality(woken) \in Nat
          /\ Cardinality(woken') =
               IF c \in woken THEN Cardinality(woken) - 1 ELSE Cardinality(woken)
      BY <2>1, WokenCardinality DEF IInv, Take
    <3>3. waiting' = waiting /\ stopped' = stopped
      BY <2>1 DEF Take
    <3> QED
      BY <3>1, <3>2, <3>3 DEF NoLostWakeup
  <2>2. CASE GiveUp(c)
    BY <2>2 DEF GiveUp, NoLostWakeup
  <2>3. CASE Block(c)
    <3>1. queue' = << >> /\ ~stopped'
      BY <2>3 DEF Block
    <3>2. Cardinality(woken') \in Nat
      BY <2>3, WokenCardinality, FS_CardinalityType, FS_RemoveElement DEF IInv, Block
    <3> QED
      BY <3>1, <3>2 DEF NoLostWakeup
  <2> QED
    BY <1>3, <2>1, <2>2, <2>3 DEF WaitAndPop
<1>4. ASSUME NEW c \in Consumers, SpuriousWakeup(c) PROVE NoLostWakeup'
  <2>1. /\ c \notin woken /\ waiting # {}
        /\ woken' = woken \cup {c} /\ queue' = queue /\ stopped' = stopped
    BY <1>4 DEF SpuriousWakeup, IInv, TypeOK
  <2>2. Cardinality(woken') = Cardinality(woken) + 1 /\ Cardinality(woken) \in Nat
    BY <2>1, WokenCardinality DEF IInv
  <2>3. Len(queue) \in Nat
    BY DEF IInv, TypeOK
  <2> QED
    BY <2>1, <2>2, <2>3 DEF NoLostWakeup
<1>5. CASE UNCHANGED vars
  BY <1>5 DEF vars, NoLostWakeup
<1> QED
  BY <1>1, <1>2, <1>3, <1>4, <1>5 DEF Next

-----------------------------------------------------------------------------
\* The variables keep their types, whatever the capacity and the threads.
THEOREM TypeCorrect == Spec => []TypeOK
<1>1. IInv => TypeOK
  BY DEF IInv
<1> QED
  BY <1>1, InitIInv, NextIInv, PTL DEF Spec

\* push keeps exactly the newest frames: the queue is a gapless run that ends
\* with the last frame pushed and never exceeds capacity_.
THEOREM QueueHoldsNewest == Spec => []HoldsNewest
<1>1. IInv => HoldsNewest
  BY DEF IInv
<1> QED
  BY <1>1, InitIInv, NextIInv, PTL DEF Spec

\* Every frame pushed is queued, was handed out, or is in dropped_frames_.
THEOREM DropsAccounted == Spec => []Accounted
<1>1. IInv => Accounted
  BY DEF IInv
<1> QED
  BY <1>1, InitIInv, NextIInv, PTL DEF Spec

\* No interleaving of push, stop, waitAndPop and spurious wake-ups leaves a
\* consumer asleep while a frame without a taker, or stop, is there for it.
THEOREM WakeupNotLost == Spec => []NoLostWakeup
<1>1. Init => NoLostWakeup
  BY DEF Init, NoLostWakeup
<1> QED
  BY <1>1, InitIInv, NextIInv, NextNoLostWakeup, PTL DEF Spec

-----------------------------------------------------------------------------
\* Frames handed out so far are in the order of capture.
TakenInOrder == \A i, j \in 1 .. Len(taken) : i < j => taken[i] < taken[j]

LEMMA NextTakenInOrder == IInv /\ TakenInOrder /\ [Next]_vars => TakenInOrder'
<1> SUFFICES ASSUME IInv, TakenInOrder, [Next]_vars PROVE TakenInOrder'
  OBVIOUS
<1>1. ASSUME NEW c \in Consumers, Take(c) PROVE TakenInOrder'
  <2>1. /\ Head(queue) \in Nat /\ Head(queue) = pushed - Len(queue) + 1
        /\ pushed \in Nat /\ Len(queue) \in Nat
    BY <1>1, TakeKeepsNewest DEF IInv, TypeOK
  <2>2. /\ Len(taken') = Len(taken) + 1 /\ Len(taken) \in Nat
        /\ taken'[Len(taken) + 1] = Head(queue)
        /\ \A i \in 1 .. Len(taken) : taken'[i] = taken[i] /\ taken[i] \in Nat
    BY <1>1, <2>1, TakeKeepsNewest, MaxPushesAssumption DEF Take, IInv, TypeOK
  <2>3. SUFFICES ASSUME NEW i \in 1 .. Len(taken'), NEW j \in 1 .. Len(taken'), i < j
                 PROVE  taken'[i] < taken'[j]
    BY DEF TakenInOrder
  <2>4. i \in 1 .. Len(taken)
    BY <2>2, <2>3
  <2>5. CASE j = Len(taken) + 1
    BY <2>1, <2>2, <2>4, <2>5 DEF IInv, TakenBehind
  <2>6. CASE j \in 1 .. Len(taken)
    BY <2>2, <2>3, <2>4, <2>6 DEF TakenInOrder
  <2> QED
    BY <2>2, <2>5, <2>6
<1>2. ASSUME taken' = taken PROVE TakenInOrder'
  BY <1>2 DEF TakenInOrder
<1>3. (\E c \in Consumers : Take(c)) \/ taken' = taken
  BY DEF Next, Push, Stop, WaitAndPop, GiveUp, Block, SpuriousWakeup, vars
<1> QED
  BY <1>1, <1>2, <1>3

LEMMA InOrderFollows == IInv /\ TakenInOrder => InOrder
<1> SUFFICES ASSUME IInv, TakenInOrder,
                    NEW i \in 1 .. Len(taken), NEW j \in 1 .. Len(queue)
             PROVE  taken[i] < queue[j]
  BY DEF InOrder, TakenInOrder
<1>1. taken[i] \in Nat /\ queue[j] \in Nat /\ pushed \in Nat /\ Len(queue) \in Nat
  BY MaxPushesAssumption DEF IInv, TypeOK
<1>2. taken[i] <= pushed - Len(queue) /\ queue[j] = pushed - Len(queue) + j
  BY DEF IInv, TakenBehind, HoldsNewest
<1> QED
  BY <1>1, <1>2

\* Consumers get frames in the order of capture, and never one older than a
\* frame already handed out, whatever was dropped in between.
THEOREM FramesInOrder == Spec => []InOrder
<1>1. Init => TakenInOrder
  BY DEF Init, TakenInOrder
<1> QED
  BY <1>1, InitIInv, NextIInv, NextTakenInOrder, InOrderFollows, PTL DEF Spec

-----------------------------------------------------------------------------
\* push of a full queue is FreshWindow's truncation to the newest frames.
LEMMA PushIsProduce == IInv /\ Push => Window!Produce
<1> SUFFICES ASSUME IInv, Push PROVE Window!Produce
  OBVIOUS
<1> DEFINE longer == Append(queue, pushed + 1)
<1>1. /\ pushed + 1 \in 1 .. MaxPushes /\ queue \in Seq(1 .. MaxPushes)
      /\ Len(queue) \in Nat /\ Len(queue) <= Capacity /\ Capacity \in Nat \ {0}
  BY CapacityAssumption, MaxPushesAssumption DEF IInv, TypeOK, HoldsNewest, Push
<1>2. longer \in Seq(1 .. MaxPushes) /\ Len(longer) = Len(queue) + 1
  BY <1>1
<1>3. queue' = Window!Newest(longer, Capacity)
  <2>1. CASE Full
    <3>1. Len(queue) = Capacity /\ queue # << >>
      BY <1>1, <2>1 DEF Full
    <3>2. Window!Newest(longer, Capacity) = SubSeq(longer, 2, Len(longer))
      BY <1>1, <1>2, <3>1 DEF Window!Newest
    <3>3. SubSeq(longer, 2, Len(longer)) = Tail(longer)
      BY <1>2
    <3>4. Tail(longer) = Append(Tail(queue), pushed + 1)
      BY <1>1, <3>1
    <3> QED
      BY <2>1, <3>2, <3>3, <3>4 DEF Push
  <2>2. CASE ~Full
    BY <1>1, <1>2, <2>2 DEF Window!Newest, Push, Full
  <2> QED
    BY <2>1, <2>2
<1> QED
  BY <1>3 DEF Window!Produce, Push

\* Handing out the oldest frame is FreshWindow's delivery.
LEMMA TakeIsDeliver ==
  ASSUME IInv, NEW c \in Consumers, Take(c)
  PROVE  Window!Deliver
<1>1. /\ queue # << >> /\ queue' = Tail(queue) /\ pushed' = pushed
      /\ taken' = Append(taken, Head(queue))
  BY DEF Take
<1>2. taken' # << >> /\ taken'[Len(taken')] = Head(queue)
  BY <1>1, TakeKeepsNewest DEF IInv, TypeOK
<1> QED
  BY <1>1, <1>2 DEF Window!Deliver

\* The queue implements the abstract window on the newest frames: every step is
\* a production, a delivery of the oldest frame, or invisible to the window.
THEOREM QueueImplementsFreshWindow == Spec => ImplementsFreshWindow
<1>1. Init => Window!Init
  BY DEF Init, Window!Init
<1>2. IInv /\ [Next]_vars => [Window!Next]_(Window!abstractVars)
  <2> SUFFICES ASSUME IInv, [Next]_vars
               PROVE  Window!Next \/ UNCHANGED <<pushed, queue, taken>>
    BY DEF Window!abstractVars
  <2>1. ASSUME NEW c \in Consumers, WaitAndPop(c)
        PROVE  Window!Next \/ UNCHANGED <<pushed, queue, taken>>
    BY <2>1, TakeIsDeliver DEF WaitAndPop, GiveUp, Block, Window!Next
  <2> QED
    BY <2>1, PushIsProduce DEF Next, Stop, SpuriousWakeup, vars, Window!Next
<1> QED
  BY <1>1, <1>2, InitIInv, NextIInv, PTL DEF Spec, ImplementsFreshWindow, Window!Spec
=============================================================================
