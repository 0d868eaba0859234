----------------------------- MODULE FrameQueue -----------------------------
(***************************************************************************)
(* capture/include/FrameQueue.h: the bounded queue between the capture     *)
(* thread and a consumer thread.  push never blocks: a full queue loses    *)
(* its oldest frame.  waitAndPop blocks on a condition variable until a    *)
(* frame is there or the queue is stopped.                                 *)
(*                                                                         *)
(* Every method runs under mutex_, so each is one action, except           *)
(* waitAndPop: cv_.wait releases the mutex, so a call is the actions       *)
(* WaitAndPop (evaluate the predicate with the mutex held) repeated, with  *)
(* the thread in the condition variable's waiting set in between.          *)
(* A frame is the number of the push that brought it.                      *)
(***************************************************************************)
EXTENDS Naturals, Sequences, FiniteSets

CONSTANTS
  Capacity,    \* capacity_
  Consumers,   \* the threads that call waitAndPop in a loop
  MaxPushes    \* bound on the number of calls of push

\* main.cpp passes capacities that AppConfig has forced to be positive.
ASSUME CapacityAssumption == Capacity \in Nat \ {0}
ASSUME ConsumersAssumption == IsFiniteSet(Consumers)
ASSUME MaxPushesAssumption == MaxPushes \in Nat

VARIABLES
  queue,           \* queue_
  stopped,         \* stopped_
  dropped_frames,  \* dropped_frames_
  waiting,         \* consumers blocked in cv_.wait
  woken,           \* consumers notified that have yet to evaluate the predicate
  finished,        \* consumers whose waitAndPop returned false: their loop ended
  pushed,          \* number of calls of push so far
  taken            \* the frames waitAndPop handed out, in order

vars == <<queue, stopped, dropped_frames, waiting, woken, finished, pushed, taken>>

Init ==
  /\ queue = << >>
  /\ stopped = FALSE
  /\ dropped_frames = 0
  /\ waiting = {}
  /\ woken = {}
  /\ finished = {}
  /\ pushed = 0
  /\ taken = << >>

\* Mutant: push forgets notify_one.
NotifyNobody == UNCHANGED <<waiting, woken>>

\* cv_.notify_one(): one blocked thread, if any, gets to evaluate its predicate.
NotifyOne ==
  \/ /\ waiting = {}
     /\ UNCHANGED <<waiting, woken>>
  \/ \E c \in waiting :
       /\ waiting' = waiting \ {c}
       /\ woken' = woken \cup {c}

\* Mutant: the capacity test is off by one.
FullTooLate == Len(queue) > Capacity

Full == Len(queue) >= Capacity

\* Mutant: a full queue refuses the new frame instead of losing the oldest.
PushDropsNewest ==
  /\ pushed < MaxPushes
  /\ pushed' = pushed + 1
  /\ queue' = IF Full THEN queue ELSE Append(queue, pushed + 1)
  /\ dropped_frames' = IF Full THEN dropped_frames + 1 ELSE dropped_frames
  /\ NotifyOne
  /\ UNCHANGED <<stopped, finished, taken>>

\* Mutant: push returns before it counts the frame it dropped.
PushUncounted ==
  /\ pushed < MaxPushes
  /\ pushed' = pushed + 1
  /\ queue' = Append(IF Full THEN Tail(queue) ELSE queue, pushed + 1)
  /\ NotifyOne
  /\ UNCHANGED <<dropped_frames, stopped, finished, taken>>

Push ==
  /\ pushed < MaxPushes
  /\ pushed' = pushed + 1
  /\ queue' = Append(IF Full THEN Tail(queue) ELSE queue, pushed + 1)
  /\ dropped_frames' = IF Full THEN dropped_frames + 1 ELSE dropped_frames
  /\ NotifyOne
  /\ UNCHANGED <<stopped, finished, taken>>

\* Mutant: hand out the newest frame.
TakeNewest(c) ==
  /\ queue # << >>
  /\ taken' = Append(taken, queue[Len(queue)])
  /\ queue' = SubSeq(queue, 1, Len(queue) - 1)
  /\ woken' = woken \ {c}
  /\ UNCHANGED <<stopped, dropped_frames, waiting, finished, pushed>>

\* The predicate holds and the queue is not empty: hand out the oldest frame.
Take(c) ==
  /\ queue # << >>
  /\ taken' = Append(taken, Head(queue))
  /\ queue' = Tail(queue)
  /\ woken' = woken \ {c}
  /\ UNCHANGED <<stopped, dropped_frames, waiting, finished, pushed>>

\* The predicate holds because of stopped_ alone: return false.
GiveUp(c) ==
  /\ queue = << >>
  /\ stopped
  /\ finished' = finished \cup {c}
  /\ woken' = woken \ {c}
  /\ UNCHANGED <<queue, stopped, dropped_frames, waiting, pushed, taken>>

\* The predicate is false: block, releasing the mutex.
Block(c) ==
  /\ queue = << >>
  /\ ~stopped
  /\ waiting' = waiting \cup {c}
  /\ woken' = woken \ {c}
  /\ UNCHANGED <<queue, stopped, dropped_frames, finished, pushed, taken>>

\* A consumer that holds the mutex inside waitAndPop, newly called or woken.
WaitAndPop(c) ==
  /\ c \notin waiting \cup finished
  /\ Take(c) \/ GiveUp(c) \/ Block(c)

\* A condition variable may wake a thread that nobody notified.
SpuriousWakeup(c) ==
  /\ c \in waiting
  /\ waiting' = waiting \ {c}
  /\ woken' = woken \cup {c}
  /\ UNCHANGED <<queue, stopped, dropped_frames, finished, pushed, taken>>

\* Mutant: stop forgets notify_all.
StopSilently ==
  /\ stopped' = TRUE
  /\ UNCHANGED <<queue, dropped_frames, waiting, woken, finished, pushed, taken>>

\* Both main and the encoder thread call stop, so it may run twice.
Stop ==
  /\ stopped' = TRUE
  /\ woken' = woken \cup waiting
  /\ waiting' = {}
  /\ UNCHANGED <<queue, dropped_frames, finished, pushed, taken>>

Next ==
  \/ Push
  \/ Stop
  \/ \E c \in Consumers : WaitAndPop(c) \/ SpuriousWakeup(c)

Spec == Init /\ [][Next]_vars

\* A consumer loops on waitAndPop and is scheduled; nothing is assumed of the
\* producer, of stop, or of spurious wake-ups.
FairSpec == Spec /\ \A c \in Consumers : WF_vars(WaitAndPop(c))

-----------------------------------------------------------------------------
(* Properties                                                              *)

TypeOK ==
  /\ queue \in Seq(1 .. MaxPushes)
  /\ stopped \in BOOLEAN
  /\ dropped_frames \in 0 .. MaxPushes
  /\ waiting \subseteq Consumers
  /\ woken \subseteq Consumers
  /\ finished \subseteq Consumers
  /\ waiting \cap woken = {}
  /\ pushed \in 0 .. MaxPushes
  /\ taken \in Seq(1 .. MaxPushes)

\* A consumer stays blocked only while the queue runs and every frame in it has
\* a woken consumer coming for it: push's notify_one and stop's notify_all
\* leave no thread asleep next to work, in every order of the calls.
NoLostWakeup ==
  waiting # {} => ~stopped /\ Len(queue) <= Cardinality(woken)

\* push keeps the newest frames: the queue is exactly the last frames pushed,
\* in order and without a gap, and never more than capacity_ of them.
HoldsNewest ==
  /\ Len(queue) <= Capacity
  /\ \A i \in 1 .. Len(queue) : queue[i] = pushed - Len(queue) + i

\* The drop counter tells the truth: every frame pushed is in the queue, was
\* handed out, or is counted by droppedFrames(), and is only one of the three.
Accounted == pushed = dropped_frames + Len(taken) + Len(queue)

\* Consumers get frames in the order of capture, none twice, and no frame
\* still queued is older than one already handed out.
InOrder ==
  /\ \A i, j \in 1 .. Len(taken) : i < j => taken[i] < taken[j]
  /\ \A i \in 1 .. Len(taken), j \in 1 .. Len(queue) : taken[i] < queue[j]

\* The queue is a window on the newest frames, as FreshWindow describes it.
Window == INSTANCE FreshWindow WITH
  produced <- pushed,
  window <- queue,
  delivered <- IF taken = << >> THEN 0 ELSE taken[Len(taken)]

ImplementsFreshWindow == Window!Spec

\* Once the queue is stopped every consumer leaves its loop, so a join of the
\* consumer threads returns.  This needs a producer that goes quiet, as MaxPushes
\* makes it: in main.cpp the capture loop ends when the queues are stopped.
StopEndsConsumers == stopped ~> (finished = Consumers)

\* A frame does not sit in the queue for ever while a consumer runs its loop:
\* it is handed out, or a newer one pushes it out.
FrameLeaves ==
  \A n \in 1 .. MaxPushes :
    (\E i \in 1 .. Len(queue) : queue[i] = n)
      ~> \/ ~ \E i \in 1 .. Len(queue) : queue[i] = n
         \/ finished = Consumers
=============================================================================
