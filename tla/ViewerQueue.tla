---------------------------- MODULE ViewerQueue ----------------------------
(***************************************************************************)
(* camera_gateway/src/TcpServer.cpp: the send queue of each viewer, filled *)
(* by the epoll thread (handleViewerRequest, queueFrameForViewers) and     *)
(* emptied by the sender thread (senderLoop).                              *)
(*                                                                         *)
(* A chunk is a number: Header and Config precede the frames, which are    *)
(* numbered in the order the producer sent them.  viewers_mtx is held by   *)
(* the epoll thread for one action at a time and by the sender thread      *)
(* during a whole pass over the roster, which is the set todo.             *)
(*                                                                         *)
(* A viewer is a connection, and none comes back under the same fd.        *)
(***************************************************************************)
EXTENDS Integers, Sequences, FiniteSets

CONSTANTS
  Viewers,    \* the connections that become viewers
  MaxQueued,  \* MAX_QUEUED_FRAMES
  ChunkSize,  \* bytes in each chunk
  SockSize,   \* bytes the kernel buffers for a viewer
  MaxFrames   \* bound on the number of frames the producer sends

ASSUME ViewersAssumption == IsFiniteSet(Viewers)
\* MAX_QUEUED_FRAMES is 15: the header, the config and a frame always fit.
ASSUME MaxQueuedAssumption == MaxQueued \in Nat /\ MaxQueued >= 3
ASSUME MaxFramesAssumption == MaxFrames \in Nat

Header == -1
Config == 0
Chunks == Header .. MaxFrames

\* Neither the header, nor a config, nor a frame is empty.
ASSUME SizesAssumption == ChunkSize \in [Chunks -> Nat \ {0}] /\ SockSize \in Nat \ {0}

VARIABLES
  frames,     \* number of frames the producer sent so far
  config,     \* whether bootstrap_config holds one
  idr,        \* bootstrap_frame: the last IDR frame, 0 if none
  roster,     \* the keys of viewers
  queue,      \* send_queue of each viewer
  offset,     \* current_offset of each viewer
  active,     \* active of each viewer
  joined,     \* the frames broadcast before the viewer joined, -1 if it did not
  peer,       \* the other end of each connection: "up" or "down"
  sock,       \* bytes sent to each viewer that it has not read
  wire,       \* what was sent to each viewer: runs of bytes of one chunk
  sender,     \* where the sender thread is
  notified,   \* whether notify_one found the sender thread waiting
  todo,       \* the viewers the current pass has not served
  dead,       \* dead_fds of the sender thread
  epollDead   \* dead_fds of the epoll thread

streamVars == <<frames, config, idr>>
viewerVars == <<roster, queue, offset, active, joined, wire>>
socketVars == <<peer, sock>>
senderVars == <<sender, notified, todo, dead>>
vars == <<streamVars, viewerVars, socketVars, senderVars, epollDead>>

Init ==
  /\ frames = 0 /\ config = FALSE /\ idr = 0
  /\ roster = {}
  /\ queue = [v \in Viewers |-> << >>]
  /\ offset = [v \in Viewers |-> 0]
  /\ active = [v \in Viewers |-> FALSE]
  /\ joined = [v \in Viewers |-> -1]
  /\ peer = [v \in Viewers |-> "up"]
  /\ sock = [v \in Viewers |-> 0]
  /\ wire = [v \in Viewers |-> << >>]
  /\ sender = "prepare" /\ notified = FALSE /\ todo = {} /\ dead = {}
  /\ epollDead = {}

\* No pass of the sender thread holds viewers_mtx.
RosterUnlocked == sender # "pass"

\* sender_cv.notify_one(): lost unless the sender thread is waiting.
NotifySender == notified' = (notified \/ sender = "waiting")

-----------------------------------------------------------------------------
(* The epoll thread: handleViewerRequest, handleCompleteFrame, removeViewer.*)

\* Mutant: the config is queued behind the frame it is for.
HandleViewerRequestSwapped(v) ==
  /\ joined[v] = -1 /\ epollDead = {} /\ RosterUnlocked
  /\ joined' = [joined EXCEPT ![v] = frames]
  /\ roster' = roster \cup {v}
  /\ active' = [active EXCEPT ![v] = TRUE]
  /\ offset' = [offset EXCEPT ![v] = 0]
  /\ queue' = [queue EXCEPT ![v] = <<Header>>
                 \o (IF idr > 0 THEN <<idr>> ELSE << >>)
                 \o (IF config THEN <<Config>> ELSE << >>)]
  /\ NotifySender
  /\ UNCHANGED <<streamVars, wire, socketVars, sender, todo, dead, epollDead>>

HandleViewerRequest(v) ==
  /\ joined[v] = -1 /\ epollDead = {} /\ RosterUnlocked
  /\ joined' = [joined EXCEPT ![v] = frames]
  /\ roster' = roster \cup {v}
  /\ active' = [active EXCEPT ![v] = TRUE]
  /\ offset' = [offset EXCEPT ![v] = 0]
  /\ queue' = [queue EXCEPT ![v] = <<Header>>
                 \o (IF config THEN <<Config>> ELSE << >>)
                 \o (IF idr > 0 THEN <<idr>> ELSE << >>)]
  /\ NotifySender
  /\ UNCHANGED <<streamVars, wire, socketVars, sender, todo, dead, epollDead>>

Last(q, k) == SubSeq(q, Len(q) - k + 1, Len(q))

\* Mutant: the oldest chunks go, whatever was sent of them.
TrimmedAtHead(q, off) ==
  IF Len(q) < MaxQueued THEN q ELSE Last(q, MaxQueued - 1)

\* Mutant: a viewer in the middle of a chunk loses its newest frames.
TrimmedAtTail(q, off) ==
  IF Len(q) < MaxQueued THEN q
  ELSE IF off = 0 THEN Last(q, MaxQueued - 1)
  ELSE SubSeq(q, 1, MaxQueued - 1)

\* The queue after the drops that make room for one frame: the oldest chunks go,
\* except the one of which some bytes were sent.
Trimmed(q, off) ==
  IF Len(q) < MaxQueued THEN q
  ELSE IF off = 0 THEN Last(q, MaxQueued - 1)
  ELSE <<Head(q)>> \o Last(q, MaxQueued - 2)

\* handleCompleteFrame: a frame may bring a config, and may be an IDR frame.
\* Viewers found inactive get nothing and are removed after the loop.
HandleCompleteFrame ==
  /\ frames < MaxFrames /\ epollDead = {} /\ RosterUnlocked
  /\ frames' = frames + 1
  /\ config' \in {config, TRUE}
  /\ idr' \in {idr, frames + 1}
  /\ queue' = [v \in Viewers |->
                 IF v \in roster /\ active[v]
                 THEN Append(Trimmed(queue[v], offset[v]), frames + 1)
                 ELSE queue[v]]
  /\ epollDead' = {v \in roster : ~active[v]}
  /\ NotifySender
  /\ UNCHANGED <<roster, offset, active, joined, wire, socketVars, sender, todo, dead>>

RemoveViewer(v) ==
  /\ RosterUnlocked
  /\ roster' = roster \ {v}

EpollRemovesDead(v) ==
  /\ v \in epollDead
  /\ RemoveViewer(v)
  /\ epollDead' = epollDead \ {v}
  /\ UNCHANGED <<streamVars, queue, offset, active, joined, wire, socketVars, senderVars>>

\* Mutant: the events of a closed connection are not asked for.
EpollHangUpIgnored(v) == FALSE

\* epoll reports EPOLLRDHUP, EPOLLHUP or EPOLLERR.
EpollHangUp(v) ==
  /\ peer[v] = "down" /\ v \in roster /\ epollDead = {}
  /\ RemoveViewer(v)
  /\ UNCHANGED <<streamVars, queue, offset, active, joined, wire, socketVars,
                 senderVars, epollDead>>

-----------------------------------------------------------------------------
(* The sender thread.                                                      *)

\* It locks sender_mtx and waits: a notification sent before is lost.
SenderWaits ==
  /\ sender = "prepare"
  /\ sender' = "waiting" /\ notified' = FALSE
  /\ UNCHANGED <<streamVars, viewerVars, socketVars, todo, dead, epollDead>>

\* Mutant: the sender thread waits without a timeout.
SenderStartsPassNotified ==
  /\ sender = "waiting" /\ notified
  /\ sender' = "pass" /\ notified' = FALSE
  /\ todo' = roster
  /\ UNCHANGED <<streamVars, viewerVars, socketVars, dead, epollDead>>

\* wait_for returns: notified, or after 5 ms.  The pass takes viewers_mtx.
SenderStartsPass ==
  /\ sender = "waiting"
  /\ sender' = "pass" /\ notified' = FALSE
  /\ todo' = roster
  /\ UNCHANGED <<streamVars, viewerVars, socketVars, dead, epollDead>>

\* Bytes of chunk c from first to last went out: one run if they continue one.
Sent(w, c, first, last) ==
  IF w # << >> /\ w[Len(w)].chunk = c /\ w[Len(w)].last = first - 1
  THEN [w EXCEPT ![Len(w)].last = last]
  ELSE Append(w, [chunk |-> c, first |-> first, last |-> last])

ToSend(v) == v \in todo /\ queue[v] # << >> /\ active[v]

\* Mutant: current_offset is not reset when a chunk is finished.
SendTakesNoReset(v, n) ==
  /\ sender = "pass" /\ ToSend(v)
  /\ n <= ChunkSize[Head(queue[v])] - offset[v] /\ n <= SockSize - sock[v]
  /\ sock' = [sock EXCEPT ![v] = @ + n]
  /\ wire' = [wire EXCEPT ![v] = Sent(@, Head(queue[v]), offset[v] + 1, offset[v] + n)]
  /\ offset' = [offset EXCEPT ![v] = @ + n]
  /\ queue' = [queue EXCEPT ![v] = IF offset[v] + n = ChunkSize[Head(@)] THEN Tail(@) ELSE @]
  /\ UNCHANGED <<streamVars, roster, active, joined, peer, senderVars, epollDead>>

\* send() takes some of the bytes offered, at most what the kernel has room for.
SendTakes(v, n) ==
  /\ sender = "pass" /\ ToSend(v)
  /\ n <= ChunkSize[Head(queue[v])] - offset[v] /\ n <= SockSize - sock[v]
  /\ sock' = [sock EXCEPT ![v] = @ + n]
  /\ wire' = [wire EXCEPT ![v] = Sent(@, Head(queue[v]), offset[v] + 1, offset[v] + n)]
  /\ IF offset[v] + n = ChunkSize[Head(queue[v])]
     THEN /\ queue' = [queue EXCEPT ![v] = Tail(@)]
          /\ offset' = [offset EXCEPT ![v] = 0]
     ELSE /\ offset' = [offset EXCEPT ![v] = @ + n]
          /\ UNCHANGED queue
  /\ UNCHANGED <<streamVars, roster, active, joined, peer, senderVars, epollDead>>

\* EAGAIN: leave this viewer and its offset for the next pass.
SendWouldBlock(v) ==
  /\ sender = "pass" /\ ToSend(v)
  /\ sock[v] = SockSize
  /\ todo' = todo \ {v}
  /\ UNCHANGED <<streamVars, viewerVars, socketVars, sender, notified, dead, epollDead>>

\* Any other error, which a connection that went down may cause at once or only
\* after the kernel took some more bytes: the viewer is inactive, to be removed after the pass.
SendFails(v) ==
  /\ sender = "pass" /\ ToSend(v)
  /\ peer[v] = "down"
  /\ active' = [active EXCEPT ![v] = FALSE]
  /\ dead' = dead \cup {v}
  /\ todo' = todo \ {v}
  /\ UNCHANGED <<streamVars, roster, queue, offset, joined, wire, socketVars,
                 sender, notified, epollDead>>

NothingToSend(v) ==
  /\ sender = "pass" /\ v \in todo /\ ~ToSend(v)
  /\ todo' = todo \ {v}
  /\ UNCHANGED <<streamVars, viewerVars, socketVars, sender, notified, dead, epollDead>>

\* The pass is over and viewers_mtx released.
SenderEndsPass ==
  /\ sender = "pass" /\ todo = {}
  /\ sender' = "kick"
  /\ UNCHANGED <<streamVars, viewerVars, socketVars, notified, todo, dead, epollDead>>

SenderRemovesDead(v) ==
  /\ sender = "kick" /\ v \in dead
  /\ RemoveViewer(v)
  /\ dead' = dead \ {v}
  /\ UNCHANGED <<streamVars, queue, offset, active, joined, wire, socketVars,
                 sender, notified, todo, epollDead>>

SenderLoops ==
  /\ sender = "kick" /\ dead = {}
  /\ sender' = "prepare"
  /\ UNCHANGED <<streamVars, viewerVars, socketVars, notified, todo, dead, epollDead>>

\* One step of the pass for viewer v.
Serve(v) ==
  \/ \E n \in 1 .. SockSize : SendTakes(v, n)
  \/ SendWouldBlock(v) \/ SendFails(v) \/ NothingToSend(v)

SenderThread ==
  \/ SenderWaits \/ SenderStartsPass \/ SenderEndsPass \/ SenderLoops
  \/ \E v \in Viewers : Serve(v) \/ SenderRemovesDead(v)

-----------------------------------------------------------------------------
(* The viewers' side of the connections.                                   *)

Reads(v) ==
  /\ peer[v] = "up" /\ sock[v] > 0
  /\ sock' = [sock EXCEPT ![v] = 0]
  /\ UNCHANGED <<streamVars, viewerVars, peer, senderVars, epollDead>>

Disconnects(v) ==
  /\ peer[v] = "up" /\ v \in roster
  /\ peer' = [peer EXCEPT ![v] = "down"]
  /\ UNCHANGED <<streamVars, viewerVars, sock, senderVars, epollDead>>

Next ==
  \/ HandleCompleteFrame \/ SenderThread
  \/ \E v \in Viewers :
       \/ HandleViewerRequest(v) \/ EpollRemovesDead(v) \/ EpollHangUp(v)
       \/ Reads(v) \/ Disconnects(v)

Spec == Init /\ [][Next]_vars

\* The threads run; wait_for returns after 5 ms at the latest; the epoll thread gets
\* viewers_mtx in the end, since the sender thread sleeps between its passes, and
\* so handles the events that stay reported and the dead viewers of a broadcast.
\* Of the viewers' side nothing is assumed.
FairSpec ==
  /\ Spec
  /\ WF_vars(SenderThread)
  /\ \A v \in Viewers : SF_vars(EpollRemovesDead(v)) /\ SF_vars(EpollHangUp(v))

-----------------------------------------------------------------------------
(* Properties                                                              *)

TypeOK ==
  /\ frames \in 0 .. MaxFrames /\ config \in BOOLEAN /\ idr \in 0 .. MaxFrames
  /\ roster \subseteq Viewers /\ todo \subseteq Viewers
  /\ dead \subseteq Viewers /\ epollDead \subseteq Viewers
  /\ queue \in [Viewers -> Seq(Chunks)]
  /\ offset \in [Viewers -> Nat]
  /\ active \in [Viewers -> BOOLEAN]
  /\ joined \in [Viewers -> -1 .. MaxFrames]
  /\ peer \in [Viewers -> {"up", "down"}]
  /\ sock \in [Viewers -> 0 .. SockSize]
  /\ wire \in [Viewers -> Seq([chunk : Chunks, first : Nat \ {0}, last : Nat \ {0}])]
  /\ sender \in {"prepare", "waiting", "pass", "kick"} /\ notified \in BOOLEAN

\* No send() of zero bytes, which the code would take for a lost connection, nor of a
\* size below zero: an offset points into the chunk at the head of its queue, also after
\* that queue was trimmed between two passes and shorter chunks than this moved up.
OffsetInHead ==
  \A v \in Viewers :
    IF queue[v] = << >> THEN offset[v] = 0 ELSE offset[v] < ChunkSize[Head(queue[v])]

\* What a viewer receives is whole chunks back to back: a backlog never drops the
\* rest of a chunk of which bytes were sent.
StreamUnbroken ==
  \A v \in Viewers : \A i \in 1 .. Len(wire[v]) :
    LET run == wire[v][i] IN
    /\ run.first = 1
    /\ \/ run.last = ChunkSize[run.chunk]
       \/ /\ i = Len(wire[v]) /\ queue[v] # << >>
          /\ Head(queue[v]) = run.chunk /\ offset[v] = run.last

\* A viewer never goes back in the stream: chunks are sent in order, none twice,
\* and what is queued behind the head is newer than what was sent.
NeverBackwards ==
  \A v \in Viewers :
    /\ \A i, j \in 1 .. Len(wire[v]) : i < j => wire[v][i].chunk < wire[v][j].chunk
    /\ \A i \in 1 .. Len(wire[v]), j \in 2 .. Len(queue[v]) :
         wire[v][i].chunk < queue[v][j]

\* The bound on the backlog costs no new frames: an active viewer's queue never exceeds
\* MAX_QUEUED_FRAMES, and behind the chunk being sent it is a run of frames without a
\* gap that ends with the newest one.
KeepsNewest ==
  \A v \in roster : active[v] =>
    /\ Len(queue[v]) <= MaxQueued
    /\ queue[v] # << >> /\ frames > joined[v] => queue[v][Len(queue[v])] = frames
    /\ \A i \in 2 .. Len(queue[v]) - 1 :
         queue[v][i] > joined[v] => queue[v][i + 1] = queue[v][i] + 1

\* A viewer that keeps reading gets all that is queued once the producer pauses,
\* whatever the others do: no chunk stays behind because notify_one was lost, nor
\* because another viewer stopped reading or vanished.
ReaderServed ==
  \A v \in Viewers :
    []<>(sock[v] = 0) => (queue[v] # << >> ~> (queue[v] = << >> \/ v \notin roster))

\* A viewer whose connection went down leaves the roster, also an idle one.
GonePeerRemoved ==
  \A v \in Viewers : (peer[v] = "down" /\ v \in roster) ~> v \notin roster

\* "the HTTP header is queued first" (handleViewerRequest), and a backlog drops
\* "the oldest complete frames" (queueFrameForViewers): a viewer's stream begins
\* with the header.
StartsWithHeader ==
  \A v \in Viewers : wire[v] # << >> => wire[v][1].chunk = Header
=============================================================================
