------------------------- MODULE GatewayConnections -------------------------
(***************************************************************************)
(* camera_gateway/src/TcpServer.cpp: the life of the gateway's connections *)
(* and of the file descriptors they live under.  The epoll thread (start)  *)
(* accepts, reads, recognises and removes connections; the sender thread   *)
(* (senderLoop) removes the viewers it fails to send to.  They share the   *)
(* maps viewers, producers and pending_probe, all keyed by fd, each under  *)
(* its lock, and the kernel's table of descriptors, under none.            *)
(*                                                                         *)
(* Every critical section and every system call is one step.  What is read *)
(* counts only as far as it decides the connection's part: a viewer sends  *)
(* "GET ", a producer frames or, against the protocol, something else.     *)
(***************************************************************************)
EXTENDS Integers, FiniteSets, FiniteSetsExt

CONSTANTS
  Fds,    \* descriptors the kernel may hand out, numbers
  Conns   \* the connections clients make

NoConn == "none"
NoFd == -1
ASSUME FdsAssumption == Fds \subseteq Nat /\ IsFiniteSet(Fds) /\ Fds # {}
ASSUME ConnsAssumption == IsFiniteSet(Conns) /\ NoConn \notin Conns

VARIABLES
  conn,       \* the connection open under each fd
  role,       \* what each client is: "viewer" or "producer"
  peer,       \* each client's end: "new", "backlog", "up" or "down"
  inbox,      \* clients that sent bytes the gateway has not read
  faulty,     \* clients whose bytes were no frame
  viewers,    \* the keys of viewers
  inactive,   \* those of them whose Viewer has active = false
  producers,  \* the keys of producers
  probe,      \* the keys of pending_probe
  batch,      \* the events epoll_wait returned that are still to be handled
  epc,        \* where the epoll thread is
  efd,        \* active_client_fd, or the client_fd just accepted
  edead,      \* dead_fds of queueFrameForViewers
  spc,        \* where the sender thread is
  sdead,      \* dead_fds of senderLoop
  rm          \* each thread's call of removeViewer

kernelVars == <<conn, role, peer, inbox, faulty>>
mapVars == <<viewers, inactive, producers, probe>>
epollVars == <<batch, epc, efd, edead>>
senderVars == <<spc, sdead>>
vars == <<kernelVars, mapVars, epollVars, senderVars, rm>>

Listen == -2   \* server_fd
Idle == [fd |-> NoFd, step |-> "idle", close |-> FALSE]

Init ==
  /\ conn = [f \in Fds |-> NoConn]
  /\ role \in [Conns -> {"viewer", "producer"}]
  /\ peer = [c \in Conns |-> "new"]
  /\ inbox = {} /\ faulty = {}
  /\ viewers = {} /\ inactive = {} /\ producers = {} /\ probe = {}
  /\ batch = {} /\ epc = "wait" /\ efd = NoFd /\ edead = {}
  /\ spc = "idle" /\ sdead = {}
  /\ rm = [t \in {"epoll", "sender"} |-> Idle]

Opened(c) == \E f \in Fds : conn[f] = c
FreeFds == {f \in Fds : conn[f] = NoConn}

-----------------------------------------------------------------------------
(* The clients.                                                            *)

ClientConnects(c) ==
  /\ peer[c] = "new"
  /\ peer' = [peer EXCEPT ![c] = "backlog"]
  /\ UNCHANGED <<conn, role, inbox, faulty, mapVars, epollVars, senderVars, rm>>

ClientSends(c) ==
  /\ peer[c] = "up" /\ Opened(c)
  /\ inbox' = inbox \cup {c}
  /\ UNCHANGED <<conn, role, peer, faulty, mapVars, epollVars, senderVars, rm>>

ClientLeaves(c) ==
  /\ peer[c] = "up"
  /\ peer' = [peer EXCEPT ![c] = "down"]
  /\ UNCHANGED <<conn, role, inbox, faulty, mapVars, epollVars, senderVars, rm>>

-----------------------------------------------------------------------------
(* removeViewer(fd), called by thread t: three steps.                      *)

Remove(f) == [fd |-> f, step |-> "viewers", close |-> FALSE]

EraseViewer(t) ==
  /\ rm[t].step = "viewers"
  /\ LET f == rm[t].fd IN
       /\ rm' = [rm EXCEPT ![t].step = "maps", ![t].close = f \in viewers]
       /\ viewers' = viewers \ {f}
       /\ inactive' = inactive \ {f}
  /\ UNCHANGED <<kernelVars, producers, probe, epollVars, senderVars>>

\* Mutant: a connection still in pending_probe is erased but not closed.
EraseProducerNotProbe(t) ==
  /\ rm[t].step = "maps"
  /\ LET f == rm[t].fd
         close == rm[t].close \/ f \in producers IN
       /\ producers' = producers \ {f}
       /\ probe' = probe \ {f}
       /\ rm' = [rm EXCEPT ![t] =
                   IF close THEN [fd |-> f, step |-> "close", close |-> TRUE] ELSE Idle]
  /\ UNCHANGED <<kernelVars, viewers, inactive, epollVars, senderVars>>

EraseProducer(t) ==
  /\ rm[t].step = "maps"
  /\ LET f == rm[t].fd
         close == rm[t].close \/ f \in producers \cup probe IN
       /\ producers' = producers \ {f}
       /\ probe' = probe \ {f}
       /\ rm' = [rm EXCEPT ![t] =
                   IF close THEN [fd |-> f, step |-> "close", close |-> TRUE] ELSE Idle]
  /\ UNCHANGED <<kernelVars, viewers, inactive, epollVars, senderVars>>

\* epoll_ctl DEL and close, whatever connection the descriptor stands for now.
CloseFd(t) ==
  /\ rm[t].step = "close"
  /\ conn' = [conn EXCEPT ![rm[t].fd] = NoConn]
  /\ inbox' = inbox \ {conn[rm[t].fd]}
  /\ rm' = [rm EXCEPT ![t] = Idle]
  /\ UNCHANGED <<role, peer, faulty, mapVars, epollVars, senderVars>>

RemoveViewer(t) == EraseViewer(t) \/ EraseProducer(t) \/ CloseFd(t)

Busy(t) == rm[t].step # "idle"

-----------------------------------------------------------------------------
(* The epoll thread.                                                       *)

EpollAt(label) == epc = label /\ ~Busy("epoll")

HungUp(f) == conn[f] # NoConn /\ peer[conn[f]] = "down"
Ready(f) == HungUp(f) \/ conn[f] \in inbox
Backlog == {c \in Conns : peer[c] = "backlog"}

\* epoll_wait: what is ready now, to be handled later.
EpollWait ==
  /\ EpollAt("wait") /\ batch = {}
  /\ batch' = {[fd |-> f, hup |-> HungUp(f)] : f \in {g \in Fds : Ready(g)}}
              \cup {[fd |-> Listen, hup |-> FALSE] : c \in Backlog}
  /\ batch' # {}
  /\ UNCHANGED <<kernelVars, mapVars, epc, efd, edead, senderVars, rm>>

\* Mutant: EPOLLRDHUP and EPOLLHUP are skipped.
HandleEventNoHangUp ==
  /\ EpollAt("wait")
  /\ \E e \in batch :
       /\ batch' = batch \ {e}
       /\ efd' = e.fd
       /\ epc' = CASE e.fd = Listen -> "accept"
                   [] e.fd # Listen /\ e.hup -> "wait"
                   [] OTHER -> "read"
  /\ UNCHANGED <<kernelVars, mapVars, edead, senderVars, rm>>

HandleEvent ==
  /\ EpollAt("wait")
  /\ \E e \in batch :
       /\ batch' = batch \ {e}
       /\ efd' = e.fd
       /\ CASE e.fd = Listen -> epc' = "accept" /\ UNCHANGED rm
            [] e.fd # Listen /\ e.hup ->
                 epc' = "wait" /\ rm' = [rm EXCEPT !["epoll"] = Remove(e.fd)]
            [] OTHER -> epc' = "read" /\ UNCHANGED rm
  /\ UNCHANGED <<kernelVars, mapVars, edead, senderVars>>

\* accept hands out the lowest free descriptor; the connection is not in
\* pending_probe yet.
Accept ==
  /\ EpollAt("accept")
  /\ FreeFds # {}
  /\ \E c \in Backlog :
       /\ efd' = Min(FreeFds)
       /\ conn' = [conn EXCEPT ![Min(FreeFds)] = c]
       /\ peer' = [peer EXCEPT ![c] = "up"]
  /\ epc' = "accepted"
  /\ UNCHANGED <<role, inbox, faulty, mapVars, batch, edead, senderVars, rm>>

AddProbe ==
  /\ EpollAt("accepted")
  /\ probe' = probe \cup {efd}
  /\ epc' = "accept"
  /\ UNCHANGED <<kernelVars, viewers, inactive, producers, batch, efd, edead, senderVars, rm>>

\* EAGAIN, or no descriptor left: break.
AcceptEnds ==
  /\ EpollAt("accept")
  /\ Backlog = {} \/ FreeFds = {}
  /\ epc' = "wait"
  /\ UNCHANGED <<kernelVars, mapVars, batch, efd, edead, senderVars, rm>>

\* read: bytes, the end of the stream, EAGAIN, or EBADF on a closed descriptor.
Read ==
  /\ EpollAt("read")
  /\ CASE conn[efd] \in inbox ->
            /\ epc' = "isViewer" /\ inbox' = inbox \ {conn[efd]} /\ UNCHANGED rm
       [] conn[efd] \notin inbox /\ (conn[efd] = NoConn \/ HungUp(efd)) ->
            /\ epc' = "wait" /\ rm' = [rm EXCEPT !["epoll"] = Remove(efd)]
            /\ UNCHANGED inbox
       [] OTHER -> epc' = "wait" /\ UNCHANGED <<inbox, rm>>
  /\ UNCHANGED <<conn, role, peer, faulty, mapVars, batch, efd, edead, senderVars>>

IsViewer ==
  /\ EpollAt("isViewer")
  /\ epc' = IF efd \in viewers THEN "wait" ELSE "isProducer"
  /\ UNCHANGED <<kernelVars, mapVars, batch, efd, edead, senderVars, rm>>

IsProducer ==
  /\ EpollAt("isProducer")
  /\ epc' = IF efd \in producers THEN "bytes" ELSE "sniff"
  /\ UNCHANGED <<kernelVars, mapVars, batch, efd, edead, senderVars, rm>>

\* The first bytes: fewer than PROBE_BYTES, "GET ", or a length prefix.
Sniff ==
  /\ EpollAt("sniff")
  /\ \/ /\ probe' = probe \cup {efd} /\ epc' = "wait" /\ UNCHANGED producers
     \/ /\ probe' = probe \ {efd}
        /\ IF conn[efd] # NoConn /\ role[conn[efd]] = "viewer"
           THEN epc' = "request" /\ UNCHANGED producers
           ELSE epc' = "bytes" /\ producers' = producers \cup {efd}
  /\ UNCHANGED <<kernelVars, viewers, inactive, batch, efd, edead, senderVars, rm>>

HandleViewerRequest ==
  /\ EpollAt("request")
  /\ viewers' = viewers \cup {efd}
  /\ inactive' = inactive \ {efd}
  /\ epc' = "wait"
  /\ UNCHANGED <<kernelVars, producers, probe, batch, efd, edead, senderVars, rm>>

\* handleProducerBytes: producers[fd] is made if it is not there.  A viewer's
\* bytes are no frame; a producer's may be a whole frame, half a one, or none.
HandleProducerBytes ==
  /\ EpollAt("bytes")
  /\ producers' = producers \cup {efd}
  /\ \/ /\ conn[efd] # NoConn => role[conn[efd]] = "producer"
        /\ epc' \in {"wait", "frame"} /\ UNCHANGED <<rm, faulty>>
     \/ /\ epc' = "wait" /\ rm' = [rm EXCEPT !["epoll"] = Remove(efd)]
        /\ faulty' = faulty \cup {c \in Conns : c = conn[efd] /\ role[c] = "producer"}
  /\ UNCHANGED <<conn, role, peer, inbox, viewers, inactive, probe, batch, efd, edead, senderVars>>

\* queueFrameForViewers: note the inactive viewers, then remove them.
Broadcast ==
  /\ EpollAt("frame")
  /\ edead' = inactive
  /\ epc' = "sweep"
  /\ UNCHANGED <<kernelVars, mapVars, batch, efd, senderVars, rm>>

Sweep ==
  /\ EpollAt("sweep")
  /\ IF edead = {} THEN epc' = "wait" /\ UNCHANGED <<edead, rm>>
     ELSE \E f \in edead :
            /\ edead' = edead \ {f}
            /\ rm' = [rm EXCEPT !["epoll"] = Remove(f)]
            /\ UNCHANGED epc
  /\ UNCHANGED <<kernelVars, mapVars, batch, efd, senderVars>>

EpollThread ==
  \/ EpollWait \/ HandleEvent \/ Accept \/ AddProbe \/ AcceptEnds \/ Read
  \/ IsViewer \/ IsProducer \/ Sniff \/ HandleViewerRequest
  \/ HandleProducerBytes \/ Broadcast \/ Sweep \/ RemoveViewer("epoll")

-----------------------------------------------------------------------------
(* The sender thread.                                                      *)

\* send() fails: the descriptor is closed, or the client is gone.
SendFails(f) == conn[f] = NoConn \/ HungUp(f)

\* A pass over the roster marks some of the viewers it cannot send to; the
\* others have nothing queued, or their kernel still took the bytes.
SenderPass ==
  /\ spc = "idle"
  /\ \E S \in SUBSET {f \in viewers \ inactive : SendFails(f)} :
       /\ inactive' = inactive \cup S
       /\ sdead' = S
  /\ spc' = "kick"
  /\ UNCHANGED <<kernelVars, viewers, producers, probe, epollVars, rm>>

\* After the pass, without its lock: remove them one by one.
SenderKicks ==
  /\ spc = "kick" /\ ~Busy("sender")
  /\ IF sdead = {} THEN spc' = "idle" /\ UNCHANGED <<sdead, rm>>
     ELSE \E f \in sdead :
            /\ sdead' = sdead \ {f}
            /\ rm' = [rm EXCEPT !["sender"] = Remove(f)]
            /\ UNCHANGED spc
  /\ UNCHANGED <<kernelVars, mapVars, epollVars>>

SenderThread == SenderPass \/ SenderKicks \/ RemoveViewer("sender")

Next ==
  \/ EpollThread \/ SenderThread
  \/ \E c \in Conns : ClientConnects(c) \/ ClientSends(c) \/ ClientLeaves(c)

Spec == Init /\ [][Next]_vars

\* Both threads run.  Nothing is assumed of the clients.
FairSpec == Spec /\ WF_vars(EpollThread) /\ WF_vars(SenderThread)

-----------------------------------------------------------------------------
(* Properties                                                              *)

TypeOK ==
  /\ conn \in [Fds -> Conns \cup {NoConn}]
  /\ \A f, g \in Fds : f # g /\ conn[f] # NoConn => conn[f] # conn[g]
  /\ role \in [Conns -> {"viewer", "producer"}]
  /\ peer \in [Conns -> {"new", "backlog", "up", "down"}]
  /\ inbox \subseteq Conns /\ faulty \subseteq Conns
  /\ viewers \subseteq Fds /\ inactive \subseteq viewers
  /\ producers \subseteq Fds /\ probe \subseteq Fds
  /\ batch \subseteq [fd : Fds \cup {Listen}, hup : BOOLEAN]
  /\ epc \in {"wait", "accept", "accepted", "read", "isViewer", "isProducer",
              "sniff", "request", "bytes", "frame", "sweep"}
  /\ efd \in Fds \cup {Listen, NoFd} /\ edead \subseteq Fds
  /\ spc \in {"idle", "kick"} /\ sdead \subseteq Fds
  /\ rm \in [{"epoll", "sender"} ->
       [fd : Fds \cup {NoFd}, step : {"idle", "viewers", "maps", "close"}, close : BOOLEAN]]

\* A thread that has taken the last entry of fd f out of the maps, or is about to
\* put the first one in, has it in hand.
InHand(f) ==
  \/ efd = f /\ epc \in {"accepted", "request"}
  \/ \E t \in {"epoll", "sender"} :
       rm[t].fd = f /\ rm[t].step \in {"maps", "close"} /\ rm[t].close

\* No descriptor leaks: whatever the two threads do at once, an open connection is
\* in one of the maps, where removeViewer finds it, or a thread has it in hand.
NoLeak ==
  \A f \in Fds : conn[f] # NoConn => f \in viewers \cup producers \cup probe \/ InHand(f)

\* A connection whose client left is closed in the end, whatever it was and
\* whichever thread notices first: none stays open for ever with its descriptor.
GoneClosed == \A c \in Conns : (Opened(c) /\ peer[c] = "down") ~> ~Opened(c)

\* senderLoop "kicks those who dropped", start "cleans up whoever went offline": the
\* gateway closes no connection whose client is there and keeps the protocol.
OnlyDeadClosed ==
  [][\A f \in Fds : conn[f] # NoConn /\ conn'[f] = NoConn =>
       peer[conn[f]] = "down" \/ conn[f] \in faulty]_vars
=============================================================================
