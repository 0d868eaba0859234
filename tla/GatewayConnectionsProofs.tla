---------------------- MODULE GatewayConnectionsProofs ----------------------
(***************************************************************************)
(* Proofs about GatewayConnections for every set of descriptors, every     *)
(* finite set of connections and every interleaving of the two threads.    *)
(***************************************************************************)
EXTENDS GatewayConnections, WellFoundedInduction, TLAPS

Threads == {"epoll", "sender"}

\* Past a read of a connection the epoll thread works on a descriptor.
FdInHand ==
  epc \in {"accepted", "read", "isViewer", "isProducer", "sniff", "request", "bytes"}
    => efd \in Fds

\* removeViewer is only called on a descriptor, and only open connections have
\* a client end that was accepted.
CallsOnFds == \A t \in Threads : Busy(t) => rm[t].fd \in Fds
OpenAccepted ==
  \A f \in Fds : conn[f] # NoConn => peer[conn[f]] \in {"up", "down"}

\* The inductive invariant.
IInv == TypeOK /\ FdInHand /\ CallsOnFds /\ OpenAccepted /\ NoLeak

-----------------------------------------------------------------------------
\* The kernel's lowest free descriptor exists and is free.
LEMMA LowestIsFree ==
  ASSUME FreeFds # {}
  PROVE  Min(FreeFds) \in FreeFds
<1> DEFINE less == OpToRel(<, Nat)
<1>1. FreeFds \subseteq Nat
  BY FdsAssumption DEF FreeFds
<1>2. \A x, y \in Nat : <<x, y>> \in less <=> x < y
  BY DEF OpToRel
<1>3. IsWellFoundedOn(less, Nat)
  BY NatLessThanWellFounded
<1> HIDE DEF less
<1>4. PICK x \in FreeFds : \A y \in FreeFds : <<y, x>> \notin less
  BY <1>1, <1>3, WFMin
<1>5. \A y \in FreeFds : x =< y
  <2> SUFFICES ASSUME NEW y \in FreeFds PROVE x =< y
    OBVIOUS
  <2>1. x \in Nat /\ y \in Nat /\ ~(y < x)
    BY <1>1, <1>2, <1>4
  <2> QED
    BY <2>1
<1> QED
  BY <1>4, <1>5 DEF Min

LEMMA InitIInv == Init => IInv
<1> SUFFICES ASSUME Init PROVE IInv
  OBVIOUS
<1>1. TypeOK
  BY ConnsAssumption DEF Init, TypeOK, Idle
<1> QED
  BY <1>1 DEF Init, IInv, FdInHand, CallsOnFds, Busy, OpenAccepted, NoLeak, Idle, Threads

\* removeViewer, whichever thread calls it and whatever the other one does.
LEMMA RemoveViewerIInv ==
  ASSUME IInv, NEW t \in Threads, RemoveViewer(t)
  PROVE  IInv'
<1> USE ConnsAssumption DEF Threads
<1>1. CASE EraseViewer(t)
  <2>1. TypeOK'
    BY <1>1 DEF EraseViewer, IInv, TypeOK, kernelVars, epollVars, senderVars
  <2>2. FdInHand' /\ OpenAccepted'
    BY <1>1 DEF EraseViewer, IInv, FdInHand, OpenAccepted, kernelVars, epollVars
  <2>3. CallsOnFds'
    BY <1>1 DEF EraseViewer, IInv, TypeOK, CallsOnFds, Busy
  <2>4. NoLeak'
    BY <1>1 DEF EraseViewer, IInv, TypeOK, NoLeak, InHand, kernelVars, epollVars
  <2> QED
    BY <2>1, <2>2, <2>3, <2>4 DEF IInv
<1>2. CASE EraseProducer(t)
  <2> DEFINE f == rm[t].fd
             close == rm[t].close \/ f \in producers \cup probe
             after == IF close THEN [fd |-> f, step |-> "close", close |-> TRUE] ELSE Idle
  <2>0. /\ rm' = [rm EXCEPT ![t] = after] /\ rm[t].step = "maps"
        /\ producers' = producers \ {f} /\ probe' = probe \ {f}
        /\ UNCHANGED <<conn, role, peer, inbox, faulty, viewers, inactive>>
        /\ UNCHANGED <<batch, epc, efd, edead, spc, sdead>>
    BY <1>2 DEF EraseProducer, kernelVars, epollVars, senderVars
  <2>1. TypeOK'
    <3>1. f \in Fds
      BY <2>0 DEF IInv, CallsOnFds, Busy
    <3>2. after \in [fd : Fds \cup {NoFd}, step : {"idle", "viewers", "maps", "close"},
                     close : BOOLEAN]
      BY <3>1 DEF Idle
    <3> HIDE DEF after
    <3> QED
      BY <2>0, <3>2 DEF IInv, TypeOK
  <2>2. FdInHand' /\ OpenAccepted'
    BY <2>0 DEF IInv, FdInHand, OpenAccepted
  <2>3. CallsOnFds'
    BY <2>0 DEF IInv, TypeOK, CallsOnFds, Busy, Idle
  <2>4. NoLeak'
    BY <2>0 DEF IInv, TypeOK, NoLeak, InHand
  <2> QED
    BY <2>1, <2>2, <2>3, <2>4 DEF IInv
<1>3. CASE CloseFd(t)
  <2>1. TypeOK'
    BY <1>3 DEF CloseFd, IInv, TypeOK, Idle, mapVars, epollVars, senderVars
  <2>2. FdInHand' /\ OpenAccepted'
    BY <1>3 DEF CloseFd, IInv, TypeOK, FdInHand, OpenAccepted, epollVars
  <2>3. CallsOnFds'
    BY <1>3 DEF CloseFd, IInv, TypeOK, CallsOnFds, Busy, Idle
  <2>4. NoLeak'
    BY <1>3 DEF CloseFd, IInv, TypeOK, NoLeak, InHand, mapVars, epollVars
  <2> QED
    BY <2>1, <2>2, <2>3, <2>4 DEF IInv
<1> QED
  BY <1>1, <1>2, <1>3 DEF RemoveViewer

\* Accepting: the descriptor taken is free, and in hand until AddProbe.
LEMMA AcceptIInv == IInv /\ Accept => IInv'
<1> SUFFICES ASSUME IInv, Accept PROVE IInv'
  OBVIOUS
<1> DEFINE low == Min(FreeFds)
<1>1. PICK c \in Backlog : /\ efd' = low
                           /\ conn' = [conn EXCEPT ![low] = c]
                           /\ peer' = [peer EXCEPT ![c] = "up"]
  BY DEF Accept
<1>2. low \in Fds /\ conn[low] = NoConn
  BY LowestIsFree DEF Accept, FreeFds
<1>3. /\ epc = "accept" /\ epc' = "accepted" /\ ~Busy("epoll")
      /\ UNCHANGED <<role, inbox, faulty, viewers, inactive, producers, probe>>
      /\ UNCHANGED <<batch, edead, spc, sdead, rm>>
  BY DEF Accept, EpollAt, mapVars, senderVars
<1>4. c \in Conns /\ c # NoConn /\ peer[c] = "backlog"
  BY ConnsAssumption DEF Backlog
<1>5. \A f \in Fds : conn[f] # c
  BY <1>4 DEF IInv, OpenAccepted
<1> HIDE DEF low
<1>6. TypeOK'
  BY <1>1, <1>2, <1>3, <1>4, <1>5 DEF IInv, TypeOK
<1>7. FdInHand' /\ CallsOnFds'
  BY <1>1, <1>2, <1>3 DEF IInv, FdInHand, CallsOnFds, Busy
<1>8. OpenAccepted'
  <2> SUFFICES ASSUME NEW f \in Fds, conn'[f] # NoConn
               PROVE  peer'[conn'[f]] \in {"up", "down"}
    BY DEF OpenAccepted
  <2>1. CASE f = low
    BY <1>1, <1>4, <2>1 DEF IInv, TypeOK
  <2>2. CASE f # low
    BY <1>1, <1>5, <2>2 DEF IInv, TypeOK, OpenAccepted
  <2> QED
    BY <2>1, <2>2
<1>9. NoLeak'
  BY <1>1, <1>2, <1>3 DEF IInv, TypeOK, NoLeak, InHand
<1> QED
  BY <1>6, <1>7, <1>8, <1>9 DEF IInv

\* A removeViewer call begins where none is under way: nothing in hand is lost.
LEMMA CallIInv ==
  ASSUME IInv, NEW t \in Threads, NEW f \in Fds, ~Busy(t),
         rm' = [rm EXCEPT ![t] = Remove(f)],
         UNCHANGED <<conn, peer, viewers, producers, probe>>,
         epc \in {"accepted", "request"} => epc' = epc /\ efd' = efd
  PROVE  /\ CallsOnFds' /\ OpenAccepted' /\ NoLeak'
         /\ rm' \in [Threads -> [fd : Fds \cup {NoFd},
                                 step : {"idle", "viewers", "maps", "close"},
                                 close : BOOLEAN]]
<1> USE DEF Threads, Remove
<1>1. CallsOnFds' /\ OpenAccepted'
  BY DEF IInv, TypeOK, CallsOnFds, Busy, OpenAccepted
<1>2. NoLeak'
  BY DEF IInv, TypeOK, NoLeak, InHand, Busy
<1> QED
  BY <1>1, <1>2 DEF IInv, TypeOK

LEMMA HandleEventIInv == IInv /\ HandleEvent => IInv'
<1> SUFFICES ASSUME IInv, HandleEvent PROVE IInv'
  OBVIOUS
<1>1. PICK e \in batch :
        /\ batch' = batch \ {e} /\ efd' = e.fd
        /\ CASE e.fd = Listen -> epc' = "accept" /\ UNCHANGED rm
             [] e.fd # Listen /\ e.hup ->
                  epc' = "wait" /\ rm' = [rm EXCEPT !["epoll"] = Remove(e.fd)]
             [] OTHER -> epc' = "read" /\ UNCHANGED rm
  BY DEF HandleEvent
<1>2. /\ epc = "wait" /\ ~Busy("epoll")
      /\ UNCHANGED <<conn, role, peer, inbox, faulty>>
      /\ UNCHANGED <<viewers, inactive, producers, probe, edead, spc, sdead>>
  BY DEF HandleEvent, EpollAt, kernelVars, mapVars, senderVars
<1>3. e.fd \in Fds \cup {Listen}
  BY DEF IInv, TypeOK
<1>4. CASE e.fd # Listen /\ e.hup
  <2>1. epc' = "wait" /\ rm' = [rm EXCEPT !["epoll"] = Remove(e.fd)] /\ e.fd \in Fds
    BY <1>1, <1>3, <1>4
  <2>2. FdInHand'
    BY <2>1 DEF FdInHand
  <2>3. /\ CallsOnFds' /\ OpenAccepted' /\ NoLeak'
        /\ rm' \in [Threads -> [fd : Fds \cup {NoFd},
                                step : {"idle", "viewers", "maps", "close"},
                                close : BOOLEAN]]
    BY <1>2, <2>1, CallIInv DEF Threads
  <2>4. TypeOK'
    BY <1>1, <1>2, <1>3, <2>1, <2>3 DEF IInv, TypeOK, Threads
  <2> QED
    BY <2>2, <2>3, <2>4 DEF IInv
<1>5. CASE e.fd = Listen \/ ~e.hup
  <2>1. rm' = rm /\ (epc' = "accept" \/ (epc' = "read" /\ e.fd \in Fds))
    BY <1>1, <1>3, <1>5
  <2>2. FdInHand'
    BY <1>1, <2>1 DEF FdInHand, Listen
  <2>3. CallsOnFds' /\ OpenAccepted' /\ NoLeak'
    BY <1>2, <2>1 DEF IInv, CallsOnFds, Busy, OpenAccepted, NoLeak, InHand
  <2>4. TypeOK'
    BY <1>1, <1>2, <1>3, <2>1 DEF IInv, TypeOK
  <2> QED
    BY <2>2, <2>3, <2>4 DEF IInv
<1> QED
  BY <1>4, <1>5

\* What the epoll thread reads decides the connection's part: every part it
\* gives a descriptor is in one of the maps, or in hand.
LEMMA ReadIInv == IInv /\ (EpollWait \/ Read \/ IsViewer \/ IsProducer) => IInv'
<1> USE DEF EpollAt, kernelVars, mapVars, epollVars, senderVars
<1>1. ASSUME IInv, EpollWait PROVE IInv'
  <2>0. batch' \subseteq [fd : Fds \cup {Listen}, hup : BOOLEAN]
    <3> SUFFICES ASSUME NEW e \in batch'
                 PROVE  e \in [fd : Fds \cup {Listen}, hup : BOOLEAN]
      OBVIOUS
    <3>1. \/ \E f \in Fds : e = [fd |-> f, hup |-> HungUp(f)]
          \/ e = [fd |-> Listen, hup |-> FALSE]
      <4> DEFINE ready == {[fd |-> f, hup |-> HungUp(f)] : f \in {g \in Fds : Ready(g)}}
                 accepts == {[fd |-> Listen, hup |-> FALSE] : c \in Backlog}
      <4>1. e \in ready \/ e \in accepts
        BY <1>1 DEF EpollWait
      <4>2. e \in ready => \E f \in Fds : e = [fd |-> f, hup |-> HungUp(f)]
        OBVIOUS
      <4>3. e \in accepts => e = [fd |-> Listen, hup |-> FALSE]
        OBVIOUS
      <4> QED
        BY <4>1, <4>2, <4>3
    <3>2. \A f \in Fds : HungUp(f) \in BOOLEAN
      BY DEF HungUp
    <3>3. \/ \E f \in Fds, h \in BOOLEAN : e = [fd |-> f, hup |-> h]
          \/ e = [fd |-> Listen, hup |-> FALSE]
      BY <3>1, <3>2, Zenon
    <3>4. \A f \in Fds \cup {Listen}, h \in BOOLEAN :
            [fd |-> f, hup |-> h] \in [fd : Fds \cup {Listen}, hup : BOOLEAN]
      BY SMT
    <3> QED
      BY <3>3, <3>4, Zenon
  <2>1. TypeOK'
    BY <1>1, <2>0 DEF EpollWait, IInv, TypeOK
  <2>2. FdInHand' /\ CallsOnFds' /\ OpenAccepted' /\ NoLeak'
    BY <1>1 DEF EpollWait, IInv, FdInHand, CallsOnFds, Busy, OpenAccepted, NoLeak, InHand
  <2> QED
    BY <2>1, <2>2 DEF IInv
<1>2. ASSUME IInv, Read PROVE IInv'
  <2>1. /\ epc = "read" /\ ~Busy("epoll") /\ efd \in Fds
        /\ UNCHANGED <<conn, role, peer, faulty, viewers, inactive, producers, probe>>
        /\ UNCHANGED <<batch, efd, edead, spc, sdead>>
    BY <1>2 DEF Read, IInv, FdInHand
  <2>2. FdInHand'
    BY <2>1 DEF FdInHand
  <2>3. CASE epc' = "wait" /\ rm' = [rm EXCEPT !["epoll"] = Remove(efd)] /\ UNCHANGED inbox
    <3>1. /\ CallsOnFds' /\ OpenAccepted' /\ NoLeak'
          /\ rm' \in [Threads -> [fd : Fds \cup {NoFd},
                                  step : {"idle", "viewers", "maps", "close"},
                                  close : BOOLEAN]]
      BY <1>2, <2>1, <2>3, CallIInv DEF Threads
    <3>2. TypeOK'
      BY <1>2, <2>1, <2>3, <3>1 DEF IInv, TypeOK, Threads
    <3> QED
      BY <2>2, <3>1, <3>2 DEF IInv
  <2>4. CASE epc' \in {"wait", "isViewer"} /\ rm' = rm /\ inbox' \subseteq inbox
    BY <1>2, <2>1, <2>2, <2>4
    DEF IInv, TypeOK, CallsOnFds, Busy, OpenAccepted, NoLeak, InHand
  <2> QED
    BY <1>2, <2>3, <2>4 DEF Read
<1>3. ASSUME IInv, IsViewer PROVE IInv'
  BY <1>3 DEF IsViewer, IInv, TypeOK, FdInHand, CallsOnFds, Busy, OpenAccepted, NoLeak, InHand
<1>4. ASSUME IInv, IsProducer PROVE IInv'
  BY <1>4 DEF IsProducer, IInv, TypeOK, FdInHand, CallsOnFds, Busy, OpenAccepted, NoLeak, InHand
<1> QED
  BY <1>1, <1>2, <1>3, <1>4

LEMMA PartIInv ==
  IInv /\ (AddProbe \/ AcceptEnds \/ Sniff \/ HandleViewerRequest) => IInv'
<1> USE DEF EpollAt, kernelVars, mapVars, epollVars, senderVars
<1>1. ASSUME IInv, AddProbe PROVE IInv'
  BY <1>1 DEF AddProbe, IInv, TypeOK, FdInHand, CallsOnFds, Busy, OpenAccepted, NoLeak, InHand
<1>2. ASSUME IInv, AcceptEnds PROVE IInv'
  BY <1>2 DEF AcceptEnds, IInv, TypeOK, FdInHand, CallsOnFds, Busy, OpenAccepted, NoLeak, InHand
<1>3. ASSUME IInv, Sniff PROVE IInv'
  <2>1. /\ epc = "sniff" /\ efd \in Fds
        /\ UNCHANGED <<conn, role, peer, inbox, faulty, viewers, inactive>>
        /\ UNCHANGED <<batch, efd, edead, spc, sdead, rm>>
    BY <1>3 DEF Sniff, IInv, FdInHand
  <2>2. \/ probe' = probe \cup {efd} /\ epc' = "wait" /\ UNCHANGED producers
        \/ probe' = probe \ {efd} /\ epc' = "request" /\ UNCHANGED producers
        \/ probe' = probe \ {efd} /\ epc' = "bytes" /\ producers' = producers \cup {efd}
    BY <1>3 DEF Sniff
  <2>3. TypeOK' /\ FdInHand' /\ CallsOnFds' /\ OpenAccepted'
    BY <1>3, <2>1, <2>2 DEF IInv, TypeOK, FdInHand, CallsOnFds, Busy, OpenAccepted
  <2>4. NoLeak'
    BY <1>3, <2>1, <2>2 DEF IInv, TypeOK, NoLeak, InHand
  <2> QED
    BY <2>3, <2>4 DEF IInv
<1>4. ASSUME IInv, HandleViewerRequest PROVE IInv'
  BY <1>4 DEF HandleViewerRequest, IInv, TypeOK, FdInHand, CallsOnFds, Busy, OpenAccepted,
    NoLeak, InHand
<1> QED
  BY <1>1, <1>2, <1>3, <1>4

LEMMA ProducerIInv == IInv /\ (HandleProducerBytes \/ Broadcast \/ Sweep) => IInv'
<1> USE DEF EpollAt, kernelVars, mapVars, epollVars, senderVars, Threads
<1>1. ASSUME IInv, HandleProducerBytes PROVE IInv'
  <2>1. /\ epc = "bytes" /\ efd \in Fds /\ ~Busy("epoll")
        /\ producers' = producers \cup {efd}
        /\ UNCHANGED <<conn, role, peer, inbox, viewers, inactive, probe>>
        /\ UNCHANGED <<batch, efd, edead, spc, sdead>>
    BY <1>1 DEF HandleProducerBytes, IInv, FdInHand
  <2>2. CASE epc' \in {"wait", "frame"} /\ UNCHANGED <<rm, faulty>>
    BY <1>1, <2>1, <2>2
    DEF IInv, TypeOK, FdInHand, CallsOnFds, Busy, OpenAccepted, NoLeak, InHand
  <2>3. CASE /\ epc' = "wait" /\ rm' = [rm EXCEPT !["epoll"] = Remove(efd)]
             /\ faulty' = faulty \cup {c \in Conns : c = conn[efd] /\ role[c] = "producer"}
    <3>1. FdInHand'
      BY <2>3 DEF FdInHand
    <3>2. CallsOnFds' /\ OpenAccepted'
      BY <1>1, <2>1, <2>3 DEF IInv, TypeOK, CallsOnFds, Busy, OpenAccepted, Remove
    <3>3. NoLeak'
      BY <1>1, <2>1, <2>3 DEF IInv, TypeOK, NoLeak, InHand, Busy, Remove
    <3>4. TypeOK'
      BY <1>1, <2>1, <2>3 DEF IInv, TypeOK, Remove
    <3> QED
      BY <3>1, <3>2, <3>3, <3>4 DEF IInv
  <2> QED
    BY <1>1, <2>2, <2>3 DEF HandleProducerBytes
<1>2. ASSUME IInv, Broadcast PROVE IInv'
  BY <1>2 DEF Broadcast, IInv, TypeOK, FdInHand, CallsOnFds, Busy, OpenAccepted, NoLeak, InHand
<1>3. ASSUME IInv, Sweep PROVE IInv'
  <2>1. CASE edead = {}
    BY <1>3, <2>1 DEF Sweep, IInv, TypeOK, FdInHand, CallsOnFds, Busy, OpenAccepted,
      NoLeak, InHand
  <2>2. CASE edead # {}
    <3>1. PICK f \in edead : /\ edead' = edead \ {f}
                             /\ rm' = [rm EXCEPT !["epoll"] = Remove(f)]
                             /\ UNCHANGED epc
      BY <1>3, <2>2 DEF Sweep
    <3>2. f \in Fds
      BY <1>3 DEF IInv, TypeOK
    <3>3. /\ CallsOnFds' /\ OpenAccepted' /\ NoLeak'
          /\ rm' \in [Threads -> [fd : Fds \cup {NoFd},
                                  step : {"idle", "viewers", "maps", "close"},
                                  close : BOOLEAN]]
      BY <1>3, <3>1, <3>2, CallIInv DEF Sweep
    <3>4. TypeOK' /\ FdInHand'
      BY <1>3, <3>1, <3>3 DEF Sweep, IInv, TypeOK, FdInHand
    <3> QED
      BY <3>3, <3>4 DEF IInv
  <2> QED
    BY <2>1, <2>2
<1> QED
  BY <1>1, <1>2, <1>3

LEMMA SenderIInv == IInv /\ (SenderPass \/ SenderKicks) => IInv'
<1> USE DEF kernelVars, mapVars, epollVars, senderVars
<1>1. ASSUME IInv, SenderPass PROVE IInv'
  BY <1>1 DEF SenderPass, IInv, TypeOK, FdInHand, CallsOnFds, Busy, OpenAccepted, NoLeak, InHand
<1>2. ASSUME IInv, SenderKicks PROVE IInv'
  <2>1. CASE sdead = {}
    BY <1>2, <2>1 DEF SenderKicks, IInv, TypeOK, FdInHand, CallsOnFds, Busy, OpenAccepted,
      NoLeak, InHand
  <2>2. CASE sdead # {}
    <3>1. PICK f \in sdead : /\ sdead' = sdead \ {f}
                             /\ rm' = [rm EXCEPT !["sender"] = Remove(f)]
                             /\ UNCHANGED spc
      BY <1>2, <2>2 DEF SenderKicks
    <3>2. f \in Fds
      BY <1>2 DEF IInv, TypeOK
    <3>3. /\ CallsOnFds' /\ OpenAccepted' /\ NoLeak'
          /\ rm' \in [Threads -> [fd : Fds \cup {NoFd},
                                  step : {"idle", "viewers", "maps", "close"},
                                  close : BOOLEAN]]
      BY <1>2, <3>1, <3>2, CallIInv DEF SenderKicks, Threads
    <3>4. TypeOK' /\ FdInHand'
      BY <1>2, <3>1, <3>3 DEF SenderKicks, IInv, TypeOK, FdInHand, Threads
    <3> QED
      BY <3>3, <3>4 DEF IInv
  <2> QED
    BY <2>1, <2>2
<1> QED
  BY <1>1, <1>2

LEMMA ClientIInv ==
  ASSUME IInv, NEW c \in Conns, ClientConnects(c) \/ ClientSends(c) \/ ClientLeaves(c)
  PROVE  IInv'
<1> USE DEF mapVars, epollVars, senderVars
<1>1. /\ peer[c] # "new" => peer'[c] # "backlog"
      /\ peer' = peer \/ \E p \in {"backlog", "down"} : peer' = [peer EXCEPT ![c] = p]
      /\ peer'[c] = "backlog" => peer[c] \in {"new", "backlog"}
      /\ inbox' \subseteq inbox \cup {c}
      /\ UNCHANGED <<conn, role, faulty, viewers, inactive, producers, probe>>
      /\ UNCHANGED <<batch, epc, efd, edead, spc, sdead, rm>>
  BY DEF ClientConnects, ClientSends, ClientLeaves, IInv, TypeOK
<1>2. TypeOK' /\ FdInHand' /\ CallsOnFds' /\ NoLeak'
  BY <1>1 DEF IInv, TypeOK, FdInHand, CallsOnFds, Busy, NoLeak, InHand
<1>3. OpenAccepted'
  BY <1>1 DEF IInv, TypeOK, OpenAccepted
<1> QED
  BY <1>2, <1>3 DEF IInv

LEMMA NextIInv == IInv /\ [Next]_vars => IInv'
<1> SUFFICES ASSUME IInv, [Next]_vars PROVE IInv'
  OBVIOUS
<1>1. CASE EpollThread
  BY <1>1, AcceptIInv, HandleEventIInv, ReadIInv, PartIInv, ProducerIInv, RemoveViewerIInv
  DEF EpollThread, Threads
<1>2. CASE SenderThread
  BY <1>2, SenderIInv, RemoveViewerIInv DEF SenderThread, Threads
<1>3. ASSUME NEW c \in Conns, ClientConnects(c) \/ ClientSends(c) \/ ClientLeaves(c)
      PROVE  IInv'
  BY <1>3, ClientIInv
<1>4. CASE UNCHANGED vars
  BY <1>4 DEF vars, kernelVars, mapVars, epollVars, senderVars, IInv, TypeOK, FdInHand,
    CallsOnFds, Busy, OpenAccepted, NoLeak, InHand
<1> QED
  BY <1>1, <1>2, <1>3, <1>4 DEF Next

-----------------------------------------------------------------------------
\* Every map of TcpServer holds descriptors, an inactive viewer is a viewer, and
\* no connection is open under two descriptors.
THEOREM TypeCorrect == Spec => []TypeOK
<1>1. IInv => TypeOK
  BY DEF IInv
<1> QED
  BY <1>1, InitIInv, NextIInv, PTL DEF Spec

\* removeViewer run by both threads at once, on stale events and on descriptors
\* handed out again, never drops an open connection out of all the maps: one that
\* is in none of them is in hand of a thread that will add it to one or close it.
THEOREM NoConnectionLeaks == Spec => []NoLeak
<1>1. IInv => NoLeak
  BY DEF IInv
<1> QED
  BY <1>1, InitIInv, NextIInv, PTL DEF Spec
=============================================================================
