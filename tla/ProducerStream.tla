--------------------------- MODULE ProducerStream ---------------------------
(***************************************************************************)
(* The byte stream from the camera process to the gateway:                 *)
(* stream/src/FramedTcpClient.cpp puts a length prefix before each packet  *)
(* and sends both in as many pieces as the kernel likes;                   *)
(* camera_gateway/src/TcpServer.cpp sees the bytes in other pieces, tells  *)
(* from the first ones that this is no viewer, and puts the packets        *)
(* together again.                                                         *)
(*                                                                         *)
(* A byte is a digit of base Base, the prefix has PrefixSize of them, most *)
(* significant first.  The epoll thread handles one read at a time; each   *)
(* round of its loops is a step, which no other thread can see inside.     *)
(***************************************************************************)
EXTENDS Integers, Sequences, SequencesExt

CONSTANTS
  Base,          \* 256
  PrefixSize,    \* sizeof(uint32_t), and PROBE_BYTES
  MaxFrameSize,  \* MAX_FRAME_SIZE
  Get,           \* "GET ", the first bytes of a viewer
  Packets,       \* what sendPacket may be given: sequences of bytes
  PipeSize,      \* bytes the kernels hold between the two processes
  ReadSize,      \* sizeof(buffer) of the gateway's read
  MaxPackets     \* bound on the number of packets sent

Byte == 0 .. Base - 1

ASSUME BaseAssumption == Base \in Nat /\ Base > 1 /\ PrefixSize \in Nat \ {0}
ASSUME BoundsAssumption ==
  /\ MaxFrameSize \in Nat \ {0} /\ PipeSize \in Nat \ {0}
  /\ ReadSize \in Nat \ {0} /\ MaxPackets \in Nat

\* What is left of n without its last digits, one less each time.
Shifted(n) ==
  LET shifted[i \in 0 .. PrefixSize] == IF i = 0 THEN n ELSE shifted[i - 1] \div Base
  IN  shifted

\* htonl: the digits of n, the most significant first.
Prefix(n) == [i \in 1 .. PrefixSize |-> Shifted(n)[PrefixSize - i] % Base]

\* ntohl of the first PrefixSize bytes.
Value(bytes) ==
  LET value[i \in 0 .. PrefixSize] == IF i = 0 THEN 0 ELSE value[i - 1] * Base + bytes[i]
  IN  value[PrefixSize]

\* No packet has 4 GiB.  sendPacket takes an empty one as well, though the one caller it
\* has, the encode thread, only sends what encode found not to be empty.
ASSUME PacketsAssumption ==
  \A p \in Packets : p \in Seq(Byte) /\ Shifted(Len(p))[PrefixSize] = 0

\* As a length, "GET " is more than a gigabyte: no packet is that long.
ASSUME GetAssumption ==
  /\ Get \in Seq(Byte) /\ Len(Get) = PrefixSize /\ Value(Get) > MaxFrameSize
  /\ \A p \in Packets : Prefix(Len(p)) # Get

VARIABLES
  packets,      \* the packets given to sendPacket, in order
  unsent,       \* bytes of the last of them that sendAll has still to send
  client,       \* sock_ of the camera process: "open" or "closed"
  pipe,         \* bytes sent that the gateway has not read
  server,       \* the gateway's descriptor: "open" or "closed"
  kind,         \* what the gateway takes the connection for
  recv_buffer,  \* pending_probe's bytes, then ProducerState::recv_buffer
  ready_frames, \* packets found in the current read
  delivered,    \* packets given to handleCompleteFrame, in order
  gpc           \* where the epoll thread is

clientVars == <<packets, unsent, client>>
serverVars == <<server, kind, recv_buffer, ready_frames, delivered, gpc>>
vars == <<clientVars, pipe, serverVars>>

Init ==
  /\ packets = << >> /\ unsent = << >> /\ client = "open"
  /\ pipe = << >>
  /\ server = "open" /\ kind = "unknown"
  /\ recv_buffer = << >> /\ ready_frames = << >> /\ delivered = << >>
  /\ gpc = "wait"

Take(s, n) == SubSeq(s, 1, n)
Drop(s, n) == SubSeq(s, n + 1, Len(s))

-----------------------------------------------------------------------------
(* FramedTcpClient.                                                        *)

SendPacket ==
  /\ client = "open" /\ unsent = << >> /\ Len(packets) < MaxPackets
  /\ \E p \in Packets :
       /\ packets' = Append(packets, p)
       /\ unsent' = Prefix(Len(p)) \o p
  /\ UNCHANGED <<client, pipe, serverVars>>

\* One send() inside sendAll.  EINTR and EAGAIN change nothing; the call blocks
\* while the kernel has no room.
SendSome(n) ==
  /\ client = "open"
  /\ n <= Len(unsent) /\ Len(pipe) + n <= PipeSize
  /\ server = "open"
  /\ pipe' = pipe \o Take(unsent, n)
  /\ unsent' = Drop(unsent, n)
  /\ UNCHANGED <<packets, client, serverVars>>

\* send() fails once the gateway has closed: the camera process winds down.
SendFails ==
  /\ client = "open" /\ unsent # << >> /\ server = "closed"
  /\ client' = "closed"
  /\ unsent' = << >>
  /\ UNCHANGED <<packets, pipe, serverVars>>

\* The camera process ends: between two packets, or killed in the middle of one.
CloseConnection ==
  /\ client = "open"
  /\ client' = "closed"
  /\ unsent' = << >>
  /\ UNCHANGED <<packets, pipe, serverVars>>

-----------------------------------------------------------------------------
(* The gateway.                                                            *)

\* read: some of the bytes there.  For a producer, and for a connection not
\* recognised yet, they go behind the bytes kept; a viewer's are ignored.
Read(n) ==
  /\ gpc = "wait" /\ server = "open"
  /\ n <= Len(pipe) /\ n <= ReadSize
  /\ pipe' = Drop(pipe, n)
  /\ IF kind = "viewer" THEN UNCHANGED <<recv_buffer, gpc>>
     ELSE /\ recv_buffer' = recv_buffer \o Take(pipe, n)
          /\ gpc' = IF kind = "unknown" THEN "sniff" ELSE "parse"
  /\ UNCHANGED <<clientVars, server, kind, ready_frames, delivered>>

\* Mutant: the bytes read for the recognition are not handed on.
SniffLosesBytes ==
  /\ gpc = "sniff"
  /\ CASE Len(recv_buffer) < PrefixSize ->
            gpc' = "wait" /\ UNCHANGED <<kind, recv_buffer>>
       [] Len(recv_buffer) >= PrefixSize /\ Take(recv_buffer, PrefixSize) = Get ->
            kind' = "viewer" /\ recv_buffer' = << >> /\ gpc' = "wait"
       [] OTHER ->
            kind' = "producer" /\ gpc' = "wait" /\ recv_buffer' = << >>
  /\ UNCHANGED <<clientVars, pipe, server, ready_frames, delivered>>

\* Mutant: one byte is enough to recognise a viewer.
SniffOneByte ==
  /\ gpc = "sniff"
  /\ IF Head(recv_buffer) = Head(Get)
     THEN kind' = "viewer" /\ recv_buffer' = << >> /\ gpc' = "wait"
     ELSE kind' = "producer" /\ gpc' = "parse" /\ UNCHANGED recv_buffer
  /\ UNCHANGED <<clientVars, pipe, server, ready_frames, delivered>>

\* The first PROBE_BYTES bytes decide what the connection is.
Sniff ==
  /\ gpc = "sniff"
  /\ CASE Len(recv_buffer) < PrefixSize ->
            gpc' = "wait" /\ UNCHANGED <<kind, recv_buffer>>
       [] Len(recv_buffer) >= PrefixSize /\ Take(recv_buffer, PrefixSize) = Get ->
            kind' = "viewer" /\ recv_buffer' = << >> /\ gpc' = "wait"
       [] OTHER ->
            kind' = "producer" /\ gpc' = "parse" /\ UNCHANGED recv_buffer
  /\ UNCHANGED <<clientVars, pipe, server, ready_frames, delivered>>

HasPrefix == Len(recv_buffer) >= PrefixSize
FrameSize == Value(recv_buffer)

\* Mutant: the length is not limited.
LegalUnlimited == FrameSize # 0

Legal == FrameSize # 0 /\ FrameSize <= MaxFrameSize

\* Mutant: a packet counts as whole when a byte of the next one is there.
WholeTooLate == Len(recv_buffer) > PrefixSize + FrameSize

Whole == Len(recv_buffer) >= PrefixSize + FrameSize

\* One round of the loop of handleProducerBytes: a whole packet.
ParseFrame ==
  /\ gpc = "parse" /\ HasPrefix /\ Legal /\ Whole
  /\ ready_frames' =
       Append(ready_frames, SubSeq(recv_buffer, PrefixSize + 1, PrefixSize + FrameSize))
  /\ recv_buffer' = Drop(recv_buffer, PrefixSize + FrameSize)
  /\ UNCHANGED <<clientVars, pipe, server, kind, delivered, gpc>>

\* Half a packet: keep it for the next read and hand on the whole ones.
ParseEnds ==
  /\ gpc = "parse" /\ (HasPrefix => Legal /\ ~Whole)
  /\ delivered' = delivered \o ready_frames
  /\ ready_frames' = << >>
  /\ gpc' = "wait"
  /\ UNCHANGED <<clientVars, pipe, server, kind, recv_buffer>>

\* Mutant: after an illegal length the connection goes on with an empty buffer.
ParseInvalidGoesOn ==
  /\ gpc = "parse" /\ HasPrefix /\ ~Legal
  /\ recv_buffer' = << >> /\ ready_frames' = << >>
  /\ gpc' = "wait"
  /\ UNCHANGED <<clientVars, pipe, server, kind, delivered>>

\* An illegal length: the connection goes, and the whole packets that the same
\* read brought with it are not handed on.
ParseInvalid ==
  /\ gpc = "parse" /\ HasPrefix /\ ~Legal
  /\ server' = "closed"
  /\ recv_buffer' = << >> /\ ready_frames' = << >>
  /\ gpc' = "wait"
  /\ UNCHANGED <<clientVars, pipe, kind, delivered>>

\* EPOLLRDHUP: the connection goes, also when bytes are still to be read.
HangUp ==
  /\ gpc = "wait" /\ server = "open" /\ client = "closed"
  /\ server' = "closed"
  /\ recv_buffer' = << >>
  /\ UNCHANGED <<clientVars, pipe, kind, ready_frames, delivered, gpc>>

Client ==
  \/ SendPacket \/ SendFails \/ CloseConnection
  \/ \E n \in 1 .. Len(unsent) : SendSome(n)

Gateway ==
  \/ Sniff \/ ParseFrame \/ ParseEnds \/ ParseInvalid \/ HangUp
  \/ \E n \in 1 .. Len(pipe) : Read(n)

Quiet == client = "closed" /\ server = "closed" /\ UNCHANGED vars

Next == Client \/ Gateway \/ Quiet

Spec == Init /\ [][Next]_vars

\* The gateway handles what epoll reports, and sendAll goes on sending.
FairSpec ==
  /\ Spec
  /\ WF_vars(Gateway)
  /\ WF_vars(\E n \in 1 .. Len(unsent) : SendSome(n))

-----------------------------------------------------------------------------
(* Properties                                                              *)

TypeOK ==
  /\ packets \in Seq(Packets) /\ delivered \in Seq(Seq(Byte))
  /\ ready_frames \in Seq(Seq(Byte))
  /\ unsent \in Seq(Byte) /\ pipe \in Seq(Byte) /\ recv_buffer \in Seq(Byte)
  /\ Len(pipe) <= PipeSize
  /\ client \in {"open", "closed"} /\ server \in {"open", "closed"}
  /\ kind \in {"unknown", "viewer", "producer"}
  /\ gpc \in {"wait", "sniff", "parse"}

\* The bytes on the wire of the last n packets of a sequence, for every n.
Wire(ps) ==
  LET wire[n \in 0 .. Len(ps)] ==
        IF n = 0 THEN << >>
        ELSE LET p == ps[Len(ps) - n + 1] IN (Prefix(Len(p)) \o p) \o wire[n - 1]
  IN  wire

\* No byte is lost, doubled or moved between the two processes, however sends and
\* reads cut the stream: what is buffered, in flight and unsent is what remains of
\* the packets not yet found, as long as both ends are open.
NoByteLost ==
  LET found == delivered \o ready_frames IN
  client = "open" /\ server = "open" =>
    /\ IsPrefix(found, packets)
    /\ recv_buffer \o pipe \o unsent = Wire(packets)[Len(packets) - Len(found)]

\* The camera process is never taken for a viewer, whatever its first packet.
NeverAViewer == kind # "viewer"

\* The gateway's memory for one connection is bounded, whatever lengths come in, none
\* at all and too long ones included:
\* less than one packet between two reads.
BufferBounded ==
  /\ Len(recv_buffer) < PrefixSize + MaxFrameSize + ReadSize
  /\ gpc = "wait" => Len(recv_buffer) < PrefixSize + MaxFrameSize

\* The two ends together are the channel of packets that FrameChannel describes:
\* whole packets come out, in order, once each, and none after the connection went.
Channel == INSTANCE FrameChannel WITH handed <- packets, broken <- server = "closed"

ImplementsFrameChannel == Channel!Spec

\* No packet is held back waiting for the next one: all that was sent comes out
\* while both ends stay open.
AllDelivered ==
  \A k \in 1 .. MaxPackets :
    Len(packets) >= k ~> Len(delivered) >= k \/ client = "closed" \/ server = "closed"
=============================================================================
