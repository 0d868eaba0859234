----------------------------- MODULE Bootstrap -----------------------------
(***************************************************************************)
(* camera_gateway/src/TcpServer.cpp: what the gateway keeps of the stream  *)
(* for viewers that come later.  handleCompleteFrame scans each packet for *)
(* Annex B start codes, copies the parameter sets (and SEI) it finds to    *)
(* bootstrap_config and the last packet with an IDR slice to               *)
(* bootstrap_frame.                                                        *)
(*                                                                         *)
(* A packet is scanned byte by byte here.  The properties compare what the *)
(* scan makes of the bytes with the list of NAL units they were made of.   *)
(***************************************************************************)
EXTENDS Integers, Sequences, FiniteSetsExt, SequencesExt

CONSTANTS
  Nals,       \* NAL units: [code: length of the start code, type, payload]
  Packets,    \* what the encoder may produce: sequences of NAL units
  MaxFrames   \* bound on the number of packets

ASSUME MaxFramesAssumption == MaxFrames \in Nat
\* Emulation prevention keeps start codes out of a payload, and its last byte, which
\* holds the stop bit, is not zero.
ASSUME NalsAssumption == \A nal \in Nals :
  /\ nal.code \in {3, 4} /\ nal.type \in 1 .. 31
  /\ nal.payload \in Seq(0 .. 255)
  /\ \A i \in 1 .. Len(nal.payload) :
       /\ i = Len(nal.payload) => nal.payload[i] # 0
       /\ i > 2 /\ nal.payload[i - 1] = 0 /\ nal.payload[i - 2] = 0 => nal.payload[i] > 2
ASSUME PacketsAssumption == Packets \subseteq Seq(Nals)

VARIABLES
  received,          \* the packets so far, as the encoder made them
  bootstrap_config,  \* bytes
  bootstrap_frame    \* bytes

vars == <<received, bootstrap_config, bootstrap_frame>>

NonIdr == 1
Idr == 5
Sei == 6
Sps == 7
Pps == 8

\* The bytes of a NAL unit.  nal_ref_idc is 3, above the five bits of the type.
NalBytes(nal) ==
  (IF nal.code = 3 THEN <<0, 0, 1>> ELSE <<0, 0, 0, 1>>) \o <<96 + nal.type>> \o nal.payload

Bytes(packet) == FlattenSeq([i \in 1 .. Len(packet) |-> NalBytes(packet[i])])

-----------------------------------------------------------------------------
(* The scan.  Positions count from 1, and 0 is npos.                       *)

\* findStartCode looks no further than the last position with three bytes behind it.
StartCodeAt(data, i) ==
  /\ data[i] = 0 /\ data[i + 1] = 0
  /\ data[i + 2] = 1 \/ (data[i + 2] = 0 /\ data[i + 3] = 1)

FindStartCode(data, from) ==
  LET found == {i \in from .. Len(data) - 3 : StartCodeAt(data, i)} IN
  IF found = {} THEN 0 ELSE Min(found)

\* Mutant: every start code is taken for the short one.
PrefixLenShort(data, start) == 3

PrefixLen(data, start) == IF data[start + 2] = 1 THEN 3 ELSE 4

NalIndex(data, start) == start + PrefixLen(data, start)
NalType(data, start) == data[NalIndex(data, start)] % 32

\* The start codes that a loop over the packet comes to, in order: each search goes
\* on behind the byte with the type.
Starts(data) ==
  LET from[i \in 1 .. Len(data) + 1] ==
        LET start == FindStartCode(data, i) IN
        IF start = 0 \/ NalIndex(data, start) > Len(data) THEN << >>
        ELSE <<start>> \o from[NalIndex(data, start) + 1]
  IN from[1]

ContainsNalType(data, nal_type) ==
  \E i \in 1 .. Len(Starts(data)) : NalType(data, Starts(data)[i]) = nal_type

\* The last byte of the NAL unit whose start code is at start.
NalEnd(data, start) ==
  LET next == FindStartCode(data, NalIndex(data, start) + 1) IN
  IF next = 0 THEN Len(data) ELSE next - 1

ExtractBootstrapConfig(data) ==
  FlattenSeq([i \in 1 .. Len(Starts(data)) |->
    LET start == Starts(data)[i] IN
    IF NalType(data, start) \in {Sps, Pps, Sei}
    THEN SubSeq(data, start, NalEnd(data, start))
    ELSE << >>])

-----------------------------------------------------------------------------
Init == received = << >> /\ bootstrap_config = << >> /\ bootstrap_frame = << >>

HandleCompleteFrame(packet) ==
  LET frame == Bytes(packet)
      config == ExtractBootstrapConfig(frame) IN
  /\ Len(received) < MaxFrames
  /\ received' = Append(received, packet)
  /\ bootstrap_config' = IF config # << >> THEN config ELSE bootstrap_config
  /\ bootstrap_frame' = IF ContainsNalType(frame, Idr) THEN frame ELSE bootstrap_frame

Next == \E packet \in Packets : HandleCompleteFrame(packet)

Spec == Init /\ [][Next]_vars

-----------------------------------------------------------------------------
(* Properties                                                              *)

Carries(packet, types) == \E i \in 1 .. Len(packet) : packet[i].type \in types

\* The last packet so far that carries one of these types, as a sequence of NAL
\* units; empty if none did.
LastWith(types) ==
  LET found == {i \in 1 .. Len(received) : Carries(received[i], types)} IN
  IF found = {} THEN << >> ELSE received[Max(found)]

\* The scan neither misses nor invents a NAL unit, whatever the lengths of the start
\* codes and wherever zeros stand in the payloads.  One cache holds the parameter sets
\* and SEI units of the last packet that had any, whole, in order, each with its start
\* code, and nothing else; the other the last IDR picture, not an older one nor a later
\* packet that only looks like one.  A viewer cannot always start with these: a packet
\* with SEI or one parameter set alone throws the other headers away, although
\* TcpServer.cpp:81 and :291-292 say that SPS and PPS are kept.
CachesExact ==
  /\ LET last == LastWith({Sps, Pps, Sei}) IN
     bootstrap_config =
       FlattenSeq([i \in 1 .. Len(last) |->
         IF last[i].type \in {Sps, Pps, Sei} THEN NalBytes(last[i]) ELSE << >>])
  /\ bootstrap_frame = Bytes(LastWith({Idr}))
=============================================================================
