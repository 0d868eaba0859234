---------------------------- MODULE FrameChannel ----------------------------
(***************************************************************************)
(* What the link between the camera process and the gateway promises:      *)
(* the packets handed to it come out whole, in order and once each, until  *)
(* it breaks; what was under way is lost then, and nothing comes out any   *)
(* more.                                                                   *)
(*                                                                         *)
(* ProducerStream (FramedTcpClient and the gateway's reassembly)           *)
(* implements this module.                                                 *)
(***************************************************************************)
EXTENDS Naturals, Sequences

CONSTANT Packets   \* what may be sent

VARIABLES
  handed,     \* the packets handed to the channel, in order
  delivered,  \* those of them that came out
  broken      \* whether the channel broke

channelVars == <<handed, delivered, broken>>

Init == handed = << >> /\ delivered = << >> /\ broken = FALSE

Hand ==
  /\ \E p \in Packets : handed' = Append(handed, p)
  /\ UNCHANGED <<delivered, broken>>

\* Some of the packets under way come out: the oldest ones, in order.
Deliver ==
  /\ ~broken
  /\ \E k \in Len(delivered) + 1 .. Len(handed) : delivered' = SubSeq(handed, 1, k)
  /\ UNCHANGED <<handed, broken>>

Break ==
  /\ broken' = TRUE
  /\ UNCHANGED <<handed, delivered>>

Next == Hand \/ Deliver \/ Break

Spec == Init /\ [][Next]_channelVars
=============================================================================
