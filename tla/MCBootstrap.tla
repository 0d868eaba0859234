---------------------------- MODULE MCBootstrap ----------------------------
(* Bootstrap for TLC: packets of up to three NAL units, with both lengths  *)
(* of the start code, zeros in payloads and an IDR type as a payload byte. *)
EXTENDS Bootstrap

MCNals ==
  {[code |-> 4, type |-> Sps, payload |-> <<0, 9>>],
   [code |-> 3, type |-> Pps, payload |-> <<1>>],
   [code |-> 4, type |-> Sei, payload |-> <<0, 0, 3, 1>>],
   [code |-> 3, type |-> Idr, payload |-> <<0, 7>>],
   [code |-> 4, type |-> NonIdr, payload |-> <<101, 0, 1>>]}

MCPackets == UNION {[1 .. n -> MCNals] : n \in 1 .. 3}
=============================================================================
