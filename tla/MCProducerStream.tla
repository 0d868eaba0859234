-------------------------- MODULE MCProducerStream --------------------------
(* ProducerStream for TLC: two-digit prefixes, lengths 1 and 2 legal.  The *)
(* payload <<0, 1>> reads like a prefix; the third packet is too long and  *)
(* the last one empty, both refused by the gateway.                        *)
EXTENDS ProducerStream

MCGet == <<0, 3>>
MCPackets == {<<1>>, <<0, 1>>, <<0, 0, 1, 0>>, << >>}
=============================================================================
