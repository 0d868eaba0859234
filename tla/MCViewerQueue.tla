--------------------------- MODULE MCViewerQueue ---------------------------
(* ViewerQueue for TLC: chunks of one to three bytes in turn, so that the  *)
(* chunk behind a half-sent one may be shorter than what was sent of it,   *)
(* or, to follow two viewers to the end, of one byte.                      *)
EXTENDS ViewerQueue

MCChunkSize == [c \in Chunks |-> 1 + ((c + 2) % 3)]
MCByteChunks == [c \in Chunks |-> 1]
=============================================================================
