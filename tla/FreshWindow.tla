---------------------------- MODULE FreshWindow ----------------------------
(***************************************************************************)
(* What a live-video buffer promises, whatever its implementation: frames  *)
(* are produced 1, 2, 3, ...; the buffer is a window on the newest frames, *)
(* at most Capacity of them, in production order; a frame leaves the       *)
(* window by being delivered, as the oldest one, or by being pushed out by *)
(* a newer frame when the window is full.  Nothing is delivered twice, and *)
(* nothing is delivered after a newer frame.                               *)
(*                                                                         *)
(* FrameQueue (capture/include/FrameQueue.h) implements this module.       *)
(***************************************************************************)
EXTENDS Naturals, Sequences

CONSTANT Capacity   \* how many frames the window may hold

VARIABLES
  produced,   \* number of the newest frame produced so far, 0 before any
  window,     \* the frames held, oldest first
  delivered   \* number of the last frame delivered, 0 before any

abstractVars == <<produced, window, delivered>>

\* The newest k elements of s.
Newest(s, k) == IF Len(s) > k THEN SubSeq(s, Len(s) - k + 1, Len(s)) ELSE s

Init ==
  /\ produced = 0
  /\ window = << >>
  /\ delivered = 0

Produce ==
  /\ produced' = produced + 1
  /\ window' = Newest(Append(window, produced + 1), Capacity)
  /\ UNCHANGED delivered

Deliver ==
  /\ window # << >>
  /\ delivered' = Head(window)
  /\ window' = Tail(window)
  /\ UNCHANGED produced

Next == Produce \/ Deliver

Spec == Init /\ [][Next]_abstractVars
=============================================================================
