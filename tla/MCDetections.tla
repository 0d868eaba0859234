---------------------------- MODULE MCDetections ----------------------------
(* Detections for TLC: a chain of boxes of which only neighbours overlap,  *)
(* one box that leaves the frame and one that misses it; one or two        *)
(* objects, the four boxes that show, with any classes and scores, or six  *)
(* of a kind, which is where a layout is mistaken.  The frame is two and a *)
(* half times as high as the input, and the width is rounded.              *)
EXTENDS DetectionOverlay, TLC

Box(x1, y1, x2, y2) == [x1 |-> x1, y1 |-> y1, x2 |-> x2, y2 |-> y2]

MCShown == <<Box(3, 1, 7, 5), Box(3, 3, 7, 7), Box(3, 5, 7, 9), Box(11, -2, 17, 4)>>

MCBoxes == Range(MCShown) \cup {Box(14, 3, 18, 7)}

MCObjects == {[class |-> c, score |-> s] @@ b : b \in MCBoxes, c \in {0, 2}, s \in 1 .. 2}

MCScenes ==
  {<<a>> : a \in MCObjects}
    \cup {<<a, b>> : a, b \in MCObjects}
    \cup {[i \in 1 .. 4 |-> [class |-> class[i], score |-> score[i]] @@ MCShown[i]] :
            class \in [1 .. 4 -> {0, 2}], score \in [1 .. 4 -> 2 .. 3]}
    \cup {[i \in 1 .. 6 |-> a] : a \in MCObjects}
=============================================================================
