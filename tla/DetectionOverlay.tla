-------------------------- MODULE DetectionOverlay --------------------------
(***************************************************************************)
(* camera/src/DetectionOverlay.cpp, drawDetections: the boxes that the     *)
(* detector kept are drawn on the luma plane of a frame, each as a light   *)
(* line over a darker one that is a pixel wider.  When they are drawn, and *)
(* on which frame, is in CameraPipeline.                                   *)
(*                                                                         *)
(* The plane is an array: pixel (x, y) is at place y * Width + x.  What is *)
(* drawn is the places that show each of the two lines.                    *)
(***************************************************************************)
EXTENDS Detections

CONSTANT Thicknesses   \* the values of box_thickness_ to draw with

ASSUME ThicknessesAssumption == Thicknesses \subseteq Nat \ {0}

clampCoordinate(v, lower, upper) == Clamp(v, lower, Max({lower, upper}))

\* std::lround of a coordinate, which is never negative.
Lround(v) == (2 * v + Unit) \div (2 * Unit)

\* std::fill_n from a column of a row.
Fill(y, x, n) == {y * Width + x + i : i \in 0 .. n - 1}

\* One pass of the loop over the thickness.
Rectangle(left, top, right, bottom) ==
  Fill(top, left, right - left + 1) \cup Fill(bottom, left, right - left + 1)
    \cup UNION {{y * Width + left, y * Width + right} : y \in top .. bottom}

\* Mutant: the rectangle is not limited to the frame.
DrawUnclamped(x1, y1, x2, y2, thickness) ==
  UNION {Rectangle(x1 + o, y1 + o, x2 - o, y2 - o) :
           o \in {o \in 0 .. thickness - 1 : y1 + o <= y2 - o /\ x1 + o <= x2 - o}}

\* The places that drawRectangleY writes.
drawRectangleY(x1, y1, x2, y2, thickness) ==
  LET left   == clampCoordinate(Min({x1, x2}), 0, Width - 1)
      right  == clampCoordinate(Max({x1, x2}), 0, Width - 1)
      top    == clampCoordinate(Min({y1, y2}), 0, Height - 1)
      bottom == clampCoordinate(Max({y1, y2}), 0, Height - 1)
      offsets == {o \in 0 .. thickness - 1 : top + o <= bottom - o /\ left + o <= right - o}
  IN  IF right <= left \/ bottom <= top THEN {}
      ELSE UNION {Rectangle(left + o, top + o, right - o, bottom - o) : o \in offsets}

\* The corners of a detection as pixels.
Corner(d, i) == clampCoordinate(Lround(d.box[i]), 0, IF i % 2 = 1 THEN Width - 1 ELSE Height - 1)

Thin(d) == Corner(d, 3) <= Corner(d, 1) \/ Corner(d, 4) <= Corner(d, 2)

Untouched == [outline |-> {}, box |-> {}]

drawDetections(ds, box_thickness) ==
  LET thickness == Max({1, Min({box_thickness, Width, Height})})
      outline_thickness == Min({thickness + 1, Width, Height})
      drawn[i \in 0 .. Len(ds)] ==
        IF i = 0 THEN Untouched
        ELSE IF Thin(ds[i]) THEN drawn[i - 1]
        ELSE LET c(k) == Corner(ds[i], k)
                 outline == drawRectangleY(c(1) - 1, c(2) - 1, c(3) + 1, c(4) + 1,
                                           outline_thickness)
                 box == drawRectangleY(c(1), c(2), c(3), c(4), thickness)
             IN  [outline |-> (drawn[i - 1].outline \cup outline) \ box,
                  box |-> (drawn[i - 1].box \ outline) \cup box]
  IN  drawn[Len(ds)]

-----------------------------------------------------------------------------
(* Property                                                                *)

\* The pixels of the frame that lie in a rectangle of pixels.
Rect(x1, y1, x2, y2) ==
  (Max({0, x1}) .. Min({x2, Width - 1})) \X (Max({0, y1}) .. Min({y2, Height - 1}))

Places(pixels) == {p[2] * Width + p[1] : p \in pixels}

\* What one detection should look like: a line of t pixels just inside of its box, and
\* one pixel of outline around it, as far as the frame goes.
Line(d, t) ==
  LET c(k) == Corner(d, k) IN
  Rect(c(1), c(2), c(3), c(4)) \ Rect(c(1) + t, c(2) + t, c(3) - t, c(4) - t)

Around(d) ==
  LET c(k) == Corner(d, k) IN
  Rect(c(1) - 1, c(2) - 1, c(3) + 1, c(4) + 1) \ Rect(c(1), c(2), c(3), c(4))

\* One of the conventions that a tensor may follow: the boxes are the same for all.
Plain(out) == out.format = "xyxy" /\ ~out.normalized /\ ~out.batched

\* Whatever the boxes and however thick the line, drawing stays within the plane and
\* each box of the result that is two pixels wide and high at least, and that no later
\* one crosses, is seen in full: its line, and the outline around it, also where boxes
\* are cut by the frame's edge.  Nothing is drawn inside of a box, but for one pixel of
\* outline along an edge of the frame.
BoxesDrawn ==
  pc = "done" /\ Plain(output) => \A t \in Thicknesses :
    LET drawn == drawDetections(kept, t)
        seen == {i \in DOMAIN kept : ~Thin(kept[i])}
        line == [i \in seen |-> Places(Line(kept[i], t))]
        around == [i \in seen |-> Places(Around(kept[i]))]
        reach == [i \in seen |-> Places(Line(kept[i], t + 1)) \cup around[i]]
    IN  /\ drawn.outline \cup drawn.box \subseteq 0 .. Width * Height - 1
        /\ \A i \in seen :
             LET later == UNION {reach[j] : j \in {j \in seen : j > i}} IN
             /\ line[i] \subseteq drawn.box \cup later
             /\ around[i] \subseteq drawn.outline \cup later
        /\ drawn.box \subseteq UNION Range(line)
        /\ drawn.outline \subseteq UNION Range(reach)
=============================================================================
