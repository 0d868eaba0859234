----------------------------- MODULE Detections -----------------------------
(***************************************************************************)
(* ai/src/RknnDetector.cpp, RknnDetector::infer after rknn_outputs_get:    *)
(* one output tensor is taken for rows of candidates, each row becomes a   *)
(* box in the camera's frame or nothing, and applyNms thins the boxes.     *)
(*                                                                         *)
(* The tensor is what a model makes of a scene of objects.  The properties *)
(* compare what comes out with that scene.  Floats are integers: a length  *)
(* is in units of 1/Unit of a pixel, which makes every division exact that *)
(* the numbers of a model go through, and a class's score of 1.0 is 1.     *)
(***************************************************************************)
EXTENDS Integers, Sequences, FiniteSetsExt, Functions

CONSTANTS
  Width, Height,          \* of the camera's frames
  InputWidth, InputHeight,\* of the model's input
  Classes,                \* number of the model's classes
  Scenes,                 \* what the models see: sequences of objects
  ScoreThreshold,         \* config_.score_threshold
  NmsNum, NmsDen,         \* config_.nms_threshold, as a fraction
  MaxResults              \* config_.max_results; 0 is no limit

ASSUME GeometryAssumption ==
  {Width, Height, InputWidth, InputHeight} \subseteq Nat \ {0}
ASSUME ClassesAssumption == Classes \in Nat \ {0}

\* An object lies anywhere, also beyond the frame.
Objects ==
  [class : 0 .. Classes - 1, score : Nat, x1 : Int, y1 : Int, x2 : Int, y2 : Int]

ASSUME ScenesAssumption == Scenes \subseteq Seq(Objects)
ASSUME ThresholdsAssumption ==
  {ScoreThreshold, NmsDen} \subseteq Nat \ {0} /\ {NmsNum, MaxResults} \subseteq Nat

VARIABLES
  output,      \* the model, its conventions and what it sees
  pc,          \* "parse", "nms" or "done"
  row,         \* the row parsed next
  detections,  \* the boxes found
  rest,        \* applyNms: the indices of those it has not looked at
  kept         \* applyNms: kept

vars == <<output, pc, row, detections, rest, kept>>

-----------------------------------------------------------------------------
(* fillLetterboxedRgb: the frame, scaled, in the middle of the input.      *)

\* The smaller of the two scales, of which both sides fit, as a fraction: Num / Den.
Wider == InputWidth * Height <= InputHeight * Width
Num == IF Wider THEN InputWidth ELSE InputHeight
Den == IF Wider THEN Width ELSE Height

Unit == 2 * InputWidth * InputHeight * Den

Round(n, d) == (2 * n + d) \div (2 * d)
ResizedWidth == Max({1, Round(Width * Num, Den)})
ResizedHeight == Max({1, Round(Height * Num, Den)})
PadX == (InputWidth - ResizedWidth) \div 2
PadY == (InputHeight - ResizedHeight) \div 2

\* Where a coordinate of the frame is in the input.
Placed(v, pad) == pad * Unit + (v * Unit * Num) \div Den

-----------------------------------------------------------------------------
(* The models.                                                             *)

Outputs ==
  [scene      : Scenes,
   head       : {"decoded", "objectness", "classes"},
   format     : {"xywh", "xyxy"},   \* config_.box_format is set to match
   normalized : BOOLEAN,            \* box coordinates as fractions of the input
   batched    : BOOLEAN,            \* a first dimension of 1
   attr_major : BOOLEAN]            \* attributes by rows, or the other way around

Rows(out) == Len(out.scene)

Attrs(out) == CASE out.head = "decoded"    -> 6
                [] out.head = "objectness" -> 5 + Classes
                [] out.head = "classes"    -> 4 + Classes

Dims(out) ==
  (IF out.batched THEN <<1>> ELSE << >>)
    \o (IF out.attr_major THEN <<Attrs(out), Rows(out)>> ELSE <<Rows(out), Attrs(out)>>)

\* The four coordinates of an object in the input.
InputBox(out, obj) ==
  LET x1 == Placed(obj.x1, PadX)
      x2 == Placed(obj.x2, PadX)
      y1 == Placed(obj.y1, PadY)
      y2 == Placed(obj.y2, PadY)
      box == IF out.format = "xyxy" THEN <<x1, y1, x2, y2>>
             ELSE <<(x1 + x2) \div 2, (y1 + y2) \div 2, x2 - x1, y2 - y1>>
  IN  IF out.normalized
      THEN <<box[1] \div InputWidth, box[2] \div InputHeight,
             box[3] \div InputWidth, box[4] \div InputHeight>>
      ELSE box

\* Attribute a of the row for an object.
Cell(out, obj, a) ==
  LET class(c) == IF c = obj.class THEN 1 ELSE 0 IN
  IF a < 4 THEN InputBox(out, obj)[a + 1]
  ELSE CASE out.head = "decoded"    -> IF a = 4 THEN obj.score ELSE obj.class
         [] out.head = "objectness" -> IF a = 4 THEN obj.score ELSE class(a - 5)
         [] out.head = "classes"    -> obj.score * class(a - 4)

Data(out) ==
  [k \in 0 .. Rows(out) * Attrs(out) - 1 |->
     IF out.attr_major
     THEN Cell(out, out.scene[(k % Rows(out)) + 1], k \div Rows(out))
     ELSE Cell(out, out.scene[(k \div Attrs(out)) + 1], k % Attrs(out))]

-----------------------------------------------------------------------------
(* infer, one row at a time.                                               *)

\* Of the last two dimensions the last one counts the attributes, unless it is too small.
InferTensorLayout(dims) ==
  LET last == dims[Len(dims)]
      second_last == dims[Len(dims) - 1]
  IN  IF last >= 6
      THEN [supported |-> TRUE, rows |-> second_last, attrs |-> last, attr_major |-> FALSE]
      ELSE [supported |-> second_last >= 6, rows |-> last, attrs |-> second_last,
            attr_major |-> TRUE]

Layout == InferTensorLayout(Dims(output))

ReadTensorValue(r, a) ==
  Data(output)[IF Layout.attr_major THEN a * Layout.rows + r ELSE r * Layout.attrs + a]

\* The first class with the highest score, among the attributes from the given one.
BestClass(r, from) ==
  LET value(a) == ReadTensorValue(r, a)
      as == from .. Layout.attrs - 1
  IN  Min({a \in as : \A b \in as : value(b) <= value(a)})

ClassAndScore(r) ==
  IF Layout.attrs = 6
  THEN [class |-> ReadTensorValue(r, 5), score |-> ReadTensorValue(r, 4)]
  ELSE IF output.head = "objectness"   \* config_.has_objectness is set to match
  THEN LET a == BestClass(r, 5) IN
       [class |-> a - 5, score |-> ReadTensorValue(r, 4) * ReadTensorValue(r, a)]
  ELSE LET a == BestClass(r, 4) IN [class |-> a - 4, score |-> ReadTensorValue(r, a)]

AbsVal(n) == IF n < 0 THEN -n ELSE n
LooksNormalized(box) == \A i \in 1 .. 4 : AbsVal(box[i]) <= 2 * Unit

Clamp(v, lower, upper) == Max({lower, Min({v, upper})})

\* Mutant: coordinates are mapped back without the padding.
FrameBoxUnpadded(b) ==
  LET box == IF LooksNormalized(b)
             THEN <<b[1] * InputWidth, b[2] * InputHeight, b[3] * InputWidth, b[4] * InputHeight>>
             ELSE b
      corners == IF output.format = "xyxy" THEN box
                 ELSE <<box[1] - (box[3] \div 2), box[2] - (box[4] \div 2),
                        box[1] + (box[3] \div 2), box[2] + (box[4] \div 2)>>
      x(v) == Clamp((v * Den) \div Num, 0, (Width - 1) * Unit)
      y(v) == Clamp((v * Den) \div Num, 0, (Height - 1) * Unit)
  IN  <<x(corners[1]), y(corners[2]), x(corners[3]), y(corners[4])>>

\* Mutant: coordinates are limited by the size of the input.
FrameBoxClampedToInput(b) ==
  LET box == IF LooksNormalized(b)
             THEN <<b[1] * InputWidth, b[2] * InputHeight, b[3] * InputWidth, b[4] * InputHeight>>
             ELSE b
      corners == IF output.format = "xyxy" THEN box
                 ELSE <<box[1] - (box[3] \div 2), box[2] - (box[4] \div 2),
                        box[1] + (box[3] \div 2), box[2] + (box[4] \div 2)>>
      x(v) == Clamp(((v - PadX * Unit) * Den) \div Num, 0, (InputWidth * Unit * Den) \div Num)
      y(v) == Clamp(((v - PadY * Unit) * Den) \div Num, 0, (InputHeight * Unit * Den) \div Num)
  IN  <<x(corners[1]), y(corners[2]), x(corners[3]), y(corners[4])>>

\* The box of a row in the frame: as pixels, as corners, without the letterbox, cut.
FrameBox(b) ==
  LET box == IF LooksNormalized(b)
             THEN <<b[1] * InputWidth, b[2] * InputHeight, b[3] * InputWidth, b[4] * InputHeight>>
             ELSE b
      corners == IF output.format = "xyxy" THEN box
                 ELSE <<box[1] - (box[3] \div 2), box[2] - (box[4] \div 2),
                        box[1] + (box[3] \div 2), box[2] + (box[4] \div 2)>>
      x(v) == Clamp(((v - PadX * Unit) * Den) \div Num, 0, (Width - 1) * Unit)
      y(v) == Clamp(((v - PadY * Unit) * Den) \div Num, 0, (Height - 1) * Unit)
  IN  <<x(corners[1]), y(corners[2]), x(corners[3]), y(corners[4])>>

Empty(box) == box[3] <= box[1] \/ box[4] <= box[2]

Init ==
  /\ output \in Outputs
  /\ pc = "parse" /\ row = 0 /\ detections = << >> /\ rest = {} /\ kept = << >>

\* A row is skipped for its score or for the box that is left of it.
ParseRow ==
  /\ pc = "parse" /\ Layout.supported /\ row < Layout.rows
  /\ LET cs == ClassAndScore(row)
         box == FrameBox([i \in 1 .. 4 |-> ReadTensorValue(row, i - 1)])
     IN  detections' = IF cs.score < ScoreThreshold \/ Empty(box) THEN detections
                       ELSE Append(detections, [class |-> cs.class, score |-> cs.score, box |-> box])
  /\ row' = row + 1
  /\ UNCHANGED <<output, pc, rest, kept>>

-----------------------------------------------------------------------------
(* applyNms.                                                               *)

RowsParsed ==
  /\ pc = "parse" /\ (Layout.supported => row = Layout.rows)
  /\ pc' = "nms" /\ rest' = DOMAIN detections
  /\ UNCHANGED <<output, row, detections, kept>>

Span(lo, hi) == Max({0, hi - lo})
Area(box) == Span(box[1], box[3]) * Span(box[2], box[4])

\* intersectionOverUnion above nms_threshold.
Overlap(b, c) ==
  LET inter == Span(Max({b[1], c[1]}), Min({b[3], c[3]}))
                 * Span(Max({b[2], c[2]}), Min({b[4], c[4]}))
      union == Area(b) + Area(c) - inter
  IN  union > 0 /\ inter * NmsDen > NmsNum * union

\* Mutant: only the last box kept is compared with.
SuppressedByLast(candidate) ==
  /\ kept # << >>
  /\ kept[Len(kept)].class = candidate.class
  /\ Overlap(candidate.box, kept[Len(kept)].box)

Suppressed(candidate) ==
  \E i \in DOMAIN kept :
    kept[i].class = candidate.class /\ Overlap(candidate.box, kept[i].box)

Full == MaxResults > 0 /\ Len(kept) >= MaxResults

\* Candidates come by score, and std::sort leaves those of one score in any order.
Select ==
  /\ pc = "nms" /\ ~Full
  /\ \E i \in rest :
       /\ \A j \in rest : detections[j].score <= detections[i].score
       /\ rest' = rest \ {i}
       /\ kept' = IF Suppressed(detections[i]) THEN kept ELSE Append(kept, detections[i])
  /\ UNCHANGED <<output, pc, row, detections>>

Finish ==
  /\ pc = "nms" /\ (rest = {} \/ Full)
  /\ pc' = "done"
  /\ UNCHANGED <<output, row, detections, rest, kept>>

Next == ParseRow \/ RowsParsed \/ Select \/ Finish

Spec == Init /\ [][Next]_vars

-----------------------------------------------------------------------------
(* Properties                                                              *)

\* Whatever the numbers in the tensor mean, every box lies within the frame and has
\* an area: the overlay draws it without another look at the frame's size.
BoxesInFrame ==
  \A i \in DOMAIN detections :
    LET box == detections[i].box IN
    /\ 0 <= box[1] /\ box[1] < box[3] /\ box[3] <= (Width - 1) * Unit
    /\ 0 <= box[2] /\ box[2] < box[4] /\ box[4] <= (Height - 1) * Unit

\* An object as a detection: the part within the frame, if its score is high enough.
Seen(obj) ==
  LET cut(v, size) == Clamp(v, 0, size - 1) * Unit IN
  [class |-> obj.class, score |-> obj.score,
   box |-> <<cut(obj.x1, Width), cut(obj.y1, Height), cut(obj.x2, Width), cut(obj.y2, Height)>>]

\* The detections that the first n objects make, for every n.
Found(scene) ==
  LET found[n \in 0 .. Len(scene)] ==
        IF n = 0 THEN << >>
        ELSE LET d == Seen(scene[n]) IN
             IF d.score < ScoreThreshold \/ Empty(d.box) THEN found[n - 1]
             ELSE Append(found[n - 1], d)
  IN  found

Expected(scene) == Found(scene)[Len(scene)]

\* What infer takes an output for is what it is, except for an output by attributes
\* of six candidates or more, and for rows with scores by class that are so few that
\* they pass for the six attributes of a decoded row, or for none.
LayoutKnown(out) ==
  /\ out.head = "decoded" \/ Attrs(out) > 6
  /\ ~out.attr_major \/ Rows(out) < 6

\* Pixel coordinates that are all at most 2 would pass for fractions.
ScaleKnown(out) ==
  \A i \in DOMAIN out.scene :
    out.normalized <=> LooksNormalized(InputBox(out, out.scene[i]))

\* infer finds what the model saw, in the camera's coordinates, in the order of the
\* rows: for every head, box format, scale and known layout, the arithmetic here undoes
\* the model's conventions and the letterbox.
FindsWhatWasSeen ==
  pc = "parse" /\ LayoutKnown(output) /\ ScaleKnown(output) /\ row = Rows(output) =>
    detections = Expected(output.scene)

\* applyNms keeps the best box of each cluster: no two results of a class overlap, and
\* a box is left out only for a better or equal result of its class that overlaps it,
\* or because max_results boxes at least as good were kept.
KeepsBestOfEach ==
  pc = "done" =>
    /\ Range(kept) \subseteq Range(detections)
    /\ MaxResults > 0 => Len(kept) <= MaxResults
    /\ \A i, j \in DOMAIN kept : i < j =>
         /\ kept[i].score >= kept[j].score
         /\ ~(kept[i].class = kept[j].class /\ Overlap(kept[i].box, kept[j].box))
    /\ \A d \in Range(detections) \ Range(kept) :
         \/ \E k \in Range(kept) : /\ k.class = d.class /\ k.score >= d.score
                                   /\ Overlap(k.box, d.box)
         \/ Full /\ \A k \in Range(kept) : k.score >= d.score
=============================================================================
