-------------------------- MODULE DetectionsProofs --------------------------
(***************************************************************************)
(* Proofs about Detections and DetectionOverlay, for frames and inputs of  *)
(* any size, any number of classes and objects, every threshold and limit, *)
(* and lines of any thickness.                                             *)
(*                                                                         *)
(* Nothing is assumed of what a tensor holds but that it holds numbers: an *)
(* output whose layout infer mistakes is covered as well.                  *)
(***************************************************************************)
EXTENDS DetectionOverlay, WellFoundedInduction, TLAPS

-----------------------------------------------------------------------------
(* Arithmetic.                                                             *)

LEMMA LargerOfTwo ==
  ASSUME NEW a \in Int, NEW b \in Int
  PROVE  Max({a, b}) = IF a >= b THEN a ELSE b
<1> DEFINE m == IF a >= b THEN a ELSE b
<1>1. m \in {a, b} /\ \A y \in {a, b} : m >= y
  OBVIOUS
<1>2. \A x \in {a, b} : (\A y \in {a, b} : x >= y) => x = m
  OBVIOUS
<1> HIDE DEF m
<1>3. Max({a, b}) = CHOOSE x \in {a, b} : \A y \in {a, b} : x >= y
  BY DEF Max
<1>4. Max({a, b}) \in {a, b} /\ \A y \in {a, b} : Max({a, b}) >= y
  BY <1>1, <1>3
<1> QED
  BY <1>2, <1>4 DEF m

LEMMA SmallerOfTwo ==
  ASSUME NEW a \in Int, NEW b \in Int
  PROVE  Min({a, b}) = IF a <= b THEN a ELSE b
<1> DEFINE m == IF a <= b THEN a ELSE b
<1>1. m \in {a, b} /\ \A y \in {a, b} : m <= y
  OBVIOUS
<1>2. \A x \in {a, b} : (\A y \in {a, b} : x <= y) => x = m
  OBVIOUS
<1> HIDE DEF m
<1>3. Min({a, b}) = CHOOSE x \in {a, b} : \A y \in {a, b} : x <= y
  BY DEF Min
<1>4. Min({a, b}) \in {a, b} /\ \A y \in {a, b} : Min({a, b}) <= y
  BY <1>1, <1>3
<1> QED
  BY <1>2, <1>4 DEF m

LEMMA Clamped ==
  ASSUME NEW v \in Int, NEW lower \in Int, NEW upper \in Int, lower <= upper
  PROVE  /\ Clamp(v, lower, upper) \in lower .. upper
         /\ v \in lower .. upper => Clamp(v, lower, upper) = v
         /\ v < lower => Clamp(v, lower, upper) = lower
         /\ v > upper => Clamp(v, lower, upper) = upper
<1> DEFINE m == Min({v, upper})
<1>1. m = IF v <= upper THEN v ELSE upper
  BY SmallerOfTwo
<1>2. m \in Int
  BY <1>1
<1>3. Clamp(v, lower, upper) = IF lower >= m THEN lower ELSE m
  BY <1>2, LargerOfTwo DEF Clamp
<1> QED
  BY <1>1, <1>3

\* What a whole pixel of a fraction is divided by without a remainder.
Grain == 2 * InputWidth * InputHeight

LEMMA GeometryIs ==
  /\ Width \in Nat \ {0} /\ Height \in Nat \ {0} /\ InputWidth \in Nat \ {0}
  /\ InputHeight \in Nat \ {0} /\ Num \in Nat \ {0} /\ Den \in Nat \ {0}
  /\ Grain \in Nat \ {0} /\ Unit \in Nat \ {0} /\ Unit = Grain * Den
<1>1. /\ Width \in Nat \ {0} /\ Height \in Nat \ {0} /\ InputWidth \in Nat \ {0}
      /\ InputHeight \in Nat \ {0}
  BY GeometryAssumption
<1>2. Num \in Nat \ {0} /\ Den \in Nat \ {0}
  BY <1>1 DEF Num, Den
<1>3. \A a, b \in Nat \ {0} : 2 * a * b \in Nat \ {0} /\ a * b \in Nat \ {0}
  OBVIOUS
<1>4. Grain \in Nat \ {0} /\ Unit = Grain * Den
  BY <1>1, <1>3 DEF Grain, Unit
<1> QED
  BY <1>1, <1>2, <1>3, <1>4

LEMMA RowsApart ==
  ASSUME NEW a \in Nat, NEW b \in Nat, NEW s \in Nat, a < b
  PROVE  a * s + s <= b * s
<1>1. PICK k \in Nat : b = a + 1 + k
  BY b - a - 1 \in Nat, b = a + 1 + (b - a - 1)
<1>2. b * s = a * s + s + k * s /\ k * s \in Nat /\ a * s \in Nat
  BY <1>1
<1> QED
  BY <1>2


\* A set of naturals that is not empty has a least element.
LEMMA LeastElement ==
  ASSUME NEW S \in SUBSET Nat, S # {}
  PROVE  /\ \E x \in S : \A y \in S : x <= y
         /\ Min(S) \in S
<1> DEFINE less == OpToRel(<, Nat)
<1>1. \A x, y \in Nat : <<x, y>> \in less <=> x < y
  BY DEF OpToRel
<1>2. IsWellFoundedOn(less, Nat)
  BY NatLessThanWellFounded
<1> HIDE DEF less
<1>3. PICK x \in S : \A y \in S : <<y, x>> \notin less
  BY <1>2, WFMin
<1>4. \A y \in S : x <= y
  <2> SUFFICES ASSUME NEW y \in S PROVE x <= y
    OBVIOUS
  <2>1. x \in Nat /\ y \in Nat /\ ~(y < x)
    BY <1>1, <1>3
  <2> QED
    BY <2>1
<1> QED
  BY <1>4 DEF Min

\* A function on an interval takes a largest value.
LEMMA LargestValue ==
  ASSUME NEW from \in Nat, NEW n \in Nat, NEW f \in [from .. from + n -> Int]
  PROVE  \E a \in from .. from + n : \A b \in from .. from + n : f[b] <= f[a]
<1> DEFINE Bad == {k \in 0 .. n : \A a \in from .. from + k :
                     \E b \in from .. from + k : ~(f[b] <= f[a])}
<1>1. SUFFICES ASSUME Bad # {} PROVE FALSE
  <2>1. n \notin Bad => \E a \in from .. from + n : \A b \in from .. from + n : f[b] <= f[a]
    OBVIOUS
  <2> QED
    BY <1>1, <2>1
<1>2. PICK k \in Bad : \A j \in Bad : k <= j
  BY <1>1, LeastElement, Bad \subseteq Nat
<1>3. k \in 0 .. n
  OBVIOUS
<1>4. CASE k = 0
  <2>1. from \in from .. from + 0 /\ \A b \in from .. from + 0 : b = from /\ f[from] \in Int
    OBVIOUS
  <2> QED
    BY <1>2, <1>4, <2>1
<1>5. CASE k # 0
  <2>1. k - 1 \in 0 .. n /\ k - 1 \notin Bad
    <3>1. k - 1 \in 0 .. n /\ ~(k <= k - 1)
      BY <1>3, <1>5
    <3> HIDE DEF Bad
    <3> QED
      BY <1>2, <3>1
  <2>2. PICK a \in from .. from + (k - 1) : \A b \in from .. from + (k - 1) : f[b] <= f[a]
    BY <2>1
  <2> DEFINE c == IF f[a] >= f[from + k] THEN a ELSE from + k
  <2>3. \A b \in from .. from + k : b \in from .. from + (k - 1) \/ b = from + k
    BY <1>3
  <2>4. f[a] \in Int /\ f[from + k] \in Int /\ \A b \in from .. from + (k - 1) : f[b] \in Int
    BY <1>3, <1>5
  <2>5. c \in from .. from + k
    BY <1>3, <1>5
  <2>6. ASSUME NEW b \in from .. from + k PROVE f[b] <= f[c]
    <3>1. f[c] \in Int /\ f[a] <= f[c] /\ f[from + k] <= f[c]
      BY <2>4
    <3>2. b = from + k \/ (f[b] \in Int /\ f[b] <= f[a])
      BY <2>2, <2>3, <2>4
    <3>3. CASE b = from + k
      BY <3>1, <3>3
    <3>4. CASE f[b] \in Int /\ f[b] <= f[a]
      <4>1. \A x, y, z \in Int : x <= y /\ y <= z => x <= z
        OBVIOUS
      <4> HIDE DEF c
      <4> QED
        BY <2>4, <3>1, <3>4, <4>1
    <3> QED
      BY <3>2, <3>3, <3>4
  <2> QED
    BY <1>2, <2>5, <2>6
<1> QED
  BY <1>4, <1>5

\* A place determines its row and column, which is what division finds.
LEMMA RowAndColumn ==
  ASSUME NEW a \in Nat, NEW b \in Nat, NEW s \in Nat, NEW x \in 0 .. s - 1, NEW y \in 0 .. s - 1,
         a * s + x = b * s + y
  PROVE  a = b /\ x = y
<1>1. a * s \in Nat /\ b * s \in Nat
  OBVIOUS
<1>2. ~ a < b
  BY <1>1, RowsApart
<1>3. ~ b < a
  BY <1>1, RowsApart
<1> QED
  BY <1>1, <1>2, <1>3

LEMMA Quotient ==
  ASSUME NEW n \in Nat, NEW d \in Nat \ {0}
  PROVE  n % d \in 0 .. d - 1 /\ n \div d \in Nat /\ n = (n \div d) * d + (n % d)
<1> DEFINE k == n \div d
           r == n % d
<1>1. k \in Nat /\ r \in 0 .. d - 1 /\ n = k * d + r
  OBVIOUS
<1> QED
  BY <1>1

LEMMA Divided ==
  ASSUME NEW s \in Nat, NEW a \in Nat, NEW x \in 0 .. s - 1
  PROVE  (a * s + x) \div s = a /\ (a * s + x) % s = x
<1> DEFINE n == a * s + x
           k == n \div s
           r == n % s
<1>1. n \in Nat /\ s > 0
  OBVIOUS
<1>2. k \in Nat /\ r \in 0 .. s - 1 /\ n = k * s + r
  BY <1>1
<1>3. k * s + r = a * s + x
  BY <1>2
<1> HIDE DEF k, r
<1>4. k = a /\ r = x
  BY <1>2, <1>3, RowAndColumn
<1> QED
  BY <1>4 DEF k, r, n

-----------------------------------------------------------------------------
(* The tensor.                                                             *)

LEMMA OutputIs ==
  ASSUME NEW out \in Outputs
  PROVE  /\ out.scene \in Seq(Objects) /\ Rows(out) \in Nat
         /\ Attrs(out) \in Nat /\ Attrs(out) >= 5
         /\ out.head = "decoded" => Attrs(out) = 6
         /\ out.head = "objectness" => Attrs(out) = 5 + Classes
         /\ out.head = "classes" => Attrs(out) = 4 + Classes
         /\ out.head \in {"decoded", "objectness", "classes"} /\ out.format \in {"xywh", "xyxy"}
         /\ out.normalized \in BOOLEAN /\ out.batched \in BOOLEAN /\ out.attr_major \in BOOLEAN
<1>1. /\ out.scene \in Scenes /\ out.head \in {"decoded", "objectness", "classes"}
      /\ out.format \in {"xywh", "xyxy"} /\ out.normalized \in BOOLEAN /\ out.batched \in BOOLEAN
      /\ out.attr_major \in BOOLEAN
  BY DEF Outputs
<1>2. out.scene \in Seq(Objects)
  BY <1>1, ScenesAssumption
<1>3. /\ out.head = "decoded" => Attrs(out) = 6
      /\ out.head = "objectness" => Attrs(out) = 5 + Classes
      /\ out.head = "classes" => Attrs(out) = 4 + Classes
  BY DEF Attrs
<1>4. Attrs(out) \in Nat /\ Attrs(out) >= 5
  BY <1>1, <1>3, ClassesAssumption
<1> QED
  BY <1>1, <1>2, <1>3, <1>4 DEF Rows

\* What infer takes the output for.
LEMMA LayoutIs ==
  ASSUME output \in Outputs
  PROVE  /\ Layout.supported \in BOOLEAN
         /\ \/ Layout.rows = Rows(output) /\ Layout.attrs = Attrs(output)
            \/ Layout.rows = Attrs(output) /\ Layout.attrs = Rows(output)
         /\ Layout.supported => Layout.attrs >= 6
         /\ LayoutKnown(output) => /\ Layout.rows = Rows(output) /\ Layout.attrs = Attrs(output)
                                   /\ Layout.attr_major = output.attr_major
                                   /\ Layout.supported /\ Attrs(output) >= 6
<1> DEFINE R == Rows(output)
           A == Attrs(output)
           dims == Dims(output)
           tail == IF output.attr_major THEN <<A, R>> ELSE <<R, A>>
<1>1. /\ R \in Nat /\ A \in Nat /\ (LayoutKnown(output) => A >= 6)
      /\ output.batched \in BOOLEAN /\ output.attr_major \in BOOLEAN
      /\ LayoutKnown(output) => ~output.attr_major \/ R < 6
  BY OutputIs DEF LayoutKnown
<1>2. dims[Len(dims)] = tail[2] /\ dims[Len(dims) - 1] = tail[1]
  <2> DEFINE first == IF output.batched THEN <<1>> ELSE << >>
  <2>1. dims = first \o tail
    BY DEF Dims
  <2>2. tail \in Seq(Nat) /\ Len(tail) = 2
    <3>1. \A p, q \in Nat : <<p, q>> \in Seq(Nat) /\ Len(<<p, q>>) = 2
      OBVIOUS
    <3> QED
      BY <1>1, <3>1
  <2>3. first \in Seq(Nat) /\ Len(first) \in Nat
    <3>1. <<1>> \in Seq(Nat) /\ << >> \in Seq(Nat)
      OBVIOUS
    <3> QED
      BY <1>1, <3>1
  <2>4. ASSUME NEW s \in Seq(Nat), NEW t \in Seq(Nat), Len(t) = 2
        PROVE  Len(s \o t) = Len(s) + 2 /\ (s \o t)[Len(s) + 2] = t[2] /\ (s \o t)[Len(s) + 1] = t[1]
    <3>1. Len(s) \in Nat /\ Len(s \o t) = Len(s) + Len(t)
          /\ \A i \in 1 .. Len(t) : (s \o t)[Len(s) + i] = t[i]
      OBVIOUS
    <3>2. 1 \in 1 .. Len(t) /\ 2 \in 1 .. Len(t)
      BY <2>4
    <3> QED
      BY <2>4, <3>1, <3>2
  <2> HIDE DEF tail, dims, first
  <2>5. /\ Len(dims) = Len(first) + 2 /\ dims[Len(first) + 2] = tail[2]
        /\ dims[Len(first) + 1] = tail[1]
    BY <2>1, <2>2, <2>3, <2>4
  <2> QED
    BY <2>3, <2>5
<1>3. Layout = IF tail[2] >= 6
               THEN [supported |-> TRUE, rows |-> tail[1], attrs |-> tail[2], attr_major |-> FALSE]
               ELSE [supported |-> tail[1] >= 6, rows |-> tail[2], attrs |-> tail[1],
                     attr_major |-> TRUE]
  BY <1>2 DEF Layout, InferTensorLayout
<1> DEFINE Goal == /\ Layout.supported \in BOOLEAN
                   /\ \/ Layout.rows = R /\ Layout.attrs = A
                      \/ Layout.rows = A /\ Layout.attrs = R
                   /\ Layout.supported => Layout.attrs >= 6
                   /\ LayoutKnown(output) =>
                        /\ Layout.rows = R /\ Layout.attrs = A /\ A >= 6
                        /\ Layout.attr_major = output.attr_major /\ Layout.supported
<1>4. ASSUME output.attr_major PROVE Goal
  <2>1. tail[1] = A /\ tail[2] = R
    BY <1>4
  <2> HIDE DEF tail, R, A
  <2>2. CASE R >= 6
    <3>1. Layout = [supported |-> TRUE, rows |-> A, attrs |-> R, attr_major |-> FALSE]
      BY <1>3, <2>1, <2>2
    <3> QED
      BY <1>1, <1>4, <2>2, <3>1
  <2>3. CASE ~(R >= 6)
    <3>1. Layout = [supported |-> A >= 6, rows |-> R, attrs |-> A, attr_major |-> TRUE]
      BY <1>3, <2>1, <2>3
    <3>2. Layout.supported = (A >= 6) /\ Layout.rows = R /\ Layout.attrs = A
          /\ Layout.attr_major = TRUE
      BY <3>1
    <3>3. (A >= 6) \in BOOLEAN
      BY <1>1
    <3> HIDE DEF Layout
    <3> QED
      BY <1>1, <1>4, <3>2, <3>3
  <2> QED
    BY <2>2, <2>3
<1>5. ASSUME ~output.attr_major PROVE Goal
  <2>1. tail[1] = R /\ tail[2] = A
    BY <1>5
  <2> HIDE DEF tail, R, A
  <2>2. CASE A >= 6
    <3>1. Layout = [supported |-> TRUE, rows |-> R, attrs |-> A, attr_major |-> FALSE]
      BY <1>3, <2>1, <2>2
    <3> QED
      BY <1>1, <1>5, <2>2, <3>1
  <2>3. CASE ~(A >= 6)
    <3>1. Layout = [supported |-> R >= 6, rows |-> A, attrs |-> R, attr_major |-> TRUE]
      BY <1>3, <2>1, <2>3
    <3>2. Layout.supported = (R >= 6) /\ Layout.rows = A /\ Layout.attrs = R
      BY <3>1
    <3>3. (R >= 6) \in BOOLEAN
      BY <1>1
    <3> QED
      BY <1>1, <1>5, <2>3, <3>2, <3>3
  <2> QED
    BY <2>2, <2>3
<1> HIDE DEF tail, dims
<1>6. Goal
  BY <1>4, <1>5
<1> QED
  BY <1>6 DEF Goal

LEMMA PlacedIsInt ==
  ASSUME NEW v \in Int, NEW pad \in Int
  PROVE  Placed(v, pad) \in Int
<1>1. v * Unit \in Int /\ pad * Unit \in Int
  BY GeometryIs
<1>2. \A n \in Int, d \in Nat \ {0} : n \div d \in Int
  OBVIOUS
<1>3. (v * Unit * Num) \div Den \in Int
  BY <1>1, <1>2, GeometryIs
<1> QED
  BY <1>1, <1>3 DEF Placed

LEMMA PadsAreInts == PadX \in Int /\ PadY \in Int
<1>1. \A n \in Int, d \in Nat \ {0} : n \div d \in Int
  OBVIOUS
<1>2. \A n, d \in Nat \ {0} : Round(n, d) \in Int
  BY <1>1 DEF Round
<1>3. ResizedWidth \in Int /\ ResizedHeight \in Int
  <2>1. Width * Num \in Nat \ {0} /\ Height * Num \in Nat \ {0}
    BY GeometryIs
  <2>2. Round(Width * Num, Den) \in Int /\ Round(Height * Num, Den) \in Int
    BY <1>2, <2>1, GeometryIs
  <2> QED
    BY <2>2, LargerOfTwo DEF ResizedWidth, ResizedHeight
<1>4. InputWidth - ResizedWidth \in Int /\ InputHeight - ResizedHeight \in Int
  BY <1>3, GeometryIs
<1> QED
  BY <1>1, <1>4 DEF PadX, PadY

LEMMA InputBoxIsInts ==
  ASSUME NEW out \in Outputs, NEW obj \in Objects, NEW i \in 1 .. 4
  PROVE  InputBox(out, obj)[i] \in Int
<1> DEFINE x1 == Placed(obj.x1, PadX)
           x2 == Placed(obj.x2, PadX)
           y1 == Placed(obj.y1, PadY)
           y2 == Placed(obj.y2, PadY)
           box == IF out.format = "xyxy" THEN <<x1, y1, x2, y2>>
                  ELSE <<(x1 + x2) \div 2, (y1 + y2) \div 2, x2 - x1, y2 - y1>>
<1>0. \A n \in Int, d \in Nat \ {0} : n \div d \in Int
  OBVIOUS
<1>1. x1 \in Int /\ x2 \in Int /\ y1 \in Int /\ y2 \in Int
  BY PlacedIsInt, PadsAreInts DEF Objects
<1>2. box[1] \in Int /\ box[2] \in Int /\ box[3] \in Int /\ box[4] \in Int
  <2> HIDE DEF x1, x2, y1, y2
  <2>1. (x1 + x2) \div 2 \in Int /\ (y1 + y2) \div 2 \in Int /\ x2 - x1 \in Int /\ y2 - y1 \in Int
    BY <1>0, <1>1
  <2> QED
    BY <1>1, <2>1
<1>3. InputBox(out, obj) =
        IF out.normalized
        THEN <<box[1] \div InputWidth, box[2] \div InputHeight,
               box[3] \div InputWidth, box[4] \div InputHeight>>
        ELSE box
  BY DEF InputBox
<1>4. box = <<box[1], box[2], box[3], box[4]>>
  OBVIOUS
<1> HIDE DEF box
<1>5. /\ box[1] \div InputWidth \in Int /\ box[2] \div InputHeight \in Int
      /\ box[3] \div InputWidth \in Int /\ box[4] \div InputHeight \in Int
  BY <1>0, <1>2, GeometryIs
<1> QED
  BY <1>2, <1>3, <1>4, <1>5

LEMMA CellIsInt ==
  ASSUME NEW out \in Outputs, NEW obj \in Objects, NEW a \in Nat
  PROVE  Cell(out, obj, a) \in Int
<1> DEFINE class(c) == IF c = obj.class THEN 1 ELSE 0
<1>1. obj.score \in Int /\ obj.class \in Int
  BY ClassesAssumption DEF Objects
<1>2. CASE a < 4
  <2>1. Cell(out, obj, a) = InputBox(out, obj)[a + 1] /\ a + 1 \in 1 .. 4
    BY <1>2 DEF Cell
  <2> QED
    BY <2>1, InputBoxIsInts
<1>3. CASE ~(a < 4)
  <2>1. \A c : class(c) \in {0, 1} /\ obj.score * class(c) \in Int
    BY <1>1
  <2>2. Cell(out, obj, a) =
          CASE out.head = "decoded"    -> IF a = 4 THEN obj.score ELSE obj.class
            [] out.head = "objectness" -> IF a = 4 THEN obj.score ELSE class(a - 5)
            [] out.head = "classes"    -> obj.score * class(a - 4)
    BY <1>3 DEF Cell
  <2>3. out.head \in {"decoded", "objectness", "classes"}
    BY OutputIs
  <2> HIDE DEF class
  <2> QED
    BY <1>1, <2>1, <2>2, <2>3
<1> QED
  BY <1>2, <1>3

\* Where a cell of the tensor is.
LEMMA DataIs ==
  ASSUME NEW out \in Outputs, NEW k \in 0 .. Rows(out) * Attrs(out) - 1
  PROVE  Data(out)[k] \in Int
<1> DEFINE R == Rows(out)
           A == Attrs(out)
<1>1. R \in Nat /\ A \in Nat \ {0} /\ out.scene \in Seq(Objects) /\ Len(out.scene) = R
  BY OutputIs DEF Rows
<1>2. R # 0
  BY <1>1
<1>3. CASE out.attr_major
  <2>1. (k % R) + 1 \in 1 .. R /\ k \div R \in Nat
    <3> HIDE DEF R
    <3> QED
      BY <1>1, <1>2
  <2>2. Data(out)[k] = Cell(out, out.scene[(k % R) + 1], k \div R)
    BY <1>3 DEF Data
  <2>3. out.scene[(k % R) + 1] \in Objects
    BY <1>1, <2>1
  <2> QED
    BY <2>1, <2>2, <2>3, CellIsInt
<1>4. CASE ~out.attr_major
  <2> DEFINE q == k \div A
             x == k % A
  <2>1. k \in Nat /\ k < R * A /\ R * A \in Nat
    BY <1>1
  <2>2. q \in 0 .. R - 1 /\ x \in Nat
    <3> HIDE DEF R, A
    <3>1. (k % A) \in 0 .. A - 1 /\ (k \div A) \in Nat /\ k = (k \div A) * A + (k % A)
      BY <1>1, <2>1, Quotient
    <3>2. x \in Nat /\ q \in Nat /\ k = q * A + x
      BY <1>1, <3>1
    <3> HIDE DEF q, x
    <3>3. x \in Nat /\ q \in Nat /\ k = q * A + x /\ q * A \in Nat
      BY <1>1, <3>2
    <3>4. ~(R = q)
      BY <2>1, <3>3
    <3>5. R < q => R * A + A <= q * A
      BY <1>1, <3>3, RowsApart
    <3> QED
      BY <1>1, <2>1, <3>3, <3>4, <3>5
  <2>3. Data(out)[k] = Cell(out, out.scene[(k \div A) + 1], k % A)
    BY <1>4 DEF Data
  <2>4. out.scene[(k \div A) + 1] \in Objects
    BY <1>1, <2>2
  <2> QED
    BY <2>2, <2>3, <2>4, CellIsInt
<1> QED
  BY <1>3, <1>4

\* A row and attribute that infer reads is a place of the tensor, whatever it takes
\* the layout for.
LEMMA ReadIsInt ==
  ASSUME output \in Outputs, NEW r \in 0 .. Layout.rows - 1, NEW a \in 0 .. Layout.attrs - 1
  PROVE  ReadTensorValue(r, a) \in Int
<1> DEFINE R == Layout.rows
           A == Layout.attrs
           place == IF Layout.attr_major THEN a * R + r ELSE r * A + a
<1>1. R \in Nat /\ A \in Nat /\ R * A = Rows(output) * Attrs(output)
  <2> DEFINE m == Rows(output)
             n == Attrs(output)
  <2>1. m \in Nat /\ n \in Nat
    BY OutputIs
  <2>2. (R = m /\ A = n) \/ (R = n /\ A = m)
    <3>1. \/ Layout.rows = Rows(output) /\ Layout.attrs = Attrs(output)
          \/ Layout.rows = Attrs(output) /\ Layout.attrs = Rows(output)
      BY LayoutIs, Zenon
    <3> QED
      BY <3>1, Zenon
  <2> HIDE DEF m, n, R, A
  <2>3. R * A = m * n
    BY <2>1, <2>2
  <2> QED
    BY <2>1, <2>2, <2>3 DEF m, n
<1>2. place \in 0 .. R * A - 1
  <2>1. r \in 0 .. R - 1 /\ a \in 0 .. A - 1
    OBVIOUS
  <2> HIDE DEF R, A
  <2>2. a * R + R <= A * R
    BY <1>1, <2>1, RowsApart
  <2>3. r * A + A <= R * A
    BY <1>1, <2>1, RowsApart
  <2>4. A * R = R * A /\ a * R \in Nat /\ r * A \in Nat /\ R * A \in Nat
    BY <1>1, <2>1
  <2> QED
    BY <1>1, <2>1, <2>2, <2>3, <2>4
<1>3. ReadTensorValue(r, a) = Data(output)[place]
  BY DEF ReadTensorValue
<1> HIDE DEF place
<1> QED
  BY <1>1, <1>2, <1>3, DataIs

LEMMA BestClassIs ==
  ASSUME output \in Outputs, Layout.supported,
         NEW r \in 0 .. Layout.rows - 1, NEW from \in 4 .. 5
  PROVE  /\ BestClass(r, from) \in from .. Layout.attrs - 1
         /\ \A b \in from .. Layout.attrs - 1 :
              ReadTensorValue(r, b) <= ReadTensorValue(r, BestClass(r, from))
<1> DEFINE A == Layout.attrs
           f == [a \in from .. A - 1 |-> ReadTensorValue(r, a)]
           best == {a \in from .. A - 1 : \A b \in from .. A - 1 : f[b] <= f[a]}
           n == A - 1 - from
<1>1. A \in Nat /\ A >= 6
  BY LayoutIs, OutputIs
<1>2. n \in Nat /\ from \in Nat /\ from + n = A - 1
  <2> HIDE DEF A
  <2> QED
    BY <1>1
<1>3. \A a \in from .. A - 1 : ReadTensorValue(r, a) \in Int
  BY <1>1, ReadIsInt
<1>4. f \in [from .. A - 1 -> Int]
  BY <1>3
<1>5. best # {} /\ best \subseteq Nat
  <2>1. f \in [from .. from + n -> Int]
    BY <1>2, <1>4
  <2> HIDE DEF f, A, n
  <2>2. \E a \in from .. from + n : \A b \in from .. from + n : f[b] <= f[a]
    BY <1>2, <2>1, LargestValue
  <2> QED
    BY <1>2, <2>2
<1>6. BestClass(r, from) = Min(best)
  <2>1. \A a \in from .. A - 1 : f[a] = ReadTensorValue(r, a)
    OBVIOUS
  <2>2. best = {a \in from .. A - 1 : \A b \in from .. A - 1 :
                  ReadTensorValue(r, b) <= ReadTensorValue(r, a)}
    <3> HIDE DEF f
    <3> QED
      BY <2>1
  <2> HIDE DEF best
  <2> QED
    BY <2>2 DEF BestClass
<1> HIDE DEF best
<1>7. Min(best) \in best
  BY <1>5, LeastElement
<1>8. \A b \in from .. A - 1 : f[b] = ReadTensorValue(r, b)
  OBVIOUS
<1> HIDE DEF f
<1> QED
  BY <1>6, <1>7, <1>8 DEF best

LEMMA ClassAndScoreAre ==
  ASSUME output \in Outputs, Layout.supported, NEW r \in 0 .. Layout.rows - 1
  PROVE  ClassAndScore(r) \in [class : Int, score : Int]
<1>1. Layout.attrs \in Nat /\ Layout.attrs >= 6
  BY LayoutIs, OutputIs
<1>2. \A a \in 0 .. Layout.attrs - 1 : ReadTensorValue(r, a) \in Int
  BY ReadIsInt
<1> DEFINE p == BestClass(r, 5)
           q == BestClass(r, 4)
<1>3. p \in 5 .. Layout.attrs - 1 /\ q \in 4 .. Layout.attrs - 1
  BY BestClassIs
<1>4. ClassAndScore(r) =
        IF Layout.attrs = 6
        THEN [class |-> ReadTensorValue(r, 5), score |-> ReadTensorValue(r, 4)]
        ELSE IF output.head = "objectness"
        THEN [class |-> p - 5, score |-> ReadTensorValue(r, 4) * ReadTensorValue(r, p)]
        ELSE [class |-> q - 4, score |-> ReadTensorValue(r, q)]
  BY DEF ClassAndScore
<1> HIDE DEF p, q
<1>5. /\ ReadTensorValue(r, 4) \in Int /\ ReadTensorValue(r, 5) \in Int
      /\ ReadTensorValue(r, p) \in Int /\ ReadTensorValue(r, q) \in Int
      /\ p - 5 \in Int /\ q - 4 \in Int
  BY <1>1, <1>2, <1>3
<1>6. ReadTensorValue(r, 4) * ReadTensorValue(r, p) \in Int
  BY <1>5
<1> QED
  BY <1>4, <1>5, <1>6

-----------------------------------------------------------------------------
(* The boxes found.                                                        *)

FrameBoxes == (0 .. (Width - 1) * Unit) \X (0 .. (Height - 1) * Unit)
                \X (0 .. (Width - 1) * Unit) \X (0 .. (Height - 1) * Unit)

Detection == [class : Int, score : Int, box : {b \in FrameBoxes : ~Empty(b)}]

\* A box is made whole from the four coordinates and cut to the frame.
LEMMA FrameBoxIsInFrame ==
  ASSUME NEW b, \A i \in 1 .. 4 : b[i] \in Int
  PROVE  FrameBox(b) \in FrameBoxes
<1> DEFINE box == IF LooksNormalized(b)
                  THEN <<b[1] * InputWidth, b[2] * InputHeight,
                         b[3] * InputWidth, b[4] * InputHeight>>
                  ELSE b
           corners == IF output.format = "xyxy" THEN box
                      ELSE <<box[1] - (box[3] \div 2), box[2] - (box[4] \div 2),
                             box[1] + (box[3] \div 2), box[2] + (box[4] \div 2)>>
           x(v) == Clamp(((v - PadX * Unit) * Den) \div Num, 0, (Width - 1) * Unit)
           y(v) == Clamp(((v - PadY * Unit) * Den) \div Num, 0, (Height - 1) * Unit)
<1>1. box[1] \in Int /\ box[2] \in Int /\ box[3] \in Int /\ box[4] \in Int
  <2>1. b[1] \in Int /\ b[2] \in Int /\ b[3] \in Int /\ b[4] \in Int
    OBVIOUS
  <2>2. /\ b[1] * InputWidth \in Int /\ b[2] * InputHeight \in Int
        /\ b[3] * InputWidth \in Int /\ b[4] * InputHeight \in Int
    BY <2>1, GeometryIs
  <2> QED
    BY <2>1, <2>2
<1>2. corners[1] \in Int /\ corners[2] \in Int /\ corners[3] \in Int /\ corners[4] \in Int
  <2> HIDE DEF box
  <2>1. box[3] \div 2 \in Int /\ box[4] \div 2 \in Int
    BY <1>1
  <2>2. /\ box[1] - (box[3] \div 2) \in Int /\ box[2] - (box[4] \div 2) \in Int
        /\ box[1] + (box[3] \div 2) \in Int /\ box[2] + (box[4] \div 2) \in Int
    BY <1>1, <2>1
  <2> QED
    BY <1>1, <2>2
<1>3. FrameBox(b) = <<x(corners[1]), y(corners[2]), x(corners[3]), y(corners[4])>>
  BY DEF FrameBox
<1> HIDE DEF box, corners
<1>4. (Width - 1) * Unit \in Nat /\ (Height - 1) * Unit \in Nat
  <2>1. Width - 1 \in Nat /\ Height - 1 \in Nat /\ Unit \in Nat
    BY GeometryIs
  <2>2. \A m, n \in Nat : m * n \in Nat
    OBVIOUS
  <2> QED
    BY <2>1, <2>2
<1>5. ASSUME NEW v \in Int
      PROVE  x(v) \in 0 .. (Width - 1) * Unit /\ y(v) \in 0 .. (Height - 1) * Unit
  <2>1. /\ ((v - PadX * Unit) * Den) \div Num \in Int
        /\ ((v - PadY * Unit) * Den) \div Num \in Int
    <3>1. PadX * Unit \in Int /\ PadY * Unit \in Int
      BY PadsAreInts, GeometryIs
    <3>2. v - PadX * Unit \in Int /\ v - PadY * Unit \in Int
      BY <3>1
    <3>3. \A n \in Int, m, d \in Nat \ {0} : (n * m) \div d \in Int
      <4>1. \A k \in Int, d \in Nat \ {0} : k \div d \in Int
        OBVIOUS
      <4> QED
        BY <4>1
    <3> QED
      BY <3>2, <3>3, GeometryIs
  <2> DEFINE p == ((v - PadX * Unit) * Den) \div Num
             q == ((v - PadY * Unit) * Den) \div Num
             w == (Width - 1) * Unit
             h == (Height - 1) * Unit
  <2>2. p \in Int /\ q \in Int /\ w \in Nat /\ h \in Nat
    BY <1>4, <2>1
  <2> HIDE DEF p, q, w, h
  <2>3. Clamp(p, 0, w) \in 0 .. w /\ Clamp(q, 0, h) \in 0 .. h
    <3>1. 0 \in Int /\ w \in Int /\ h \in Int /\ 0 <= w /\ 0 <= h
      BY <2>2
    <3>2. Clamp(p, 0, w) \in 0 .. w
      BY <2>2, <3>1, Clamped, Zenon
    <3>3. Clamp(q, 0, h) \in 0 .. h
      BY <2>2, <3>1, Clamped, Zenon
    <3> QED
      BY <3>2, <3>3
  <2> QED
    BY <2>3 DEF p, q, w, h
<1> HIDE DEF x, y
<1> QED
  BY <1>2, <1>3, <1>5 DEF FrameBoxes

\* What the parsing of the rows keeps.
Parsed ==
  /\ output \in Outputs
  /\ row \in Nat
  /\ detections \in Seq(Detection)

LEMMA ParsedInductive == Spec => []Parsed
<1>1. Init => Parsed
  BY DEF Init, Parsed
<1>2. Parsed /\ [Next]_vars => Parsed'
  <2> SUFFICES ASSUME Parsed, [Next]_vars PROVE Parsed'
    OBVIOUS
  <2>1. CASE ParseRow
    <3> DEFINE b == [i \in 1 .. 4 |-> ReadTensorValue(row, i - 1)]
               cs == ClassAndScore(row)
               box == FrameBox(b)
               d == [class |-> cs.class, score |-> cs.score, box |-> box]
    <3>1. output' = output /\ row' = row + 1 /\ row \in 0 .. Layout.rows - 1
      <4>1. row < Layout.rows /\ Layout.rows \in Nat
        BY <2>1, LayoutIs, OutputIs DEF ParseRow, Parsed
      <4> QED
        BY <2>1, <4>1 DEF ParseRow, Parsed
    <3>2. detections' = IF cs.score < ScoreThreshold \/ Empty(box) THEN detections
                        ELSE Append(detections, d)
      BY <2>1 DEF ParseRow
    <3>3. cs \in [class : Int, score : Int]
      BY <2>1, <3>1, ClassAndScoreAre DEF Parsed, ParseRow
    <3>4. box \in FrameBoxes
      <4>1. \A i \in 1 .. 4 : b[i] \in Int
        <5>1. Layout.attrs \in Nat /\ Layout.attrs >= 6
          BY <2>1, LayoutIs, OutputIs DEF Parsed, ParseRow
        <5>2. \A i \in 1 .. 4 : i - 1 \in 0 .. Layout.attrs - 1
          BY <5>1
        <5> QED
          BY <3>1, <5>2, ReadIsInt DEF Parsed
      <4> HIDE DEF b
      <4> QED
        BY <4>1, FrameBoxIsInFrame
    <3> HIDE DEF cs, box
    <3>5. ~Empty(box) => d \in Detection
      BY <3>3, <3>4 DEF Detection
    <3> HIDE DEF d
    <3>6. detections' \in Seq(Detection)
      BY <3>2, <3>5 DEF Parsed
    <3> QED
      BY <3>1, <3>6 DEF Parsed
  <2>2. CASE RowsParsed
    BY <2>2 DEF RowsParsed, Parsed
  <2>3. CASE Select
    BY <2>3 DEF Select, Parsed
  <2>4. CASE Finish
    BY <2>4 DEF Finish, Parsed
  <2>5. CASE UNCHANGED vars
    BY <2>5 DEF vars, Parsed
  <2> QED
    BY <2>1, <2>2, <2>3, <2>4, <2>5 DEF Next
<1> QED
  BY <1>1, <1>2, PTL DEF Spec

\* Every box found lies within the frame and has an area, whatever the tensor holds and
\* whatever layout, scale and head infer takes it for.
THEOREM BoxesStayInFrame == Spec => []BoxesInFrame
<1>1. Parsed => BoxesInFrame
  <2> SUFFICES ASSUME Parsed, NEW i \in DOMAIN detections
               PROVE  LET box == detections[i].box IN
                      /\ 0 <= box[1] /\ box[1] < box[3] /\ box[3] <= (Width - 1) * Unit
                      /\ 0 <= box[2] /\ box[2] < box[4] /\ box[4] <= (Height - 1) * Unit
    BY DEF BoxesInFrame
  <2> DEFINE box == detections[i].box
             w == (Width - 1) * Unit
             h == (Height - 1) * Unit
  <2>1. detections[i] \in Detection
    BY DEF Parsed
  <2>2. box \in FrameBoxes /\ ~Empty(box)
    BY <2>1 DEF Detection
  <2>3. w \in Int /\ h \in Int
    <3>1. Width - 1 \in Int /\ Height - 1 \in Int /\ Unit \in Int
      BY GeometryIs
    <3>2. \A m, n \in Int : m * n \in Int
      OBVIOUS
    <3> QED
      BY <3>1, <3>2
  <2> HIDE DEF box, w, h
  <2>4. box \in (0 .. w) \X (0 .. h) \X (0 .. w) \X (0 .. h)
    BY <2>2 DEF FrameBoxes, w, h
  <2>5. box[1] \in 0 .. w /\ box[2] \in 0 .. h /\ box[3] \in 0 .. w /\ box[4] \in 0 .. h
    BY <2>4
  <2>6. box[1] < box[3] /\ box[2] < box[4]
    BY <2>2, <2>3, <2>5 DEF Empty
  <2>7. /\ 0 <= box[1] /\ box[1] < box[3] /\ box[3] <= w
        /\ 0 <= box[2] /\ box[2] < box[4] /\ box[4] <= h
    BY <2>3, <2>5, <2>6
  <2> QED
    BY <2>7 DEF box, w, h
<1> QED
  BY <1>1, ParsedInductive, PTL

-----------------------------------------------------------------------------
(* applyNms.                                                               *)

\* What applyNms holds between two candidates: what it kept it kept of the boxes found,
\* no more than it may, and it stops with no candidate left or with no room.
Chosen ==
  /\ pc \in {"parse", "nms", "done"}
  /\ pc = "parse" => kept = << >> /\ rest = {}
  /\ rest \subseteq DOMAIN detections
  /\ kept \in Seq(Detection)
  /\ Range(kept) \subseteq Range(detections)
  /\ MaxResults > 0 => Len(kept) <= MaxResults
  /\ pc = "done" => rest = {} \/ Full

\* What was kept is at least as good as what comes, which keeps it in order.
Ordered ==
  /\ \A i, j \in DOMAIN kept : i < j =>
       /\ kept[i].score >= kept[j].score
       /\ ~(kept[i].class = kept[j].class /\ Overlap(kept[i].box, kept[j].box))
  /\ \A i \in DOMAIN kept, j \in rest : kept[i].score >= detections[j].score

Beats(k, d) == k.class = d.class /\ k.score >= d.score /\ Overlap(k.box, d.box)

\* What was looked at is kept or beaten by what is kept.
LeftOut ==
  pc # "parse" => \A j \in DOMAIN detections \ rest :
    \/ detections[j] \in Range(kept)
    \/ \E k \in Range(kept) : Beats(k, detections[j])

LEMMA SpanIsInt ==
  ASSUME NEW lo \in Int, NEW hi \in Int
  PROVE  Span(lo, hi) \in Int
<1>1. hi - lo \in Int
  OBVIOUS
<1>2. Max({0, hi - lo}) \in Int
  BY <1>1, LargerOfTwo
<1> QED
  BY <1>2 DEF Span

LEMMA OverlapSymmetric ==
  ASSUME NEW b \in FrameBoxes, NEW c \in FrameBoxes
  PROVE  Overlap(b, c) <=> Overlap(c, b)
<1> DEFINE m(x, y) == Span(Max({x[1], y[1]}), Min({x[3], y[3]}))
                        * Span(Max({x[2], y[2]}), Min({x[4], y[4]}))
<1>1. m(b, c) = m(c, b)
  <2>1. \A x, y : {x, y} = {y, x}
    OBVIOUS
  <2>2. /\ {b[1], c[1]} = {c[1], b[1]} /\ {b[2], c[2]} = {c[2], b[2]}
        /\ {b[3], c[3]} = {c[3], b[3]} /\ {b[4], c[4]} = {c[4], b[4]}
    BY <2>1
  <2> QED
    BY <2>2
<1>2. \A x \in FrameBoxes : Area(x) \in Int
  <2> SUFFICES ASSUME NEW x \in FrameBoxes PROVE Area(x) \in Int
    OBVIOUS
  <2>1. x[1] \in Int /\ x[2] \in Int /\ x[3] \in Int /\ x[4] \in Int
    BY DEF FrameBoxes
  <2>2. Span(x[1], x[3]) \in Int /\ Span(x[2], x[4]) \in Int
    BY <2>1, SpanIsInt
  <2> QED
    BY <2>2 DEF Area
<1>3. Area(b) + (Area(c) - m(b, c)) = Area(c) + (Area(b) - m(b, c))
  <2>1. m(b, c) \in Int
    <3>1. \A x \in FrameBoxes : x[1] \in Int /\ x[2] \in Int /\ x[3] \in Int /\ x[4] \in Int
      BY DEF FrameBoxes
    <3>2. /\ Max({b[1], c[1]}) \in Int /\ Min({b[3], c[3]}) \in Int
          /\ Max({b[2], c[2]}) \in Int /\ Min({b[4], c[4]}) \in Int
      BY <3>1, LargerOfTwo, SmallerOfTwo
    <3> QED
      BY <3>2, SpanIsInt
  <2> HIDE DEF m
  <2> QED
    BY <1>2, <2>1
<1> DEFINE over(x, y, inter) == Area(x) + (Area(y) - inter) > 0
                               /\ inter * NmsDen > NmsNum * (Area(x) + (Area(y) - inter))
<1>4. ASSUME NEW x, NEW y PROVE Overlap(x, y) <=> over(x, y, m(x, y))
  BY Zenon DEF Overlap
<1> HIDE DEF m
<1> QED
  BY <1>1, <1>3, <1>4

LEMMA AppendIs ==
  ASSUME NEW T, NEW s \in Seq(T), NEW e \in T
  PROVE  /\ Append(s, e) \in Seq(T)
         /\ Len(Append(s, e)) = Len(s) + 1 /\ Len(s) \in Nat
         /\ DOMAIN s = 1 .. Len(s) /\ DOMAIN Append(s, e) = 1 .. Len(s) + 1
         /\ \A i \in DOMAIN s : Append(s, e)[i] = s[i]
         /\ Append(s, e)[Len(s) + 1] = e
         /\ Range(Append(s, e)) = Range(s) \cup {e}
<1> DEFINE t == Append(s, e)
<1>1. /\ t \in Seq(T) /\ Len(t) = Len(s) + 1 /\ Len(s) \in Nat
      /\ DOMAIN s = 1 .. Len(s) /\ DOMAIN t = 1 .. Len(s) + 1
      /\ \A i \in DOMAIN s : t[i] = s[i]
      /\ t[Len(s) + 1] = e
  OBVIOUS
<1> HIDE DEF t
<1>2. Range(t) = Range(s) \cup {e}
  <2>1. \A i : i \in DOMAIN t <=> i \in DOMAIN s \/ i = Len(s) + 1
    BY <1>1
  <2>2. Range(t) = {t[i] : i \in DOMAIN t} /\ Range(s) = {s[i] : i \in DOMAIN s}
    BY DEF Range
  <2> QED
    BY <1>1, <2>1, <2>2
<1> QED
  BY <1>1, <1>2 DEF t

LEMMA ChosenInductive == Spec => []Chosen
<1>1. Init => Chosen
  <2> SUFFICES ASSUME Init PROVE Chosen
    OBVIOUS
  <2>1. << >> \in Seq(Detection) /\ DOMAIN << >> = {} /\ Len(<< >>) = 0
    OBVIOUS
  <2>2. Range(<< >>) = {}
    BY <2>1 DEF Range
  <2>3. MaxResults \in Nat
    BY ThresholdsAssumption
  <2> QED
    BY <2>1, <2>2, <2>3 DEF Init, Chosen
<1>2. Parsed /\ Parsed' /\ Chosen /\ [Next]_vars => Chosen'
  <2> SUFFICES ASSUME Parsed, Parsed', Chosen, [Next]_vars PROVE Chosen'
    OBVIOUS
  <2>1. CASE ParseRow
    <3>1. pc' = pc /\ pc = "parse" /\ kept' = kept /\ rest' = rest
      BY <2>1 DEF ParseRow
    <3>2. kept = << >> /\ rest = {}
      BY <3>1 DEF Chosen
    <3>3. Range(kept') = {}
      BY <3>1, <3>2 DEF Range
    <3> QED
      BY <3>1, <3>2, <3>3 DEF Chosen
  <2>2. CASE RowsParsed
    BY <2>2 DEF RowsParsed, Chosen, Range
  <2>3. CASE Select
    <3>1. PICK i \in rest :
            /\ rest' = rest \ {i}
            /\ kept' = IF Suppressed(detections[i]) THEN kept ELSE Append(kept, detections[i])
      BY <2>3 DEF Select
    <3>2. pc' = "nms" /\ detections' = detections /\ ~Full
      BY <2>3 DEF Select
    <3>3. detections[i] \in Detection /\ detections[i] \in Range(detections)
      BY DEF Parsed, Chosen, Range
    <3>4. CASE kept' = kept
      BY <3>1, <3>2, <3>4 DEF Chosen, Range
    <3>5. CASE kept' = Append(kept, detections[i])
      <4>1. /\ kept' \in Seq(Detection) /\ Len(kept') = Len(kept) + 1 /\ Len(kept) \in Nat
            /\ Range(kept') = Range(kept) \cup {detections[i]}
        BY <3>3, <3>5, AppendIs DEF Chosen
      <4>2. MaxResults > 0 => Len(kept') <= MaxResults
        BY <3>2, <4>1, ThresholdsAssumption DEF Full
      <4>3. Range(detections') = Range(detections)
        BY <3>2 DEF Range
      <4> QED
        BY <3>1, <3>2, <3>3, <4>1, <4>2, <4>3 DEF Chosen
    <3> QED
      BY <3>1, <3>4, <3>5
  <2>4. CASE Finish
    BY <2>4 DEF Finish, Chosen, Full, Range
  <2>5. CASE UNCHANGED vars
    BY <2>5 DEF vars, Chosen, Full, Range
  <2> QED
    BY <2>1, <2>2, <2>3, <2>4, <2>5 DEF Next
<1> QED
  BY <1>1, <1>2, ParsedInductive, PTL DEF Spec

LEMMA OrderedInductive == Spec => []Ordered
<1>1. Init => Ordered
  <2>1. DOMAIN << >> = {}
    OBVIOUS
  <2> QED
    BY <2>1 DEF Init, Ordered
<1>2. Parsed /\ Chosen /\ Chosen' /\ Ordered /\ [Next]_vars => Ordered'
  <2> SUFFICES ASSUME Parsed, Chosen, Chosen', Ordered, [Next]_vars PROVE Ordered'
    OBVIOUS
  <2>1. CASE ParseRow
    <3>1. pc = "parse" /\ pc' = pc
      BY <2>1 DEF ParseRow
    <3>2. kept' = << >>
      BY <3>1 DEF Chosen
    <3>3. DOMAIN kept' = {}
      BY <3>2
    <3> QED
      BY <3>3 DEF Ordered
  <2>2. CASE RowsParsed
    <3>1. pc = "parse" /\ kept' = kept
      BY <2>2 DEF RowsParsed
    <3>2. DOMAIN kept' = {}
      BY <3>1 DEF Chosen
    <3> QED
      BY <3>2 DEF Ordered
  <2>3. CASE Select
    <3>1. PICK c \in rest :
            /\ \A j \in rest : detections[j].score <= detections[c].score
            /\ rest' = rest \ {c}
            /\ kept' = IF Suppressed(detections[c]) THEN kept ELSE Append(kept, detections[c])
      BY <2>3 DEF Select
    <3>2. detections' = detections
      BY <2>3 DEF Select
    <3>3. CASE Suppressed(detections[c])
      BY <3>1, <3>2, <3>3 DEF Ordered
    <3>4. CASE ~Suppressed(detections[c])
      <4> DEFINE d == detections[c]
                 n == Len(kept)
      <4>1. d \in Detection
        BY DEF Parsed, Chosen
      <4>2. kept' = Append(kept, d)
        BY <3>1, <3>4
      <4>3. /\ n \in Nat /\ DOMAIN kept = 1 .. n /\ DOMAIN kept' = 1 .. n + 1
            /\ \A i \in DOMAIN kept : kept'[i] = kept[i]
            /\ kept'[n + 1] = d
        BY <4>1, <4>2, AppendIs DEF Chosen
      <4>4. \A i \in DOMAIN kept' : i \in DOMAIN kept \/ i = n + 1
        BY <4>3
      <4>5. \A i \in DOMAIN kept :
              /\ kept[i].score >= d.score
              /\ ~(kept[i].class = d.class /\ Overlap(kept[i].box, d.box))
        <5> SUFFICES ASSUME NEW i \in DOMAIN kept
                     PROVE  /\ kept[i].score >= d.score
                            /\ ~(kept[i].class = d.class /\ Overlap(kept[i].box, d.box))
          OBVIOUS
        <5>1. kept[i].score >= d.score
          BY DEF Ordered
        <5>2. kept[i].box \in FrameBoxes /\ d.box \in FrameBoxes
          <6>1. kept[i] \in Detection
            BY DEF Chosen
          <6> HIDE DEF d
          <6> QED
            BY <4>1, <6>1 DEF Detection
        <5>3. ~(kept[i].class = d.class /\ Overlap(d.box, kept[i].box))
          BY <3>4 DEF Suppressed
        <5> QED
          BY <5>1, <5>2, <5>3, OverlapSymmetric
      <4>6. ASSUME NEW i \in DOMAIN kept', NEW j \in DOMAIN kept', i < j
            PROVE  /\ kept'[i].score >= kept'[j].score
                   /\ ~(kept'[i].class = kept'[j].class /\ Overlap(kept'[i].box, kept'[j].box))
        <5>1. i \in DOMAIN kept
          BY <4>3, <4>6
        <5>2. CASE j \in DOMAIN kept
          BY <4>3, <4>6, <5>1, <5>2 DEF Ordered
        <5>3. CASE j = n + 1
          BY <4>3, <4>5, <5>1, <5>3
        <5> QED
          BY <4>4, <5>2, <5>3
      <4>7. ASSUME NEW i \in DOMAIN kept', NEW j \in rest'
            PROVE  kept'[i].score >= detections'[j].score
        <5>1. j \in rest /\ detections'[j] = detections[j]
          BY <3>1, <3>2
        <5>2. CASE i \in DOMAIN kept
          BY <4>3, <5>1, <5>2 DEF Ordered
        <5>3. CASE i = n + 1
          <6>1. detections[j].score <= d.score /\ kept'[i] = d
            BY <3>1, <4>3, <5>1, <5>3
          <6>2. detections[j].score \in Int /\ d.score \in Int
            <7>1. detections[j] \in Detection
              BY <5>1 DEF Parsed, Chosen
            <7> HIDE DEF d
            <7> QED
              BY <4>1, <7>1 DEF Detection
          <6> HIDE DEF d
          <6> QED
            BY <5>1, <6>1, <6>2
        <5> QED
          BY <4>4, <5>2, <5>3
      <4> QED
        BY <4>6, <4>7 DEF Ordered
    <3> QED
      BY <3>3, <3>4
  <2>4. CASE Finish
    BY <2>4 DEF Finish, Ordered
  <2>5. CASE UNCHANGED vars
    BY <2>5 DEF vars, Ordered
  <2> QED
    BY <2>1, <2>2, <2>3, <2>4, <2>5 DEF Next
<1> QED
  BY <1>1, <1>2, ParsedInductive, ChosenInductive, PTL DEF Spec

LEMMA LeftOutInductive == Spec => []LeftOut
<1>1. Init => LeftOut
  BY DEF Init, LeftOut
<1>2. Parsed /\ Chosen /\ Ordered /\ LeftOut /\ [Next]_vars => LeftOut'
  <2> SUFFICES ASSUME Parsed, Chosen, Ordered, LeftOut, [Next]_vars PROVE LeftOut'
    OBVIOUS
  <2>1. CASE ParseRow
    BY <2>1 DEF ParseRow, LeftOut
  <2>2. CASE RowsParsed
    BY <2>2 DEF RowsParsed, LeftOut
  <2>3. CASE Select
    <3>1. PICK c \in rest :
            /\ rest' = rest \ {c}
            /\ kept' = IF Suppressed(detections[c]) THEN kept ELSE Append(kept, detections[c])
      BY <2>3 DEF Select
    <3>2. detections' = detections /\ pc = "nms"
      BY <2>3 DEF Select
    <3> DEFINE d == detections[c]
    <3>3. d \in Detection
      BY DEF Parsed, Chosen
    <3>4. Range(kept) \subseteq Range(kept')
      <4>1. CASE kept' = kept
        BY <4>1 DEF Range
      <4>2. CASE kept' = Append(kept, d)
        BY <3>3, <4>2, AppendIs DEF Chosen
      <4> QED
        BY <3>1, <4>1, <4>2
    <3>5. d \in Range(kept') \/ \E k \in Range(kept') : Beats(k, d)
      <4>1. CASE Suppressed(d)
        <5>1. PICK i \in DOMAIN kept : kept[i].class = d.class /\ Overlap(d.box, kept[i].box)
          BY <4>1 DEF Suppressed
        <5>2. kept[i].score >= d.score
          BY DEF Ordered
        <5>3. kept[i] \in Range(kept)
          BY DEF Range
        <5>4. kept[i].box \in FrameBoxes /\ d.box \in FrameBoxes
          <6>1. kept[i] \in Detection
            BY DEF Chosen
          <6> HIDE DEF d
          <6> QED
            BY <3>3, <6>1 DEF Detection
        <5>5. Overlap(kept[i].box, d.box)
          BY <5>1, <5>4, OverlapSymmetric
        <5> QED
          BY <3>4, <5>1, <5>2, <5>3, <5>5 DEF Beats
      <4>2. CASE ~Suppressed(d)
        <5>1. kept' = Append(kept, d)
          BY <3>1, <4>2
        <5> QED
          BY <3>3, <5>1, AppendIs DEF Chosen
      <4> QED
        BY <4>1, <4>2
    <3>6. ASSUME NEW j \in DOMAIN detections' \ rest'
          PROVE  \/ detections'[j] \in Range(kept')
                 \/ \E k \in Range(kept') : Beats(k, detections'[j])
      <4>1. detections'[j] = detections[j]
        BY <3>2
      <4>2. CASE j = c
        BY <3>5, <4>1, <4>2
      <4>3. CASE j # c
        <5>1. j \in DOMAIN detections \ rest
          BY <3>1, <3>2, <4>3
        <5>2. detections[j] \in Range(kept) \/ \E k \in Range(kept) : Beats(k, detections[j])
          BY <3>2, <5>1 DEF LeftOut
        <5> QED
          BY <3>4, <4>1, <5>2
      <4> QED
        BY <4>2, <4>3
    <3> QED
      BY <3>6 DEF LeftOut, Beats, Range
  <2>4. CASE Finish
    BY <2>4 DEF Finish, LeftOut, Beats, Range
  <2>5. CASE UNCHANGED vars
    BY <2>5 DEF vars, LeftOut, Beats, Range
  <2> QED
    BY <2>1, <2>2, <2>3, <2>4, <2>5 DEF Next
<1> QED
  BY <1>1, <1>2, ParsedInductive, ChosenInductive, OrderedInductive, PTL DEF Spec

\* Of each cluster of boxes of a class the best is kept, in the order of the scores, and
\* a box is left out only for one that beats it or because there is no room; with any
\* number of boxes, however they overlap and wherever the sort leaves equal scores.
THEOREM BestOfEachIsKept == Spec => []KeepsBestOfEach
<1>1. Parsed /\ Chosen /\ Ordered /\ LeftOut => KeepsBestOfEach
  <2> SUFFICES ASSUME Parsed, Chosen, Ordered, LeftOut, pc = "done" PROVE KeepsBestOfEach
    BY DEF KeepsBestOfEach
  <2>1. /\ Range(kept) \subseteq Range(detections)
        /\ MaxResults > 0 => Len(kept) <= MaxResults
    BY DEF Chosen
  <2>2. \A i, j \in DOMAIN kept : i < j =>
          /\ kept[i].score >= kept[j].score
          /\ ~(kept[i].class = kept[j].class /\ Overlap(kept[i].box, kept[j].box))
    BY DEF Ordered
  <2>3. ASSUME NEW d \in Range(detections) \ Range(kept)
        PROVE  \/ \E k \in Range(kept) : /\ k.class = d.class /\ k.score >= d.score
                                         /\ Overlap(k.box, d.box)
               \/ Full /\ \A k \in Range(kept) : k.score >= d.score
    <3>1. PICK j \in DOMAIN detections : d = detections[j]
      BY DEF Range
    <3>2. CASE j \in rest
      <4>1. Full
        BY <3>2 DEF Chosen
      <4>2. \A k \in Range(kept) : k.score >= d.score
        BY <3>1, <3>2 DEF Ordered, Range
      <4> QED
        BY <4>1, <4>2
    <3>3. CASE j \notin rest
      BY <3>1, <3>3 DEF LeftOut, Beats
    <3> QED
      BY <3>2, <3>3
  <2> QED
    BY <2>1, <2>2, <2>3 DEF KeepsBestOfEach
<1> QED
  BY <1>1, ParsedInductive, ChosenInductive, OrderedInductive, LeftOutInductive, PTL

-----------------------------------------------------------------------------
(* What is read of a known layout.                                         *)

LEMMA Multiple ==
  ASSUME NEW s \in Nat \ {0}, NEW v \in Int, v % s = 0
  PROVE  v \div s \in Int /\ v = (v \div s) * s
<1> DEFINE k == v \div s
           r == v % s
<1>1. k \in Int /\ r \in 0 .. s - 1 /\ v = k * s + r
  OBVIOUS
<1> QED
  BY <1>1

LEMMA Exact ==
  ASSUME NEW s \in Nat \ {0}, NEW a \in Int
  PROVE  (a * s) \div s = a
<1> DEFINE n == a * s
           k == n \div s
           r == n % s
           d == a - k
<1>1. n \in Int
  OBVIOUS
<1>2. k \in Int /\ r \in 0 .. s - 1 /\ n = k * s + r
  BY <1>1
<1> HIDE DEF k, r
<1>3. d \in Int /\ d * s = r
  BY <1>2
<1>4. ~(d > 0)
  <2> HIDE DEF d
  <2>1. d > 0 => 0 * s + s <= d * s
    BY <1>3, RowsApart
  <2> QED
    BY <1>2, <1>3, <2>1
<1>5. ~(d < 0)
  <2> DEFINE e == 0 - d
  <2>1. e \in Int /\ e * s = 0 - r /\ (d < 0 => e \in Nat /\ 0 < e)
    BY <1>2, <1>3
  <2> HIDE DEF e, d
  <2>2. d < 0 => 0 * s + s <= e * s
    BY <2>1, RowsApart
  <2> QED
    BY <1>2, <2>1, <2>2
<1>6. a = k
  BY <1>2, <1>3, <1>4, <1>5
<1> QED
  BY <1>6 DEF k

\* Of a layout it knows, infer reads what the model wrote.
LEMMA ReadsCell ==
  ASSUME output \in Outputs, LayoutKnown(output),
         NEW r \in 0 .. Rows(output) - 1, NEW a \in 0 .. Attrs(output) - 1
  PROVE  ReadTensorValue(r, a) = Cell(output, output.scene[r + 1], a)
<1> DEFINE R == Rows(output)
           A == Attrs(output)
           T == R * A
<1>1. /\ R \in Nat /\ A \in Nat /\ r \in Nat /\ a \in Nat /\ r < R /\ a < A /\ T \in Nat
      /\ r * A + A <= T /\ a * R + R <= T /\ r * A \in Nat /\ a * R \in Nat
  <2>1. R \in Nat /\ A \in Nat /\ r \in Nat /\ a \in Nat /\ r < R /\ a < A
    <3>1. Rows(output) \in Nat /\ Attrs(output) \in Nat
      BY OutputIs
    <3> QED
      BY <3>1
  <2> HIDE DEF R, A
  <2>2. r * A + A <= R * A /\ a * R + R <= A * R
    BY <2>1, RowsApart
  <2>3. A * R = T /\ T \in Nat /\ r * A \in Nat /\ a * R \in Nat
    BY <2>1
  <2> QED
    BY <2>1, <2>2, <2>3
<1>2. Layout.rows = R /\ Layout.attrs = A /\ Layout.attr_major = output.attr_major
  BY LayoutIs
<1>3. Data(output) = [k \in 0 .. T - 1 |->
                        IF output.attr_major
                        THEN Cell(output, output.scene[(k % R) + 1], k \div R)
                        ELSE Cell(output, output.scene[(k \div A) + 1], k % A)]
  BY DEF Data
<1>4. ReadTensorValue(r, a) = Data(output)[IF output.attr_major THEN a * R + r ELSE r * A + a]
  BY <1>2 DEF ReadTensorValue
<1> HIDE DEF R, A, T
<1>5. CASE output.attr_major
  <2> DEFINE k == a * R + r
  <2>1. k \in 0 .. T - 1
    BY <1>1
  <2>2. k \div R = a /\ k % R = r
    <3>1. r \in 0 .. R - 1
      BY <1>1
    <3> QED
      BY <1>1, <3>1, Divided
  <2>3. ReadTensorValue(r, a) = Data(output)[k]
    BY <1>4, <1>5
  <2> HIDE DEF k
  <2>4. Data(output)[k] = Cell(output, output.scene[(k % R) + 1], k \div R)
    BY <1>3, <1>5, <2>1
  <2> QED
    BY <2>2, <2>3, <2>4
<1>6. CASE ~output.attr_major
  <2> DEFINE k == r * A + a
  <2>1. k \in 0 .. T - 1
    BY <1>1
  <2>2. k \div A = r /\ k % A = a
    <3>1. a \in 0 .. A - 1
      BY <1>1
    <3> QED
      BY <1>1, <3>1, Divided
  <2>3. ReadTensorValue(r, a) = Data(output)[k]
    BY <1>4, <1>6
  <2> HIDE DEF k
  <2>4. Data(output)[k] = Cell(output, output.scene[(k \div A) + 1], k % A)
    BY <1>3, <1>6, <2>1
  <2> QED
    BY <2>2, <2>3, <2>4
<1> QED
  BY <1>5, <1>6

\* Of a row of a known layout, whatever its head, infer finds the class and the score
\* of the object, or a score that is too low as the object's is.
LEMMA FindsClassAndScore ==
  ASSUME output \in Outputs, LayoutKnown(output), NEW r \in 0 .. Rows(output) - 1
  PROVE  LET obj == output.scene[r + 1]
             cs == ClassAndScore(r)
         IN  \/ obj.score >= ScoreThreshold /\ cs.class = obj.class /\ cs.score = obj.score
             \/ obj.score < ScoreThreshold /\ cs.score < ScoreThreshold
<1> DEFINE obj == output.scene[r + 1]
           cs == ClassAndScore(r)
           A == Attrs(output)
           read(a) == ReadTensorValue(r, a)
           class(c) == IF c = obj.class THEN 1 ELSE 0
           p == BestClass(r, 5)
           q == BestClass(r, 4)
<1>1. obj \in Objects /\ obj.score \in Nat /\ obj.class \in 0 .. Classes - 1
  <2>1. output.scene \in Seq(Objects) /\ r + 1 \in 1 .. Len(output.scene)
    BY OutputIs DEF Rows
  <2>2. obj \in Objects
    BY <2>1
  <2> QED
    BY <2>2 DEF Objects
<1>2. Layout.rows = Rows(output) /\ Layout.attrs = A /\ r \in 0 .. Layout.rows - 1
  BY LayoutIs
<1>3. /\ A \in Nat /\ A >= 6 /\ Classes \in Nat
      /\ output.head = "decoded" \/ A > 6
      /\ output.head = "decoded" => A = 6
      /\ output.head = "objectness" => A = 5 + Classes
      /\ output.head = "classes" => A = 4 + Classes
      /\ output.head \in {"decoded", "objectness", "classes"}
  BY OutputIs, LayoutIs, ClassesAssumption DEF LayoutKnown
<1>4. \A a \in 0 .. A - 1 : read(a) = Cell(output, obj, a)
  BY ReadsCell
<1>5. \A a \in 4 .. A - 1 : Cell(output, obj, a) =
        CASE output.head = "decoded"    -> IF a = 4 THEN obj.score ELSE obj.class
          [] output.head = "objectness" -> IF a = 4 THEN obj.score ELSE class(a - 5)
          [] output.head = "classes"    -> obj.score * class(a - 4)
  BY <1>3 DEF Cell
<1>6. /\ p \in 5 .. A - 1 /\ \A b \in 5 .. A - 1 : read(b) <= read(p)
      /\ q \in 4 .. A - 1 /\ \A b \in 4 .. A - 1 : read(b) <= read(q)
  <2>1. /\ p \in 5 .. Layout.attrs - 1 /\ \A b \in 5 .. Layout.attrs - 1 : read(b) <= read(p)
        /\ q \in 4 .. Layout.attrs - 1 /\ \A b \in 4 .. Layout.attrs - 1 : read(b) <= read(q)
    BY <1>2, LayoutIs, BestClassIs
  <2> QED
    BY <1>2, <2>1
<1>7. cs = IF A = 6 THEN [class |-> read(5), score |-> read(4)]
           ELSE IF output.head = "objectness" THEN [class |-> p - 5, score |-> read(4) * read(p)]
           ELSE [class |-> q - 4, score |-> read(q)]
  BY <1>2 DEF ClassAndScore
<1>8. ScoreThreshold \in Nat \ {0}
  BY ThresholdsAssumption
<1> HIDE DEF obj, cs, A, read, p, q
<1>9. CASE output.head = "decoded"
  <2>1. read(4) = obj.score /\ read(5) = obj.class
    BY <1>3, <1>4, <1>5, <1>9
  <2> QED
    BY <1>1, <1>3, <1>7, <1>8, <1>9, <2>1 DEF obj, cs
<1>10. CASE output.head = "objectness"
  <2>1. A = 5 + Classes /\ \A a \in 5 .. A - 1 : read(a) = class(a - 5)
    BY <1>3, <1>4, <1>5, <1>10
  <2>2. read(4) = obj.score
    BY <1>3, <1>4, <1>5, <1>10
  <2>3. obj.class + 5 \in 5 .. A - 1 /\ (obj.class + 5) - 5 = obj.class
    BY <1>1, <1>3, <2>1
  <2>4. read(obj.class + 5) = 1
    BY <2>1, <2>3
  <2>5. read(p) = class(p - 5) /\ 1 <= read(p)
    BY <1>6, <2>1, <2>3, <2>4
  <2>6. p - 5 = obj.class /\ read(p) = 1
    BY <2>5
  <2>7. cs.class = obj.class /\ cs.score = obj.score
    <3>1. read(4) * read(p) = obj.score
      BY <1>1, <2>2, <2>6
    <3>2. cs = [class |-> p - 5, score |-> read(4) * read(p)]
      <4>1. A # 6
        BY <1>3, <1>10
      <4> QED
        BY <1>7, <1>10, <4>1
    <3> QED
      BY <2>6, <3>1, <3>2
  <2> QED
    BY <1>1, <1>8, <2>7 DEF obj, cs
<1>11. CASE output.head = "classes"
  <2>1. A = 4 + Classes /\ \A a \in 4 .. A - 1 : read(a) = obj.score * class(a - 4)
    BY <1>3, <1>4, <1>5, <1>11
  <2>2. obj.class + 4 \in 4 .. A - 1 /\ (obj.class + 4) - 4 = obj.class
    BY <1>1, <1>3, <2>1
  <2>3. read(obj.class + 4) = obj.score
    BY <1>1, <2>1, <2>2
  <2>4. read(q) = obj.score * class(q - 4) /\ obj.score <= read(q)
    BY <1>6, <2>1, <2>2, <2>3
  <2>5. \/ q - 4 = obj.class /\ read(q) = obj.score
        \/ read(q) = 0 /\ obj.score = 0
    BY <1>1, <2>4
  <2>6. cs = [class |-> q - 4, score |-> read(q)]
    <3>1. A # 6 /\ output.head # "objectness"
      BY <1>3, <1>11, <2>1
    <3> QED
      BY <1>7, <3>1
  <2>7. cs.class = q - 4 /\ cs.score = read(q)
    BY <2>6
  <2> QED
    BY <1>1, <1>8, <2>5, <2>7 DEF obj, cs
<1> QED
  BY <1>3, <1>9, <1>10, <1>11

-----------------------------------------------------------------------------
(* The box of a row of a known layout and scale.                           *)

LEMMA ClampScaled ==
  ASSUME NEW v \in Int, NEW upper \in Nat, NEW u \in Nat \ {0}
  PROVE  Clamp(v * u, 0, upper * u) = Clamp(v, 0, upper) * u
<1> DEFINE p == v * u
           h == upper * u
<1>1. p \in Int /\ h \in Nat /\ 0 * u = 0
  OBVIOUS
<1>2. CASE v < 0
  <2> DEFINE w == 0 - v
  <2>1. w \in Nat /\ 0 < w /\ p = 0 - w * u /\ w * u \in Nat
    BY <1>2
  <2>2. 0 * u + u <= w * u
    <3> HIDE DEF w
    <3> QED
      BY <2>1, RowsApart
  <2>3. p < 0
    <3> HIDE DEF p, w
    <3> QED
      BY <1>1, <2>1, <2>2
  <2> HIDE DEF p, h
  <2>4. Clamp(p, 0, h) = 0
    BY <1>1, <2>3, Clamped
  <2>5. Clamp(v, 0, upper) = 0
    BY <1>2, Clamped
  <2> QED
    BY <1>1, <2>4, <2>5 DEF p, h
<1>3. CASE v > upper
  <2>1. upper * u + u <= v * u
    BY <1>3, RowsApart
  <2>2. p > h
    <3>1. h + u <= p
      BY <2>1
    <3> HIDE DEF p, h
    <3> QED
      BY <1>1, <3>1
  <2> HIDE DEF p, h
  <2>3. Clamp(p, 0, h) = h
    BY <1>1, <2>2, Clamped
  <2>4. Clamp(v, 0, upper) = upper
    BY <1>3, Clamped
  <2> QED
    BY <2>3, <2>4 DEF p, h
<1>4. CASE v \in 0 .. upper
  <2>1. p \in 0 .. h
    <3>1. v < upper => v * u + u <= upper * u
      BY <1>4, RowsApart
    <3>2. p \in Nat /\ (v < upper => p + u <= h) /\ (v = upper => p = h)
      BY <1>4, <3>1
    <3> HIDE DEF p, h
    <3> QED
      BY <1>1, <1>4, <3>2
  <2> HIDE DEF p, h
  <2>2. Clamp(p, 0, h) = p
    BY <1>1, <2>1, Clamped
  <2>3. Clamp(v, 0, upper) = v
    BY <1>4, Clamped
  <2> QED
    BY <2>2, <2>3 DEF p, h
<1> QED
  BY <1>2, <1>3, <1>4

\* A coordinate of the frame is a whole number of grains in the input, and taking the
\* padding away and scaling back brings it back.
LEMMA PlacedIs ==
  ASSUME NEW v \in Int, NEW pad \in Int
  PROVE  /\ Placed(v, pad) = (pad * Den + v * Num) * Grain
         /\ ((Placed(v, pad) - pad * Unit) * Den) \div Num = v * Unit
<1> DEFINE g == Grain
           n == Num
           d == Den
           pu == pad * Unit
           vg == v * g
           scaled == vg * n
<1>1. g \in Nat \ {0} /\ n \in Nat \ {0} /\ d \in Nat \ {0} /\ Unit = g * d
  BY GeometryIs
<1>2. Placed(v, pad) = pu + ((v * Unit * n) \div d)
  BY DEF Placed
<1> HIDE DEF g, n, d
<1>3. vg \in Int /\ v * Unit = vg * d /\ pu = (pad * d) * g /\ pu \in Int
  BY <1>1
<1> HIDE DEF vg, pu
<1>4. scaled \in Int /\ v * Unit * n = scaled * d /\ scaled * d = (vg * d) * n /\ vg * d \in Int
  BY <1>1, <1>3
<1> HIDE DEF scaled
<1>5. (v * Unit * n) \div d = scaled /\ ((vg * d) * n) \div n = vg * d
  BY <1>1, <1>4, Exact
<1>6. Placed(v, pad) = pu + scaled /\ (pu + scaled) - pu = scaled
  BY <1>2, <1>3, <1>4, <1>5
<1>7. (pad * d + v * n) * g = pu + scaled
  <2>1. scaled = (v * n) * g
    BY <1>1 DEF scaled, vg
  <2>2. (pad * d + v * n) * g = (pad * d) * g + (v * n) * g
    BY <1>1
  <2> QED
    BY <1>3, <2>1, <2>2
<1>8. ((Placed(v, pad) - pu) * d) \div n = v * Unit
  BY <1>3, <1>4, <1>5, <1>6
<1> QED
  BY <1>6, <1>7, <1>8 DEF g, n, d, pu

\* The centre and the size of a box of whole grains are fractions of the input without
\* a remainder, and make the corners again.
LEMMA CentreAndSize ==
  ASSUME NEW x1 \in Int, NEW x2 \in Int, NEW k1 \in Int, NEW k2 \in Int,
         x1 = k1 * Grain, x2 = k2 * Grain
  PROVE  LET c == (x1 + x2) \div 2
             w == x2 - x1
         IN  /\ c - (w \div 2) = x1 /\ c + (w \div 2) = x2
             /\ \A d \in {InputWidth, InputHeight} :
                  \A v \in {x1, x2, c, w} : v \in Int /\ (v \div d) * d = v
<1> DEFINE W == InputWidth
           H == InputHeight
           m == W * H
           c == (x1 + x2) \div 2
           w == x2 - x1
           sm == (k1 + k2) * m
           dm == (k2 - k1) * m
<1>1. W \in Nat \ {0} /\ H \in Nat \ {0} /\ m \in Nat /\ Grain = 2 * m
  BY GeometryIs DEF Grain
<1> HIDE DEF W, H
<1>2. /\ sm \in Int /\ dm \in Int /\ x1 + x2 = sm * 2 /\ w = dm * 2
      /\ sm - dm = x1 /\ sm + dm = x2
  <2> HIDE DEF m
  <2> DEFINE a == k1 * m
             b == k2 * m
  <2>1. a \in Int /\ b \in Int /\ sm = a + b /\ dm = b - a
    BY <1>1
  <2>2. x1 = 2 * a /\ x2 = 2 * b
    BY <1>1
  <2> HIDE DEF a, b, sm, dm
  <2> QED
    BY <2>1, <2>2
<1>3. c = sm /\ w \div 2 = dm
  <2> HIDE DEF sm, dm, w, m
  <2>1. (sm * 2) \div 2 = sm /\ (dm * 2) \div 2 = dm
    BY <1>2, Exact
  <2> QED
    BY <1>2, <2>1
<1>4. ASSUME NEW d \in {W, H}, NEW v \in {x1, x2, c, w}
      PROVE  v \in Int /\ (v \div d) * d = v
  <2>1. PICK n \in Int : v = n * m
    <3>1. /\ x1 = (2 * k1) * m /\ 2 * k1 \in Int /\ x2 = (2 * k2) * m /\ 2 * k2 \in Int
          /\ w = (2 * (k2 - k1)) * m /\ 2 * (k2 - k1) \in Int
          /\ c = (k1 + k2) * m /\ k1 + k2 \in Int
      <4>1. c = (k1 + k2) * m
        BY <1>3
      <4> HIDE DEF m, c
      <4> QED
        BY <1>1, <1>2, <4>1
    <3> HIDE DEF m, c, w
    <3> QED
      BY <3>1
  <2> HIDE DEF c, w
  <2>2. PICK e \in Nat : m = e * d
    BY <1>1
  <2>3. v = (n * e) * d /\ n * e \in Int /\ v \in Int /\ d \in Nat \ {0}
    <3> HIDE DEF m
    <3>1. d \in Nat \ {0}
      BY <1>1
    <3>2. v = n * (e * d)
      BY <2>1, <2>2
    <3> QED
      BY <3>1, <3>2
  <2>4. ((n * e) * d) \div d = n * e
    BY <2>3, Exact
  <2> QED
    BY <2>3, <2>4
<1> HIDE DEF sm, dm, m
<1> QED
  BY <1>2, <1>3, <1>4 DEF W, H

\* For either format and scale, the box that infer makes of what the model wrote is the
\* part of the object within the frame.
LEMMA BoxComesBack ==
  ASSUME output \in Outputs, NEW obj \in Objects,
         output.normalized <=> LooksNormalized(InputBox(output, obj)),
         NEW b, \A i \in 1 .. 4 : b[i] = InputBox(output, obj)[i]
  PROVE  FrameBox(b) = Seen(obj).box
<1> DEFINE x1 == Placed(obj.x1, PadX)
           x2 == Placed(obj.x2, PadX)
           y1 == Placed(obj.y1, PadY)
           y2 == Placed(obj.y2, PadY)
           cx == (x1 + x2) \div 2
           cy == (y1 + y2) \div 2
           w == x2 - x1
           h == y2 - y1
           whole == IF output.format = "xyxy" THEN <<x1, y1, x2, y2>> ELSE <<cx, cy, w, h>>
           box == IF LooksNormalized(b)
                  THEN <<b[1] * InputWidth, b[2] * InputHeight,
                         b[3] * InputWidth, b[4] * InputHeight>>
                  ELSE b
           corners == IF output.format = "xyxy" THEN box
                      ELSE <<box[1] - (box[3] \div 2), box[2] - (box[4] \div 2),
                             box[1] + (box[3] \div 2), box[2] + (box[4] \div 2)>>
           x(v) == Clamp(((v - PadX * Unit) * Den) \div Num, 0, (Width - 1) * Unit)
           y(v) == Clamp(((v - PadY * Unit) * Den) \div Num, 0, (Height - 1) * Unit)
<1>1. obj.x1 \in Int /\ obj.x2 \in Int /\ obj.y1 \in Int /\ obj.y2 \in Int
  BY DEF Objects
<1>2. /\ x1 \in Int /\ x2 \in Int /\ y1 \in Int /\ y2 \in Int
      /\ \E k1, k2 \in Int : x1 = k1 * Grain /\ x2 = k2 * Grain
      /\ \E k1, k2 \in Int : y1 = k1 * Grain /\ y2 = k2 * Grain
  <2>1. \A p, v \in Int : p * Den + v * Num \in Int
    BY GeometryIs
  <2>2. ASSUME NEW v \in Int, NEW pad \in Int
        PROVE  Placed(v, pad) \in Int /\ \E k \in Int : Placed(v, pad) = k * Grain
    <3>1. pad * Den + v * Num \in Int /\ Placed(v, pad) = (pad * Den + v * Num) * Grain
      BY <2>1, PlacedIs
    <3>2. Placed(v, pad) \in Int
      BY PlacedIsInt
    <3> QED
      BY <3>1, <3>2
  <2>3. x1 \in Int /\ \E k \in Int : x1 = k * Grain
    BY <1>1, <2>2, PadsAreInts
  <2>4. x2 \in Int /\ \E k \in Int : x2 = k * Grain
    BY <1>1, <2>2, PadsAreInts
  <2>5. y1 \in Int /\ \E k \in Int : y1 = k * Grain
    BY <1>1, <2>2, PadsAreInts
  <2>6. y2 \in Int /\ \E k \in Int : y2 = k * Grain
    BY <1>1, <2>2, PadsAreInts
  <2> HIDE DEF x1, x2, y1, y2
  <2> QED
    BY <2>3, <2>4, <2>5, <2>6
<1>3. /\ cx - (w \div 2) = x1 /\ cx + (w \div 2) = x2
      /\ \A v \in {x1, x2, cx, w} : v \in Int /\ (v \div InputWidth) * InputWidth = v
  <2> HIDE DEF x1, x2, y1, y2
  <2>1. PICK k1 \in Int, k2 \in Int : x1 \in Int /\ x2 \in Int /\ x1 = k1 * Grain /\ x2 = k2 * Grain
    BY <1>2
  <2>2. /\ cx - (w \div 2) = x1 /\ cx + (w \div 2) = x2
        /\ \A d \in {InputWidth, InputHeight} :
             \A v \in {x1, x2, cx, w} : v \in Int /\ (v \div d) * d = v
    BY <2>1, CentreAndSize, ZenonT(30)
  <2> QED
    BY <2>2
<1>4. /\ cy - (h \div 2) = y1 /\ cy + (h \div 2) = y2
      /\ \A v \in {y1, y2, cy, h} : v \in Int /\ (v \div InputHeight) * InputHeight = v
  <2> HIDE DEF x1, x2, y1, y2
  <2>1. PICK k1 \in Int, k2 \in Int : y1 \in Int /\ y2 \in Int /\ y1 = k1 * Grain /\ y2 = k2 * Grain
    BY <1>2
  <2>2. /\ cy - (h \div 2) = y1 /\ cy + (h \div 2) = y2
        /\ \A d \in {InputWidth, InputHeight} :
             \A v \in {y1, y2, cy, h} : v \in Int /\ (v \div d) * d = v
    BY <2>1, CentreAndSize, ZenonT(30)
  <2> QED
    BY <2>2
<1>5. InputBox(output, obj) =
        IF output.normalized
        THEN <<whole[1] \div InputWidth, whole[2] \div InputHeight,
               whole[3] \div InputWidth, whole[4] \div InputHeight>>
        ELSE whole
  BY DEF InputBox
<1>6. LooksNormalized(b) <=> output.normalized
  <2>1. LooksNormalized(b) <=> LooksNormalized(InputBox(output, obj))
    BY DEF LooksNormalized
  <2> QED
    BY <2>1
<1>7. FrameBox(b) = <<x(corners[1]), y(corners[2]), x(corners[3]), y(corners[4])>>
  BY DEF FrameBox
<1> HIDE DEF x1, x2, y1, y2, cx, cy, w, h, x, y
<1>8. output.format \in {"xywh", "xyxy"}
  BY OutputIs
<1>9. /\ whole[1] \in {x1, cx} /\ whole[2] \in {y1, cy}
      /\ whole[3] \in {x2, w} /\ whole[4] \in {y2, h}
  BY <1>8
<1>10. /\ box[1] = whole[1] /\ box[2] = whole[2] /\ box[3] = whole[3] /\ box[4] = whole[4]
  <2> DEFINE div == <<whole[1] \div InputWidth, whole[2] \div InputHeight,
                      whole[3] \div InputWidth, whole[4] \div InputHeight>>
  <2> HIDE DEF whole
  <2>1. CASE output.normalized
    <3>1. InputBox(output, obj) = div
      BY <1>5, <2>1
    <3>2. /\ b[1] = whole[1] \div InputWidth /\ b[2] = whole[2] \div InputHeight
          /\ b[3] = whole[3] \div InputWidth /\ b[4] = whole[4] \div InputHeight
      BY <3>1
    <3>3. /\ (whole[1] \div InputWidth) * InputWidth = whole[1]
          /\ (whole[2] \div InputHeight) * InputHeight = whole[2]
          /\ (whole[3] \div InputWidth) * InputWidth = whole[3]
          /\ (whole[4] \div InputHeight) * InputHeight = whole[4]
      BY <1>3, <1>4, <1>9
    <3>4. box = <<b[1] * InputWidth, b[2] * InputHeight, b[3] * InputWidth, b[4] * InputHeight>>
      BY <1>6, <2>1
    <3>5. /\ box[1] = b[1] * InputWidth /\ box[2] = b[2] * InputHeight
          /\ box[3] = b[3] * InputWidth /\ box[4] = b[4] * InputHeight
      BY <3>4
    <3> QED
      BY <3>2, <3>3, <3>5
  <2>2. CASE ~output.normalized
    <3>1. InputBox(output, obj) = whole /\ box = b
      BY <1>5, <1>6, <2>2
    <3> QED
      BY <3>1
  <2> QED
    BY <2>1, <2>2, OutputIs
<1>11. corners[1] = x1 /\ corners[2] = y1 /\ corners[3] = x2 /\ corners[4] = y2
  <2> HIDE DEF box
  <2>1. CASE output.format = "xyxy"
    BY <1>10, <2>1
  <2>2. CASE output.format # "xyxy"
    <3>1. box[1] = cx /\ box[2] = cy /\ box[3] = w /\ box[4] = h
      BY <1>10, <2>2
    <3> QED
      BY <1>3, <1>4, <2>2, <3>1
  <2> QED
    BY <2>1, <2>2
<1>12. /\ x(x1) = Clamp(obj.x1, 0, Width - 1) * Unit /\ x(x2) = Clamp(obj.x2, 0, Width - 1) * Unit
       /\ y(y1) = Clamp(obj.y1, 0, Height - 1) * Unit /\ y(y2) = Clamp(obj.y2, 0, Height - 1) * Unit
  <2>1. Width - 1 \in Nat /\ Height - 1 \in Nat /\ Unit \in Nat \ {0}
    BY GeometryIs
  <2>2. /\ ((x1 - PadX * Unit) * Den) \div Num = obj.x1 * Unit
        /\ ((x2 - PadX * Unit) * Den) \div Num = obj.x2 * Unit
        /\ ((y1 - PadY * Unit) * Den) \div Num = obj.y1 * Unit
        /\ ((y2 - PadY * Unit) * Den) \div Num = obj.y2 * Unit
    BY <1>1, PlacedIs, PadsAreInts DEF x1, x2, y1, y2
  <2>3. /\ Clamp(obj.x1 * Unit, 0, (Width - 1) * Unit) = Clamp(obj.x1, 0, Width - 1) * Unit
        /\ Clamp(obj.x2 * Unit, 0, (Width - 1) * Unit) = Clamp(obj.x2, 0, Width - 1) * Unit
        /\ Clamp(obj.y1 * Unit, 0, (Height - 1) * Unit) = Clamp(obj.y1, 0, Height - 1) * Unit
        /\ Clamp(obj.y2 * Unit, 0, (Height - 1) * Unit) = Clamp(obj.y2, 0, Height - 1) * Unit
    BY <1>1, <2>1, ClampScaled
  <2> QED
    BY <2>2, <2>3 DEF x, y
<1>13. Seen(obj).box = <<Clamp(obj.x1, 0, Width - 1) * Unit, Clamp(obj.y1, 0, Height - 1) * Unit,
                         Clamp(obj.x2, 0, Width - 1) * Unit, Clamp(obj.y2, 0, Height - 1) * Unit>>
  BY DEF Seen
<1> HIDE DEF corners
<1> QED
  BY <1>7, <1>11, <1>12, <1>13

\* The sequence that Found defines by recursion.
LEMMA FoundUnfolds ==
  ASSUME NEW scene \in Seq(Objects)
  PROVE  /\ Found(scene)[0] = << >>
         /\ \A n \in 1 .. Len(scene) :
              Found(scene)[n] = IF Seen(scene[n]).score < ScoreThreshold \/ Empty(Seen(scene[n]).box)
                                THEN Found(scene)[n - 1]
                                ELSE Append(Found(scene)[n - 1], Seen(scene[n]))
<1> DEFINE N == Len(scene)
           next(prev, n) == IF Seen(scene[n]).score < ScoreThreshold \/ Empty(Seen(scene[n]).box)
                            THEN prev
                            ELSE Append(prev, Seen(scene[n]))
           Is(f, k) == f = [n \in 0 .. k |-> IF n = 0 THEN << >> ELSE next(f[n - 1], n)]
           Bad == {k \in 0 .. N : ~ \E f : Is(f, k)}
<1>1. N \in Nat
  OBVIOUS
<1>2. Bad = {}
  <2> SUFFICES ASSUME Bad # {} PROVE FALSE
    OBVIOUS
  <2>1. PICK k \in Bad : \A j \in Bad : k <= j
    BY LeastElement, Bad \subseteq Nat
  <2>2. CASE k = 0
    <3> DEFINE g == [n \in 0 .. 0 |-> << >>]
    <3>1. g = [n \in 0 .. 0 |-> IF n = 0 THEN << >> ELSE next(g[n - 1], n)]
      OBVIOUS
    <3>2. Is(g, k)
      BY <2>2, <3>1
    <3> QED
      BY <3>2
  <2>3. CASE k # 0
    <3>1. k \in 0 .. N /\ k - 1 \in 0 .. N /\ ~(k <= k - 1)
      BY <2>3
    <3>2. k - 1 \notin Bad
      <4> HIDE DEF Bad
      <4> QED
        BY <2>1, <3>1
    <3>3. PICK f : Is(f, k - 1)
      BY <3>1, <3>2
    <3> DEFINE g == [n \in 0 .. k |-> IF n = k THEN next(f[k - 1], k) ELSE f[n]]
    <3> HIDE DEF next
    <3>4. \A n \in 0 .. k - 1 : f[n] = IF n = 0 THEN << >> ELSE next(f[n - 1], n)
      BY <3>3
    <3>5. ASSUME NEW n \in 0 .. k PROVE g[n] = IF n = 0 THEN << >> ELSE next(g[n - 1], n)
      <4>1. CASE n = k
        <5>1. g[n] = next(f[k - 1], k) /\ g[k - 1] = f[k - 1]
          BY <3>1, <4>1
        <5> QED
          BY <2>3, <4>1, <5>1
      <4>2. CASE n # k
        <5>1. n \in 0 .. k - 1 /\ g[n] = f[n]
          BY <3>1, <4>2
        <5>2. n # 0 => g[n - 1] = f[n - 1]
          BY <3>1, <5>1
        <5> QED
          BY <3>4, <5>1, <5>2
      <4> QED
        BY <4>1, <4>2
    <3>6. g = [n \in 0 .. k |-> IF n = 0 THEN << >> ELSE next(g[n - 1], n)]
      <4>1. g = [n \in 0 .. k |-> g[n]]
        OBVIOUS
      <4> HIDE DEF g
      <4> QED
        BY <3>5, <4>1
    <3>7. Is(g, k)
      BY <3>6
    <3> QED
      BY <2>1, <3>7
  <2> QED
    BY <2>2, <2>3
<1>3. \E f : Is(f, N)
  <2> HIDE DEF Is
  <2> QED
    BY <1>1, <1>2
<1>4. Found(scene) = CHOOSE f : Is(f, N)
  BY DEF Found
<1> HIDE DEF Bad
<1>5. Is(Found(scene), N)
  BY <1>3, <1>4
<1>6. \A n \in 0 .. N : Found(scene)[n] = IF n = 0 THEN << >> ELSE next(Found(scene)[n - 1], n)
  <2> HIDE DEF next
  <2> QED
    BY <1>5
<1>7. 0 \in 0 .. N /\ \A n \in 1 .. N : n \in 0 .. N /\ n # 0
  BY <1>1
<1> HIDE DEF N, Is
<1>8. Found(scene)[0] = << >> /\ \A n \in 1 .. N : Found(scene)[n] = next(Found(scene)[n - 1], n)
  <2> HIDE DEF next
  <2> QED
    BY <1>6, <1>7
<1> QED
  BY <1>8 DEF N

\* The boxes found are at every row those of the objects so far.
InStep ==
  pc = "parse" /\ LayoutKnown(output) /\ ScaleKnown(output) =>
    row <= Rows(output) /\ detections = Found(output.scene)[row]

\* infer finds what the model saw, for every size of the frame and the input, every
\* scene and every convention of the model that the layout and the scale tell apart.
THEOREM WhatWasSeenIsFound == Spec => []FindsWhatWasSeen
<1>1. Init => InStep
  <2> SUFFICES ASSUME Init PROVE row <= Rows(output) /\ detections = Found(output.scene)[row]
    BY DEF InStep
  <2>1. output \in Outputs /\ row = 0 /\ detections = << >>
    BY DEF Init
  <2>2. output.scene \in Seq(Objects) /\ Rows(output) \in Nat
    BY <2>1, OutputIs
  <2> QED
    BY <2>1, <2>2, FoundUnfolds
<1>2. Parsed /\ InStep /\ [Next]_vars => InStep'
  <2> SUFFICES ASSUME Parsed, InStep, [Next]_vars PROVE InStep'
    OBVIOUS
  <2>1. CASE ParseRow
    <3>1. output' = output /\ pc' = pc /\ pc = "parse" /\ row' = row + 1
      BY <2>1 DEF ParseRow
    <3>2. SUFFICES ASSUME LayoutKnown(output), ScaleKnown(output)
                   PROVE  row' <= Rows(output) /\ detections' = Found(output.scene)[row']
      BY <3>1 DEF InStep, Rows, LayoutKnown, Attrs, ScaleKnown
    <3> DEFINE scene == output.scene
               obj == scene[row + 1]
               b == [i \in 1 .. 4 |-> ReadTensorValue(row, i - 1)]
               cs == ClassAndScore(row)
               box == FrameBox(b)
               d == [class |-> cs.class, score |-> cs.score, box |-> box]
    <3>3. /\ scene \in Seq(Objects) /\ Rows(output) = Len(scene) /\ Rows(output) \in Nat
          /\ row \in 0 .. Rows(output) - 1 /\ row < Len(scene)
      <4>1. scene \in Seq(Objects) /\ Rows(output) = Len(scene) /\ Rows(output) \in Nat
        BY OutputIs DEF Parsed, Rows
      <4>2. row < Layout.rows /\ Layout.rows = Rows(output)
        BY <2>1, <3>2, LayoutIs DEF ParseRow, Parsed
      <4> HIDE DEF scene
      <4> QED
        BY <4>1, <4>2 DEF Parsed
    <3>4. row + 1 \in DOMAIN scene /\ obj \in Objects
      <4>1. row + 1 \in 1 .. Len(scene) /\ DOMAIN scene = 1 .. Len(scene)
        BY <3>3 DEF Parsed
      <4> QED
        BY <3>3, <4>1
    <3>6. output.normalized <=> LooksNormalized(InputBox(output, obj))
      BY <3>2, <3>4 DEF ScaleKnown
    <3>7. \A i \in 1 .. 4 : b[i] = InputBox(output, obj)[i]
      <4> SUFFICES ASSUME NEW i \in 1 .. 4 PROVE b[i] = InputBox(output, obj)[i]
        OBVIOUS
      <4>1. i - 1 \in 0 .. Attrs(output) - 1 /\ i - 1 < 4 /\ (i - 1) + 1 = i
        <5>1. Attrs(output) \in Nat /\ Attrs(output) >= 5
          BY OutputIs DEF Parsed
        <5> QED
          BY <5>1
      <4>2. ReadTensorValue(row, i - 1) = Cell(output, obj, i - 1)
        BY <3>2, <3>3, <4>1, ReadsCell DEF Parsed
      <4>3. Cell(output, obj, i - 1) = InputBox(output, obj)[i]
        BY <4>1 DEF Cell
      <4> QED
        BY <4>2, <4>3
    <3>8. box = Seen(obj).box
      <4> HIDE DEF b, obj
      <4> QED
        BY <3>4, <3>6, <3>7, BoxComesBack DEF Parsed
    <3>9. \/ obj.score >= ScoreThreshold /\ cs.class = obj.class /\ cs.score = obj.score
          \/ obj.score < ScoreThreshold /\ cs.score < ScoreThreshold
      BY <3>2, <3>3, FindsClassAndScore DEF Parsed
    <3>10. detections' = IF cs.score < ScoreThreshold \/ Empty(box) THEN detections
                         ELSE Append(detections, d)
      BY <2>1 DEF ParseRow
    <3>11. Seen(obj) = [class |-> obj.class, score |-> obj.score, box |-> Seen(obj).box]
           /\ Seen(obj).score = obj.score
      BY DEF Seen
    <3>12. obj.score \in Nat /\ ScoreThreshold \in Nat
      <4> HIDE DEF obj
      <4> QED
        BY <3>4, ThresholdsAssumption DEF Objects
    <3>13. Found(scene)[row + 1] = IF Seen(obj).score < ScoreThreshold \/ Empty(Seen(obj).box)
                                   THEN Found(scene)[row]
                                   ELSE Append(Found(scene)[row], Seen(obj))
      <4>1. row + 1 \in 1 .. Len(scene) /\ (row + 1) - 1 = row
        BY <3>3 DEF Parsed
      <4> QED
        BY <3>3, <4>1, FoundUnfolds
    <3>14. detections = Found(scene)[row]
      BY <3>1, <3>2 DEF InStep
    <3> HIDE DEF obj, b, cs, box
    <3>15. detections' = Found(scene)[row + 1]
      <4>1. CASE obj.score >= ScoreThreshold /\ cs.class = obj.class /\ cs.score = obj.score
        <5>1. d = Seen(obj)
          BY <3>8, <3>11, <4>1
        <5> HIDE DEF d, scene
        <5> QED
          BY <3>8, <3>10, <3>11, <3>12, <3>13, <3>14, <4>1, <5>1
      <4>2. CASE obj.score < ScoreThreshold /\ cs.score < ScoreThreshold
        <5> HIDE DEF d, scene
        <5> QED
          BY <3>10, <3>11, <3>13, <3>14, <4>2
      <4> QED
        BY <3>9, <4>1, <4>2
    <3> QED
      BY <3>1, <3>3, <3>15 DEF Parsed
  <2>2. CASE RowsParsed
    BY <2>2 DEF RowsParsed, InStep
  <2>3. CASE Select
    BY <2>3 DEF Select, InStep
  <2>4. CASE Finish
    BY <2>4 DEF Finish, InStep
  <2>5. CASE UNCHANGED vars
    BY <2>5 DEF vars, InStep, Rows, LayoutKnown, Attrs, ScaleKnown
  <2> QED
    BY <2>1, <2>2, <2>3, <2>4, <2>5 DEF Next
<1>3. InStep => FindsWhatWasSeen
  BY DEF InStep, FindsWhatWasSeen, Expected, Rows
<1> QED
  BY <1>1, <1>2, <1>3, ParsedInductive, PTL DEF Spec

-----------------------------------------------------------------------------
(* The overlay: pixels, places and rectangles.                             *)

\* The pixels of a rectangle, and those of a line of n pixels inside of its edges.
Within(l, t, r, b) == {p \in Int \X Int : p[1] \in l .. r /\ p[2] \in t .. b}
Ring(l, t, r, b, n) == Within(l, t, r, b) \ Within(l + n, t + n, r - n, b - n)

LEMMA ClampedCoordinate ==
  ASSUME NEW v \in Int, NEW upper \in Nat
  PROVE  /\ clampCoordinate(v, 0, upper) \in 0 .. upper
         /\ clampCoordinate(v, 0, upper) = IF v < 0 THEN 0 ELSE IF v > upper THEN upper ELSE v
<1>1. Max({0, Max({0, upper})}) = upper /\ Max({0, upper}) = upper
  BY LargerOfTwo
<1>2. clampCoordinate(v, 0, upper) = Clamp(v, 0, upper)
  BY <1>1 DEF clampCoordinate
<1> DEFINE c == Clamp(v, 0, upper)
<1>3. /\ c \in 0 .. upper
      /\ v \in 0 .. upper => c = v
      /\ v < 0 => c = 0
      /\ v > upper => c = upper
  <2>1. 0 \in Int /\ upper \in Int /\ 0 <= upper
    OBVIOUS
  <2> QED
    BY <2>1, Clamped
<1> HIDE DEF c
<1>4. c \in 0 .. upper /\ c = IF v < 0 THEN 0 ELSE IF v > upper THEN upper ELSE v
  BY <1>3
<1> QED
  BY <1>2, <1>4 DEF c

\* A pixel of the frame has a place of its own in the plane.
LEMMA PlaceIs ==
  ASSUME NEW x \in 0 .. Width - 1, NEW y \in 0 .. Height - 1
  PROVE  y * Width + x \in 0 .. Width * Height - 1
<1>1. Width \in Nat /\ Height \in Nat
  BY GeometryIs
<1>2. y * Width + Width <= Height * Width
  BY <1>1, RowsApart
<1>3. y * Width \in Nat /\ Height * Width = Width * Height /\ Width * Height \in Nat
  BY <1>1
<1> QED
  BY <1>1, <1>2, <1>3

LEMMA PlacesApart ==
  ASSUME NEW p \in Within(0, 0, Width - 1, Height - 1), NEW q \in Within(0, 0, Width - 1, Height - 1),
         p[2] * Width + p[1] = q[2] * Width + q[1]
  PROVE  p = q
<1>1. /\ p = <<p[1], p[2]>> /\ q = <<q[1], q[2]>>
      /\ p[1] \in 0 .. Width - 1 /\ q[1] \in 0 .. Width - 1 /\ p[2] \in Nat /\ q[2] \in Nat
  BY GeometryIs DEF Within
<1>2. Width \in Nat
  BY GeometryIs
<1>3. p[1] = q[1] /\ p[2] = q[2]
  BY <1>1, <1>2, RowAndColumn
<1> QED
  BY <1>1, <1>3

\* One pass of the loop draws the pixels on the edges of a rectangle.
LEMMA RectangleIs ==
  ASSUME NEW l \in Int, NEW t \in Int, NEW r \in Int, NEW b \in Int, l <= r, t <= b
  PROVE  Rectangle(l, t, r, b) =
           Places({p \in Within(l, t, r, b) : p[1] \in {l, r} \/ p[2] \in {t, b}})
<1> DEFINE edge == {p \in Within(l, t, r, b) : p[1] \in {l, r} \/ p[2] \in {t, b}}
           W == Width
<1>1. W \in Nat /\ \A y \in Int : y * W \in Int
  BY GeometryIs
<1>2. \A p : p \in edge <=> /\ p \in Int \X Int /\ p[1] \in l .. r /\ p[2] \in t .. b
                            /\ p[1] \in {l, r} \/ p[2] \in {t, b}
  BY DEF Within
<1>3. \A q : q \in Places(edge) <=> \E p \in edge : q = p[2] * W + p[1]
  BY DEF Places
<1> HIDE DEF edge, W
<1>4. \A x, y \in Int : <<x, y>> \in edge => y * W + x \in Places(edge)
  BY <1>3
<1>5. ASSUME NEW y \in {t, b} PROVE Fill(y, l, r - l + 1) \subseteq Places(edge)
  <2> SUFFICES ASSUME NEW i \in 0 .. (r - l + 1) - 1 PROVE y * W + l + i \in Places(edge)
    BY DEF Fill, W
  <2>1. <<l + i, y>> \in edge
    BY <1>2
  <2>2. y * W + (l + i) \in Places(edge)
    BY <1>4, <2>1
  <2>3. y * W + (l + i) = y * W + l + i
    <3>1. y * W \in Int /\ l + i \in Int /\ i \in Int
      BY <1>1
    <3> QED
      BY <3>1
  <2> QED
    BY <2>2, <2>3
<1>6. \A y \in t .. b : y * W + l \in Places(edge) /\ y * W + r \in Places(edge)
  <2> TAKE y \in t .. b
  <2>1. <<l, y>> \in edge /\ <<r, y>> \in edge
    BY <1>2
  <2> QED
    BY <1>4, <2>1
<1>7. Rectangle(l, t, r, b) =
        Fill(t, l, r - l + 1) \cup Fill(b, l, r - l + 1)
          \cup UNION {{y * W + l, y * W + r} : y \in t .. b}
  BY DEF Rectangle, W
<1>8. Rectangle(l, t, r, b) \subseteq Places(edge)
  BY <1>5, <1>6, <1>7
<1>9. ASSUME NEW p \in edge PROVE p[2] * W + p[1] \in Rectangle(l, t, r, b)
  <2>1. p[1] \in l .. r /\ p[2] \in t .. b /\ (p[1] \in {l, r} \/ p[2] \in {t, b})
    BY <1>2
  <2>2. CASE p[1] \in {l, r}
    BY <1>7, <2>1, <2>2
  <2>3. CASE p[2] \in {t, b}
    <3>1. p[1] - l \in 0 .. (r - l + 1) - 1
      BY <2>1
    <3>2. p[2] * W + l + (p[1] - l) \in Fill(p[2], l, r - l + 1)
      BY <3>1 DEF Fill, W
    <3>3. p[2] * W + l + (p[1] - l) = p[2] * W + p[1]
      <4>1. p[2] * W \in Int /\ p[1] \in Int
        BY <1>1, <2>1
      <4> QED
        BY <4>1
    <3> QED
      BY <1>7, <2>3, <3>2, <3>3
  <2> QED
    BY <2>1, <2>2, <2>3
<1> QED
  BY <1>3, <1>8, <1>9 DEF edge

\* All passes together draw a line of n pixels.
LEMMA DrawnRing ==
  ASSUME NEW x1 \in Int, NEW y1 \in Int, NEW x2 \in Int, NEW y2 \in Int, NEW n \in Nat,
         x1 <= x2, y1 <= y2,
         NEW l, l = clampCoordinate(x1, 0, Width - 1), NEW r, r = clampCoordinate(x2, 0, Width - 1),
         NEW t, t = clampCoordinate(y1, 0, Height - 1), NEW b, b = clampCoordinate(y2, 0, Height - 1),
         l < r, t < b
  PROVE  drawRectangleY(x1, y1, x2, y2, n) = Places(Ring(l, t, r, b, n))
<1> DEFINE os == {o \in 0 .. n - 1 : t + o <= b - o /\ l + o <= r - o}
           edge(o) == {p \in Within(l + o, t + o, r - o, b - o) :
                         p[1] \in {l + o, r - o} \/ p[2] \in {t + o, b - o}}
<1>1. Width - 1 \in Nat /\ Height - 1 \in Nat
  BY GeometryIs
<1>2. l \in Int /\ r \in Int /\ t \in Int /\ b \in Int
  BY <1>1, ClampedCoordinate
<1>3. Min({x1, x2}) = x1 /\ Max({x1, x2}) = x2 /\ Min({y1, y2}) = y1 /\ Max({y1, y2}) = y2
  BY SmallerOfTwo, LargerOfTwo
<1>4. drawRectangleY(x1, y1, x2, y2, n) = UNION {Rectangle(l + o, t + o, r - o, b - o) : o \in os}
  <2>1. ~(r <= l \/ b <= t)
    BY <1>2
  <2> QED
    BY <1>3, <2>1 DEF drawRectangleY
<1>5. \A o \in os : Rectangle(l + o, t + o, r - o, b - o) = Places(edge(o))
  <2> TAKE o \in os
  <2>1. /\ l + o \in Int /\ t + o \in Int /\ r - o \in Int /\ b - o \in Int
        /\ l + o <= r - o /\ t + o <= b - o
    BY <1>2
  <2> QED
    BY <2>1, RectangleIs
<1>6. \A o : \A p : p \in edge(o) <=>
         /\ p \in Int \X Int /\ p[1] \in l + o .. r - o /\ p[2] \in t + o .. b - o
         /\ p[1] \in {l + o, r - o} \/ p[2] \in {t + o, b - o}
  BY DEF Within
<1>7. \A p : p \in Ring(l, t, r, b, n) <=>
         /\ p \in Int \X Int /\ p[1] \in l .. r /\ p[2] \in t .. b
         /\ ~(p[1] \in l + n .. r - n /\ p[2] \in t + n .. b - n)
  BY DEF Ring, Within
<1> HIDE DEF edge
<1>8. ASSUME NEW o \in os, NEW p \in edge(o) PROVE p \in Ring(l, t, r, b, n)
  <2>1. o \in 0 .. n - 1
    OBVIOUS
  <2>2. /\ p \in Int \X Int /\ p[1] \in l + o .. r - o /\ p[2] \in t + o .. b - o
        /\ p[1] \in {l + o, r - o} \/ p[2] \in {t + o, b - o}
    BY <1>6
  <2>3. p[1] \in Int /\ p[2] \in Int
    BY <1>2, <2>1, <2>2
  <2>4. p[1] \in l .. r /\ p[2] \in t .. b
    BY <1>2, <2>1, <2>2, <2>3
  <2>5. ~(p[1] \in l + n .. r - n /\ p[2] \in t + n .. b - n)
    BY <1>2, <2>1, <2>2, <2>3
  <2> QED
    BY <1>7, <2>2, <2>4, <2>5
<1>9. ASSUME NEW p \in Ring(l, t, r, b, n) PROVE \E o \in os : p \in edge(o)
  <2> DEFINE x == p[1]
             y == p[2]
  <2>1. /\ p \in Int \X Int /\ x \in l .. r /\ y \in t .. b
        /\ ~(x \in l + n .. r - n /\ y \in t + n .. b - n)
    BY <1>7
  <2> HIDE DEF x, y
  <2>2. x \in Int /\ y \in Int
    BY <1>2, <2>1
  <2>3. \E d \in {x - l, r - x, y - t, b - y} :
          d <= x - l /\ d <= r - x /\ d <= y - t /\ d <= b - y
    BY <1>2, <2>2
  <2>4. PICK d \in {x - l, r - x, y - t, b - y} :
          d <= x - l /\ d <= r - x /\ d <= y - t /\ d <= b - y
    BY <2>3
  <2>5. d \in Int /\ 0 <= d
    BY <1>2, <2>1, <2>2
  <2>6. d < n
    BY <1>2, <2>1, <2>2, <2>4, <2>5
  <2>7. d \in os
    BY <1>2, <2>2, <2>4, <2>5, <2>6
  <2>8. x \in l + d .. r - d /\ y \in t + d .. b - d
    BY <1>2, <2>2, <2>4, <2>5
  <2>9. x \in {l + d, r - d} \/ y \in {t + d, b - d}
    BY <1>2, <2>2, <2>5
  <2>10. p \in edge(d)
    BY <1>6, <2>1, <2>8, <2>9 DEF x, y
  <2> QED
    BY <2>7, <2>10
<1> HIDE DEF os
<1>10. \A S, q : q \in Places(S) <=> \E p \in S : q = p[2] * Width + p[1]
  BY DEF Places
<1> QED
  BY <1>4, <1>5, <1>8, <1>9, <1>10

LEMMA RectIs ==
  ASSUME NEW x1 \in Int, NEW y1 \in Int, NEW x2 \in Int, NEW y2 \in Int, NEW p
  PROVE  p \in Rect(x1, y1, x2, y2) <=>
           /\ p \in Within(0, 0, Width - 1, Height - 1)
           /\ p \in Within(x1, y1, x2, y2)
<1>1. Width - 1 \in Int /\ Height - 1 \in Int
  BY GeometryIs
<1> DEFINE l == Max({0, x1})
           t == Max({0, y1})
           r == Min({x2, Width - 1})
           b == Min({y2, Height - 1})
<1>2. /\ l = IF 0 >= x1 THEN 0 ELSE x1
      /\ t = IF 0 >= y1 THEN 0 ELSE y1
      /\ r = IF x2 <= Width - 1 THEN x2 ELSE Width - 1
      /\ b = IF y2 <= Height - 1 THEN y2 ELSE Height - 1
  BY <1>1, SmallerOfTwo, LargerOfTwo
<1>3. p \in Rect(x1, y1, x2, y2) <=> p \in Int \X Int /\ p[1] \in l .. r /\ p[2] \in t .. b
  <2> HIDE DEF l, t, r, b
  <2>1. l .. r \subseteq Int /\ t .. b \subseteq Int
    BY <1>1, <1>2
  <2>2. Rect(x1, y1, x2, y2) = (l .. r) \X (t .. b)
    BY DEF Rect, l, t, r, b
  <2> QED
    BY <2>1, <2>2
<1> HIDE DEF l, t, r, b
<1>4. p \in Int \X Int => p[1] \in Int /\ p[2] \in Int
  OBVIOUS
<1> DEFINE x == p[1]
           y == p[2]
           W == Width - 1
           H == Height - 1
<1>5. p \in Within(0, 0, W, H) /\ p \in Within(x1, y1, x2, y2) <=>
        /\ p \in Int \X Int /\ x \in 0 .. W /\ y \in 0 .. H
        /\ x \in x1 .. x2 /\ y \in y1 .. y2
  BY DEF Within
<1>6. x \in Int /\ y \in Int =>
        /\ x \in l .. r <=> x \in 0 .. W /\ x \in x1 .. x2
        /\ y \in t .. b <=> y \in 0 .. H /\ y \in y1 .. y2
  <2> HIDE DEF x, y
  <2>1. x \in Int => (x \in l .. r <=> x \in 0 .. W /\ x \in x1 .. x2)
    BY <1>1, <1>2
  <2>2. y \in Int => (y \in t .. b <=> y \in 0 .. H /\ y \in y1 .. y2)
    BY <1>1, <1>2
  <2> QED
    BY <2>1, <2>2
<1> QED
  BY <1>3, <1>4, <1>5, <1>6

\* The corners of a detection are pixels of the frame.
LEMMA CornersAre ==
  ASSUME NEW d \in Detection
  PROVE  /\ Corner(d, 1) \in 0 .. Width - 1 /\ Corner(d, 3) \in 0 .. Width - 1
         /\ Corner(d, 2) \in 0 .. Height - 1 /\ Corner(d, 4) \in 0 .. Height - 1
<1>1. Width - 1 \in Nat /\ Height - 1 \in Nat /\ Unit \in Nat \ {0}
  BY GeometryIs
<1>2. \A i \in 1 .. 4 : Lround(d.box[i]) \in Int
  <2>1. \A i \in 1 .. 4 : d.box[i] \in Int
    <3>1. d.box \in FrameBoxes
      BY DEF Detection
    <3>2. (Width - 1) * Unit \in Int /\ (Height - 1) * Unit \in Int
      BY <1>1
    <3> QED
      BY <3>1, <3>2 DEF FrameBoxes
  <2> DEFINE u == Unit
  <2> HIDE DEF u
  <2>2. u \in Nat \ {0}
    BY <1>1 DEF u
  <2>3. \A v \in Int : (2 * v + u) \div (2 * u) \in Int
    BY <2>2
  <2> QED
    BY <2>1, <2>3 DEF Lround, u
<1>3. /\ 1 % 2 = 1 /\ 3 % 2 = 1 /\ ~(2 % 2 = 1) /\ ~(4 % 2 = 1)
  OBVIOUS
<1>4. /\ Corner(d, 1) = clampCoordinate(Lround(d.box[1]), 0, Width - 1)
      /\ Corner(d, 3) = clampCoordinate(Lround(d.box[3]), 0, Width - 1)
      /\ Corner(d, 2) = clampCoordinate(Lround(d.box[2]), 0, Height - 1)
      /\ Corner(d, 4) = clampCoordinate(Lround(d.box[4]), 0, Height - 1)
  BY <1>3 DEF Corner
<1> QED
  BY <1>1, <1>2, <1>4, ClampedCoordinate

\* What drawDetections writes for a detection.
BoxOf(d, n) == drawRectangleY(Corner(d, 1), Corner(d, 2), Corner(d, 3), Corner(d, 4), n)
OutlineOf(d, n) ==
  drawRectangleY(Corner(d, 1) - 1, Corner(d, 2) - 1, Corner(d, 3) + 1, Corner(d, 4) + 1, n)

\* What is drawn for a detection is its line and what is around it, whatever the line's
\* width, and the outline never reaches farther than one pixel behind the line.
LEMMA DetectionDrawn ==
  ASSUME NEW d \in Detection, ~Thin(d), NEW n \in Nat \ {0}, NEW t \in Nat \ {0},
         n = t \/ (n < t /\ n \in {Width, Height}),
         NEW m \in 1 .. n + 1
  PROVE  /\ BoxOf(d, n) = Places(Line(d, t))
         /\ Places(Around(d)) \subseteq OutlineOf(d, m)
         /\ OutlineOf(d, m) \subseteq Places(Line(d, t + 1)) \cup Places(Around(d))
         /\ Places(Line(d, t)) \subseteq Places(Line(d, t + 1))
         /\ Places(Around(d)) \cap Places(Line(d, t)) = {}
         /\ Places(Line(d, t + 1)) \cup Places(Around(d)) \subseteq 0 .. Width * Height - 1
<1> DEFINE x1 == Corner(d, 1)
           y1 == Corner(d, 2)
           x2 == Corner(d, 3)
           y2 == Corner(d, 4)
           W == Width - 1
           H == Height - 1
<1>1. /\ W \in Nat /\ H \in Nat
      /\ x1 \in 0 .. W /\ x2 \in 0 .. W /\ y1 \in 0 .. H /\ y2 \in 0 .. H
      /\ x1 < x2 /\ y1 < y2
  <2>1. W \in Nat /\ H \in Nat
    BY GeometryIs
  <2>2. x1 \in 0 .. W /\ x2 \in 0 .. W /\ y1 \in 0 .. H /\ y2 \in 0 .. H
    BY CornersAre
  <2>3. ~(x2 <= x1) /\ ~(y2 <= y1)
    BY DEF Thin
  <2> HIDE DEF x1, x2, y1, y2, W, H
  <2> QED
    BY <2>1, <2>2, <2>3
<1>2. n = t \/ (n < t /\ n \in {W + 1, H + 1})
  <2>1. Width = W + 1 /\ Height = H + 1
    BY GeometryIs
  <2> QED
    BY <2>1
<1> DEFINE frame == Within(0, 0, W, H)
           line(k) == {p \in frame : /\ p[1] \in x1 .. x2 /\ p[2] \in y1 .. y2
                                     /\ ~(p[1] \in x1 + k .. x2 - k /\ p[2] \in y1 + k .. y2 - k)}
           around == {p \in frame : /\ p[1] \in x1 - 1 .. x2 + 1 /\ p[2] \in y1 - 1 .. y2 + 1
                                    /\ ~(p[1] \in x1 .. x2 /\ p[2] \in y1 .. y2)}
<1>3. \A p \in frame : p \in Int \X Int /\ p[1] \in Int /\ p[2] \in Int /\ p[1] \in 0 .. W /\ p[2] \in 0 .. H
  BY DEF Within
<1>4. ASSUME NEW k \in Nat PROVE Line(d, k) = line(k)
  <2>1. x1 \in Int /\ x2 \in Int /\ y1 \in Int /\ y2 \in Int
    BY <1>1
  <2>2. x1 + k \in Int /\ x2 - k \in Int /\ y1 + k \in Int /\ y2 - k \in Int
    BY <2>1
  <2>3. Line(d, k) = Rect(x1, y1, x2, y2) \ Rect(x1 + k, y1 + k, x2 - k, y2 - k)
    BY DEF Line
  <2> HIDE DEF x1, x2, y1, y2
  <2>4. /\ \A p : p \in Rect(x1, y1, x2, y2) <=> p \in frame /\ p \in Within(x1, y1, x2, y2)
        /\ \A p : p \in Rect(x1 + k, y1 + k, x2 - k, y2 - k) <=>
                   p \in frame /\ p \in Within(x1 + k, y1 + k, x2 - k, y2 - k)
    BY <2>1, <2>2, RectIs
  <2> HIDE DEF frame
  <2>5. \A l, u, r, b : \A p \in frame : p \in Within(l, u, r, b) <=> p[1] \in l .. r /\ p[2] \in u .. b
    BY <1>3 DEF Within
  <2>6. \A p : p \in Line(d, k) <=> p \in line(k)
    BY <2>3, <2>4, <2>5
  <2> HIDE DEF line
  <2> QED
    BY <2>6
<1>5. Around(d) = around
  <2>1. x1 \in Int /\ x2 \in Int /\ y1 \in Int /\ y2 \in Int
    BY <1>1
  <2>2. x1 - 1 \in Int /\ x2 + 1 \in Int /\ y1 - 1 \in Int /\ y2 + 1 \in Int
    BY <2>1
  <2>3. Around(d) = Rect(x1 - 1, y1 - 1, x2 + 1, y2 + 1) \ Rect(x1, y1, x2, y2)
    BY DEF Around
  <2> HIDE DEF x1, x2, y1, y2
  <2>4. /\ \A p : p \in Rect(x1, y1, x2, y2) <=> p \in frame /\ p \in Within(x1, y1, x2, y2)
        /\ \A p : p \in Rect(x1 - 1, y1 - 1, x2 + 1, y2 + 1) <=>
                   p \in frame /\ p \in Within(x1 - 1, y1 - 1, x2 + 1, y2 + 1)
    BY <2>1, <2>2, RectIs
  <2> HIDE DEF frame
  <2>5. \A l, u, r, b : \A p \in frame : p \in Within(l, u, r, b) <=> p[1] \in l .. r /\ p[2] \in u .. b
    BY <1>3 DEF Within
  <2>6. \A p : p \in Around(d) <=> p \in around
    BY <2>3, <2>4, <2>5
  <2> HIDE DEF around
  <2> QED
    BY <2>6
<1> DEFINE l == IF x1 = 0 THEN 0 ELSE x1 - 1
           u == IF y1 = 0 THEN 0 ELSE y1 - 1
           r == IF x2 = W THEN W ELSE x2 + 1
           b == IF y2 = H THEN H ELSE y2 + 1
<1>6. BoxOf(d, n) = Places(Ring(x1, y1, x2, y2, n))
  <2> HIDE DEF x1, x2, y1, y2
  <2>1. /\ x1 = clampCoordinate(x1, 0, Width - 1) /\ x2 = clampCoordinate(x2, 0, Width - 1)
        /\ y1 = clampCoordinate(y1, 0, Height - 1) /\ y2 = clampCoordinate(y2, 0, Height - 1)
    <3>1. \A v \in 0 .. W : clampCoordinate(v, 0, W) = v
      BY <1>1, ClampedCoordinate
    <3>2. \A v \in 0 .. H : clampCoordinate(v, 0, H) = v
      BY <1>1, ClampedCoordinate
    <3> QED
      BY <1>1, <3>1, <3>2
  <2>2. x1 \in Int /\ x2 \in Int /\ y1 \in Int /\ y2 \in Int /\ x1 <= x2 /\ y1 <= y2 /\ n \in Nat
    BY <1>1
  <2> QED
    <3>1. drawRectangleY(x1, y1, x2, y2, n) = Places(Ring(x1, y1, x2, y2, n))
      <4>1. x1 < x2 /\ y1 < y2
        BY <1>1
      <4> HIDE DEF W, H
      <4> QED
        BY <2>1, <2>2, <4>1, DrawnRing
    <3> QED
      BY <3>1 DEF BoxOf, x1, x2, y1, y2
<1>7. OutlineOf(d, m) = Places(Ring(l, u, r, b, m))
  <2> HIDE DEF x1, x2, y1, y2
  <2>1. /\ l = clampCoordinate(x1 - 1, 0, Width - 1) /\ r = clampCoordinate(x2 + 1, 0, Width - 1)
        /\ u = clampCoordinate(y1 - 1, 0, Height - 1) /\ b = clampCoordinate(y2 + 1, 0, Height - 1)
    <3>1. x1 - 1 \in Int /\ x2 + 1 \in Int /\ y1 - 1 \in Int /\ y2 + 1 \in Int
      BY <1>1
    <3>2. /\ clampCoordinate(x1 - 1, 0, W) = IF x1 - 1 < 0 THEN 0 ELSE IF x1 - 1 > W THEN W ELSE x1 - 1
          /\ clampCoordinate(x2 + 1, 0, W) = IF x2 + 1 < 0 THEN 0 ELSE IF x2 + 1 > W THEN W ELSE x2 + 1
          /\ clampCoordinate(y1 - 1, 0, H) = IF y1 - 1 < 0 THEN 0 ELSE IF y1 - 1 > H THEN H ELSE y1 - 1
          /\ clampCoordinate(y2 + 1, 0, H) = IF y2 + 1 < 0 THEN 0 ELSE IF y2 + 1 > H THEN H ELSE y2 + 1
      <4> HIDE DEF W, H
      <4> QED
        BY <1>1, <3>1, ClampedCoordinate DEF W, H
    <3> QED
      BY <1>1, <3>2
  <2>2. /\ x1 - 1 \in Int /\ x2 + 1 \in Int /\ y1 - 1 \in Int /\ y2 + 1 \in Int
        /\ x1 - 1 <= x2 + 1 /\ y1 - 1 <= y2 + 1 /\ m \in Nat /\ l < r /\ u < b
    BY <1>1
  <2> HIDE DEF l, u, r, b
  <2> QED
    BY <2>1, <2>2, DrawnRing DEF OutlineOf, x1, x2, y1, y2
<1> HIDE DEF x1, x2, y1, y2, W, H
<1>8. Ring(x1, y1, x2, y2, n) = line(t)
  <2>1. \A p : p \in Ring(x1, y1, x2, y2, n) <=>
          /\ p \in Int \X Int /\ p[1] \in x1 .. x2 /\ p[2] \in y1 .. y2
          /\ ~(p[1] \in x1 + n .. x2 - n /\ p[2] \in y1 + n .. y2 - n)
    BY DEF Ring, Within
  <2>2. \A p : p \in line(t) <=>
          /\ p \in Int \X Int /\ p[1] \in 0 .. W /\ p[2] \in 0 .. H
          /\ p[1] \in x1 .. x2 /\ p[2] \in y1 .. y2
          /\ ~(p[1] \in x1 + t .. x2 - t /\ p[2] \in y1 + t .. y2 - t)
    BY DEF Within
  <2> HIDE DEF line
  <2>3. ASSUME NEW p, p[1] \in x1 .. x2, p[2] \in y1 .. y2
        PROVE  /\ p[1] \in 0 .. W /\ p[2] \in 0 .. H
               /\ (p[1] \in x1 + n .. x2 - n /\ p[2] \in y1 + n .. y2 - n) <=>
                  (p[1] \in x1 + t .. x2 - t /\ p[2] \in y1 + t .. y2 - t)
    <3> DEFINE x == p[1]
               y == p[2]
    <3>1. x \in Int /\ y \in Int /\ x \in x1 .. x2 /\ y \in y1 .. y2
      BY <1>1, <2>3
    <3> HIDE DEF x, y
    <3>2. x \in 0 .. W /\ y \in 0 .. H
      BY <1>1, <3>1
    <3>3. (x \in x1 + n .. x2 - n /\ y \in y1 + n .. y2 - n) <=>
            (x \in x1 + t .. x2 - t /\ y \in y1 + t .. y2 - t)
      <4>1. CASE n = t
        BY <4>1
      <4>2. CASE n < t /\ n = W + 1
        BY <1>1, <3>1, <4>2
      <4>3. CASE n < t /\ n = H + 1
        BY <1>1, <3>1, <4>3
      <4> QED
        BY <1>2, <4>1, <4>2, <4>3
    <3> QED
      BY <3>2, <3>3 DEF x, y
  <2>4. \A p : p \in Ring(x1, y1, x2, y2, n) <=> p \in line(t)
    BY <2>1, <2>2, <2>3
  <2> QED
    BY <2>4
<1>9. around \subseteq Ring(l, u, r, b, m) /\ Ring(l, u, r, b, m) \subseteq line(t + 1) \cup around
  <2>1. \A p : p \in Ring(l, u, r, b, m) <=>
          /\ p \in Int \X Int /\ p[1] \in l .. r /\ p[2] \in u .. b
          /\ ~(p[1] \in l + m .. r - m /\ p[2] \in u + m .. b - m)
    BY DEF Ring, Within
  <2>2. \A p : p \in around <=>
          /\ p \in Int \X Int /\ p[1] \in 0 .. W /\ p[2] \in 0 .. H
          /\ p[1] \in x1 - 1 .. x2 + 1 /\ p[2] \in y1 - 1 .. y2 + 1
          /\ ~(p[1] \in x1 .. x2 /\ p[2] \in y1 .. y2)
    BY DEF Within
  <2>3. \A p : p \in line(t + 1) <=>
          /\ p \in Int \X Int /\ p[1] \in 0 .. W /\ p[2] \in 0 .. H
          /\ p[1] \in x1 .. x2 /\ p[2] \in y1 .. y2
          /\ ~(p[1] \in x1 + (t + 1) .. x2 - (t + 1) /\ p[2] \in y1 + (t + 1) .. y2 - (t + 1))
    BY DEF Within
  <2> HIDE DEF line, around
  <2>4. /\ l \in 0 .. W /\ l \in x1 - 1 .. x1 /\ (l = x1 => x1 = 0)
        /\ r \in 0 .. W /\ r \in x2 .. x2 + 1 /\ (r = x2 => x2 = W)
        /\ u \in 0 .. H /\ u \in y1 - 1 .. y1 /\ (u = y1 => y1 = 0)
        /\ b \in 0 .. H /\ b \in y2 .. y2 + 1 /\ (b = y2 => y2 = H)
    BY <1>1
  <2> HIDE DEF l, u, r, b
  <2>5. m <= t + 1 /\ m >= 1 /\ m \in Int
    BY <1>1, <1>2
  <2>6. ASSUME NEW p \in around PROVE p \in Ring(l, u, r, b, m)
    <3> DEFINE x == p[1]
               y == p[2]
    <3>1. /\ p \in Int \X Int /\ x \in 0 .. W /\ y \in 0 .. H
          /\ x \in x1 - 1 .. x2 + 1 /\ y \in y1 - 1 .. y2 + 1
          /\ ~(x \in x1 .. x2 /\ y \in y1 .. y2)
      BY <2>2
    <3> HIDE DEF x, y
    <3>2. x \in l .. r
      BY <1>1, <2>4, <3>1
    <3>3. y \in u .. b
      BY <1>1, <2>4, <3>1
    <3>4. x \in l + m .. r - m => x \in x1 .. x2
      BY <1>1, <2>4, <2>5, <3>1
    <3>5. y \in u + m .. b - m => y \in y1 .. y2
      BY <1>1, <2>4, <2>5, <3>1
    <3> QED
      BY <2>1, <3>1, <3>2, <3>3, <3>4, <3>5 DEF x, y
  <2>7. ASSUME NEW p \in Ring(l, u, r, b, m) PROVE p \in line(t + 1) \/ p \in around
    <3> DEFINE x == p[1]
               y == p[2]
    <3>1. /\ p \in Int \X Int /\ x \in l .. r /\ y \in u .. b
          /\ ~(x \in l + m .. r - m /\ y \in u + m .. b - m)
      BY <2>1
    <3> HIDE DEF x, y
    <3>2. x \in 0 .. W /\ x \in x1 - 1 .. x2 + 1
      BY <1>1, <2>4, <3>1
    <3>3. y \in 0 .. H /\ y \in y1 - 1 .. y2 + 1
      BY <1>1, <2>4, <3>1
    <3>4. x \in x1 + (t + 1) .. x2 - (t + 1) => x \in l + m .. r - m
      BY <1>1, <2>4, <2>5, <3>1
    <3>5. y \in y1 + (t + 1) .. y2 - (t + 1) => y \in u + m .. b - m
      BY <1>1, <2>4, <2>5, <3>1
    <3> QED
      BY <2>2, <2>3, <3>1, <3>2, <3>3, <3>4, <3>5 DEF x, y
  <2> QED
    BY <2>6, <2>7
<1>10. line(t) \subseteq line(t + 1)
  <2> SUFFICES ASSUME NEW p \in frame,
                      p[1] \in x1 + (t + 1) .. x2 - (t + 1),
                      p[2] \in y1 + (t + 1) .. y2 - (t + 1)
               PROVE  p[1] \in x1 + t .. x2 - t /\ p[2] \in y1 + t .. y2 - t
    OBVIOUS
  <2> DEFINE x == p[1]
             y == p[2]
  <2>1. /\ x \in Int /\ y \in Int
        /\ x \in x1 + (t + 1) .. x2 - (t + 1) /\ y \in y1 + (t + 1) .. y2 - (t + 1)
    BY <1>3
  <2> HIDE DEF x, y
  <2>2. x \in x1 + t .. x2 - t /\ y \in y1 + t .. y2 - t
    BY <1>1, <2>1
  <2> QED
    BY <2>2 DEF x, y
<1>11. /\ around \cap line(t) = {}
       /\ around \subseteq frame /\ line(t) \subseteq frame /\ line(t + 1) \subseteq frame
  <2> HIDE DEF frame
  <2> QED
    OBVIOUS
<1> HIDE DEF line, around
<1>12. t \in Nat /\ t + 1 \in Nat
  OBVIOUS
<1>13. \A S, q : q \in Places(S) <=> \E p \in S : q = p[2] * Width + p[1]
  BY DEF Places
<1>14. \A S, T : S \subseteq T => Places(S) \subseteq Places(T)
  BY <1>13
<1>15. \A S, T : Places(S \cup T) = Places(S) \cup Places(T)
  BY <1>13
<1>16. \A S, T : S \subseteq frame /\ T \subseteq frame /\ S \cap T = {} => Places(S) \cap Places(T) = {}
  BY <1>13, PlacesApart DEF W, H
<1>17. \A S : S \subseteq frame => Places(S) \subseteq 0 .. Width * Height - 1
  <2>1. \A p \in frame : p[2] * Width + p[1] \in 0 .. Width * Height - 1
    BY <1>3, PlaceIs DEF W, H
  <2> QED
    BY <1>13, <2>1
<1> HIDE DEF frame
<1>18. BoxOf(d, n) = Places(Line(d, t))
  BY <1>4, <1>6, <1>8, <1>12
<1>19. Line(d, t) = line(t) /\ Line(d, t + 1) = line(t + 1)
  BY <1>4, <1>12
<1>20. /\ Places(Around(d)) \subseteq OutlineOf(d, m)
       /\ OutlineOf(d, m) \subseteq Places(Line(d, t + 1)) \cup Places(Around(d))
  <2> DEFINE ring == Ring(l, u, r, b, m)
             both == line(t + 1) \cup around
  <2>1. around \subseteq ring /\ ring \subseteq both
    BY <1>9
  <2> HIDE DEF ring
  <2>2. Places(around) \subseteq Places(ring) /\ Places(ring) \subseteq Places(both)
    <3> HIDE DEF both
    <3> QED
      BY <1>14, <2>1
  <2>3. Places(both) = Places(line(t + 1)) \cup Places(around)
    BY <1>15
  <2> HIDE DEF both
  <2> QED
    BY <1>5, <1>7, <1>19, <2>2, <2>3 DEF ring
<1>21. Places(Line(d, t)) \subseteq Places(Line(d, t + 1))
  BY <1>10, <1>14, <1>19
<1>22. Places(Around(d)) \cap Places(Line(d, t)) = {}
  BY <1>5, <1>11, <1>16, <1>19
<1>23. Places(Line(d, t + 1)) \cup Places(Around(d)) \subseteq 0 .. Width * Height - 1
  <2>1. Places(line(t + 1)) \subseteq 0 .. Width * Height - 1
    BY <1>11, <1>17
  <2>2. Places(around) \subseteq 0 .. Width * Height - 1
    BY <1>11, <1>17
  <2> QED
    BY <1>5, <1>19, <2>1, <2>2
<1> QED
  BY <1>18, <1>20, <1>21, <1>22, <1>23

\* The two lines of every detection, drawn one over the other in their order.
Over(prev, d, n, m) ==
  IF Thin(d) THEN prev
  ELSE [outline |-> (prev.outline \cup OutlineOf(d, m)) \ BoxOf(d, n),
        box |-> (prev.box \ OutlineOf(d, m)) \cup BoxOf(d, n)]

Thickness(t) == Max({1, Min({t, Width, Height})})
OutlineThickness(t) == Min({Thickness(t) + 1, Width, Height})

\* The planes that drawDetections makes by recursion.
LEMMA DrawingUnfolds ==
  ASSUME NEW ds \in Seq(Detection), NEW t
  PROVE  \E f : /\ f[0] = Untouched
                /\ \A i \in 1 .. Len(ds) :
                     f[i] = Over(f[i - 1], ds[i], Thickness(t), OutlineThickness(t))
                /\ drawDetections(ds, t) = f[Len(ds)]
<1> DEFINE N == Len(ds)
           n == Thickness(t)
           m == OutlineThickness(t)
           next(prev, i) == Over(prev, ds[i], n, m)
           Is(f, k) == f = [i \in 0 .. k |-> IF i = 0 THEN Untouched ELSE next(f[i - 1], i)]
           Bad == {k \in 0 .. N : ~ \E f : Is(f, k)}
<1>1. N \in Nat
  OBVIOUS
<1>2. Bad = {}
  <2> SUFFICES ASSUME Bad # {} PROVE FALSE
    OBVIOUS
  <2>1. PICK k \in Bad : \A j \in Bad : k <= j
    <3>1. Bad \in SUBSET Nat
      <4> HIDE DEF Is
      <4> QED
        BY <1>1
    <3> HIDE DEF Bad
    <3> QED
      BY <3>1, LeastElement
  <2>2. CASE k = 0
    <3> DEFINE g == [i \in 0 .. 0 |-> Untouched]
    <3>1. g = [i \in 0 .. 0 |-> IF i = 0 THEN Untouched ELSE next(g[i - 1], i)]
      OBVIOUS
    <3>2. Is(g, k)
      BY <2>2, <3>1
    <3> QED
      BY <3>2
  <2>3. CASE k # 0
    <3>1. k \in 0 .. N /\ k - 1 \in 0 .. N /\ ~(k <= k - 1)
      BY <2>3
    <3>2. k - 1 \notin Bad
      <4> HIDE DEF Bad
      <4> QED
        BY <2>1, <3>1
    <3>3. PICK f : Is(f, k - 1)
      BY <3>1, <3>2
    <3> DEFINE g == [i \in 0 .. k |-> IF i = k THEN next(f[k - 1], k) ELSE f[i]]
    <3> HIDE DEF next
    <3>4. \A i \in 0 .. k - 1 : f[i] = IF i = 0 THEN Untouched ELSE next(f[i - 1], i)
      BY <3>3
    <3>5. ASSUME NEW i \in 0 .. k PROVE g[i] = IF i = 0 THEN Untouched ELSE next(g[i - 1], i)
      <4>1. CASE i = k
        <5>1. g[i] = next(f[k - 1], k) /\ g[k - 1] = f[k - 1]
          BY <3>1, <4>1
        <5> QED
          BY <2>3, <4>1, <5>1
      <4>2. CASE i # k
        <5>1. i \in 0 .. k - 1 /\ g[i] = f[i]
          BY <3>1, <4>2
        <5>2. i # 0 => g[i - 1] = f[i - 1]
          BY <3>1, <5>1
        <5> QED
          BY <3>4, <5>1, <5>2
      <4> QED
        BY <4>1, <4>2
    <3>6. g = [i \in 0 .. k |-> IF i = 0 THEN Untouched ELSE next(g[i - 1], i)]
      <4>1. g = [i \in 0 .. k |-> g[i]]
        OBVIOUS
      <4> HIDE DEF g
      <4> QED
        BY <3>5, <4>1
    <3>7. Is(g, k)
      BY <3>6
    <3> QED
      BY <2>1, <3>7
  <2> QED
    BY <2>2, <2>3
<1> DEFINE drawn == CHOOSE f : Is(f, N)
<1>3. drawDetections(ds, t) = drawn[N]
  BY DEF drawDetections, Over, BoxOf, OutlineOf, Thickness, OutlineThickness
<1>4. \E f : Is(f, N)
  <2> HIDE DEF Is
  <2> QED
    BY <1>1, <1>2
<1> HIDE DEF Bad
<1>5. Is(drawn, N)
  BY <1>4
<1> HIDE DEF drawn
<1>6. \A i \in 0 .. N : drawn[i] = IF i = 0 THEN Untouched ELSE next(drawn[i - 1], i)
  <2> HIDE DEF next
  <2> QED
    BY <1>5
<1>7. 0 \in 0 .. N /\ \A i \in 1 .. N : i \in 0 .. N /\ i # 0
  BY <1>1
<1> HIDE DEF N, Is
<1>8. drawn[0] = Untouched /\ \A i \in 1 .. N : drawn[i] = next(drawn[i - 1], i)
  <2> HIDE DEF next
  <2> QED
    BY <1>6, <1>7
<1> QED
  BY <1>3, <1>8 DEF N

\* The thickness of a line never exceeds the frame, which is what box_thickness_ is cut to.
LEMMA ThicknessIs ==
  ASSUME NEW t \in Nat \ {0},
         NEW n, n = Thickness(t),
         NEW m, m = OutlineThickness(t)
  PROVE  n \in Nat \ {0} /\ (n = t \/ (n < t /\ n \in {Width, Height})) /\ m \in 1 .. n + 1
<1>1. Width \in Nat \ {0} /\ Height \in Nat \ {0}
  BY GeometryIs
<1>2. \A a, b, c \in Nat \ {0} :
        /\ Min({a, b, c}) \in Nat \ {0}
        /\ Min({a, b, c}) <= a
        /\ Min({a, b, c}) = a \/ (Min({a, b, c}) < a /\ Min({a, b, c}) \in {b, c})
  <2> TAKE a, b, c \in Nat \ {0}
  <2>1. {a, b, c} \in SUBSET Nat /\ {a, b, c} # {}
    OBVIOUS
  <2>2. PICK x \in {a, b, c} : \A y \in {a, b, c} : x <= y
    BY <2>1, LeastElement
  <2>3. Min({a, b, c}) \in {a, b, c} /\ \A y \in {a, b, c} : Min({a, b, c}) <= y
    BY <2>2 DEF Min
  <2> DEFINE z == Min({a, b, c})
  <2>4. z \in {a, b, c} /\ z <= a
    BY <2>3
  <2> HIDE DEF z
  <2>5. z \in Nat \ {0} /\ z <= a /\ (z = a \/ (z < a /\ z \in {b, c}))
    BY <2>4
  <2> QED
    BY <2>5 DEF z
<1> DEFINE z == Min({t, Width, Height})
<1>3. z \in Nat \ {0} /\ (z = t \/ (z < t /\ z \in {Width, Height}))
  BY <1>1, <1>2
<1> HIDE DEF z
<1>4. n = z
  <2>1. n = IF 1 >= z THEN 1 ELSE z
    BY <1>3, LargerOfTwo DEF z, Thickness
  <2> QED
    BY <1>3, <2>1
<1>5. m \in Nat \ {0} /\ m <= n + 1
  <2>1. n + 1 \in Nat \ {0}
    BY <1>3, <1>4
  <2> QED
    BY <1>1, <1>2, <2>1 DEF OutlineThickness
<1>6. m \in 1 .. n + 1
  BY <1>3, <1>4, <1>5
<1> QED
  BY <1>3, <1>4, <1>6

\* BoxesDrawn for any detections and any thickness.
LEMMA DrawnInFull ==
  ASSUME NEW ds \in Seq(Detection), NEW t \in Nat \ {0}
  PROVE  LET drawn == drawDetections(ds, t)
             seen == {i \in DOMAIN ds : ~Thin(ds[i])}
             line == [i \in seen |-> Places(Line(ds[i], t))]
             around == [i \in seen |-> Places(Around(ds[i]))]
             reach == [i \in seen |-> Places(Line(ds[i], t + 1)) \cup around[i]]
         IN  /\ drawn.outline \cup drawn.box \subseteq 0 .. Width * Height - 1
             /\ \A i \in seen :
                  LET later == UNION {reach[j] : j \in {j \in seen : j > i}} IN
                  /\ line[i] \subseteq drawn.box \cup later
                  /\ around[i] \subseteq drawn.outline \cup later
             /\ drawn.box \subseteq UNION Range(line)
             /\ drawn.outline \subseteq UNION Range(reach)
<1> DEFINE n == Thickness(t)
           m == OutlineThickness(t)
           N == Len(ds)
           P == 0 .. Width * Height - 1
           seen(k) == {i \in 1 .. k : ~Thin(ds[i])}
           B(i) == Places(Line(ds[i], t))
           A(i) == Places(Around(ds[i]))
           R(i) == Places(Line(ds[i], t + 1)) \cup A(i)
           O(i) == OutlineOf(ds[i], m)
           later(i, k) == UNION {R(j) : j \in {j \in seen(k) : j > i}}
<1>1. n \in Nat \ {0} /\ (n = t \/ (n < t /\ n \in {Width, Height})) /\ m \in 1 .. n + 1
  BY ThicknessIs
<1>2. PICK f : /\ f[0] = Untouched
               /\ \A i \in 1 .. N : f[i] = Over(f[i - 1], ds[i], n, m)
               /\ drawDetections(ds, t) = f[N]
  BY DrawingUnfolds
<1>3. N \in Nat /\ DOMAIN ds = 1 .. N /\ \A i \in 1 .. N : ds[i] \in Detection
  OBVIOUS
<1> HIDE DEF n, m, N, P
<1>4. ASSUME NEW i \in 1 .. N, ~Thin(ds[i])
      PROVE  /\ BoxOf(ds[i], n) = B(i)
             /\ A(i) \subseteq O(i) /\ O(i) \subseteq R(i) /\ B(i) \subseteq R(i) /\ A(i) \cap B(i) = {}
             /\ R(i) \subseteq P
  <2> DEFINE d == ds[i]
  <2>1. d \in Detection /\ ~Thin(d)
    BY <1>3, <1>4
  <2> HIDE DEF d
  <2>2. /\ BoxOf(d, n) = Places(Line(d, t))
        /\ Places(Around(d)) \subseteq OutlineOf(d, m)
        /\ OutlineOf(d, m) \subseteq Places(Line(d, t + 1)) \cup Places(Around(d))
        /\ Places(Line(d, t)) \subseteq Places(Line(d, t + 1))
        /\ Places(Around(d)) \cap Places(Line(d, t)) = {}
        /\ Places(Line(d, t + 1)) \cup Places(Around(d)) \subseteq P
    BY <1>1, <2>1, DetectionDrawn DEF P
  <2> QED
    BY <2>2 DEF d
<1> DEFINE Good(k) == /\ f[k].box \subseteq UNION {B(i) : i \in seen(k)}
                      /\ f[k].outline \subseteq UNION {R(i) : i \in seen(k)}
                      /\ \A i \in seen(k) : /\ B(i) \subseteq f[k].box \cup later(i, k)
                                            /\ A(i) \subseteq f[k].outline \cup later(i, k)
           Bad == {k \in 0 .. N : ~Good(k)}
<1>5. Bad = {}
  <2> HIDE DEF A, B, R, O
  <2> SUFFICES ASSUME Bad # {} PROVE FALSE
    OBVIOUS
  <2>1. PICK k \in Bad : \A j \in Bad : k <= j
    <3>1. Bad \in SUBSET Nat
      <4> HIDE DEF Good
      <4> QED
        BY <1>3
    <3> HIDE DEF Bad
    <3> QED
      BY <3>1, LeastElement
  <2>2. k \in 0 .. N /\ ~Good(k)
    OBVIOUS
  <2>3. CASE k = 0
    <3>1. seen(0) = {}
      OBVIOUS
    <3>2. f[0].box = {} /\ f[0].outline = {}
      BY <1>2 DEF Untouched
    <3>3. Good(0)
      BY <3>1, <3>2
    <3> QED
      BY <2>2, <2>3, <3>3
  <2>4. CASE k # 0
    <3>1. k \in 1 .. N /\ k - 1 \in 0 .. N /\ ~(k <= k - 1)
      BY <1>3, <2>2, <2>4
    <3>2. Good(k - 1)
      <4>1. k - 1 \notin Bad
        <5> HIDE DEF Bad
        <5> QED
          BY <2>1, <3>1
      <4> HIDE DEF Good
      <4> QED
        BY <3>1, <4>1
    <3>3. f[k] = Over(f[k - 1], ds[k], n, m)
      BY <1>2, <3>1
    <3>4. CASE Thin(ds[k])
      <4>1. f[k] = f[k - 1]
        BY <3>3, <3>4 DEF Over
      <4>2. seen(k) = seen(k - 1)
        <5>1. \A i \in 1 .. k : i \in 1 .. k - 1 \/ i = k
          BY <3>1
        <5>2. \A i \in 1 .. k - 1 : i \in 1 .. k
          BY <3>1
        <5> QED
          BY <3>4, <5>1, <5>2
      <4> HIDE DEF seen
      <4> QED
        BY <2>2, <3>2, <4>1, <4>2
    <3>5. CASE ~Thin(ds[k])
      <4> DEFINE box == f[k - 1].box
                 outline == f[k - 1].outline
      <4>1. /\ f[k].outline = (outline \cup O(k)) \ B(k)
            /\ f[k].box = (box \ O(k)) \cup B(k)
        <5>1. BoxOf(ds[k], n) = B(k)
          BY <1>4, <3>1, <3>5
        <5> QED
          BY <3>3, <3>5, <5>1 DEF Over, O
      <4>2. A(k) \subseteq O(k) /\ O(k) \subseteq R(k) /\ B(k) \subseteq R(k) /\ A(k) \cap B(k) = {}
        BY <1>4, <3>1, <3>5
      <4>3. /\ seen(k) = seen(k - 1) \cup {k}
            /\ \A i \in seen(k - 1) : k > i /\ i # k
        <5>1. \A i \in 1 .. k : i \in 1 .. k - 1 \/ i = k
          BY <3>1
        <5>2. \A i \in 1 .. k - 1 : i \in 1 .. k /\ k > i /\ i # k
          BY <3>1
        <5>3. k \in 1 .. k
          BY <3>1
        <5> QED
          BY <3>5, <5>1, <5>2, <5>3
      <4>4. \A i \in seen(k - 1) : later(i, k) = later(i, k - 1) \cup R(k)
        <5> HIDE DEF seen
        <5> QED
          BY <4>3
      <4>5. /\ box \subseteq UNION {B(i) : i \in seen(k - 1)}
            /\ outline \subseteq UNION {R(i) : i \in seen(k - 1)}
            /\ \A i \in seen(k - 1) : /\ B(i) \subseteq box \cup later(i, k - 1)
                                      /\ A(i) \subseteq outline \cup later(i, k - 1)
        BY <3>2
      <4> HIDE DEF seen, later, box, outline
      <4>6. f[k].box \subseteq UNION {B(i) : i \in seen(k)}
        BY <4>1, <4>3, <4>5
      <4>7. f[k].outline \subseteq UNION {R(i) : i \in seen(k)}
        BY <4>1, <4>2, <4>3, <4>5
      <4>8. ASSUME NEW i \in seen(k)
            PROVE  B(i) \subseteq f[k].box \cup later(i, k) /\ A(i) \subseteq f[k].outline \cup later(i, k)
        <5>1. CASE i = k
          BY <4>1, <4>2, <5>1
        <5>2. CASE i \in seen(k - 1)
          BY <4>1, <4>2, <4>4, <4>5, <5>2
        <5> QED
          BY <4>3, <5>1, <5>2
      <4> QED
        BY <2>2, <4>6, <4>7, <4>8
    <3> QED
      BY <3>4, <3>5
  <2> QED
    BY <2>3, <2>4
<1>6. Good(N)
  <2>1. N \in 0 .. N
    BY <1>3
  <2> HIDE DEF Good
  <2> QED
    BY <1>5, <2>1
<1> DEFINE drawn == drawDetections(ds, t)
           S == {i \in DOMAIN ds : ~Thin(ds[i])}
           line == [i \in S |-> B(i)]
           around == [i \in S |-> A(i)]
           reach == [i \in S |-> Places(Line(ds[i], t + 1)) \cup around[i]]
<1>7. S = seen(N) /\ drawn = f[N]
  BY <1>2, <1>3
<1>8. \A i \in S : line[i] = B(i) /\ around[i] = A(i) /\ reach[i] = R(i)
  OBVIOUS
<1>9. UNION Range(line) = UNION {B(i) : i \in S}
  <2> HIDE DEF B, S
  <2> QED
    BY DEF Range
<1>10. UNION Range(reach) = UNION {R(i) : i \in S}
  <2>1. reach = [i \in S |-> R(i)]
    OBVIOUS
  <2> HIDE DEF R, S, reach
  <2> QED
    BY <2>1 DEF Range
<1>11. \A i \in S : R(i) \subseteq P /\ B(i) \subseteq P
  <2> TAKE i \in S
  <2>1. R(i) \subseteq P /\ B(i) \subseteq R(i)
    BY <1>3, <1>4
  <2> QED
    BY <2>1
<1>12. \A i \in S : UNION {reach[j] : j \in {j \in S : j > i}} = later(i, N)
  <2> HIDE DEF R, reach, seen
  <2> QED
    BY <1>7, <1>8
<1> HIDE DEF B, A, R, S, seen, later, reach, line, around
<1>13. drawn.outline \cup drawn.box \subseteq P
  BY <1>6, <1>7, <1>11
<1>14. \A i \in S : /\ line[i] \subseteq drawn.box \cup UNION {reach[j] : j \in {j \in S : j > i}}
                    /\ around[i] \subseteq drawn.outline \cup UNION {reach[j] : j \in {j \in S : j > i}}
  BY <1>6, <1>7, <1>8, <1>12
<1>15. drawn.box \subseteq UNION Range(line) /\ drawn.outline \subseteq UNION Range(reach)
  BY <1>6, <1>7, <1>9, <1>10
<1> HIDE DEF drawn
<1> QED
  BY <1>13, <1>14, <1>15 DEF P, S, line, reach, around, A, B, drawn

\* Whatever the detector kept and however thick the line, every box that shows at all is
\* drawn in full where no later one crosses it, with its outline, within the plane and
\* nowhere else: drawDetections and drawRectangleY (DetectionOverlay.cpp).
THEOREM BoxesAreDrawn == Spec => []BoxesDrawn
<1>1. Chosen => BoxesDrawn
  <2> SUFFICES ASSUME Chosen PROVE BoxesDrawn
    OBVIOUS
  <2>1. kept \in Seq(Detection) /\ \A t \in Thicknesses : t \in Nat \ {0}
    BY ThicknessesAssumption DEF Chosen
  <2> QED
    BY <2>1, DrawnInFull DEF BoxesDrawn
<1> QED
  BY <1>1, ChosenInductive, PTL
=============================================================================
