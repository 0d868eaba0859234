----------------------------- MODULE NV12Layout -----------------------------
(***************************************************************************)
(* Where the bytes of a picture are: in the camera's buffer, in the packed *)
(* frame that captureFrame makes of it (camera/src/CameraDevice.cpp), and  *)
(* in the input buffer that encode fills (camera/src/H264Encoder.cpp).     *)
(*                                                                         *)
(* An NV12 picture is a plane of Height rows and, half as high, one of     *)
(* chroma, both Width bytes wide.  A layout puts row r of the first plane  *)
(* at r * stride and the second plane behind lines rows.                   *)
(***************************************************************************)
EXTENDS Integers, FiniteSetsExt

CONSTANTS
  Width, Height,     \* of the picture
  CameraLayouts,     \* [stride, lines, size]: stride is bytesperline, size is sizeimage
                     \* or bytesused, 0 when the driver does not tell
  EncoderLayouts     \* [stride, lines]: vir_width and vir_height

ASSUME PictureAssumption == Width \in Nat \ {0} /\ Height \in Nat \ {0} /\ Height % 2 = 0

\* The bytes of a picture, by plane, row and column, and any other byte.
Pixels == {<<0, row, col>> : row \in 0 .. Height - 1, col \in 0 .. Width - 1}
            \cup {<<1, row, col>> : row \in 0 .. Height \div 2 - 1, col \in 0 .. Width - 1}
Padding == <<2, 0, 0>>

\* Where a layout has them.
Place(stride, lines, p) == (p[1] * lines + p[2]) * stride + p[3]

\* The encoder makes room for the picture, and so does the driver: its buffer takes the
\* last pixel in.  How it rounds the size of the buffer, up or not, is its own affair.
ASSUME LayoutsAssumption ==
  /\ \A e \in EncoderLayouts :
       {e.stride, e.lines} \subseteq Nat /\ e.stride >= Width /\ e.lines >= Height
  /\ \A c \in CameraLayouts :
       /\ {c.stride, c.lines, c.size} \subseteq Nat /\ c.stride >= Width /\ c.lines >= Height
       /\ c.size # 0 => Place(c.stride, c.lines, <<1, Height \div 2 - 1, Width - 1>>) < c.size

\* Mutant: the chroma plane is looked for behind the visible rows.
DeriveVisibleHeight(size, stride) == Height

DeriveVirHeight(size, stride) ==
  IF size = 0 THEN Height ELSE Max({(2 * size) \div (3 * stride), Height})

\* What is in the camera's buffer at a place.
CameraByte(c, place) ==
  LET there == {p \in Pixels : Place(c.stride, c.lines, p) = place} IN
  IF there = {} THEN Padding ELSE CHOOSE p \in there : TRUE

\* captureFrame and encode copy both planes row by row, by way of the packed frame.
PackedByte(c, p) == CameraByte(c, Place(c.stride, DeriveVirHeight(c.size, c.stride), p))

Packed(c) ==
  [place \in {Place(Width, Height, p) : p \in Pixels} |->
     PackedByte(c, CHOOSE p \in Pixels : Place(Width, Height, p) = place)]

Input(c, e) ==
  [place \in {Place(e.stride, e.lines, p) : p \in Pixels} |->
     Packed(c)[Place(Width, Height,
                     CHOOSE p \in Pixels : Place(e.stride, e.lines, p) = place)]]

-----------------------------------------------------------------------------
\* Whether the hardware finds the pixels of a plane where it looks for them.
InPlace(c, e, plane) ==
  \A p \in Pixels : p[1] = plane => Input(c, e)[Place(e.stride, e.lines, p)] = p

\* Whether captureFrame reads bytes of the camera's buffer only.
ReadInside(c) ==
  c.size # 0 =>
    \A p \in Pixels : Place(c.stride, DeriveVirHeight(c.size, c.stride), p) < c.size

\* Whether the size of the buffer tells where its second plane begins: it is rounded up
\* by less than a row and a half, and not down, unless the planes have no spare rows.
SizeTells(c) ==
  IF c.size = 0 THEN c.lines = Height
  ELSE /\ 2 * c.size < 3 * c.stride * (c.lines + 1)
       /\ c.lines > Height => 3 * c.stride * c.lines <= 2 * c.size

PicturesArrive ==
  \A c \in CameraLayouts :
    /\ ReadInside(c)
    /\ \A e \in EncoderLayouts : InPlace(c, e, 0) /\ (InPlace(c, e, 1) <=> SizeTells(c))
=============================================================================
