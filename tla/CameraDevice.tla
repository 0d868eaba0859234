---------------------------- MODULE CameraDevice ----------------------------
(***************************************************************************)
(* camera/src/CameraDevice.cpp: the V4L2 buffers that the driver fills and *)
(* captureFrame empties.  A buffer travels from incoming (VIDIOC_QBUF) to  *)
(* outgoing (filled) to held (VIDIOC_DQBUF) and back.                      *)
(*                                                                         *)
(* The sensor's frames are numbered from 1.  A picture is what its two     *)
(* planes show: the sensor frames they come from.  The places of the bytes *)
(* are in NV12Layout.                                                      *)
(***************************************************************************)
EXTENDS Naturals, Sequences

CONSTANTS
  BufferCount,    \* bufferCount, what the driver made of the request for 4
  MaxFrames       \* bound on the number of frames the sensor produces

VARIABLES
  device,    \* "closed", "open", "mapped" or "streaming"
  incoming,  \* the buffers the driver may fill, in the order of VIDIOC_QBUF
  outgoing,  \* the buffers it has filled, oldest first
  image,     \* the sensor frame in each buffer, 0 if none
  sensor,    \* the last frame the sensor produced
  held,      \* the buffer captureFrame has dequeued, 0 if none
  scratch,   \* out_yuv: what its two planes show
  lost       \* the buffers whose VIDIOC_QBUF failed

deviceVars == <<device, incoming, outgoing, image, sensor, held, scratch, lost>>

Buffers == 1 .. BufferCount

Blank == [y |-> 0, uv |-> 0]

Init ==
  /\ device = "closed"
  /\ incoming = << >> /\ outgoing = << >> /\ image = [b \in Buffers |-> 0]
  /\ sensor = 0 /\ held = 0 /\ scratch = Blank /\ lost = {}

\* The constructor: open and VIDIOC_QUERYCAP.
Open ==
  /\ device = "closed"
  /\ device' = "open"
  /\ UNCHANGED <<incoming, outgoing, image, sensor, held, scratch, lost>>

\* The format is set, and every buffer mapped and queued.
InitCamera ==
  /\ device = "open"
  /\ device' = "mapped"
  /\ incoming' = [b \in Buffers |-> b]
  /\ UNCHANGED <<outgoing, image, sensor, held, scratch, lost>>

StartStream ==
  /\ device = "mapped"
  /\ device' = "streaming"
  /\ UNCHANGED <<incoming, outgoing, image, sensor, held, scratch, lost>>

\* The driver puts a frame into the next buffer; with none queued the frame is lost.
SensorFrame ==
  /\ device = "streaming" /\ sensor < MaxFrames
  /\ sensor' = sensor + 1
  /\ IF incoming = << >>
     THEN UNCHANGED <<incoming, outgoing, image>>
     ELSE /\ image' = [image EXCEPT ![Head(incoming)] = sensor + 1]
          /\ incoming' = Tail(incoming)
          /\ outgoing' = Append(outgoing, Head(incoming))
  /\ UNCHANGED <<device, held, scratch, lost>>

\* Mutant: a frame that cannot be used is dequeued and its buffer not queued again.
CaptureFailsKeeping ==
  /\ held = 0 /\ outgoing # << >>
  /\ outgoing' = Tail(outgoing)
  /\ UNCHANGED <<device, incoming, image, sensor, held, scratch, lost>>

\* captureFrame returns false early: no frame within 2 s, or VIDIOC_DQBUF failed.
CaptureFails ==
  /\ held = 0
  /\ UNCHANGED deviceVars

\* Mutant: the buffer goes back to the driver before the chroma plane is copied.
DequeueAndRequeue ==
  /\ held = 0 /\ outgoing # << >>
  /\ held' = Head(outgoing)
  /\ outgoing' = Tail(outgoing)
  /\ incoming' = Append(incoming, Head(outgoing))
  /\ scratch' = [y |-> image[Head(outgoing)], uv |-> 0]
  /\ UNCHANGED <<device, image, sensor, lost>>

\* VIDIOC_DQBUF succeeds, and the rows of the Y plane are copied ...
Dequeue ==
  /\ held = 0 /\ outgoing # << >>
  /\ held' = Head(outgoing)
  /\ outgoing' = Tail(outgoing)
  /\ scratch' = [y |-> image[Head(outgoing)], uv |-> 0]
  /\ UNCHANGED <<device, incoming, image, sensor, lost>>

\* ... then those of the chroma plane.
CopyChroma ==
  /\ held # 0
  /\ scratch' = [scratch EXCEPT !.uv = image[held]]
  /\ UNCHANGED <<device, incoming, outgoing, image, sensor, held, lost>>

Requeue ==
  /\ held # 0
  /\ incoming' = Append(incoming, held)
  /\ held' = 0
  /\ UNCHANGED <<device, outgoing, image, sensor, scratch, lost>>

\* VIDIOC_QBUF fails: captureFrame returns false, the frame is dropped and the
\* driver never gets the buffer back.
RequeueFails ==
  /\ held # 0
  /\ lost' = lost \cup {held}
  /\ held' = 0
  /\ UNCHANGED <<device, incoming, outgoing, image, sensor, scratch>>

\* The destructor: the buffers are unmapped and the device closed.
Close ==
  /\ device # "closed"
  /\ device' = "closed"
  /\ incoming' = << >> /\ outgoing' = << >> /\ held' = 0
  /\ UNCHANGED <<image, sensor, scratch, lost>>
=============================================================================
