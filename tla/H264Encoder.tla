---------------------------- MODULE H264Encoder ----------------------------
(***************************************************************************)
(* camera/src/H264Encoder.cpp: encode with its one input buffer, and the   *)
(* VENC channel behind it.  SendFrame gives the channel a description of   *)
(* the input buffer and not a copy: the hardware reads the buffer when it  *)
(* gets to the frame, and keeps the packet until GetStream fetches it.     *)
(*                                                                         *)
(* A packet carries the picture that encode was given and the one that the *)
(* hardware saw.  Which of its bytes it still has is not modelled: encode  *)
(* leaves out a pack whose address is null and returns the others.         *)
(***************************************************************************)
EXTENDS Naturals, Sequences

CONSTANTS
  ChannelDepth,   \* frames the channel takes before SendFrame times out
  StreamCount     \* kVencStreamBufCnt: packets it holds before it stops reading

VARIABLES
  sys_initialized,  \* RK_MPI_SYS_Init was called
  channel_created,  \* the VENC channel exists
  allocated,        \* input_buffer is allocated
  input,            \* the picture in input_buffer
  channel,          \* the pictures of the frames the channel has taken, oldest first
  reading,          \* whether the hardware reads the first of them
  seen,             \* what it saw in input_buffer when it began
  stream,           \* the packets ready to be fetched
  packet,           \* the packet encode returned
  timeouts          \* how often GetStream failed

resourceVars == <<sys_initialized, channel_created, allocated>>
hardwareVars == <<channel, reading, seen, stream>>
encoderVars == <<resourceVars, input, hardwareVars, packet, timeouts>>

Cleared == [y |-> 0, uv |-> 0]
NoPacket == [of |-> Cleared, shows |-> << >>]

Init ==
  /\ sys_initialized = FALSE /\ channel_created = FALSE /\ allocated = FALSE
  /\ input = Cleared /\ packet = NoPacket /\ timeouts = 0
  /\ channel = << >> /\ reading = FALSE /\ seen = Cleared /\ stream = << >>

\* Every failure on the way ends the process, in the constructor.
InitEncoder ==
  /\ ~sys_initialized
  /\ sys_initialized' = TRUE /\ channel_created' = TRUE /\ allocated' = TRUE
  /\ UNCHANGED <<input, hardwareVars, packet, timeouts>>

-----------------------------------------------------------------------------
(* encode                                                                  *)

\* The packet of the last call is dropped and the input buffer set to zero.
Clear ==
  /\ input' = Cleared
  /\ packet' = NoPacket
  /\ UNCHANGED <<resourceVars, hardwareVars, timeouts>>

CopyRows(picture) ==
  /\ input' = picture
  /\ UNCHANGED <<resourceVars, hardwareVars, packet, timeouts>>

\* MmzFlushCache or SendFrame fails, the latter at the latest when the channel is full.
SendFrameFails == UNCHANGED encoderVars

SendFrame(picture) ==
  /\ Len(channel) < ChannelDepth
  /\ channel' = Append(channel, picture)
  /\ UNCHANGED <<resourceVars, input, reading, seen, stream, packet, timeouts>>

\* Mutant: the stream is not released.
GetStreamKeeps ==
  /\ stream # << >>
  /\ packet' = Head(stream)
  /\ UNCHANGED <<resourceVars, input, hardwareVars, timeouts>>

\* The oldest packet, whichever frame it is for, or what is left of it; its buffer is
\* released.
GetStream ==
  /\ stream # << >>
  /\ packet' = Head(stream)
  /\ stream' = Tail(stream)
  /\ UNCHANGED <<resourceVars, input, channel, reading, seen, timeouts>>

\* The same without a byte in the packs: encode fails.
GetStreamEmpty ==
  /\ stream # << >>
  /\ stream' = Tail(stream)
  /\ UNCHANGED <<resourceVars, input, channel, reading, seen, packet, timeouts>>

\* No packet in 2 s, or an error: encode fails, the frame stays with the hardware.
GetStreamFails ==
  /\ timeouts' = timeouts + 1
  /\ UNCHANGED <<resourceVars, input, hardwareVars, packet>>

-----------------------------------------------------------------------------
(* The hardware.                                                           *)

HardwareBegins ==
  /\ ~reading /\ channel # << >> /\ Len(stream) < StreamCount
  /\ reading' = TRUE /\ seen' = input
  /\ UNCHANGED <<resourceVars, input, channel, stream, packet, timeouts>>

\* A picture that changed under its eyes is neither the old nor the new one.
HardwareEnds ==
  /\ reading
  /\ stream' = Append(stream, [of |-> Head(channel),
                               shows |-> IF seen = input THEN <<input>> ELSE <<seen, input>>])
  /\ channel' = Tail(channel)
  /\ reading' = FALSE /\ seen' = Cleared
  /\ UNCHANGED <<resourceVars, input, packet, timeouts>>

-----------------------------------------------------------------------------
(* destroyEncoder                                                          *)

\* Mutant: the input buffer is freed while the channel exists.
DestroyChannelLast ==
  /\ allocated' = FALSE
  /\ UNCHANGED <<sys_initialized, channel_created, input, hardwareVars, packet, timeouts>>

\* StopRecvFrame and DestroyChn: the hardware lets go of everything.
DestroyChannel ==
  /\ channel_created' = FALSE
  /\ channel' = << >> /\ reading' = FALSE /\ seen' = Cleared /\ stream' = << >>
  /\ UNCHANGED <<sys_initialized, allocated, input, packet, timeouts>>

\* MmzFree, WaitFreeMB and SYS_Exit.
FreeInput ==
  /\ allocated' = FALSE /\ sys_initialized' = FALSE
  /\ UNCHANGED <<channel_created, input, hardwareVars, packet, timeouts>>

\* What the hardware holds of frames and packets.
Inside == Len(channel) + Len(stream)
=============================================================================
