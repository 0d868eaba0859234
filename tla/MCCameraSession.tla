-------------------------- MODULE MCCameraSession --------------------------
(* CameraSession for TLC, with the environment it is configured from and   *)
(* the layouts of the pictures that go through it.                         *)
EXTENDS CameraSession

MCNumbers == {-40, 0, 1, 20, 40, 45}

\* Buffers of unknown size, and of every size from the last pixel on.
MCCameraLayouts ==
  [stride : 4 .. 6, lines : 4 .. 6, size : {0}]
    \cup {[stride |-> s, lines |-> l, size |-> (l + 1) * s + 4 + pad] :
            s \in 4 .. 6, l \in 4 .. 6, pad \in 0 .. 26}

MCEncoderLayouts == [stride : {4, 6}, lines : {4, 5}]
=============================================================================
