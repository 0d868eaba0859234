--------------------------- MODULE IspController ---------------------------
(***************************************************************************)
(* camera/src/IspController.cpp: the context of the image-tuning library   *)
(* (AIQ), which start creates, prepares and starts, and stop takes down.   *)
(* main calls start once, and goes on without tuning when it fails.        *)
(***************************************************************************)

VARIABLES
  ctx,          \* ctx is not null
  isp_running,  \* IspController::running
  aiq           \* the library: "none", "context" or "started"

ispVars == <<ctx, isp_running, aiq>>

Init == ctx = FALSE /\ isp_running = FALSE /\ aiq = "none"

\* No such sensor, a sensor without a name, or no context for it.
StartFails == ~ctx /\ UNCHANGED ispVars

CreateContext ==
  /\ ~ctx
  /\ ctx' = TRUE /\ aiq' = "context"
  /\ UNCHANGED isp_running

\* Preparing and starting; white balance and frame rate may fail without effect here.
StartContext ==
  /\ ctx /\ ~isp_running
  /\ aiq' = "started" /\ isp_running' = TRUE
  /\ UNCHANGED ctx

\* stop, which the destructor calls, and start when preparing or starting fails: a
\* context that never ran is deinitialised without being stopped.
Stop ==
  /\ aiq' = IF ctx /\ (aiq = "started" => isp_running) THEN "none" ELSE aiq
  /\ ctx' = FALSE /\ isp_running' = FALSE
=============================================================================
