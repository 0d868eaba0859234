----------------------------- MODULE AppConfig -----------------------------
(***************************************************************************)
(* camera/src/AppConfig.cpp: fromEnvironment, which reads the environment  *)
(* and corrects what the program could not run with.                       *)
(*                                                                         *)
(* A setting is what its variable holds, as atoi reads it (0 if it is no   *)
(* number), or Unset when there is no such variable or an empty one.  The  *)
(* settings that nothing else depends on are left out.  An int has the     *)
(* width that IntMax stands for; an overflow is undefined, and its result  *)
(* any int.                                                                *)
(***************************************************************************)
EXTENDS Integers, FiniteSetsExt

CONSTANTS
  IntMax,    \* the largest int
  Numbers,   \* the numbers to be found in the environment
  Unset      \* no value

ASSUME IntMaxAssumption == IntMax \in Nat /\ IntMax >= 30
ASSUME NumbersAssumption == Numbers \subseteq -IntMax .. IntMax /\ Unset \notin Numbers

Ints == -(IntMax + 1) .. IntMax

Settings == {"encode_queue_capacity", "ai_queue_capacity", "metrics_interval_sec",
             "overlay_stale_frames", "infer_every_n_frames"}

Environments ==
  [ints : [Settings -> Numbers \cup {Unset}],
   model_path : BOOLEAN,                \* whether it is set, and not empty
   enabled : {TRUE, FALSE, Unset}]      \* AICAM_AI_ENABLE: a word for yes, another word, none

Default == [encode_queue_capacity |-> 5, ai_queue_capacity |-> 3, metrics_interval_sec |-> 5,
            overlay_stale_frames |-> 30, infer_every_n_frames |-> 5]

readIntEnv(value, default) == IF value = Unset THEN default ELSE value

\* Mutant: the window is derived without a least length.
DerivedWindowsUnbounded(interval) == {interval * 3}

\* std::max(30, infer_every_n_frames * 3)
DerivedWindows(interval) ==
  LET triples == IF interval * 3 \in Ints THEN {interval * 3} ELSE Ints IN
  {Max({30, triple}) : triple \in triples}

\* The configurations that an environment can result in.
fromEnvironment(env) ==
  LET read == [s \in Settings |-> readIntEnv(env.ints[s], Default[s])]
      positive(s, otherwise) == IF read[s] <= 0 THEN otherwise ELSE read[s]
  IN  {[encode_queue_capacity |-> positive("encode_queue_capacity", 5),
        ai_queue_capacity     |-> positive("ai_queue_capacity", 3),
        metrics_interval_sec  |-> positive("metrics_interval_sec", 5),
        overlay_stale_frames  |-> positive("overlay_stale_frames", window),
        infer_every_n_frames  |-> positive("infer_every_n_frames", 1),
        ai_enabled |-> IF env.enabled = Unset THEN env.model_path ELSE env.enabled] :
       window \in DerivedWindows(read["infer_every_n_frames"])}

\* Whether the other modules can work with a configuration: the queues, intervals and
\* windows have a size, and a window that the program derives lasts from one inference
\* to the next, if the interval can be tripled.  One that is not set at all is 30 frames
\* whatever the interval, which this excepts.
Usable(env, config) ==
  /\ \A s \in Settings : config[s] \in 1 .. IntMax
  /\ env.ints["overlay_stale_frames"] # Unset /\ env.ints["overlay_stale_frames"] <= 0
       /\ config.infer_every_n_frames * 3 <= IntMax
       => config.overlay_stale_frames >= config.infer_every_n_frames
=============================================================================
