-------------------------- MODULE MetricsCollector --------------------------
(***************************************************************************)
(* metrics/src/MetricsCollector.cpp: the atomic counters, which the        *)
(* threads count in, and sample, which loads them one by one and reports   *)
(* what each has gained since the sample before.                           *)
(*                                                                         *)
(* The counters are relaxed atomics: the loads of one sample may take      *)
(* effect in any order.  Turning a gain into a rate or an average, and the *)
(* values from /proc, are left out.                                        *)
(***************************************************************************)
EXTENDS Naturals

CONSTANT Counters   \* captured_frames_, encoded_frames_, encode_time_us_total_, ...

VARIABLES
  total,      \* the counters
  sampling,   \* whether a call of sample is under way
  loaded,     \* its local copies of the counters it has loaded
  last,       \* last_capture_frames_, last_encoded_frames_, ...
  reported    \* the gains in all samples together

metricsVars == <<total, sampling, loaded, last, reported>>

Nothing == [c \in Counters |-> 0]

Init ==
  /\ total = Nothing /\ last = Nothing /\ reported = Nothing
  /\ sampling = FALSE /\ loaded = << >>

\* Each of the record functions is one or two of these.
Count(c) ==
  /\ total' = [total EXCEPT ![c] = @ + 1]
  /\ UNCHANGED <<sampling, loaded, last, reported>>

BeginSample ==
  /\ ~sampling
  /\ sampling' = TRUE
  /\ UNCHANGED <<total, loaded, last, reported>>

Load(c) ==
  /\ sampling /\ c \notin DOMAIN loaded
  /\ loaded' = [d \in DOMAIN loaded \cup {c} |-> IF d = c THEN total[c] ELSE loaded[d]]
  /\ UNCHANGED <<total, sampling, last, reported>>

\* Mutant: the counters are read once more for the next sample to start from.
EndSampleReadingAgain ==
  /\ sampling /\ DOMAIN loaded = Counters
  /\ reported' = [c \in Counters |-> reported[c] + (loaded[c] - last[c])]
  /\ last' = total
  /\ sampling' = FALSE /\ loaded' = << >>
  /\ UNCHANGED total

EndSample ==
  /\ sampling /\ DOMAIN loaded = Counters
  /\ reported' = [c \in Counters |-> reported[c] + (loaded[c] - last[c])]
  /\ last' = loaded
  /\ sampling' = FALSE /\ loaded' = << >>
  /\ UNCHANGED total
=============================================================================
