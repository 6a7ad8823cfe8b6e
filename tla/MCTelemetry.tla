---------------------------- MODULE MCTelemetry ----------------------------
(* Telemetry for TLC: two processes, an event and a count.                  *)
EXTENDS Telemetry, TLC

Same == Permutations(Procs)
=============================================================================
