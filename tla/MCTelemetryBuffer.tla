------------------------- MODULE MCTelemetryBuffer -------------------------
(* Two heartbeat threads, the second left over from an earlier start.      *)
EXTENDS TelemetryBuffer

TwoThreads == {"heartbeat", "earlier"}
=============================================================================
