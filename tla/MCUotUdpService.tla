--------------------------- MODULE MCUotUdpService ---------------------------
(* UotUdpService for TLC: what the clock and connect() may do. *)
EXTENDS UotUdpService

MCForward == {0, 1}

MCOutcomes == {"now", "progress", "refused", "nosocket"}
MCInProgress == {"progress"}
==============================================================================
