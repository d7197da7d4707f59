--------------------------- MODULE MCUotTcpService ---------------------------
(* UotTcpService for TLC: symmetric channels and the kernel's reports. *)
EXTENDS UotTcpService, TLC

Symmetry == Permutations(Chan)

\* READ may find data, nothing or the end of the connection, so these stand for
\* reports of WRITE alone, of EOF and of ERROR too.
MCReports == {{"READ"}, {"READ", "WRITE"}}
MCForward == {0, 1}
MCAnyClock == {-1, 0, 1}
==============================================================================
