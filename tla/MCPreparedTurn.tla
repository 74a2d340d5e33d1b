--------------------------- MODULE MCPreparedTurn ---------------------------
(* Two tabs submit one message, two others resume its answer and one        *)
(* discards it; some send the key of one submission along.                  *)
EXTENDS PreparedTurn, TLC

CONSTANTS s1, s2, r1, r2, d1, browser
MCSenders == {s1, s2}
MCResumers == {r1, r2}
Symmetry == Permutations(MCSenders) \cup Permutations(MCResumers)
==============================================================================
