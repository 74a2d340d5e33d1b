---------------------------- MODULE MCAgentRuns ----------------------------
(* Two workers, and every order of the operations on one run within the     *)
(* bounds of the cfg.                                                        *)
EXTENDS AgentRuns, TLC

CONSTANTS w1, w2
MCWorkers == {w1, w2}
Symmetry == Permutations(MCWorkers)
==============================================================================
