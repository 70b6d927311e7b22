--------------------------- MODULE MCServerProcess ---------------------------
(* The instances of ServerProcess that TLC checks.                            *)
EXTENDS ServerProcess, TLC

Symmetry == Permutations(Tasks) \cup Permutations(Pids)
=============================================================================
