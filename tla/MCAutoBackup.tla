---------------------------- MODULE MCAutoBackup ----------------------------
(* The instances of AutoBackup that TLC checks.                               *)
EXTENDS AutoBackup, TLC

Symmetry == Permutations(Servers) \cup Permutations(Users)
=============================================================================
