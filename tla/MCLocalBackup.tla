---------------------------- MODULE MCLocalBackup ----------------------------
(* The instances of LocalBackup that TLC checks.                              *)
EXTENDS LocalBackup
=============================================================================
