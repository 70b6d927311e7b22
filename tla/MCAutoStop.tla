------------------------------ MODULE MCAutoStop ------------------------------
(* The instance of AutoStop that TLC checks.                                  *)
EXTENDS AutoStop
=============================================================================
