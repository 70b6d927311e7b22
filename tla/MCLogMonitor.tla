----------------------------- MODULE MCLogMonitor -----------------------------
(* The instance of LogMonitor that TLC checks.                                *)
EXTENDS LogMonitor
=============================================================================
