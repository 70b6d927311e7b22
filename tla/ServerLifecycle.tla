--------------------------- MODULE ServerLifecycle ---------------------------
(***************************************************************************)
(* What ServerProcessManager promises its callers, without lock, record or *)
(* threads: one server at most, started by one call at a time and never    *)
(* during offline work.  An answer is true when it is given, but for       *)
(* status(), which takes no lock: a server it calls running was up at some *)
(* moment of the call, and may have been stopped since.                    *)
(***************************************************************************)
CONSTANTS Tasks

VARIABLES
    server,   \* "up" or "down"
    phase,    \* per task: "idle", "pending", "seen", "launching" or "offline"
    answer    \* per task: what its last call returned

vars == <<server, phase, answer>>

Exclusive == {"launching", "offline"}

Init ==
    /\ server = "down"
    /\ phase = [t \in Tasks |-> "idle"]
    /\ answer = [t \in Tasks |-> "none"]

Call(t) ==
    /\ phase[t] \in {"idle", "pending"}   \* "pending": restart() goes on to start
    /\ phase' = [phase EXCEPT ![t] = "pending"]
    /\ answer' = [answer EXCEPT ![t] = "none"]
    /\ UNCHANGED server

\* A call starts the server, or takes it out of service: only a server that is
\* down, and only while no other call does either.
Enter(t, how) ==
    /\ server = "down"
    /\ \A s \in Tasks : phase[s] \notin Exclusive
    /\ phase[t] = "pending"
    /\ phase' = [phase EXCEPT ![t] = how]
    /\ server' = IF how = "launching" THEN "up" ELSE "down"
    /\ UNCHANGED answer

\* A call finds the server up; what it says of it comes later.
See(t) ==
    /\ server = "up"
    /\ phase[t] = "pending"
    /\ phase' = [phase EXCEPT ![t] = "seen"]
    /\ UNCHANGED <<server, answer>>

Exit ==
    /\ server = "up"
    /\ server' = "down"
    /\ UNCHANGED <<phase, answer>>

Truthful(t, result) ==
    /\ result = "started" => phase[t] = "launching"
    /\ result = "done" => phase[t] = "offline"
    /\ result = "running" => phase[t] = "seen"
    /\ result \in {"already_running", "skipped"} => server = "up"
    /\ result \in {"already_stopped", "stopped", "killed"} => server = "down"

Answer(t) ==
    \E result \in {"started", "already_running", "error", "stopped", "already_stopped",
                   "killed", "cancelled", "skipped", "done", "running", "not_running"} :
        /\ phase[t] # "idle"
        /\ Truthful(t, result)
        /\ \E after \in {"idle", "pending"} : phase' = [phase EXCEPT ![t] = after]
        /\ answer' = [answer EXCEPT ![t] = result]
        /\ UNCHANGED server

Next ==
    \/ Exit
    \/ \E t \in Tasks : Call(t) \/ See(t) \/ Answer(t) \/ \E how \in Exclusive : Enter(t, how)

Spec == Init /\ [][Next]_vars
=============================================================================
