----------------------------- MODULE MCSettings -----------------------------
(* The instance of Settings that TLC checks: the secrets are alike.          *)
EXTENDS Settings, TLC

Symmetry == Permutations(Secrets)

\* Bound of the run, not of the specification: after a race, or after a program spoke of
\* what had changed since it read it, what runs comes to its end and nothing is started;
\* after an attempt that ended halfway, one program at a time, and no bot.
Bounded ==
    opened' # opened \/ bot' # bot =>
        /\ ~race /\ ~unseen
        /\ torn => bot' = bot /\ \A x \in 1..Terminals : sess[x].pc \in {"idle", "editing"}
=============================================================================
