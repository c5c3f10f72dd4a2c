---------------------------- MODULE LastKnownGood ----------------------------
(***************************************************************************)
(* What configuration delivery promises, without files, threads, locks or  *)
(* commands: one configuration is in force; it only ever moves forward to  *)
(* a configuration that passed validation, and only once the previous move *)
(* is settled; an unsettled move can be undone, and undoing it restores    *)
(* exactly the configuration that was in force before it                   *)
(* (runtime/reconcile.py, "Atomic immutable-generation reconciliation with *)
(* last-known-good rollback").                                             *)
(***************************************************************************)
CONSTANTS Generation, NoGeneration

VARIABLES
    serving,    \* the configuration in force
    fallback,   \* the last known good one: what an undo restores
    good        \* configurations that passed validation

vars == <<serving, fallback, good>>

Init ==
    /\ serving = NoGeneration
    /\ fallback = NoGeneration
    /\ good = {}

\* A candidate passes validation; nothing is in force yet.
Approve(g) ==
    /\ good' = good \cup {g}
    /\ UNCHANGED <<serving, fallback>>

\* The candidate is put in force, its predecessor is kept.
Advance(g) ==
    /\ serving = fallback
    /\ g \in good
    /\ serving' = g
    /\ UNCHANGED <<fallback, good>>

\* The move is final: the configuration in force is the one known good.
Settle ==
    /\ serving # fallback
    /\ fallback' = serving
    /\ UNCHANGED <<serving, good>>

Undo ==
    /\ serving # fallback
    /\ serving' = fallback
    /\ UNCHANGED <<fallback, good>>

Next ==
    \/ \E g \in Generation : Approve(g) \/ Advance(g)
    \/ Settle
    \/ Undo

Spec == Init /\ [][Next]_vars
=============================================================================
