----------------------------- MODULE MCIdentity -----------------------------
(* An administrator and a user, two requests at a time. *)
EXTENDS Identity, TLC

CONSTANTS root, user, q1, q2

MCUser == {root, user}
MCRequest == {q1, q2}
MCGrants == {{}, {"read"}}
MCScopes == {{}, {"read"}}
Symmetry == Permutations(MCRequest)
=============================================================================
