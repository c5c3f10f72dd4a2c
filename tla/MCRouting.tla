----------------------------- MODULE MCRouting -----------------------------
(* An administrator and an owner, two requests at a time, two claims, and  *)
(* NPM databases of two hosts and an access list in either order, with     *)
(* soft-deleted rows, ids that repeat and references that do not resolve.  *)
EXTENDS Portability, TLC

CONSTANTS root, user, q1, q2, c1, c2, p1, p2

MCUser == {root, user}
MCRequest == {q1, q2}
MCClaim == {c1, c2}
MCPassword == {p1, p2}
MCListId == {1}
MCNaming == {{f} : f \in Fields}

NpmHost(i, c, deleted) ==
    [table |-> "hosts", id |-> i, deleted |-> deleted,
     row |-> [Blank EXCEPT !.claims = {c}, !.lists = {1}]]
NpmList(deleted) ==
    [table |-> "lists", id |-> 1, deleted |-> deleted, row |-> [Blank EXCEPT !.secret = p2]]
MCDumps ==
    UNION {{<<NpmHost(1, c, FALSE), NpmList(FALSE)>>,
            <<NpmList(TRUE), NpmHost(1, d, TRUE), NpmHost(1, c, FALSE)>>,
            <<NpmList(FALSE), NpmHost(None, c, FALSE), NpmHost(1, c, TRUE),
              NpmHost(1, d, FALSE), NpmHost(1, c, FALSE)>>} :
           <<c, d>> \in {<<c1, c2>>, <<c2, c1>>}}
Symmetry == Permutations(MCRequest) \cup Permutations(MCClaim)
=============================================================================
