---------------------------- MODULE MCQuicRouter ----------------------------
(***************************************************************************)
(* Instances of QuicRouter for TLC.  Connections c1 and c2 share address   *)
(* a1; i<n> is the id connection n's client chose, s<n> its server's.      *)
(***************************************************************************)
EXTENDS QuicRouter, TLC

CONSTANTS c1, c2, a1, a2, i1, i2, s1, s2

OneAddress == [c \in Conn |-> {a1}]
Migrating  == (c1 :> {a1, a2}) @@ (c2 :> {a1})
Initials   == (c1 :> i1) @@ (c2 :> i2)

\* Each server issues an id of its own ...
OwnCids    == (c1 :> {s1}) @@ (c2 :> {s2})
\* ... or both may issue s1.
SharedCids == (c1 :> {s1, s2}) @@ (c2 :> {s1})

CidLengths == (i1 :> 8) @@ (i2 :> 8) @@ (s1 :> 4) @@ (s2 :> 8)
=============================================================================
