------------------------ MODULE MCRuntimeController ------------------------
(* Instances of RuntimeController for TLC: task w<i> of process p1, v1 of p2. *)
EXTENDS RuntimeController, TLC

CONSTANTS p1, p2, w1, w2, v1

OneProcess   == [w \in {w1, w2} |-> p1]
TwoProcesses == (w1 :> p1) @@ (v1 :> p2)
OneTask      == [w \in {w1} |-> p1]

\* NParts and MaxCommits are 2 and 1, or 1 and 3, in the configurations.
Contents == [1..NParts -> 0..MaxCommits]

\* Two parts: the first commit to one of them, alone, is refused by Nginx or
\* cannot be rendered.  One part: the second of three commits is refused.
RefusedOfTwo      == {<<1, 0>>}
UnrenderableOfTwo == {<<0, 1>>}
RefusedOfOne      == {<<2>>}
=============================================================================
