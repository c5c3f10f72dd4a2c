--------------------------- MODULE MCCertificates ---------------------------
(* Instances of Certificates for TLC. *)
EXTENDS Certificates, TLC

CONSTANTS k1, k2, h1, r1, r2

RequestsAreAlike == Permutations(Request)
=============================================================================
