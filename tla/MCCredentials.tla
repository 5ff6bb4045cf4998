--------------------------- MODULE MCCredentials ---------------------------
(* Credentials for TLC: two calls at one process and one at another.       *)
EXTENDS Credentials, TLC

CONSTANTS p1, p2, c1, c2, c3

MCHome == (c1 :> p1) @@ (c2 :> p1) @@ (c3 :> p2)
=============================================================================
