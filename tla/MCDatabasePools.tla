-------------------------- MODULE MCDatabasePools --------------------------
(* DatabasePools for TLC: two requests that change the row and one query.  *)
(* No symmetry, because a liveness property is checked.                    *)
EXTENDS DatabasePools

CONSTANTS q1, e1, e2

MCQueries == {q1}

MCEditors == {e1, e2}
=============================================================================
