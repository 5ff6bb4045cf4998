----------------------------- MODULE MCSessions -----------------------------
(* Model values, symmetry and constraints for the run of Sessions. *)
EXTENDS Sessions, FiniteSetsExt, TLC

MCSymmetry == Permutations(People) \cup Permutations(Workspaces)
                  \cup Permutations(Browsers) \cup Permutations(Requests)

(* Of two requests in flight one changes what the other reads.             *)
MCMeets ==
    \A q, r \in Requests :
        LET kinds == {request[q].kind, request[r].kind}
        IN  \/ q = r \/ "none" \in kinds
            \/ kinds = {"signin"}
            \/ kinds \cap {"leave", "signout"} # {}
            \/ kinds \cap {"create", "join"} # {} /\ kinds \cap {"call", "signin"} = {}

(* Few sessions, tokens and memberships end; an answer is lost or a        *)
(* credential expires while one browser is signed in; and nobody signs in  *)
(* once there is a token.                                                  *)
MCFewEnd ==
    LET gone(rows) == Cardinality({i \in DOMAIN rows : rows[i].state = "gone"})
        left == begun - MapThenSumSet(LAMBDA p : Len(joined[p]), People)
    IN  /\ gone(sessions) + gone(tokens) + left <= 2
        /\ mishaps = 0 \/ Len(sessions) <= 1
        /\ tokens = <<>> \/ \A q \in Requests : request[q].kind # "signin"
=============================================================================
