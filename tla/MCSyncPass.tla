----------------------------- MODULE MCSyncPass -----------------------------
(***************************************************************************)
(* The run of SyncPass, with a history variable: the passes that have run  *)
(* alone since they began.                                                 *)
(***************************************************************************)
EXTENDS SyncPass, TLC

VARIABLE alone

MCInit == Init /\ alone = {}

MCNext ==
    /\ Next
    /\ alone' = {p \in Passes : /\ Running(p)'
                                /\ p \in alone \/ ~Running(p)
                                /\ \A q \in Passes \ {p} : ~Running(q)'}

MCSpec == MCInit /\ [][MCNext]_<<vars, alone>>

Symmetry == Permutations(Passes)

(* The provider has served d unchanged since before the instant t. *)
Settled(d, t) ==
    remote[d].exists /\ remote[d].editedAt < t /\ remote[d].since < t

(* When a pass that no other overlapped reaches its end, every document it *)
(* listed that has not changed since it began is indexed at the version    *)
(* the provider serves, whatever earlier passes left behind by failing or  *)
(* overlapping.                                                            *)
CompletedPassIsFresh ==
    \A p \in alone :
        pass[p].phase = "record" /\ SourceHeld(p) =>
            \A d \in pass[p].seen \ Attachments :
                Settled(d, pass[p].startedAt)
                    => row[d].id # 0 /\ row[d].body = remote[d].version
=============================================================================
