----------------------------- MODULE Membership -----------------------------
(***************************************************************************)
(* What the members of one workspace are promised, each change in one      *)
(* step: the workspace opens with its first member, a person joins, a      *)
(* person leaves while another stays, and only the last member, who asked  *)
(* for it, closes the workspace by leaving.                                *)
(***************************************************************************)
EXTENDS FiniteSets

CONSTANT People

VARIABLES
    stage,    \* the workspace is unborn, open or deleted
    members   \* the people who belong to it

vars == <<stage, members>>

Init == stage = "unborn" /\ members = {}

Open(p) == /\ stage = "unborn"
           /\ stage' = "open" /\ members' = {p}

Join(p) == /\ stage = "open"
           /\ members' = members \cup {p}
           /\ UNCHANGED stage

Leave(p) == /\ stage = "open"
            /\ p \in members /\ members # {p}
            /\ members' = members \ {p}
            /\ UNCHANGED stage

Close(p) == /\ stage = "open"
            /\ members = {p}
            /\ stage' = "deleted" /\ members' = {}

Next == \E p \in People : Open(p) \/ Join(p) \/ Leave(p) \/ Close(p)

Spec == Init /\ [][Next]_vars
=============================================================================
