------------------------------ MODULE MCAccess ------------------------------
(* Ann owns both workspaces, Bob one of them with her.                         *)
EXTENDS Access, TLC
Start == [w \in Workspaces |-> [p \in People |->
    IF p = "ann" \/ (p = "bob" /\ w = 2) THEN "owner" ELSE None]]
=============================================================================
