--------------------------- MODULE MCEventBuffer ---------------------------
(* Instances of EventBuffer for TLC: two workspaces, three requests. *)
EXTENDS EventBuffer, TLC

CONSTANTS w1, w2, r1, r2, r3

MCRequests == {r1, r2, r3}

\* Two requests compete for one workspace, a third uses another.
MCWorkspaceOf == r1 :> w1 @@ r2 :> w1 @@ r3 :> w2
MCNumEvents == r1 :> 2 @@ r2 :> 1 @@ r3 :> 1

\* All three compete for one workspace: a full buffer, its flush and the next one.
OneWorkspaceOf == [r \in MCRequests |-> w1]
=============================================================================
