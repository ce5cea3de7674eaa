----------------------------- MODULE MCMembers -----------------------------
(* Instances of Members for TLC. *)
EXTENDS Members, TLC

CONSTANTS o1, o2, m

\* An owner and an admin; m is not a member yet.
OwnerAndAdmin == o1 :> "owner" @@ o2 :> "admin"

\* Two owners.
TwoOwners == o1 :> "owner" @@ o2 :> "owner"

\* Requests are alike.
CallSymmetry == Permutations(TeamCalls)
=============================================================================
