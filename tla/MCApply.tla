------------------------------ MODULE MCApply ------------------------------
(* Apply on the plans over two users and two assets.                       *)
EXTENDS Apply

\* An asset is checked out only to a user the plan creates or the snapshot
\* holds; both are in Users, so every combination is a plan.  Taken are those
\* in which the last user is created or has nothing to do: the two cases an
\* asset can tell apart.  The first user and the assets are free.
MCPlans == {p \in AllPlans : p.user[NU] \in {"create", "noop"}}
=============================================================================
