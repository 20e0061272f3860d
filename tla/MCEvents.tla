------------------------------ MODULE MCEvents ------------------------------
(* Events of two clans, an organization and the platform: ann owns clan a,  *)
(* ben is a member who plans events, eve owns clan b and is an admin.       *)
EXTENDS EventOffers, TLC

CONSTANTS ann, ben, eve, a, b, org, r1, r2

OwnerOf == a :> ann @@ b :> eve
CrewOf == a :> {ann, ben} @@ b :> {eve}
\* ROLE_GRANT_DEFAULTS.member, and a role for those who plan events
MemberRights == {"event_participation"} \X {"READ", "CREATE", "UPDATE"}
Planner == MemberRights \cup {<<"event", "CREATE">>}
GrantedOf == [c \in {a, b} |-> [u \in {ann, ben, eve} |-> IF u = ben THEN Planner ELSE {}]]
OrgOwnerOf == org :> ben

Spare == Permutations({r1, r2})
Set(p, r, x, w) == [public |-> p, policy |-> r, approval |-> x, window |-> w]
SomeSettings ==
    {Set(TRUE, "OPEN", TRUE, "open"), Set(FALSE, "INVITE_ONLY", FALSE, "open")}
SomeChanges == {Set(TRUE, "CLOSED", TRUE, "open"), Set(FALSE, "OPEN", FALSE, "before")}
=============================================================================
