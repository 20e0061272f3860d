----------------------------- MODULE MCClanRoles -----------------------------
(* ClanRoles and ClanOffers on a small clan: the owner, a member who manages *)
(* roles, an admin who may join; the owner role, two more and an id to       *)
(* spare; some of the rights of the catalogue.                               *)
EXTENDS ClanOffers, GrantCatalog, TLC

CONSTANTS r1, owner, ann, ben, top, lead, base, new

View == {<<"clan", "READ">>, <<"clan_member", "READ">>}
KickMembers == <<"clan_member", "DELETE">>
ManageMembers == <<"clan_member", MANAGE>>
ManageRoles == <<"clan_role", MANAGE>>
PlanEvents == <<"event", "CREATE">>
SomeRights ==
    View \cup {KickMembers, ManageMembers, PlanEvents}
         \cup {"clan_role"} \X GRANT_CATALOG["clan_role"].actions

\* clan creation, after the deletion of one seeded role, a reorder, and the
\* owner's reduction of what the leader may do
Seats == top :> 2 @@ lead :> 1 @@ base :> 0
Seeds == top :> {} @@ lead :> View \cup {ManageRoles}
         @@ base :> DefaultRights("member") \cap SomeRights
SmallCrew == owner :> {top} @@ ann :> {lead} @@ ben :> {}
SomeChoices ==
    {{}, View \cup {ManageRoles}, View \cup {KickMembers, ManageRoles},
     View \cup {ManageMembers, PlanEvents}}
=============================================================================
