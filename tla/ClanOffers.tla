----------------------------- MODULE ClanOffers -----------------------------
(***************************************************************************)
(* What the web client offers a user who looks at a clan, computed from    *)
(* the views the API sends, beside what the API would answer.  The client  *)
(* decides some of it by flags of the API (ClanDetail, manageable) and     *)
(* some by a computation of its own over the lists of members and roles    *)
(* (the role manager).  The lists are taken as just fetched: what happens  *)
(* to older ones is the subject of Screens and Editors.  The clan itself   *)
(* is what detail or, after joining, the answer of join or redeem says.    *)
(***************************************************************************)
EXTENDS ClanRoles

(***************************************************************************)
(* The views of the API, for a request of u                                *)
(***************************************************************************)
May(u, right) == Can(Context(u), u, right)

\* isManageable: the flag of a role in ClanRoleDetail and ClanMemberView.
Manageable(u, r) ==
    /\ r # OwnerRole
    /\ May(u, <<"clan_role", MANAGE>>)
    /\ Bypass(Context(u), u) \/ \E mine \in Context(u).ranks : mine > pos[r]

\* ClanContextGuard and the grant of a route.
Reaches(u, right) ==
    /\ status[u] = "active" \/ u = Owner \/ u \in Admins
    /\ May(u, right)

\* detail: without it the client takes u for a stranger.
Detail(u) == Reaches(u, <<"clan", "READ">>)

\* listMembers and listRoles; a list that is refused is empty to the client.
Members(u) ==
    IF Reaches(u, <<"clan_member", "READ">>) THEN {v \in Users : status[v] = "active"} ELSE {}
RoleList(u) == IF Reaches(u, <<"clan_role", "READ">>) THEN roles ELSE {}

\* Mutant: every badge but the owner's has a cross.
MemberViewOfKeys(u, t) == [r \in held[t] |-> r # OwnerRole]

\* toMemberView and toRoleDetail, as far as they differ from the rows.
MemberView(u, t) == [r \in held[t] |-> Manageable(u, r)]
RoleDetails(u) ==
    [r \in RoleList(u) |-> [manageable |-> Manageable(u, r), grants |-> grants[r]]]

\* toDetail: the flags of ClanDetail.  join and redeem make their answer inside
\* runSystem, where can says yes to everything (PermissionService 10); the client
\* keeps it as its clan until it fetches detail.
Flags(u, joined) ==
    LET flag(right) == joined \/ (Detail(u) /\ (u = Owner \/ May(u, right)))
    IN [canManageMembers |-> flag(<<"clan_member", MANAGE>>),
        canManageRoles |-> flag(<<"clan_role", MANAGE>>),
        canEditClan |-> flag(<<"clan", "UPDATE">>),
        canInvite |-> flag(<<"clan_invite", "CREATE">>),
        canViewAudit |-> flag(<<"audit_log", "READ">>),
        canCreateEvent |-> flag(<<"event", "CREATE">>)]

\* The answers the client may have u's flags from.
Answers(u) == IF status[u] = "active" THEN BOOLEAN ELSE {FALSE}

\* myClans: canCreateEvent once more, from the rows of the roles alone.
MayPlan(u) ==
    status[u] = "active" /\ (u = Owner \/ \E r \in held[u] : <<"event", "CREATE">> \in grants[r])

(***************************************************************************)
(* The buttons of the clan's window                                        *)
(***************************************************************************)
\* The rights that the routes behind a button ask for.  The window of the
\* invites is left out: it lists and revokes with rights canInvite is not about.
Behind ==
    [canManageMembers |-> {<<"clan_member", "DELETE">>},
     canManageRoles |-> {"clan_role"} \X {"READ", "CREATE", "UPDATE", "DELETE", MANAGE},
     canEditClan |-> {<<"clan", "UPDATE">>},
     canViewAudit |-> {<<"audit_log", "READ">>},
     canCreateEvent |-> {<<"event", "CREATE">>}]

\* GRANT_CATALOG has the rights for which MANAGE stands.
ASSUME CatalogAssumption ==
    Behind.canManageMembers \cup Behind.canManageRoles \subseteq Rights

\* ClanDetailModal: the windows whose buttons are shown.
Tools(u, joined) == {tool \in DOMAIN Behind : Flags(u, joined)[tool]}

\* The danger zone of ClanSettingsModal.
OffersDeletion(u, joined) == "canEditClan" \in Tools(u, joined) /\ u = Owner

\* MemberRow: the assignable roles, the badges with a cross, the kick button.
OffersAssign(u, t, r, joined) ==
    /\ t \in Members(u) /\ Flags(u, joined).canManageRoles
    /\ r \in RoleList(u) \ held[t] /\ RoleDetails(u)[r].manageable
OffersRemove(u, t, r) == t \in Members(u) /\ r \in held[t] /\ MemberView(u, t)[r]
OffersKick(u, t, joined) == t \in Members(u) /\ Flags(u, joined).canManageMembers

\* The join button of an open clan, and the leave button.
OffersJoin(u, joined) == ~joined /\ ~Detail(u)
OffersLeave(u, joined) == (joined \/ Detail(u)) /\ u # Owner

(***************************************************************************)
(* The role manager                                                        *)
(***************************************************************************)
\* The roles of the user, as found in the list of members.
MyRoles(u) == IF u \in Members(u) THEN held[u] ELSE {}

\* Mutant: "at or above".
CeilingReached(u, r) == u = Owner \/ \E mine \in MyRoles(u) : pos[mine] >= pos[r]

\* ceiling > role.position
CeilingAbove(u, r) == u = Owner \/ \E mine \in MyRoles(u) : pos[mine] > pos[r]

\* effective: the grants of the user's roles, MANAGE not expanded.
Own(u) ==
    IF u = Owner THEN Rights
    ELSE UNION {RoleDetails(u)[r].grants : r \in MyRoles(u) \cap RoleList(u)}

\* canManage
Editable(u, r) == IF r = OwnerRole THEN u = Owner ELSE CeilingAbove(u, r)

\* RoleEditor: the name and colour can be changed and saved; updateRole: the
\* owner may rename the owner role, too.
OffersRename(u, r, joined) == Flags(u, joined).canManageRoles /\ r \in RoleList(u) /\ Editable(u, r)
Renames(u, r) ==
    /\ Reaches(u, <<"clan_role", "UPDATE">>)
    /\ Bypass(Context(u), u) \/ \E mine \in Context(u).ranks : mine > pos[r]

\* GrantRow: the buttons that are not blocked.
Toggles(u, r) == IF Editable(u, r) /\ r # OwnerRole THEN Own(u) ELSE {}

\* RoleEditor: the sets of rights the save button may send (toRows of what
\* was toggled, sameGrants not holding), and the delete button.
OffersGrants(u, r, rows, joined) ==
    /\ Flags(u, joined).canManageRoles /\ r \in RoleList(u)
    /\ rows # grants[r]
    /\ (rows \ grants[r]) \cup (grants[r] \ rows) \subseteq Toggles(u, r)
OffersDelete(u, r, joined) ==
    Flags(u, joined).canManageRoles /\ r \in RoleList(u) \ {OwnerRole} /\ Editable(u, r)

\* onDragEnd with arrayMove: r, taken by its handle, goes to the place of s
\* and those between them move up or down by one.
Place(r) == Cardinality({s \in Sortable : pos[s] < pos[r]})
Moved(r, s) ==
    [x \in Sortable |->
        CASE x = r -> Place(s)
          [] Place(r) < Place(x) /\ Place(x) <= Place(s) -> Place(x) - 1
          [] Place(s) <= Place(x) /\ Place(x) < Place(r) -> Place(x) + 1
          [] OTHER -> Place(x)]
OffersDrag(u, r, joined) ==
    Flags(u, joined).canManageRoles /\ r \in RoleList(u) \ {OwnerRole} /\ Editable(u, r)

\* The request of a job, as far as its user was offered it.
Offered(j, joined) ==
    \/ j.op = "kick" /\ \A t \in j.who : OffersKick(j.by, t, joined)
    \/ j.op = "assign" /\ \A t \in j.who : OffersAssign(j.by, t, j.role, joined)
    \/ j.op = "remove" /\ \A t \in j.who : OffersRemove(j.by, t, j.role)
    \/ j.op = "delete" /\ OffersDelete(j.by, j.role, joined)
    \/ j.op = "setGrants" /\ OffersGrants(j.by, j.role, j.rights, joined)
    \/ j.op = "join" /\ OffersJoin(j.by, joined)
    \/ j.op = "leave" /\ OffersLeave(j.by, joined)

-----------------------------------------------------------------------------
(***************************************************************************)
(* Properties                                                              *)
(***************************************************************************)
\* Offers the client makes although the API refuses them: every member can be
\* kicked; a role can be saved with rights its editor neither has nor can take
\* away; a member who may not read the clan can join it; an admin who is no
\* member can leave it.
InVain(j) ==
    \/ j.op = "kick" /\ \E t \in j.who : t = Owner \/ held[t] \cap AtOrAbove(j.by) # {}
    \/ j.op = "setGrants" /\ ~(grants[j.role] \subseteq Expand(Own(j.by)))
    \/ j.op = "join" /\ status[j.by] = "active"
    \/ j.op = "leave" /\ status[j.by] # "active"

Refused(q) == pc[q] # "idle" /\ pc'[q] = "idle" /\ tables' = tables /\ aborts' = aborts

\* A request that the client offered on current data, and that the guard lets
\* pass, is carried out, but for the offers above, also when the flags are those
\* of the answer to joining; a role dragged to the place of another that its user
\* may move leaves the roles above him where they are, as reorderRoles (336-337)
\* demands.  Under a context that is current; the run has one request at a time,
\* the theorem any number.
OffersAreAccepted ==
    [][\A q \in Requests : job[q] # None /\ ctx[q] \in {None, Context(job[q].by)} =>
         \A joined \in Answers(job[q].by) :
           /\ Refused(q) /\ pc[q] \in Operations \cup {"assignRole"} /\ Offered(job[q], joined)
                => InVain(job[q])
           /\ pc[q] = "reorder" =>
                \A r, s \in Sortable :
                  /\ r # s /\ OffersDrag(job[q].by, r, joined) /\ OffersDrag(job[q].by, s, joined)
                  => \A x \in Locked(q) : Moved(r, s)[x] = Place(x)]_vars

\* What the client computes is what the API computes, between requests: the
\* lists it fetched are of one moment.  In the role manager a
\* user edits the roles that the API calls manageable and gives the rights
\* that the API knows him to have; an admin beyond his own roles is the
\* exception.  Whoever is shown a tool passes the guards behind it, and who
\* may plan an event by the list of his clans may do so by the clan's window.
\* That is so where the flags were fetched.  After joining, until its window is
\* fetched again (staleTime is a minute), a member is shown every tool whatever he
\* may (clan.hooks.ts 70 and 121, invite.hooks.ts 46); his rights in the role
\* manager, which come from the lists, are right all the same, and the danger zone
\* is the owner's.
ClientAgreesWithServer ==
    Idle => \A u \in Users :
        LET bound == u = Owner \/ u \notin Admins
            lists == Members(u) # {} /\ RoleList(u) # {}
        IN /\ bound /\ lists => Expand(Own(u)) = Effective(Context(u), u)
           /\ Own(u) \subseteq Effective(Context(u), u)
           /\ \A joined \in Answers(u) : OffersDeletion(u, joined) => May(u, <<"clan", "DELETE">>)
           /\ bound /\ lists /\ Flags(u, FALSE).canManageRoles =>
                \A r \in roles \ {OwnerRole} : Editable(u, r) <=> Manageable(u, r)
           /\ \A tool \in Tools(u, FALSE) : \A right \in Behind[tool] : May(u, right)
           /\ \A r \in roles : OffersRename(u, r, FALSE) => Renames(u, r)
           /\ MayPlan(u) => May(u, <<"event", "CREATE">>)
=============================================================================
