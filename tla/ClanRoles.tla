------------------------------ MODULE ClanRoles ------------------------------
(***************************************************************************)
(* Roles, grants and memberships of one clan: the handlers of ClansService *)
(* statement by statement, each under the context the guard gave its       *)
(* request.  Every statement commits on its own, except the reseating of   *)
(* all roles, which is one transaction.                                    *)
(*                                                                         *)
(* A role id stands for a row of ClanRoleDef; an id is free again when no  *)
(* row and no request refers to it, so it is as good as a new one.  Names  *)
(* and colours are left out.  The position of a context, the highest of    *)
(* the positions held, is kept as the set of these positions: "higher than *)
(* p" is "one of them is higher than p", and the empty set is -1.          *)
(***************************************************************************)
EXTENDS Null, Integers, FiniteSets

CONSTANTS
    Users, Owner, Admins,   \* Clan.owner_id, User.is_platform_admin
    Roles,                  \* role ids
    OwnerRole,              \* the role with key 'owner'
    MemberRoles,            \* ids for roles with key 'member'
    SeedPosition,           \* SYSTEM_ROLES: id of a seeded role -> position
    Defaults,               \* ROLE_GRANT_DEFAULTS: seeded id -> rights
    Crew,                   \* initial members: user -> roles assigned so far
    Rights,                 \* <<grant, action>>
    GrantChoices,           \* bodies of setRoleGrants, within the catalogue
    Requests,
    StaleContexts,          \* TRUE: the guard may serve an earlier context
    MaxRoles,               \* bound: rows of ClanRoleDef not keyed 'member'
    MaxRequests, MaxAborts  \* bounds: requests, and those that die half way

MANAGE == "MANAGE"
Expand(S) == S \cup {x \in Rights : <<x[1], MANAGE>> \in S}

Seeded == DOMAIN SeedPosition

ASSUME PeopleAssumption == Owner \in Users /\ Admins \subseteq Users
ASSUME RolesAssumption ==
    /\ SeedPosition \in [Seeded -> Nat]
    /\ Seeded \subseteq Roles
    /\ MemberRoles \subseteq Roles
    /\ OwnerRole \in Seeded \ MemberRoles /\ Seeded # {OwnerRole}
    /\ \A r \in Seeded \ {OwnerRole} : SeedPosition[OwnerRole] > SeedPosition[r]
    /\ \A r, s \in Seeded : r # s => SeedPosition[r] # SeedPosition[s]
    /\ Crew \in [Users -> SUBSET Seeded]
    /\ \A u \in Users : OwnerRole \in Crew[u] <=> u = Owner
    /\ None \notin Roles
    /\ IsFiniteSet(Roles)
ASSUME RightsAssumption ==
    /\ Defaults \in [Seeded \cup MemberRoles -> SUBSET Rights]
    /\ GrantChoices \subseteq SUBSET Rights
    /\ \A m \in MemberRoles : \E s \in Seeded : Defaults[m] = Defaults[s]
ASSUME BoundsAssumption ==
    StaleContexts \in BOOLEAN /\ {MaxRoles, MaxRequests, MaxAborts} \subseteq Nat

VARIABLES
    roles,    \* rows of ClanRoleDef
    pos,      \* ClanRoleDef.position
    grants,   \* rows of ClanRoleGrant
    status,   \* ClanMember: no row, left_at null, left_at set
    held,     \* rows of ClanMemberRole
    cached,   \* the context last loaded for a user
    pc, job, ctx, plan,
    granted,  \* history: rights put into roles by clan creation, owner, admins
    begun, aborts

tables == <<roles, pos, grants, status, held>>
vars == <<roles, pos, grants, status, held, cached, pc, job, ctx, plan, granted,
          begun, aborts>>

Operations == {"kick", "leave", "assign", "remove", "create", "delete",
               "reorder", "setGrants", "join"}
Statements == {"dropRoles", "markLeft", "assignRole", "hold", "unhold", "insert",
               "reseat", "dropHolders", "dropRow", "base", "makeBase", "roleless",
               "newRow", "reactivate", "dropGrants", "addGrants"}
Jobs == [op : Operations, by : Users, who : SUBSET Users,
         role : Roles \cup {None}, rights : SUBSET Rights]
Contexts == [owner : BOOLEAN, member : BOOLEAN, ranks : SUBSET Nat, rights : SUBSET Rights]

ASSUME NoneAssumption == None \notin Jobs \cup Contexts

TypeOK ==
    /\ roles \subseteq Roles
    /\ pos \in [Roles -> Nat]
    /\ grants \in [Roles -> SUBSET Rights]
    /\ status \in [Users -> {"none", "active", "left"}]
    /\ held \in [Users -> SUBSET roles]
    /\ cached \in [Users -> Contexts \cup {None}]
    /\ pc \in [Requests -> {"idle"} \cup Operations \cup Statements]
    /\ job \in [Requests -> Jobs \cup {None}]
    /\ ctx \in [Requests -> Contexts \cup {None}]
    /\ plan = [q \in Requests |-> plan[q]]
    /\ \A q \in Requests : plan[q] # None =>
         DOMAIN plan[q] \subseteq Roles /\ plan[q] \in [DOMAIN plan[q] -> Nat]
    /\ granted \subseteq Rights
    /\ begun \in 0..MaxRequests
    /\ aborts \in 0..MaxAborts

\* persistClan and seedSystemRoles, one transaction, and members who have
\* joined since.
Init ==
    /\ roles = Seeded
    /\ pos = [r \in Roles |-> IF r \in Seeded THEN SeedPosition[r] ELSE 0]
    /\ grants = [r \in Roles |-> IF r \in Seeded THEN Defaults[r] ELSE {}]
    /\ status = [u \in Users |-> IF Crew[u] # {} THEN "active" ELSE "none"]
    /\ held = Crew
    /\ cached = [u \in Users |-> None]
    /\ pc = [q \in Requests |-> "idle"]
    /\ job = [q \in Requests |-> None]
    /\ ctx = [q \in Requests |-> None]
    /\ plan = [q \in Requests |-> None]
    /\ granted = UNION {Defaults[r] : r \in Seeded}
    /\ begun = 0
    /\ aborts = 0

(***************************************************************************)
(* Contexts and permissions                                                *)
(***************************************************************************)
\* loadCtx
Context(u) ==
    LET mine == IF status[u] = "active" THEN held[u] ELSE {}
    IN [owner |-> u = Owner,
        member |-> status[u] = "active",
        ranks |-> {pos[r] : r \in mine},
        rights |-> UNION {grants[r] : r \in mine}]

\* PermissionService
Bypass(c, u) == c.owner \/ u \in Admins
Can(c, u, right) == Bypass(c, u) \/ right \in Expand(c.rights)
Effective(c, u) == IF Bypass(c, u) THEN Rights ELSE Expand(c.rights)

\* Mutant: "at or below" instead of "below".
CanManageEqual(q, p) ==
    Bypass(ctx[q], job[q].by) \/ \E mine \in ctx[q].ranks : mine >= p

CanManage(q, p) ==
    Bypass(ctx[q], job[q].by) \/ \E mine \in ctx[q].ranks : mine > p

\* canManageRole(highestPosition(...)): higher than each of the roles of S.
Outranks(q, S) ==
    \/ Bypass(ctx[q], job[q].by)
    \/ \E mine \in ctx[q].ranks : \A r \in S : mine > pos[r]

(***************************************************************************)
(* Requests                                                                *)
(***************************************************************************)
Goto(q, label) == pc' = [pc EXCEPT ![q] = label] /\ UNCHANGED <<job, ctx, plan>>

End(q) ==
    /\ pc' = [pc EXCEPT ![q] = "idle"]
    /\ job' = [job EXCEPT ![q] = None]
    /\ ctx' = [ctx EXCEPT ![q] = None]
    /\ plan' = [plan EXCEPT ![q] = None]

\* Go on at label if ok; otherwise the request is answered with an error.
GotoIf(q, ok, label) == IF ok THEN Goto(q, label) ELSE End(q)

Job(op, u, who, role, rights) ==
    [op |-> op, by |-> u, who |-> who, role |-> role, rights |-> rights]

Start(q, c, j) ==
    /\ begun' = begun + 1
    /\ pc' = [pc EXCEPT ![q] = j.op]
    /\ job' = [job EXCEPT ![q] = j]
    /\ ctx' = [ctx EXCEPT ![q] = c]
    /\ UNCHANGED <<tables, plan, granted, aborts>>

\* ClanContextGuard: the current context, or one loaded earlier.
Guarded(u, c) ==
    /\ \/ c = Context(u) /\ cached' = IF StaleContexts THEN [cached EXCEPT ![u] = c] ELSE cached
       \/ StaleContexts /\ cached[u] # None /\ c = cached[u] /\ UNCHANGED cached
    /\ c.member \/ c.owner \/ u \in Admins

ContextsOf(u) == {Context(u)} \cup (IF cached[u] = None THEN {} ELSE {cached[u]})

\* ClanContextGuard and PermissionGuard let a request for right through.
Enter(q, j, right) ==
    \E c \in ContextsOf(j.by) :
        /\ Guarded(j.by, c)
        /\ Can(c, j.by, right)
        /\ Start(q, c, j)

\* What the controller offers below /clans/:clanId, with its grants.
BeginKick(q, u, t) == Enter(q, Job("kick", u, {t}, None, {}), <<"clan_member", "DELETE">>)
BeginAssign(q, u, t, r) == Enter(q, Job("assign", u, {t}, r, {}), <<"clan_role", MANAGE>>)
BeginRemove(q, u, t, r) == Enter(q, Job("remove", u, {t}, r, {}), <<"clan_role", MANAGE>>)
BeginReorder(q, u) == Enter(q, Job("reorder", u, {}, None, {}), <<"clan_role", MANAGE>>)
BeginDelete(q, u, r) == Enter(q, Job("delete", u, {}, r, {}), <<"clan_role", "DELETE">>)
BeginSetGrants(q, u, r, rows) ==
    Enter(q, Job("setGrants", u, {}, r, rows), <<"clan_role", MANAGE>>)

\* A custom role, or a copy of the seeded role tpl.
BeginCreate(q, u, tpl) ==
    /\ Cardinality(roles \ MemberRoles) < MaxRoles
    /\ Enter(q, Job("create", u, {}, None, IF tpl = None THEN {} ELSE Defaults[tpl]),
             <<"clan_role", "CREATE">>)

\* leave asks for no grant; join and redeem pass no clan guard at all.
BeginLeave(q, u) ==
    \E c \in ContextsOf(u) : Guarded(u, c) /\ Start(q, c, Job("leave", u, {u}, None, {}))
BeginJoin(q, u) == Start(q, None, Job("join", u, {u}, None, {})) /\ UNCHANGED cached

Begin(q) ==
    /\ pc[q] = "idle"
    /\ begun < MaxRequests
    /\ \E u \in Users :
         \/ \E t \in Users : BeginKick(q, u, t)
         \/ \E t \in Users, r \in roles : BeginAssign(q, u, t, r)
         \/ \E t \in Users, r \in roles : BeginRemove(q, u, t, r)
         \/ BeginReorder(q, u)
         \/ \E r \in roles : BeginDelete(q, u, r)
         \/ \E r \in roles, rows \in GrantChoices : BeginSetGrants(q, u, r, rows)
         \/ \E tpl \in (Seeded \ {OwnerRole}) \cup {None} : BeginCreate(q, u, tpl)
         \/ BeginLeave(q, u)
         \/ BeginJoin(q, u)

rest == <<cached, granted, begun, aborts>>

(***************************************************************************)
(* kick and leave                                                          *)
(***************************************************************************)
Kick(q) ==
    /\ pc[q] = "kick"
    /\ GotoIf(q, \A t \in job[q].who : status[t] = "active" /\ t # Owner /\ Outranks(q, held[t]),
              "dropRoles")
    /\ UNCHANGED <<tables, rest>>

Leave(q) ==
    /\ pc[q] = "leave"
    /\ GotoIf(q, job[q].by # Owner /\ status[job[q].by] = "active", "dropRoles")
    /\ UNCHANGED <<tables, rest>>

\* Mutant: the roles of the member who leaves are kept.
KeepRoles(q) ==
    /\ pc[q] = "dropRoles"
    /\ Goto(q, "markLeft")
    /\ UNCHANGED <<tables, rest>>

\* deactivateMember
DropRoles(q) ==
    /\ pc[q] = "dropRoles"
    /\ held' = [u \in Users |-> IF u \in job[q].who THEN {} ELSE held[u]]
    /\ Goto(q, "markLeft")
    /\ UNCHANGED <<roles, pos, grants, status, rest>>

MarkLeft(q) ==
    /\ pc[q] = "markLeft"
    /\ status' = [u \in Users |-> IF u \in job[q].who THEN "left" ELSE status[u]]
    /\ End(q)
    /\ UNCHANGED <<roles, pos, grants, held, rest>>

(***************************************************************************)
(* assignRole and removeRole                                               *)
(***************************************************************************)
Assign(q) ==
    /\ pc[q] = "assign"
    /\ GotoIf(q, \A t \in job[q].who : status[t] = "active", "assignRole")
    /\ UNCHANGED <<tables, rest>>

AssignRole(q) ==
    /\ pc[q] = "assignRole"
    /\ GotoIf(q, /\ job[q].role \in roles \ {OwnerRole}
                 /\ CanManage(q, pos[job[q].role]), "hold")
    /\ UNCHANGED <<tables, rest>>

\* createMany with skipDuplicates; a role that is gone violates its foreign key.
Hold(q) ==
    /\ pc[q] = "hold"
    /\ held' = [u \in Users |-> IF u \in job[q].who /\ job[q].role \in roles
                                THEN held[u] \cup {job[q].role} ELSE held[u]]
    /\ End(q)
    /\ UNCHANGED <<roles, pos, grants, status, rest>>

\* Mutant: the owner role is not special.
RemoveAny(q) ==
    /\ pc[q] = "remove"
    /\ GotoIf(q, job[q].role \in roles /\ CanManage(q, pos[job[q].role]), "unhold")
    /\ UNCHANGED <<tables, rest>>

Remove(q) ==
    /\ pc[q] = "remove"
    /\ GotoIf(q, /\ job[q].role \in roles \ {OwnerRole}
                 /\ CanManage(q, pos[job[q].role]), "unhold")
    /\ UNCHANGED <<tables, rest>>

Unhold(q) ==
    /\ pc[q] = "unhold"
    /\ held' = [u \in Users |-> IF u \in job[q].who THEN held[u] \ {job[q].role} ELSE held[u]]
    /\ End(q)
    /\ UNCHANGED <<roles, pos, grants, status, rest>>

(***************************************************************************)
(* createRole and reorderRoles                                             *)
(***************************************************************************)
Sortable == roles \ {OwnerRole}

\* The orders of S, each as the position reseatOps gives to every role.
Seatings(S) ==
    {f \in [S -> 0..(Cardinality(S) - 1)] : \A r, s \in S : r # s => f[r] # f[s]}

\* The orders ORDER BY position may return: ties come in any order.
Sorted(S) == {f \in Seatings(S) : \A r, s \in S : pos[r] > pos[s] => f[r] > f[s]}

Locked(q) == {r \in Sortable : ~CanManage(q, pos[r])}

\* No row and no request refers to the id.
Unused(q, r) ==
    /\ r \notin roles
    /\ \A p \in Requests \ {q} :
         /\ job[p] # None => job[p].role # r
         /\ plan[p] # None => r \notin DOMAIN plan[p]

\* What createRole reads: the roles in their order, with a free seat below
\* the roles its user may not manage.
Create(q) ==
    /\ pc[q] = "create"
    /\ \E g \in Sorted(Sortable) :
         plan' = [plan EXCEPT ![q] =
                    [r \in Sortable |-> IF r \in Locked(q) THEN g[r] + 1 ELSE g[r]]]
    /\ job' = [job EXCEPT ![q].rights = @ \cap Effective(ctx[q], job[q].by)]
    /\ pc' = [pc EXCEPT ![q] = "insert"]
    /\ UNCHANGED <<tables, ctx, rest>>

\* The new row has position 0 until all roles are reseated.
Insert(q) ==
    /\ pc[q] = "insert"
    /\ \E new \in Roles \ MemberRoles, seat \in 0..Cardinality(DOMAIN plan[q]) :
         /\ Unused(q, new)
         /\ \A r \in DOMAIN plan[q] : r # new /\ plan[q][r] # seat
         /\ roles' = roles \cup {new}
         /\ pos' = [pos EXCEPT ![new] = 0]
         /\ grants' = [grants EXCEPT ![new] = job[q].rights]
         /\ plan' = [plan EXCEPT ![q] =
                       [r \in DOMAIN plan[q] \cup {new} |-> IF r = new THEN seat ELSE plan[q][r]]]
    /\ pc' = [pc EXCEPT ![q] = "reseat"]
    /\ UNCHANGED <<status, held, job, ctx, rest>>

\* The body lists every role but the owner's, the locked ones where they are.
Reorder(q) ==
    /\ pc[q] = "reorder"
    /\ \E f \in Seatings(Sortable), g \in Sorted(Sortable) :
         /\ \A r \in Locked(q) : f[r] = g[r]
         /\ plan' = [plan EXCEPT ![q] = f]
    /\ pc' = [pc EXCEPT ![q] = "reseat"]
    /\ UNCHANGED <<tables, job, ctx, rest>>

\* Mutant: the owner role is not moved to the top.
ReseatWithoutOwner(q) ==
    /\ pc[q] = "reseat"
    /\ pos' = [r \in Roles |-> IF r \in roles /\ r \in DOMAIN plan[q] THEN plan[q][r] ELSE pos[r]]
    /\ End(q)
    /\ UNCHANGED <<roles, grants, status, held, rest>>

\* reseatOps: the roles read take their seats, if they still exist; the owner
\* role goes on top of them.
Reseat(q) ==
    /\ pc[q] = "reseat"
    /\ pos' = [r \in Roles |->
                 IF r = OwnerRole THEN Cardinality(DOMAIN plan[q])
                 ELSE IF r \in roles /\ r \in DOMAIN plan[q] THEN plan[q][r] ELSE pos[r]]
    /\ End(q)
    /\ UNCHANGED <<roles, grants, status, held, rest>>

(***************************************************************************)
(* deleteRole                                                              *)
(***************************************************************************)
Delete(q) ==
    /\ pc[q] = "delete"
    /\ GotoIf(q, /\ job[q].role \in roles \ {OwnerRole}
                 /\ CanManage(q, pos[job[q].role]), "dropGrants")
    /\ UNCHANGED <<tables, rest>>

\* Deletes the role's grants; setRoleGrants starts with this statement, too.
DropGrants(q) ==
    /\ pc[q] = "dropGrants"
    /\ grants' = [grants EXCEPT ![job[q].role] = {}]
    /\ Goto(q, IF job[q].op = "delete" THEN "dropHolders" ELSE "addGrants")
    /\ UNCHANGED <<roles, pos, status, held, rest>>

DropHolders(q) ==
    /\ pc[q] = "dropHolders"
    /\ held' = [u \in Users |-> held[u] \ {job[q].role}]
    /\ Goto(q, "dropRow")
    /\ UNCHANGED <<roles, pos, grants, status, rest>>

\* Mutant: the members who only had the role are left without one.
DropRowOnly(q) ==
    /\ pc[q] = "dropRow"
    /\ roles' = roles \ {job[q].role}
    /\ pos' = [pos EXCEPT ![job[q].role] = 0]
    /\ grants' = [grants EXCEPT ![job[q].role] = {}]
    /\ held' = [u \in Users |-> held[u] \ {job[q].role}]
    /\ End(q)
    /\ UNCHANGED <<status, rest>>

\* Rows that refer to the role go with it (onDelete: Cascade).
DropRow(q) ==
    /\ pc[q] = "dropRow"
    /\ roles' = roles \ {job[q].role}
    /\ pos' = [pos EXCEPT ![job[q].role] = 0]
    /\ grants' = [grants EXCEPT ![job[q].role] = {}]
    /\ held' = [u \in Users |-> held[u] \ {job[q].role}]
    /\ job' = [job EXCEPT ![q].role = None]
    /\ pc' = [pc EXCEPT ![q] = "base"]
    /\ UNCHANGED <<status, ctx, plan, rest>>

(***************************************************************************)
(* baseRole, for the newcomer of admit and for ensureMembersHaveRole       *)
(***************************************************************************)
Lowest(r) == r \in Sortable /\ \A s \in Sortable : pos[r] <= pos[s]

Base(q) ==
    /\ pc[q] = "base"
    /\ IF Sortable = {}
       THEN Goto(q, "makeBase")
       ELSE /\ \E r \in Roles : Lowest(r) /\ job' = [job EXCEPT ![q].role = r]
            /\ pc' = [pc EXCEPT ![q] = IF job[q].op = "delete" THEN "roleless" ELSE "hold"]
            /\ UNCHANGED <<ctx, plan>>
    /\ UNCHANGED <<tables, rest>>

\* A second role with key 'member' violates a unique index.
MakeBase(q) ==
    /\ pc[q] = "makeBase"
    /\ IF MemberRoles \cap roles # {}
       THEN End(q) /\ UNCHANGED tables
       ELSE /\ \E new \in MemberRoles :
                 /\ Unused(q, new)
                 /\ roles' = roles \cup {new}
                 /\ pos' = [pos EXCEPT ![new] = 0]
                 /\ grants' = [grants EXCEPT ![new] = Defaults[new]]
                 /\ job' = [job EXCEPT ![q].role = new]
            /\ pc' = [pc EXCEPT ![q] = IF job[q].op = "delete" THEN "roleless" ELSE "hold"]
            /\ UNCHANGED <<status, held, ctx, plan>>
    /\ UNCHANGED rest

Roleless == {u \in Users : status[u] = "active" /\ held[u] = {}}

FindRoleless(q) ==
    /\ pc[q] = "roleless"
    /\ job' = [job EXCEPT ![q].who = Roleless]
    /\ pc' = [pc EXCEPT ![q] = "hold"]
    /\ UNCHANGED <<tables, ctx, plan, rest>>

(***************************************************************************)
(* setRoleGrants                                                           *)
(***************************************************************************)
\* Mutant: the rights are not compared with those of the user.
SetAnyGrants(q) ==
    /\ pc[q] = "setGrants"
    /\ GotoIf(q, /\ job[q].role \in roles \ {OwnerRole}
                 /\ CanManage(q, pos[job[q].role]), "dropGrants")
    /\ UNCHANGED <<tables, rest>>

SetGrants(q) ==
    /\ pc[q] = "setGrants"
    /\ GotoIf(q, /\ job[q].role \in roles \ {OwnerRole}
                 /\ CanManage(q, pos[job[q].role])
                 /\ job[q].rights \subseteq Effective(ctx[q], job[q].by), "dropGrants")
    /\ UNCHANGED <<tables, rest>>

\* createMany: fails if the role is gone or has a row for one of the grants.
AddGrants(q) ==
    /\ pc[q] = "addGrants"
    /\ LET r == job[q].role
           ok == r \in roles /\ \A x \in job[q].rights, y \in grants[r] : x[1] # y[1]
       IN /\ grants' = IF ok THEN [grants EXCEPT ![r] = @ \cup job[q].rights] ELSE grants
          /\ granted' = IF ok /\ Bypass(ctx[q], job[q].by)
                        THEN granted \cup job[q].rights ELSE granted
    /\ End(q)
    /\ UNCHANGED <<roles, pos, status, held, cached, begun, aborts>>

(***************************************************************************)
(* join and redeem: admit                                                  *)
(***************************************************************************)
Join(q) ==
    /\ pc[q] = "join"
    /\ LET found == status[job[q].by]
       IN GotoIf(q, found # "active", IF found = "none" THEN "newRow" ELSE "reactivate")
    /\ UNCHANGED <<tables, rest>>

\* createMember: refused if a concurrent request has made the row.
NewRow(q) ==
    /\ pc[q] = "newRow"
    /\ IF status[job[q].by] = "none"
       THEN status' = [status EXCEPT ![job[q].by] = "active"] /\ Goto(q, "base")
       ELSE End(q) /\ UNCHANGED status
    /\ UNCHANGED <<roles, pos, grants, held, rest>>

\* reactivateMember
Reactivate(q) ==
    /\ pc[q] = "reactivate"
    /\ status' = [status EXCEPT ![job[q].by] = "active"]
    /\ Goto(q, "base")
    /\ UNCHANGED <<roles, pos, grants, held, rest>>

(***************************************************************************)
(* Composition                                                             *)
(***************************************************************************)
\* The process dies, or the database refuses a statement.
Abort(q) ==
    /\ pc[q] # "idle"
    /\ aborts < MaxAborts
    /\ aborts' = aborts + 1
    /\ End(q)
    /\ UNCHANGED <<tables, cached, granted, begun>>

Step(q) ==
    \/ Kick(q) \/ Leave(q) \/ DropRoles(q) \/ MarkLeft(q)
    \/ Assign(q) \/ AssignRole(q) \/ Hold(q) \/ Remove(q) \/ Unhold(q)
    \/ Create(q) \/ Insert(q) \/ Reorder(q) \/ Reseat(q)
    \/ Delete(q) \/ DropGrants(q) \/ DropHolders(q) \/ DropRow(q)
    \/ Base(q) \/ MakeBase(q) \/ FindRoleless(q)
    \/ SetGrants(q) \/ AddGrants(q)
    \/ Join(q) \/ NewRow(q) \/ Reactivate(q)

Idle == \A q \in Requests : pc[q] = "idle"

\* Nobody sends another request.
Quiet == Idle /\ begun = MaxRequests /\ UNCHANGED vars

Next == (\E q \in Requests : Begin(q) \/ Step(q) \/ Abort(q)) \/ Quiet

Spec == Init /\ [][Next]_vars

-----------------------------------------------------------------------------
(***************************************************************************)
(* Properties                                                              *)
(***************************************************************************)
\* No right appears in a role unless clan creation, the owner or an admin put
\* it into some role once, or MANAGE of the same grant: whatever members do
\* with roles they may edit, copy or reorder, they spread rights and make
\* none (createRole 290-298, setRoleGrants 345-362).
RightsComeFromTheTop ==
    \A r \in roles : grants[r] \subseteq Expand(granted)

\* The owner can never be kicked, leave, or lose the owner role, and the role
\* itself cannot be deleted (173-174, 188, 230, 321).
OwnerKeepsClan ==
    /\ status[Owner] = "active"
    /\ OwnerRole \in held[Owner]

\* Between requests the positions order the roles strictly, with the owner's
\* on top, unless a request died before it reseated them (createRole 274-285).
RolesAreOrdered ==
    Idle /\ aborts = 0 =>
        /\ \A r, s \in roles : r # s => pos[r] # pos[s]
        /\ \A r \in Sortable : pos[r] < pos[OwnerRole]

\* Who is no member holds no role that a later rejoin would bring back, even
\* if the request that removed him died half way (deactivateMember 444-447).
FormerMembersHoldNothing == \A u \in Users : status[u] # "active" => held[u] = {}

\* The roles a user may not act on.
AtOrAbove(u) == {r \in roles : \A mine \in held[u] : pos[mine] <= pos[r]}

\* What a statement by u may not touch: the existence, the rights and the
\* order of the roles at or above his own, and who else holds them.
KeepsRolesAbove(u) ==
    LET above == AtOrAbove(u)
    IN /\ above \subseteq roles'
       /\ \A r \in above :
            /\ grants'[r] = grants[r]
            /\ \A s \in above : pos[r] > pos[s] => pos'[r] > pos'[s]
            /\ \A s \in roles \ above : s \in roles' => pos'[r] > pos'[s]
            /\ \A s \in roles' \ roles : pos'[s] <= pos'[r]

KeepsMembersAbove(u) ==
    \A v \in Users \ {u} :
        /\ held[v] \cap AtOrAbove(u) \subseteq held'[v]
        /\ held[v] \cap AtOrAbove(u) # {} => status'[v] = status[v]

AssignsOnlyBelow(u) ==
    \A v \in Users : (held'[v] \ held[v]) \cap AtOrAbove(u) = {}

\* The highest role of the user is still where the context of q has it: a
\* cached context may be older than the last change of his roles.
KnowsItsPlace(q) ==
    LET now == Context(job[q].by).ranks
        then == ctx[q].ranks
    IN /\ \A p \in now : \E o \in then : o >= p
       /\ \A o \in then : \E p \in now : p >= o

\* q takes a step for a user who is bound by the hierarchy.
ActsUnderHierarchy(q) ==
    /\ pc[q] # "idle" /\ pc'[q] # pc[q]
    /\ job[q].op # "join" /\ KnowsItsPlace(q)
    /\ job[q].by # Owner /\ job[q].by \notin Admins

\* A member acts on roles below his own highest role only, through whatever
\* handler and in each of its statements; giving the base role to members
\* whose only role was deleted is the system's doing (ensureMembersHaveRole).
HierarchyRespected ==
    [][\A q \in Requests : ActsUnderHierarchy(q) =>
         /\ KeepsRolesAbove(job[q].by)
         /\ KeepsMembersAbove(job[q].by)
         /\ job[q].op # "delete" => AssignsOnlyBelow(job[q].by)]_vars

\* Deleting a role leaves no member without one (ensureMembersHaveRole).
DeletingLeavesNobodyRoleless ==
    [][\A q \in Requests :
         /\ job[q] # None /\ job'[q] = None
         /\ job[q].op = "delete" /\ pc[q] \notin {"delete", "dropGrants", "dropHolders"}
         /\ aborts' = aborts
         => Roleless' = {}]_vars
-----------------------------------------------------------------------------
(***************************************************************************)
(* The inductive invariant behind OwnerKeepsClan and RightsComeFromTheTop. *)
(***************************************************************************)

\* What a request at label l carries in its job, context and plan: nothing
\* directed at the owner or at the owner role, no right from nowhere.
Carries(l, j, c, f) ==
    /\ j \in Jobs
    /\ l \in Operations => j.op = l
    /\ j.op # "join" => c \in Contexts /\ c.rights \subseteq Expand(granted)
    /\ j.op = "leave" => j.who = {j.by}
    /\ j.op \in {"kick", "assign", "remove"} => j.who # {}
    /\ l = "kick" => Can(c, j.by, <<"clan_member", "DELETE">>)
    /\ l \in {"insert", "reseat"} => DOMAIN f \subseteq Roles /\ f \in [DOMAIN f -> Nat]
    /\ l \in {"dropRoles", "markLeft"} => j.op \in {"kick", "leave"}
    /\ l = "assignRole" => j.op = "assign"
    /\ l = "unhold" => j.op = "remove"
    /\ l = "insert" => j.op = "create"
    /\ l = "reseat" => j.op \in {"create", "reorder"}
    /\ l = "roleless" => j.op = "delete"
    /\ l \in {"dropHolders", "dropRow"} => j.op = "delete"
    /\ l = "dropGrants" => j.op \in {"delete", "setGrants"}
    /\ l = "addGrants" => j.op = "setGrants"
    /\ l \in {"newRow", "reactivate"} => j.op = "join"
    /\ l \in {"base", "makeBase"} => j.op \in {"delete", "join"}
    /\ l = "hold" => j.op \in {"assign", "delete", "join"}
    /\ l \in {"dropRoles", "markLeft"} => Owner \notin j.who
    /\ l \in {"unhold", "dropGrants", "dropHolders", "dropRow"} => j.role # OwnerRole
    /\ j.op = "create" => j.rights \subseteq granted
    /\ l \in {"dropGrants", "addGrants"} /\ j.op = "setGrants" =>
         Bypass(c, j.by) \/ j.rights \subseteq Expand(granted)

RequestsAreSound ==
    \A q \in Requests : pc[q] # "idle" => Carries(pc[q], job[q], ctx[q], plan[q])

\* The rights in tables and cached contexts.
RightsAreGranted ==
    /\ \A s \in Seeded : Defaults[s] \subseteq granted
    /\ \A r \in Roles : grants[r] \subseteq Expand(granted)
    /\ \A u \in Users : cached[u] # None => cached[u].rights \subseteq Expand(granted)

IInv ==
    /\ TypeOK
    /\ RequestsAreSound
    /\ OwnerKeepsClan
    /\ RightsAreGranted
=============================================================================
