-------------------------------- MODULE Rls --------------------------------
(***************************************************************************)
(* The Prisma extension that keeps clans apart, under the statements of    *)
(* ClansService.  A request has a store: the clan that ClanContextGuard    *)
(* put there, or else the clans its user belongs to, and the flag of       *)
(* runSystem.  Every statement is rewritten by the store, but a relation   *)
(* to one row is followed as it is, and rows that join two others are      *)
(* created unchecked: what a request reads stays in its clan because no    *)
(* such row ever leads out of one.                                         *)
(*                                                                         *)
(* Three models: members and roles have an id and a clan, which never      *)
(* change; links (ClanMemberRole) are pairs of ids.  Grants follow their   *)
(* role as links follow their member, and are left out.  The where of a    *)
(* statement may name any row.  Events, with rules of their own instead of *)
(* a clan, are in module Events.                                           *)
(***************************************************************************)
EXTENDS Null, Naturals

CONSTANTS
    Clans, Users,
    Members, Roles,   \* ids; cuid() gives none of them twice
    UserOf,           \* ClanMember.user_id
    Admins,           \* User.is_platform_admin: pass the guard of any clan
    Requests,
    MaxRequests       \* bound: requests in all

ASSUME RlsAssumption ==
    /\ UserOf \in [Members -> Users]
    /\ Members \cap Roles = {}
    /\ None \notin Clans \cup Users \cup Members \cup Roles
    /\ MaxRequests \in Nat

VARIABLES
    clanOf,   \* clan_id of the rows that exist or existed
    rows,     \* ids of the rows that exist
    active,   \* ClanMember with left_at null
    links,    \* rows of ClanMemberRole
    pc,       \* no request, one that runs, one inside runSystem
    user, ctx,      \* store.userId, store.clanId
    mine,           \* store.membershipClanIds, None until read
    target,         \* the clan a system section is about
    seen,           \* ids the handler was given by statements outside runSystem
    found,          \* ids it was given inside
    begun

tables == <<clanOf, rows, active, links>>
stores == <<pc, user, ctx, mine, target>>
vars == <<tables, stores, seen, found, begun>>

Ids == Members \cup Roles

TypeOK ==
    /\ clanOf \in [Ids -> Clans \cup {None}]
    /\ rows \subseteq Ids
    /\ active \subseteq Members
    /\ links \subseteq Members \X Roles
    /\ pc \in [Requests -> {"idle", "scoped", "system"}]
    /\ user \in [Requests -> Users \cup {None}]
    /\ ctx \in [Requests -> Clans \cup {None}]
    /\ mine \in [Requests -> (SUBSET Clans) \cup {None}]
    /\ target \in [Requests -> Clans \cup {None}]
    /\ seen \in [Requests -> SUBSET Ids]
    /\ found \in [Requests -> SUBSET Ids]
    /\ begun \in 0..MaxRequests

\* No clan has a row yet: the first join of each makes them.
Init ==
    /\ clanOf = [x \in Ids |-> None]
    /\ rows = {}
    /\ active = {}
    /\ links = {}
    /\ pc = [q \in Requests |-> "idle"]
    /\ user = [q \in Requests |-> None]
    /\ ctx = [q \in Requests |-> None]
    /\ mine = [q \in Requests |-> None]
    /\ target = [q \in Requests |-> None]
    /\ seen = [q \in Requests |-> {}]
    /\ found = [q \in Requests |-> {}]
    /\ begun = 0

(***************************************************************************)
(* The store and the scopes                                                *)
(***************************************************************************)
\* clanIds
ClansOf(u) == {clanOf[m] : m \in {x \in active : UserOf[x] = u}}

\* buildWhere and allowedValues: the clans a statement of q may touch.
Scope(q) ==
    CASE ctx[q] # None -> {ctx[q]}
      [] ctx[q] = None /\ mine[q] # None -> mine[q]
      [] OTHER -> {}

\* MODEL_SCOPES, by its fields: a member and a role are in the clan of their
\* own row, a link is in the clan of its member.
InScope(q, x) == clanOf[x] \in Scope(q)
LinkInScope(q, l) == InScope(q, l[1])

\* JwtAuthGuard and ClanContextGuard.  The ids of the user's clans are read
\* when the first statement without a clan asks for them.
Begin(q) ==
    /\ pc[q] = "idle"
    /\ begun < MaxRequests
    /\ begun' = begun + 1
    /\ \E u \in Users :
         /\ user' = [user EXCEPT ![q] = u]
         /\ \/ UNCHANGED ctx
            \/ \E c \in Clans :
                 /\ c \in ClansOf(u) \/ u \in Admins
                 /\ ctx' = [ctx EXCEPT ![q] = c]
    /\ pc' = [pc EXCEPT ![q] = "scoped"]
    /\ UNCHANGED <<tables, mine, target, seen, found>>

Memberships(q) ==
    /\ pc[q] = "scoped" /\ ctx[q] = None /\ mine[q] = None
    /\ mine' = [mine EXCEPT ![q] = ClansOf(user[q])]
    /\ UNCHANGED <<tables, pc, user, ctx, target, seen, found, begun>>

End(q) ==
    /\ pc[q] = "scoped"
    /\ pc' = [pc EXCEPT ![q] = "idle"]
    /\ user' = [user EXCEPT ![q] = None]
    /\ ctx' = [ctx EXCEPT ![q] = None]
    /\ mine' = [mine EXCEPT ![q] = None]
    /\ seen' = [seen EXCEPT ![q] = {}]
    /\ UNCHANGED <<tables, target, found, begun>>

(***************************************************************************)
(* Reads                                                                   *)
(***************************************************************************)
\* scopeRelations for MEMBER_INCLUDE: the links of members T, filtered, and
\* the role of each link, not filtered.
Included(q, T) == T \cup {l[2] : l \in {k \in links : k[1] \in T /\ LinkInScope(q, k)}}

See(q, X) ==
    /\ seen' = [seen EXCEPT ![q] = @ \cup X]
    /\ UNCHANGED <<tables, stores, found, begun>>

\* findMany, findFirst, count: where AND scope.  Several rows are given one by
\* one: what a request has been given adds up.
FindMembers(q) ==
    /\ pc[q] = "scoped"
    /\ \E m \in rows \cap Members : InScope(q, m) /\ See(q, Included(q, {m}))

FindRoles(q) ==
    /\ pc[q] = "scoped"
    /\ \E r \in rows \cap Roles : InScope(q, r) /\ See(q, {r})

\* findUnique: the row is fetched first and given away if it is in scope.
FindUnique(q) ==
    /\ pc[q] = "scoped"
    /\ \E m \in rows \cap Members : InScope(q, m) /\ See(q, Included(q, {m}))

(***************************************************************************)
(* Writes                                                                  *)
(***************************************************************************)
Fresh(x) == clanOf[x] = None

Insert(x, c) ==
    /\ Fresh(x)
    /\ clanOf' = [clanOf EXCEPT ![x] = c]
    /\ rows' = rows \cup {x}

\* validateCreate of a role: the clan of the context, filled in if the row
\* does not say it, and nothing without a context.
CreateRole(q) ==
    /\ pc[q] = "scoped" /\ ctx[q] # None
    /\ \E r \in Roles :
         /\ Insert(r, ctx[q])
         /\ seen' = [seen EXCEPT ![q] = @ \cup {r}]
    /\ UNCHANGED <<active, links, stores, found, begun>>

\* Mutant: the role of the body is not looked up first.
AssignAnyRole(q) ==
    /\ pc[q] = "scoped" /\ ctx[q] # None
    /\ \E m \in seen[q] \cap rows \cap Members, r \in rows \cap Roles :
         links' = links \cup {<<m, r>>}
    /\ UNCHANGED <<clanOf, rows, active, stores, seen, found, begun>>

\* assignRole: the extension checks nothing here, as the scope of the model is
\* a path; the handler has found the member and the role, which may be gone.
AssignRole(q) ==
    /\ pc[q] = "scoped" /\ ctx[q] # None
    /\ \E m \in seen[q] \cap rows \cap Members, r \in seen[q] \cap rows \cap Roles :
         links' = links \cup {<<m, r>>}
    /\ UNCHANGED <<clanOf, rows, active, stores, seen, found, begun>>

\* removeRole, deleteRole, deactivateMember: deleteMany of links, where AND
\* scope, whatever ids the request came with.
DeleteLinks(q) ==
    /\ pc[q] = "scoped" /\ ctx[q] # None
    /\ \E W \in SUBSET links : links' = links \ {l \in W : LinkInScope(q, l)}
    /\ UNCHANGED <<clanOf, rows, active, stores, seen, found, begun>>

\* deactivateMember: updateMany.
Deactivate(q) ==
    /\ pc[q] = "scoped" /\ ctx[q] # None
    /\ \E m \in rows \cap Members : InScope(q, m) /\ active' = active \ {m}
    /\ UNCHANGED <<clanOf, rows, links, stores, seen, found, begun>>

\* Mutant: the where of the request alone.
DeleteAnyRole(q) ==
    /\ pc[q] = "scoped" /\ ctx[q] # None
    /\ \E r \in rows \cap Roles :
         /\ rows' = rows \ {r}
         /\ links' = {l \in links : l[2] # r}
    /\ UNCHANGED <<clanOf, active, stores, seen, found, begun>>

\* deleteRole: deleteMany of a role; its links go with it (onDelete: Cascade).
DeleteRole(q) ==
    /\ pc[q] = "scoped" /\ ctx[q] # None
    /\ \E r \in rows \cap Roles :
         /\ InScope(q, r)
         /\ rows' = rows \ {r}
         /\ links' = {l \in links : l[2] # r}
    /\ UNCHANGED <<clanOf, active, stores, seen, found, begun>>

(***************************************************************************)
(* runSystem: statements pass the extension as they are and name the clan  *)
(* themselves.                                                             *)
(***************************************************************************)
\* join, redeem and create: any clan, from requests without a clan;
\* ensureMembersHaveRole: the clan of the role the request has deleted.
EnterSystem(q) ==
    /\ pc[q] = "scoped"
    /\ \E c \in Clans :
         /\ ctx[q] # None => c = ctx[q]
         /\ target' = [target EXCEPT ![q] = c]
    /\ pc' = [pc EXCEPT ![q] = "system"]
    /\ UNCHANGED <<tables, user, ctx, mine, seen, found, begun>>

Find(q, x) == found' = [found EXCEPT ![q] = @ \cup {x}]

\* createMember, with the user of the request; a user has one row in a clan.
CreateMember(q) ==
    /\ pc[q] = "system" /\ ctx[q] = None
    /\ \E m \in Members :
         /\ UserOf[m] = user[q]
         /\ \A n \in rows \cap Members : UserOf[n] = user[q] => clanOf[n] # target[q]
         /\ Insert(m, target[q])
         /\ active' = active \cup {m}
         /\ Find(q, m)
    /\ UNCHANGED <<links, stores, seen, begun>>

\* reactivateMember, and the members that ensureMembersHaveRole reads.
Reactivate(q) ==
    /\ pc[q] = "system"
    /\ \E m \in rows \cap Members :
         /\ clanOf[m] = target[q]
         /\ \/ ctx[q] = None /\ UserOf[m] = user[q] /\ active' = active \cup {m}
            \/ ctx[q] # None /\ m \in active /\ UNCHANGED active
         /\ Find(q, m)
    /\ UNCHANGED <<clanOf, rows, links, stores, seen, begun>>

\* baseRole: a role of the clan, or a new one.
BaseRole(q) ==
    /\ pc[q] = "system"
    /\ \E r \in Roles :
         /\ \/ r \in rows /\ clanOf[r] = target[q] /\ UNCHANGED <<clanOf, rows>>
            \/ (\A s \in rows \cap Roles : clanOf[s] # target[q]) /\ Insert(r, target[q])
         /\ Find(q, r)
    /\ UNCHANGED <<active, links, stores, seen, begun>>

LinkBase(q) ==
    /\ pc[q] = "system"
    /\ \E m \in found[q] \cap rows \cap Members, r \in found[q] \cap rows \cap Roles :
         links' = links \cup {<<m, r>>}
    /\ UNCHANGED <<clanOf, rows, active, stores, seen, found, begun>>

\* The flag is put back, also after an exception.
LeaveSystem(q) ==
    /\ pc[q] = "system"
    /\ pc' = [pc EXCEPT ![q] = "scoped"]
    /\ target' = [target EXCEPT ![q] = None]
    /\ found' = [found EXCEPT ![q] = {}]
    /\ UNCHANGED <<tables, user, ctx, mine, seen, begun>>

Scoped(q) ==
    \/ Memberships(q) \/ FindMembers(q) \/ FindRoles(q) \/ FindUnique(q)
    \/ CreateRole(q) \/ AssignRole(q) \/ DeleteLinks(q) \/ Deactivate(q) \/ DeleteRole(q)
    \/ EnterSystem(q) \/ End(q)

System(q) ==
    CreateMember(q) \/ Reactivate(q) \/ BaseRole(q) \/ LinkBase(q) \/ LeaveSystem(q)

Next == \E q \in Requests : Begin(q) \/ Scoped(q) \/ System(q)

Spec == Init /\ [][Next]_vars

-----------------------------------------------------------------------------
(***************************************************************************)
(* Properties                                                              *)
(***************************************************************************)
\* Whatever a handler is given outside runSystem, rows behind two relations
\* included, is of the clan of its context, or of a clan its user was in when
\* the request began to ask (buildWhere 31-35, scopeRelations 66-92).
ReadsStayInside == \A q \in Requests : \A x \in seen[q] : clanOf[x] \in Scope(q)

\* The clans of the rows a step creates, deletes, changes, links or unlinks.
Touched ==
    LET changed(old, new) == (old \ new) \cup (new \ old)
        moved == changed(links, links')
    IN {clanOf'[x] : x \in changed(rows, rows') \cup changed(active, active')
                           \cup {l[1] : l \in moved} \cup {l[2] : l \in moved}}

\* A statement changes rows of one clan, which is the clan of the request's
\* context or, inside runSystem, the one its section is about; the cascades
\* of the database do not leave it either.
WritesStayInside ==
    [][Touched # {} =>
         \E q \in Requests :
           /\ pc[q] = "scoped" => Touched = {ctx[q]}
           /\ pc[q] = "system" => Touched = {target[q]}
           /\ pc[q] # "idle"]_vars
-----------------------------------------------------------------------------
(***************************************************************************)
(* The inductive invariant: what joins two rows joins rows of one clan.    *)
(***************************************************************************)
RowsHaveClans ==
    /\ active \subseteq rows
    /\ \A x \in rows : clanOf[x] # None

LinksStayInside == \A l \in links : l[1] \in rows /\ l[2] \in rows /\ clanOf[l[1]] = clanOf[l[2]]

StoresStayInside ==
    \A q \in Requests :
        /\ pc[q] = "idle" => ctx[q] = None /\ mine[q] = None /\ seen[q] = {}
        /\ pc[q] = "system" => target[q] # None /\ (ctx[q] # None => target[q] = ctx[q])
        /\ \A x \in found[q] : pc[q] = "system" /\ clanOf[x] = target[q]

IInv ==
    /\ TypeOK
    /\ RowsHaveClans
    /\ LinksStayInside
    /\ StoresStayInside
    /\ ReadsStayInside
=============================================================================
