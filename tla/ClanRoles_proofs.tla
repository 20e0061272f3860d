-------------------------- MODULE ClanRoles_proofs --------------------------
(***************************************************************************)
(* Proofs about ClanRoles and ClanOffers, for any users, roles and rights, *)
(* any number of concurrent requests, contexts of any age and requests     *)
(* that die.                                                               *)
(***************************************************************************)
EXTENDS ClanOffers, FiniteSetTheorems, TLAPS

\* An order of finitely many roles leaves no seat empty.
LEMMA SeatsAreTaken ==
  ASSUME NEW S, IsFiniteSet(S), NEW f \in Seatings(S)
  PROVE  \A i \in 0..(Cardinality(S) - 1) : \E r \in S : f[r] = i
<1> DEFINE T == 0..(Cardinality(S) - 1)
<1>1. IsFiniteSet(T) /\ Cardinality(T) = Cardinality(S)
  <2>1. PICK n \in Nat : n = Cardinality(S)
    BY FS_CardinalityType
  <2>2. IsFiniteSet(0..(n - 1)) /\ Cardinality(0..(n - 1)) = n
    BY FS_Interval
  <2> QED
    BY <2>1, <2>2
<1>2. f \in Injection(S, T)
  BY DEF Seatings, Injection, IsInjective
<1>3. f \in Surjection(S, T)
  BY <1>1, <1>2, FS_Injection
<1> QED
  BY <1>3 DEF Surjection

\* Finitely many naturals have a greatest among them: the one that has the
\* last seat in their order.
LEMMA GreatestOfFinite ==
  ASSUME NEW S \in SUBSET Nat, IsFiniteSet(S), S # {}
  PROVE  \E x \in S : \A y \in S : y <= x
<1> DEFINE Below(x) == {y \in S : y < x}
           f == [x \in S |-> Cardinality(Below(x))]
<1>1. Cardinality(S) \in Nat /\ Cardinality(S) > 0
  BY FS_CardinalityType, FS_EmptySet
<1>2. ASSUME NEW x \in S PROVE IsFiniteSet(Below(x)) /\ Cardinality(Below(x)) \in 0..(Cardinality(S) - 1)
  <2>1. IsFiniteSet(Below(x)) /\ Cardinality(Below(x)) <= Cardinality(S)
    BY FS_Subset
  <2>2. x \notin Below(x)
    OBVIOUS
  <2>3. Cardinality(Below(x)) # Cardinality(S)
    BY <2>2, FS_Subset
  <2> QED
    BY <1>1, <2>1, <2>3, FS_CardinalityType
<1>3. ASSUME NEW x \in S, NEW z \in S, x < z PROVE Cardinality(Below(x)) # Cardinality(Below(z))
  <2>1. x \in Nat /\ z \in Nat /\ \A y \in S : y \in Nat
    OBVIOUS
  <2>2. x < z /\ ~(x < x) /\ \A y \in S : y < x => y < z
    BY <1>3, <2>1
  <2>3. Below(x) \subseteq Below(z) /\ x \in Below(z) /\ x \notin Below(x)
    BY <2>2
  <2> QED
    BY <1>2, <2>3, FS_Subset
<1>4. f \in Seatings(S)
  <2>1. \A x, z \in S : x # z => x < z \/ z < x
    OBVIOUS
  <2>2. \A x, z \in S : x # z => f[x] # f[z]
    BY <1>3, <2>1
  <2> QED
    BY <1>2, <2>2 DEF Seatings
<1> HIDE DEF f
<1>5. PICK x \in S : f[x] = Cardinality(S) - 1
  <2>1. Cardinality(S) - 1 \in 0..(Cardinality(S) - 1)
    BY <1>1
  <2> QED
    BY <1>4, <2>1, SeatsAreTaken
<1> USE DEF f
<1>6. ASSUME NEW y \in S, y > x PROVE FALSE
  <2>1. f[y] # f[x] /\ Below(x) \subseteq Below(y)
    <3>1. \A z \in S : z < x => z < y
      BY <1>6
    <3> QED
      BY <1>3, <1>6, <3>1
  <2>2. f[x] <= f[y]
    BY <1>2, <2>1, FS_Subset
  <2> QED
    BY <1>2, <1>5, <2>1, <2>2
<1> QED
  BY <1>6

USE PeopleAssumption, RolesAssumption, RightsAssumption, BoundsAssumption

\* More rights expand to more rights.
LEMMA ExpandGrows ==
    ASSUME NEW S \in SUBSET Rights, NEW T \in SUBSET Rights, S \subseteq T
    PROVE  Expand(S) \subseteq Expand(T)
  BY DEF Expand

\* Expansion adds nothing to what is expanded already.
LEMMA ExpandCloses ==
    ASSUME NEW S \in SUBSET Rights, NEW T \in SUBSET Rights, S \subseteq Expand(T)
    PROVE  Expand(S) \subseteq Expand(T)
<1> SUFFICES ASSUME NEW x \in Expand(S) PROVE x \in Expand(T)
  OBVIOUS
<1>1. CASE x \in S
  BY <1>1
<1>2. CASE x \in Rights /\ <<x[1], MANAGE>> \in S
  <2>1. <<x[1], MANAGE>> \in T \/ <<(<<x[1], MANAGE>>)[1], MANAGE>> \in T
    BY <1>2 DEF Expand
  <2> QED
    BY <1>2, <2>1 DEF Expand
<1> QED
  BY <1>1, <1>2 DEF Expand

\* Expansion adds rights and keeps the given ones.
LEMMA ExpandIsRights ==
    ASSUME NEW S \in SUBSET Rights
    PROVE  S \subseteq Expand(S) /\ Expand(S) \subseteq Rights
  BY DEF Expand

\* The clan as it is created, and no request in flight, satisfy the invariant.
LEMMA IInvInit == Init => IInv
<1> SUFFICES ASSUME Init PROVE IInv
  OBVIOUS
<1> USE DEF Init
<1>1. TypeOK
  <2>1. 0 \in 0..MaxRequests /\ 0 \in 0..MaxAborts
    OBVIOUS
  <2> QED
    BY <2>1 DEF TypeOK
<1>2. RequestsAreSound
  BY DEF RequestsAreSound
<1>3. OwnerKeepsClan
  BY DEF OwnerKeepsClan
<1>4. RightsAreGranted
  <2>1. granted \in SUBSET Rights /\ \A s \in Seeded : Defaults[s] \subseteq granted
    OBVIOUS
  <2>2. \A r \in Roles : grants[r] \subseteq Expand(granted)
    BY <2>1, ExpandIsRights
  <2> QED
    BY <2>1, <2>2 DEF RightsAreGranted
<1> QED
  BY <1>1, <1>2, <1>3, <1>4 DEF IInv

\* Contexts hold rights of roles only.
LEMMA ContextsOfRoles ==
    ASSUME IInv, NEW u \in Users, NEW c \in ContextsOf(u)
    PROVE  c \in Contexts /\ c.rights \subseteq Expand(granted)
<1>1. CASE c = Context(u)
  <2>1. \A r \in held[u] : r \in Roles /\ pos[r] \in Nat /\ grants[r] \in SUBSET Rights
                           /\ grants[r] \subseteq Expand(granted)
    BY DEF IInv, TypeOK, RightsAreGranted
  <2>2. /\ Context(u).owner \in BOOLEAN
        /\ Context(u).member \in BOOLEAN
        /\ Context(u).ranks \in SUBSET Nat
        /\ Context(u).rights \in SUBSET Rights
        /\ Context(u).rights \subseteq Expand(granted)
    BY <2>1 DEF Context
  <2>3. Context(u) = [owner |-> Context(u).owner, member |-> Context(u).member,
                      ranks |-> Context(u).ranks, rights |-> Context(u).rights]
    BY DEF Context
  <2> QED
    BY <1>1, <2>2, <2>3 DEF Contexts
<1>2. CASE c = cached[u] /\ cached[u] # None
  BY <1>2 DEF IInv, TypeOK, RightsAreGranted
<1> QED
  BY <1>1, <1>2 DEF ContextsOf


\* The part of TypeOK that is about requests.
RequestTypes ==
    /\ pc \in [Requests -> {"idle"} \cup Operations \cup Statements]
    /\ job \in [Requests -> Jobs \cup {None}]
    /\ ctx \in [Requests -> Contexts \cup {None}]
    /\ plan = [q \in Requests |-> plan[q]]
    /\ \A q \in Requests : plan[q] # None =>
         DOMAIN plan[q] \subseteq Roles /\ plan[q] \in [DOMAIN plan[q] -> Nat]

\* One request moves to label l with job j, context c and plan f, or ends; the
\* others stay, and no right that was granted is forgotten.
LEMMA RequestMoves ==
    ASSUME IInv, NEW q \in Requests,
           NEW l \in {"idle"} \cup Operations \cup Statements,
           NEW j \in Jobs \cup {None}, NEW c \in Contexts \cup {None}, NEW f,
           f # None => DOMAIN f \subseteq Roles /\ f \in [DOMAIN f -> Nat],
           pc' = [pc EXCEPT ![q] = l], job' = [job EXCEPT ![q] = j],
           ctx' = [ctx EXCEPT ![q] = c], plan' = [plan EXCEPT ![q] = f],
           l # "idle" => Carries(l, j, c, f),
           granted \subseteq granted', granted' \subseteq Rights
    PROVE  RequestTypes' /\ RequestsAreSound'
<1> USE DEF IInv
<1>1. /\ pc' \in [Requests -> {"idle"} \cup Operations \cup Statements]
      /\ job' \in [Requests -> Jobs \cup {None}]
      /\ ctx' \in [Requests -> Contexts \cup {None}]
  BY DEF TypeOK
<1>2. plan' = [p \in Requests |-> plan'[p]]
  BY DEF TypeOK
<1>3. pc'[q] = l /\ job'[q] = j /\ ctx'[q] = c /\ plan'[q] = f
  BY DEF TypeOK
<1>4. \A p \in Requests \ {q} : pc'[p] = pc[p] /\ job'[p] = job[p] /\ ctx'[p] = ctx[p] /\ plan'[p] = plan[p]
  BY DEF TypeOK
<1>5. \A p \in Requests : plan'[p] # None =>
        DOMAIN plan'[p] \subseteq Roles /\ plan'[p] \in [DOMAIN plan'[p] -> Nat]
  BY <1>3, <1>4 DEF TypeOK
<1>6. Expand(granted) \subseteq Expand(granted')
  BY ExpandGrows DEF TypeOK
<1>7. RequestsAreSound'
  <2> SUFFICES ASSUME NEW p \in Requests, pc'[p] # "idle"
               PROVE  Carries(pc[p], job[p], ctx[p], plan[p])'
    BY DEF RequestsAreSound
  <2>1. CASE p = q
    BY <2>1, <1>3, <1>6 DEF Carries, Bypass, Can
  <2>2. CASE p # q
    <3>1. Carries(pc[p], job[p], ctx[p], plan[p])
      BY <2>2, <1>4 DEF RequestsAreSound
    <3> QED
      BY <2>2, <3>1, <1>4, <1>6 DEF Carries, Bypass, Can
  <2> QED
    BY <2>1, <2>2
<1> QED
  BY <1>1, <1>2, <1>5, <1>7 DEF RequestTypes

\* The end of a request keeps what is said about requests.
LEMMA RequestEnds ==
    ASSUME IInv, NEW q \in Requests, End(q),
           granted \subseteq granted', granted' \subseteq Rights
    PROVE  RequestTypes' /\ RequestsAreSound'
  BY RequestMoves DEF End

\* A request may go on to a label whose statement it carries the data for.
LEMMA RequestGoes ==
    ASSUME IInv, NEW q \in Requests, NEW l \in Operations \cup Statements,
           Goto(q, l), Carries(l, job[q], ctx[q], plan[q]), UNCHANGED granted
    PROVE  RequestTypes' /\ RequestsAreSound'
<1>1. /\ job[q] \in Jobs \cup {None} /\ ctx[q] \in Contexts \cup {None}
      /\ plan[q] # None => DOMAIN plan[q] \subseteq Roles /\ plan[q] \in [DOMAIN plan[q] -> Nat]
      /\ granted' \subseteq Rights
  BY DEF IInv, TypeOK, Goto
<1>2. /\ pc' = [pc EXCEPT ![q] = l] /\ job' = [job EXCEPT ![q] = job[q]]
      /\ ctx' = [ctx EXCEPT ![q] = ctx[q]] /\ plan' = [plan EXCEPT ![q] = plan[q]]
  BY DEF IInv, TypeOK, Goto
<1> QED
  BY <1>1, <1>2, RequestMoves

\* Statements that read, and the answers to them.
LEMMA Reading ==
    ASSUME IInv, RequestTypes', RequestsAreSound', UNCHANGED <<tables, rest>>
    PROVE  IInv'
  BY DEF IInv, TypeOK, RequestTypes, OwnerKeepsClan, RightsAreGranted, tables, rest

\* A step that only reads keeps the invariant, whether it goes on or ends.
LEMMA ReadingGoesOrEnds ==
    ASSUME IInv, NEW q \in Requests, NEW l \in Statements, NEW ok \in BOOLEAN,
           GotoIf(q, ok, l), UNCHANGED <<tables, rest>>,
           ok => Carries(l, job[q], ctx[q], plan[q])
    PROVE  IInv'
<1>1. granted' = granted /\ granted \subseteq Rights
  BY DEF rest, IInv, TypeOK
<1>2. CASE ok
  <2>1. Goto(q, l) /\ Carries(l, job[q], ctx[q], plan[q])
    BY <1>2 DEF GotoIf
  <2> QED
    BY <2>1, <1>1, RequestGoes, Reading
<1>3. CASE ~ok
  BY <1>1, <1>3, RequestEnds, Reading DEF GotoIf
<1> QED
  BY <1>2, <1>3

\* The request that takes a step.
LEMMA Stepping ==
    ASSUME IInv, NEW q \in Requests, pc[q] # "idle"
    PROVE  /\ Carries(pc[q], job[q], ctx[q], plan[q])
           /\ job[q] \in Jobs
           /\ ctx[q] \in Contexts \cup {None}
           /\ plan[q] # None => DOMAIN plan[q] \subseteq Roles /\ plan[q] \in [DOMAIN plan[q] -> Nat]
           /\ granted \in SUBSET Rights
  BY DEF IInv, TypeOK, RequestsAreSound, Carries

\* The statements that only read: checks and lookups.
LEMMA ChecksKeepIInv ==
    ASSUME IInv, NEW q \in Requests,
           Kick(q) \/ Leave(q) \/ Assign(q) \/ AssignRole(q) \/ Remove(q)
             \/ Delete(q) \/ SetGrants(q) \/ Join(q)
    PROVE  IInv'
<1> USE Stepping DEF Operations, Statements
<1>1. CASE Kick(q)
  <2> DEFINE ok == \A t \in job[q].who : status[t] = "active" /\ t # Owner /\ Outranks(q, held[t])
  <2>1. ok => Carries("dropRoles", job[q], ctx[q], plan[q])
    BY <1>1 DEF Kick, Carries
  <2> QED
    BY <1>1, <2>1, ReadingGoesOrEnds DEF Kick
<1>2. CASE Leave(q)
  <2> DEFINE ok == job[q].by # Owner /\ status[job[q].by] = "active"
  <2>1. ok => Carries("dropRoles", job[q], ctx[q], plan[q])
    BY <1>2 DEF Leave, Carries
  <2> QED
    BY <1>2, <2>1, ReadingGoesOrEnds DEF Leave
<1>3. CASE Assign(q)
  <2> DEFINE ok == \A t \in job[q].who : status[t] = "active"
  <2>1. ok => Carries("assignRole", job[q], ctx[q], plan[q])
    BY <1>3 DEF Assign, Carries
  <2> QED
    BY <1>3, <2>1, ReadingGoesOrEnds DEF Assign
<1>4. CASE AssignRole(q)
  <2> DEFINE ok == job[q].role \in roles \ {OwnerRole} /\ CanManage(q, pos[job[q].role])
  <2>1. ok => Carries("hold", job[q], ctx[q], plan[q])
    BY <1>4 DEF AssignRole, Carries
  <2> QED
    BY <1>4, <2>1, ReadingGoesOrEnds DEF AssignRole
<1>5. CASE Remove(q)
  <2> DEFINE ok == job[q].role \in roles \ {OwnerRole} /\ CanManage(q, pos[job[q].role])
  <2>1. ok => Carries("unhold", job[q], ctx[q], plan[q])
    BY <1>5 DEF Remove, Carries
  <2> QED
    BY <1>5, <2>1, ReadingGoesOrEnds DEF Remove
<1>6. CASE Delete(q)
  <2> DEFINE ok == job[q].role \in roles \ {OwnerRole} /\ CanManage(q, pos[job[q].role])
  <2>1. ok => Carries("dropGrants", job[q], ctx[q], plan[q])
    BY <1>6 DEF Delete, Carries
  <2> QED
    BY <1>6, <2>1, ReadingGoesOrEnds DEF Delete
<1>7. CASE SetGrants(q)
  <2> DEFINE ok == /\ job[q].role \in roles \ {OwnerRole}
                   /\ CanManage(q, pos[job[q].role])
                   /\ job[q].rights \subseteq Effective(ctx[q], job[q].by)
  <2>1. ok => Bypass(ctx[q], job[q].by) \/ job[q].rights \subseteq Expand(granted)
    <3>1. ctx[q] \in Contexts /\ ctx[q].rights \subseteq Expand(granted)
      BY <1>7 DEF SetGrants, Carries
    <3>2. ctx[q].rights \in SUBSET Rights /\ granted \in SUBSET Rights
      BY <1>7, <3>1 DEF SetGrants, Contexts
    <3>3. Expand(ctx[q].rights) \subseteq Expand(granted)
      BY <3>1, <3>2, ExpandCloses
    <3> QED
      BY <3>3 DEF Effective
  <2>2. ok => Carries("dropGrants", job[q], ctx[q], plan[q])
    BY <1>7, <2>1 DEF SetGrants, Carries
  <2> HIDE DEF ok
  <2>3. ok \in BOOLEAN /\ GotoIf(q, ok, "dropGrants")
    BY <1>7 DEF SetGrants, ok
  <2> QED
    BY <1>7, <2>2, <2>3, ReadingGoesOrEnds DEF SetGrants
<1>8. CASE Join(q)
  <2> DEFINE ok == status[job[q].by] # "active"
             l == IF status[job[q].by] = "none" THEN "newRow" ELSE "reactivate"
  <2>1. Carries(l, job[q], ctx[q], plan[q])
    BY <1>8 DEF Join, Carries
  <2> QED
    BY <1>8, <2>1, ReadingGoesOrEnds DEF Join
<1> QED
  BY <1>1, <1>2, <1>3, <1>4, <1>5, <1>6, <1>7, <1>8

\* What is left to show of a statement that writes: its tables.
LEMMA Writing ==
    ASSUME RequestTypes', RequestsAreSound',
           roles' \subseteq Roles,
           pos' \in [Roles -> Nat],
           grants' \in [Roles -> SUBSET Rights],
           status' \in [Users -> {"none", "active", "left"}],
           held' \in [Users -> SUBSET roles'],
           cached' \in [Users -> Contexts \cup {None}],
           granted' \subseteq Rights,
           begun' \in 0..MaxRequests,
           aborts' \in 0..MaxAborts,
           OwnerKeepsClan', RightsAreGranted'
    PROVE  IInv'
  BY DEF IInv, TypeOK, RequestTypes

\* Statements on memberships.
LEMMA MembershipsKeepIInv ==
    ASSUME IInv, NEW q \in Requests,
           DropRoles(q) \/ MarkLeft(q) \/ Hold(q) \/ Unhold(q) \/ NewRow(q) \/ Reactivate(q)
    PROVE  IInv'
<1>1. /\ pc[q] # "idle"
      /\ UNCHANGED <<roles, pos, grants, rest>>
  BY DEF DropRoles, MarkLeft, Hold, Unhold, NewRow, Reactivate
<1>2. /\ Carries(pc[q], job[q], ctx[q], plan[q]) /\ job[q] \in Jobs
      /\ granted' = granted /\ granted \subseteq Rights
  BY <1>1, Stepping DEF rest
<1>3. RequestTypes' /\ RequestsAreSound'
  <2>1. CASE DropRoles(q)
    <3>1. Carries("markLeft", job[q], ctx[q], plan[q])
      BY <1>2, <2>1 DEF DropRoles, Carries, Operations
    <3> QED
      BY <1>2, <2>1, <3>1, RequestGoes DEF DropRoles, Statements
  <2>2. CASE MarkLeft(q) \/ Hold(q) \/ Unhold(q)
    BY <1>2, <2>2, RequestEnds DEF MarkLeft, Hold, Unhold
  <2>3. CASE NewRow(q) \/ Reactivate(q)
    <3>1. Carries("base", job[q], ctx[q], plan[q])
      BY <1>2, <2>3 DEF NewRow, Reactivate, Carries, Operations
    <3>2. Goto(q, "base") \/ End(q)
      BY <2>3 DEF NewRow, Reactivate
    <3> QED
      BY <1>2, <3>1, <3>2, RequestGoes, RequestEnds DEF Statements
  <2> QED
    BY <2>1, <2>2, <2>3
<1>4. status' \in [Users -> {"none", "active", "left"}] /\ status'[Owner] = "active"
  BY <1>2 DEF IInv, TypeOK, OwnerKeepsClan, Carries, Jobs, DropRoles, MarkLeft, Hold, Unhold, NewRow, Reactivate
<1>5. held' \in [Users -> SUBSET roles] /\ OwnerRole \in held'[Owner]
  BY <1>2 DEF IInv, TypeOK, OwnerKeepsClan, Carries, DropRoles, MarkLeft, Hold, Unhold, NewRow, Reactivate
<1> QED
  BY <1>1, <1>3, <1>4, <1>5, Writing DEF IInv, TypeOK, OwnerKeepsClan, RightsAreGranted, rest

\* A request that only reads, and keeps what it has read.
LEMMA RequestReads ==
    ASSUME IInv, NEW q \in Requests, NEW l \in Statements,
           NEW j \in Jobs, NEW f,
           f # None => DOMAIN f \subseteq Roles /\ f \in [DOMAIN f -> Nat],
           pc' = [pc EXCEPT ![q] = l], job' = [job EXCEPT ![q] = j],
           plan' = [plan EXCEPT ![q] = f], UNCHANGED <<ctx, granted>>,
           Carries(l, j, ctx[q], f)
    PROVE  RequestTypes' /\ RequestsAreSound'
<1>1. /\ ctx[q] \in Contexts \cup {None}
      /\ ctx' = [ctx EXCEPT ![q] = ctx[q]]
      /\ granted \subseteq granted' /\ granted' \subseteq Rights
  BY DEF IInv, TypeOK
<1> QED
  BY <1>1, RequestMoves

\* Positions read and positions planned are natural numbers.
LEMMA SeatsAreNat ==
    ASSUME NEW S \in SUBSET Roles, NEW f \in Seatings(S)
    PROVE  DOMAIN f = S /\ f \in [S -> Nat]
<1>1. Cardinality(S) \in Nat
  BY FS_Subset, FS_CardinalityType
<1> QED
  BY <1>1 DEF Seatings

\* Statements on roles and their positions.
LEMMA RolesKeepIInv ==
    ASSUME IInv, NEW q \in Requests, Create(q) \/ Insert(q) \/ Reorder(q) \/ Reseat(q)
    PROVE  IInv'
<1>0. /\ Carries(pc[q], job[q], ctx[q], plan[q]) /\ job[q] \in Jobs
      /\ Sortable \in SUBSET Roles
      /\ pc \in [Requests -> {"idle"} \cup Operations \cup Statements]
      /\ job \in [Requests -> Jobs \cup {None}]
      /\ plan = [p \in Requests |-> plan[p]]
  BY Stepping DEF Create, Insert, Reorder, Reseat, Sortable, IInv, TypeOK
<1>1. CASE Create(q)
  <2> DEFINE F(g) == [r \in Sortable |-> IF r \in Locked(q) THEN g[r] + 1 ELSE g[r]]
             j == [job[q] EXCEPT !.rights = @ \cap Effective(ctx[q], job[q].by)]
  <2>1. PICK g \in Sorted(Sortable) : plan' = [plan EXCEPT ![q] = F(g)]
    BY <1>1 DEF Create
  <2>2. DOMAIN F(g) \subseteq Roles /\ F(g) \in [DOMAIN F(g) -> Nat]
    BY <1>0, SeatsAreNat DEF Sorted
  <2>3. job' = [job EXCEPT ![q] = j] /\ j \in Jobs /\ j.op = "create"
        /\ j.rights \subseteq granted
    BY <1>0, <1>1 DEF Create, Jobs, Carries, Operations
  <2>4. ctx[q] \in Contexts /\ ctx[q].rights \subseteq Expand(granted)
    BY <1>0, <1>1 DEF Create, Carries, Operations
  <2>5. Carries("insert", j, ctx[q], F(g))
    <3> HIDE DEF j, F
    <3> QED
      BY <2>2, <2>3, <2>4 DEF Carries, Operations
  <2>6. pc' = [pc EXCEPT ![q] = "insert"] /\ UNCHANGED <<tables, ctx, rest>> /\ UNCHANGED granted
    BY <1>1 DEF Create, rest
  <2> HIDE DEF j, F
  <2>7. RequestTypes' /\ RequestsAreSound'
    BY <2>1, <2>2, <2>3, <2>5, <2>6, RequestReads DEF Statements
  <2> QED
    BY <2>6, <2>7, Reading
<1>2. CASE Insert(q)
  <2> DEFINE F(new, seat) == [r \in DOMAIN plan[q] \cup {new} |-> IF r = new THEN seat ELSE plan[q][r]]
  <2>1. PICK new \in Roles, seat \in 0..Cardinality(DOMAIN plan[q]) :
          /\ roles' = roles \cup {new}
          /\ pos' = [pos EXCEPT ![new] = 0]
          /\ grants' = [grants EXCEPT ![new] = job[q].rights]
          /\ plan' = [plan EXCEPT ![q] = F(new, seat)]
    BY <1>2 DEF Insert
  <2>2. DOMAIN plan[q] \subseteq Roles /\ plan[q] \in [DOMAIN plan[q] -> Nat] /\ job[q].op = "create"
        /\ job[q].rights \subseteq granted
    BY <1>0, <1>2 DEF Insert, Carries
  <2>3. DOMAIN F(new, seat) \subseteq Roles /\ F(new, seat) \in [DOMAIN F(new, seat) -> Nat]
    <3>1. Cardinality(DOMAIN plan[q]) \in Nat
      BY <2>2, FS_Subset, FS_CardinalityType
    <3> QED
      BY <2>2, <3>1
  <2>4. pc' = [pc EXCEPT ![q] = "reseat"] /\ UNCHANGED <<status, held, job, ctx, rest>>
        /\ UNCHANGED <<ctx, granted>>
    BY <1>2 DEF Insert, rest
  <2>5. Carries("reseat", job[q], ctx[q], F(new, seat))
    <3> HIDE DEF F
    <3> QED
      BY <1>0, <1>2, <2>2, <2>3 DEF Insert, Carries, Operations
  <2>6. job' = [job EXCEPT ![q] = job[q]]
    BY <2>4, <1>0
  <2> HIDE DEF F
  <2>7. RequestTypes' /\ RequestsAreSound'
    BY <1>0, <2>1, <2>3, <2>4, <2>5, <2>6, RequestReads DEF Statements
  <2>8. grants' \in [Roles -> SUBSET Rights] /\ \A r \in Roles : grants'[r] \subseteq Expand(granted)
    <3>1. job[q].rights \in SUBSET Rights /\ granted \in SUBSET Rights
      BY <1>0 DEF Jobs, IInv, TypeOK
    <3>2. job[q].rights \subseteq Expand(granted)
      BY <2>2, <3>1, ExpandIsRights
    <3> QED
      BY <2>1, <3>1, <3>2 DEF IInv, TypeOK, RightsAreGranted
  <2>9. roles' \subseteq Roles /\ pos' \in [Roles -> Nat] /\ held' \in [Users -> SUBSET roles']
    BY <2>1, <2>4 DEF IInv, TypeOK
  <2>10. granted' = granted /\ cached' = cached /\ begun' = begun /\ aborts' = aborts
    BY <2>4 DEF rest
  <2>11. OwnerKeepsClan' /\ RightsAreGranted'
    BY <2>4, <2>8, <2>10 DEF IInv, OwnerKeepsClan, RightsAreGranted
  <2> QED
    BY <2>4, <2>7, <2>8, <2>9, <2>10, <2>11, Writing DEF IInv, TypeOK
<1>3. CASE Reorder(q)
  <2>1. PICK f \in Seatings(Sortable) : plan' = [plan EXCEPT ![q] = f]
    BY <1>3 DEF Reorder
  <2>2. DOMAIN f \subseteq Roles /\ f \in [DOMAIN f -> Nat]
    BY <1>0, SeatsAreNat
  <2>3. pc' = [pc EXCEPT ![q] = "reseat"] /\ UNCHANGED <<tables, rest>> /\ UNCHANGED <<ctx, granted>>
        /\ job' = [job EXCEPT ![q] = job[q]]
    BY <1>0, <1>3 DEF Reorder, rest
  <2>4. Carries("reseat", job[q], ctx[q], f)
    BY <1>0, <1>3, <2>2 DEF Reorder, Carries, Operations
  <2>5. RequestTypes' /\ RequestsAreSound'
    BY <1>0, <2>1, <2>2, <2>3, <2>4, RequestReads DEF Statements
  <2> QED
    BY <2>3, <2>5, Reading
<1>4. CASE Reseat(q)
  <2>1. DOMAIN plan[q] \subseteq Roles /\ plan[q] \in [DOMAIN plan[q] -> Nat]
    BY <1>0, <1>4 DEF Reseat, Carries
  <2>2. Cardinality(DOMAIN plan[q]) \in Nat
    BY <2>1, FS_Subset, FS_CardinalityType
  <2>3. pos' \in [Roles -> Nat]
    BY <1>4, <2>1, <2>2 DEF Reseat, IInv, TypeOK
  <2>4. UNCHANGED <<roles, grants, status, held, rest>> /\ UNCHANGED granted
    BY <1>4 DEF Reseat, rest
  <2>5. RequestTypes' /\ RequestsAreSound'
    BY <1>4, <2>4, RequestEnds DEF Reseat, IInv, TypeOK
  <2> QED
    BY <2>3, <2>4, <2>5, Writing DEF IInv, TypeOK, OwnerKeepsClan, RightsAreGranted, rest
<1> QED
  BY <1>1, <1>2, <1>3, <1>4

\* Statements of deleteRole, and the first of setRoleGrants.
LEMMA DeletionsKeepIInv ==
    ASSUME IInv, NEW q \in Requests, DropGrants(q) \/ DropHolders(q) \/ DropRow(q)
    PROVE  IInv'
<1>0. /\ Carries(pc[q], job[q], ctx[q], plan[q]) /\ job[q] \in Jobs
      /\ job[q].role # OwnerRole
      /\ UNCHANGED rest
  BY Stepping DEF DropGrants, DropHolders, DropRow, Carries
<1>1. RequestTypes' /\ RequestsAreSound'
  <2>1. CASE DropGrants(q)
    <3> DEFINE l == IF job[q].op = "delete" THEN "dropHolders" ELSE "addGrants"
    <3>1. Carries(l, job[q], ctx[q], plan[q])
      BY <1>0, <2>1 DEF DropGrants, Carries, Operations
    <3> QED
      BY <1>0, <2>1, <3>1, RequestGoes DEF DropGrants, Statements, rest
  <2>2. CASE DropHolders(q)
    <3>1. Carries("dropRow", job[q], ctx[q], plan[q])
      BY <1>0, <2>2 DEF DropHolders, Carries, Operations
    <3> QED
      BY <1>0, <2>2, <3>1, RequestGoes DEF DropHolders, Statements, rest
  <2>3. CASE DropRow(q)
    <3> DEFINE j == [job[q] EXCEPT !.role = None]
    <3>1. j \in Jobs /\ job' = [job EXCEPT ![q] = j] /\ j.op = job[q].op
          /\ j.who = job[q].who /\ j.by = job[q].by /\ j.rights = job[q].rights
      BY <1>0, <2>3 DEF DropRow, Jobs, IInv, TypeOK
    <3>2. plan' = [plan EXCEPT ![q] = plan[q]] /\ pc' = [pc EXCEPT ![q] = "base"]
          /\ UNCHANGED <<ctx, granted>>
      BY <2>3 DEF DropRow, IInv, TypeOK, rest
    <3>3. Carries("base", j, ctx[q], plan[q])
      <4> HIDE DEF j
      <4> QED
        BY <1>0, <2>3, <3>1 DEF DropRow, Carries, Operations
    <3>4. plan[q] # None => DOMAIN plan[q] \subseteq Roles /\ plan[q] \in [DOMAIN plan[q] -> Nat]
      BY DEF IInv, TypeOK
    <3> HIDE DEF j
    <3> QED
      BY <3>1, <3>2, <3>3, <3>4, RequestReads DEF Statements
  <2> QED
    BY <1>0, <2>1, <2>2, <2>3
<1>3. pos' \in [Roles -> Nat]
  BY DEF DropGrants, DropHolders, DropRow, IInv, TypeOK
<1>4. grants' \in [Roles -> SUBSET Rights] /\ \A r \in Roles : grants'[r] \subseteq grants[r]
  BY DEF DropGrants, DropHolders, DropRow, IInv, TypeOK
<1>5. roles' \subseteq Roles /\ held' \in [Users -> SUBSET roles'] /\ OwnerRole \in held'[Owner]
  BY <1>0 DEF DropGrants, DropHolders, DropRow, IInv, TypeOK, OwnerKeepsClan
<1>6. UNCHANGED <<status, cached, granted, begun, aborts>>
  BY DEF DropGrants, DropHolders, DropRow, rest
<1> QED
  BY <1>1, <1>3, <1>4, <1>5, <1>6, Writing DEF IInv, TypeOK, OwnerKeepsClan, RightsAreGranted

\* A copy of the defaults is a copy of granted rights.
LEMMA BaseRolesKeepIInv ==
    ASSUME IInv, NEW q \in Requests, Base(q) \/ MakeBase(q) \/ FindRoleless(q)
    PROVE  IInv'
<1>0. /\ Carries(pc[q], job[q], ctx[q], plan[q]) /\ job[q] \in Jobs
      /\ job \in [Requests -> Jobs \cup {None}]
      /\ UNCHANGED rest /\ UNCHANGED granted
      /\ granted \in SUBSET Rights
      /\ plan[q] # None => DOMAIN plan[q] \subseteq Roles /\ plan[q] \in [DOMAIN plan[q] -> Nat]
  BY Stepping DEF Base, MakeBase, FindRoleless, rest, IInv, TypeOK
<1>1. ASSUME NEW l \in {"roleless", "hold"}, NEW j \in Jobs,
             j.op = job[q].op, j.by = job[q].by, j.rights = job[q].rights,
             j.op = "leave" => j.who = {j.by}, l = "roleless" => j.op = "delete",
             pc[q] \in {"base", "makeBase", "roleless"},
             pc' = [pc EXCEPT ![q] = l], job' = [job EXCEPT ![q] = j],
             UNCHANGED <<ctx, plan>>
      PROVE  RequestTypes' /\ RequestsAreSound'
  <2>1. Carries(l, j, ctx[q], plan[q])
    BY <1>0, <1>1 DEF Carries, Operations
  <2>2. plan' = [plan EXCEPT ![q] = plan[q]] /\ UNCHANGED <<ctx, granted>>
    BY <1>0, <1>1 DEF IInv, TypeOK
  <2>3. l \in Statements
    BY <1>1 DEF Statements
  <2> QED
    BY <1>0, <1>1, <2>1, <2>2, <2>3, RequestReads
<1>2. CASE Base(q)
  <2>1. CASE Sortable = {}
    <3>1. Goto(q, "makeBase") /\ UNCHANGED tables
      BY <1>2, <2>1 DEF Base
    <3>2. Carries("makeBase", job[q], ctx[q], plan[q])
      BY <1>0, <1>2 DEF Base, Carries, Operations
    <3> QED
      BY <1>0, <3>1, <3>2, RequestGoes, Reading DEF Statements
  <2>2. CASE Sortable # {}
    <3>1. PICK r \in Roles : job' = [job EXCEPT ![q].role = r]
      BY <1>2, <2>2 DEF Base
    <3> DEFINE j == [job[q] EXCEPT !.role = r]
               l == IF job[q].op = "delete" THEN "roleless" ELSE "hold"
    <3>2. j \in Jobs /\ job' = [job EXCEPT ![q] = j] /\ j.op = job[q].op
          /\ j.who = job[q].who /\ j.by = job[q].by /\ j.rights = job[q].rights
      BY <1>0, <3>1 DEF Jobs
    <3>3. pc' = [pc EXCEPT ![q] = l] /\ UNCHANGED <<ctx, plan>> /\ UNCHANGED tables /\ pc[q] = "base"
      BY <1>2, <2>2 DEF Base
    <3>4. j.op = "leave" => j.who = {j.by}
      BY <1>0, <3>2 DEF Carries
    <3>5. l \in {"roleless", "hold"} /\ (l = "roleless" => j.op = "delete")
      BY <3>2
    <3> HIDE DEF j, l
    <3>6. RequestTypes' /\ RequestsAreSound'
      BY <3>2, <3>3, <3>4, <3>5, <1>1
    <3> QED
      BY <1>0, <3>3, <3>6, Reading
  <2> QED
    BY <2>1, <2>2
<1>3. CASE MakeBase(q)
  <2>1. CASE MemberRoles \cap roles # {}
    <3>1. End(q) /\ UNCHANGED tables
      BY <1>3, <2>1 DEF MakeBase
    <3> QED
      BY <1>0, <3>1, RequestEnds, Reading
  <2>2. CASE MemberRoles \cap roles = {}
    <3>1. PICK new \in MemberRoles :
            /\ roles' = roles \cup {new}
            /\ pos' = [pos EXCEPT ![new] = 0]
            /\ grants' = [grants EXCEPT ![new] = Defaults[new]]
            /\ job' = [job EXCEPT ![q].role = new]
      BY <1>3, <2>2 DEF MakeBase
    <3> DEFINE j == [job[q] EXCEPT !.role = new]
               l == IF job[q].op = "delete" THEN "roleless" ELSE "hold"
    <3>2. j \in Jobs /\ job' = [job EXCEPT ![q] = j] /\ j.op = job[q].op
          /\ j.who = job[q].who /\ j.by = job[q].by /\ j.rights = job[q].rights
      BY <1>0, <3>1 DEF Jobs
    <3>3. pc' = [pc EXCEPT ![q] = l] /\ UNCHANGED <<ctx, plan>> /\ UNCHANGED <<status, held>> /\ pc[q] = "makeBase"
      BY <1>3, <2>2 DEF MakeBase
    <3>4. j.op = "leave" => j.who = {j.by}
      BY <1>0, <3>2 DEF Carries
    <3>5. l \in {"roleless", "hold"} /\ (l = "roleless" => j.op = "delete")
      BY <3>2
    <3> HIDE DEF j, l
    <3>6. RequestTypes' /\ RequestsAreSound'
      BY <3>2, <3>3, <3>4, <3>5, <1>1
    <3>7. Defaults[new] \subseteq granted
      BY <3>1 DEF IInv, RightsAreGranted
    <3>8. grants' \in [Roles -> SUBSET Rights] /\ \A r \in Roles : grants'[r] \subseteq Expand(granted)
      <4>1. Defaults[new] \in SUBSET Rights /\ Defaults[new] \subseteq Expand(granted)
        BY <1>0, <3>7, ExpandIsRights
      <4> QED
        BY <3>1, <4>1 DEF IInv, TypeOK, RightsAreGranted
    <3>9. roles' \subseteq Roles /\ pos' \in [Roles -> Nat] /\ held' \in [Users -> SUBSET roles']
      BY <3>1, <3>3 DEF IInv, TypeOK
    <3>10. OwnerKeepsClan' /\ RightsAreGranted'
      BY <1>0, <3>3, <3>8 DEF IInv, OwnerKeepsClan, RightsAreGranted, rest
    <3> QED
      BY <1>0, <3>3, <3>6, <3>8, <3>9, <3>10, Writing DEF IInv, TypeOK, rest
  <2> QED
    BY <2>1, <2>2
<1>4. CASE FindRoleless(q)
  <2> DEFINE j == [job[q] EXCEPT !.who = Roleless]
  <2>1. j \in Jobs /\ job' = [job EXCEPT ![q] = j] /\ j.op = job[q].op
        /\ j.by = job[q].by /\ j.rights = job[q].rights
    BY <1>0, <1>4 DEF FindRoleless, Jobs, Roleless
  <2>2. pc' = [pc EXCEPT ![q] = "hold"] /\ UNCHANGED <<ctx, plan>> /\ UNCHANGED tables /\ pc[q] = "roleless"
    BY <1>4 DEF FindRoleless
  <2>3. j.op = "delete"
    BY <1>0, <2>1, <2>2 DEF Carries
  <2> HIDE DEF j
  <2>4. RequestTypes' /\ RequestsAreSound'
    BY <2>1, <2>2, <2>3, <1>1
  <2> QED
    BY <1>0, <2>2, <2>4, Reading
<1> QED
  BY <1>2, <1>3, <1>4

\* The rows written are the rights of a user who has them, or are granted by
\* this very statement.
LEMMA AddGrantsKeepsIInv ==
    ASSUME IInv, NEW q \in Requests, AddGrants(q)
    PROVE  IInv'
<1>0. /\ Carries("addGrants", job[q], ctx[q], plan[q]) /\ job[q] \in Jobs
      /\ job[q].rights \in SUBSET Rights /\ granted \in SUBSET Rights
      /\ UNCHANGED <<roles, pos, status, held, cached, begun, aborts>>
  BY Stepping DEF AddGrants, Jobs
<1>1. granted \subseteq granted' /\ granted' \in SUBSET Rights
  BY <1>0 DEF AddGrants
<1>2. Expand(granted) \subseteq Expand(granted')
  BY <1>0, <1>1, ExpandGrows
<1>3. grants' = grants \/ job[q].rights \subseteq Expand(granted')
  <2>1. CASE Bypass(ctx[q], job[q].by)
    <3>1. grants' = grants \/ job[q].rights \subseteq granted'
      BY <2>1 DEF AddGrants
    <3> QED
      BY <1>1, <3>1, ExpandIsRights
  <2>2. CASE ~Bypass(ctx[q], job[q].by)
    BY <1>0, <1>2, <2>2 DEF Carries
  <2> QED
    BY <2>1, <2>2
<1>4. grants' \in [Roles -> SUBSET Rights] /\ \A r \in Roles : grants'[r] \subseteq Expand(granted')
  <2>1. grants \in [Roles -> SUBSET Rights] /\ \A r \in Roles : grants[r] \subseteq Expand(granted')
    BY <1>2 DEF IInv, TypeOK, RightsAreGranted
  <2>2. grants' = grants \/ grants' = [grants EXCEPT ![job[q].role] = @ \cup job[q].rights]
    BY DEF AddGrants
  <2> QED
    BY <1>0, <1>3, <2>1, <2>2
<1>5. RequestTypes' /\ RequestsAreSound'
  BY <1>1, RequestEnds DEF AddGrants
<1>6. RightsAreGranted'
  BY <1>0, <1>1, <1>2, <1>4 DEF IInv, RightsAreGranted
<1> QED
  BY <1>0, <1>1, <1>4, <1>5, <1>6, Writing DEF IInv, TypeOK, OwnerKeepsClan

\* What the jobs of requests have in common when they are sent.
SentWith(j) ==
    /\ j.op \in {"join", "leave"} => j.who = {j.by}
    /\ j.op = "delete" => j.who = {}
    /\ j.op \in {"kick", "assign", "remove"} => j.who # {}
    /\ j.op = "create" => j.rights \subseteq granted

\* A request starts with a job, and with one of the contexts there are of its
\* user unless it asks to join.
LEMMA JobsBegun ==
  ASSUME IInv, NEW q \in Requests, Begin(q)
  PROVE  \E c, j : /\ Start(q, c, j) /\ j \in Jobs /\ SentWith(j)
                   /\ c = None \/ c \in ContextsOf(j.by)
                   /\ j.op # "join" => c \in ContextsOf(j.by)
                   /\ j.op = "kick" => Can(c, j.by, <<"clan_member", "DELETE">>)
                   /\ cached' \in {cached, [cached EXCEPT ![j.by] = Context(j.by)]}
<1> DEFINE Begun == \E c, j : /\ Start(q, c, j) /\ j \in Jobs /\ SentWith(j)
                              /\ c = None \/ c \in ContextsOf(j.by)
                              /\ j.op # "join" => c \in ContextsOf(j.by)
                              /\ j.op = "kick" => Can(c, j.by, <<"clan_member", "DELETE">>)
                              /\ cached' \in {cached, [cached EXCEPT ![j.by] = Context(j.by)]}
<1> SUFFICES Begun
  OBVIOUS
<1>1. PICK u \in Users :
         \/ \E t \in Users : BeginKick(q, u, t)
         \/ \E t \in Users, r \in roles : BeginAssign(q, u, t, r)
         \/ \E t \in Users, r \in roles : BeginRemove(q, u, t, r)
         \/ BeginReorder(q, u)
         \/ \E r \in roles : BeginDelete(q, u, r)
         \/ \E r \in roles, rows \in GrantChoices : BeginSetGrants(q, u, r, rows)
         \/ \E tpl \in (Seeded \ {OwnerRole}) \cup {None} : BeginCreate(q, u, tpl)
         \/ BeginLeave(q, u)
         \/ BeginJoin(q, u)
  BY DEF Begin
<1>2. roles \subseteq Roles
  BY DEF IInv, TypeOK
<1>3. ASSUME NEW op \in Operations, NEW S \in SUBSET Users, NEW r \in Roles \cup {None},
             NEW R \in SUBSET Rights
      PROVE  /\ Job(op, u, S, r, R) \in Jobs
             /\ Job(op, u, S, r, R).op = op /\ Job(op, u, S, r, R).by = u
             /\ op \in {"join", "leave"} /\ S = {u} => SentWith(Job(op, u, S, r, R))
             /\ op \in {"delete", "reorder", "setGrants"} /\ S = {} => SentWith(Job(op, u, S, r, R))
             /\ op \in {"kick", "assign", "remove"} /\ S # {} => SentWith(Job(op, u, S, r, R))
             /\ op = "create" /\ R \subseteq granted => SentWith(Job(op, u, S, r, R))
  BY DEF Job, Jobs, SentWith
<1>4. ASSUME NEW v, NEW c, Guarded(v, c)
      PROVE  cached' \in {cached, [cached EXCEPT ![v] = Context(v)]}
  BY <1>4 DEF Guarded
<1>5. ASSUME NEW j, NEW right, Enter(q, j, right), j \in Jobs, SentWith(j),
             j.op = "kick" => right = <<"clan_member", "DELETE">>
      PROVE  Begun
  <2>1. PICK c \in ContextsOf(j.by) : Guarded(j.by, c) /\ Can(c, j.by, right) /\ Start(q, c, j)
    BY <1>5 DEF Enter
  <2> QED
    BY <1>4, <1>5, <2>1
<1> USE DEF Operations
<1> HIDE DEF Begun
<1>6. CASE \E t \in Users : BeginKick(q, u, t)
  BY <1>3, <1>5, <1>6 DEF BeginKick
<1>7. CASE \E t \in Users, r \in roles : BeginAssign(q, u, t, r)
  BY <1>2, <1>3, <1>5, <1>7 DEF BeginAssign
<1>8. CASE \E t \in Users, r \in roles : BeginRemove(q, u, t, r)
  BY <1>2, <1>3, <1>5, <1>8 DEF BeginRemove
<1>9. CASE BeginReorder(q, u)
  BY <1>3, <1>5, <1>9 DEF BeginReorder
<1>10. CASE \E r \in roles : BeginDelete(q, u, r)
  BY <1>2, <1>3, <1>5, <1>10 DEF BeginDelete
<1>11. CASE \E r \in roles, rows \in GrantChoices : BeginSetGrants(q, u, r, rows)
  BY <1>2, <1>3, <1>5, <1>11 DEF BeginSetGrants
<1>12. CASE \E tpl \in (Seeded \ {OwnerRole}) \cup {None} : BeginCreate(q, u, tpl)
  <2>1. PICK tpl \in (Seeded \ {OwnerRole}) \cup {None} : BeginCreate(q, u, tpl)
    BY <1>12
  <2>2. PICK R : R = IF tpl = None THEN {} ELSE Defaults[tpl]
    OBVIOUS
  <2>3. R \in SUBSET Rights /\ R \subseteq granted
    BY <2>2 DEF IInv, RightsAreGranted
  <2>4. Enter(q, Job("create", u, {}, None, R), <<"clan_role", "CREATE">>)
    BY <2>1, <2>2 DEF BeginCreate
  <2> QED
    BY <1>3, <1>5, <2>3, <2>4
<1>13. CASE BeginLeave(q, u)
  <2>1. PICK j : j = Job("leave", u, {u}, None, {})
    OBVIOUS
  <2>2. j \in Jobs /\ SentWith(j) /\ j.op = "leave" /\ j.by = u
    BY <1>3, <2>1
  <2>3. PICK c \in ContextsOf(u) : Guarded(u, c) /\ Start(q, c, j)
    BY <1>13, <2>1 DEF BeginLeave
  <2> QED
    BY <1>4, <2>2, <2>3 DEF Begun
<1>14. CASE BeginJoin(q, u)
  <2>1. PICK j : j = Job("join", u, {u}, None, {})
    OBVIOUS
  <2>2. j \in Jobs /\ SentWith(j) /\ j.op = "join"
    BY <1>3, <2>1
  <2>3. Start(q, None, j) /\ cached' = cached
    BY <1>14, <2>1 DEF BeginJoin
  <2> QED
    BY <2>2, <2>3 DEF Begun
<1> QED
  BY <1>1, <1>6, <1>7, <1>8, <1>9, <1>10, <1>11, <1>12, <1>13, <1>14

\* A request starts with the data that its handler expects.
LEMMA BeginKeepsIInv ==
    ASSUME IInv, NEW q \in Requests, Begin(q)
    PROVE  IInv'
<1>1. PICK c, j : /\ Start(q, c, j) /\ j \in Jobs /\ SentWith(j)
                  /\ c = None \/ c \in ContextsOf(j.by)
                  /\ j.op # "join" => c \in ContextsOf(j.by)
                  /\ j.op = "kick" => Can(c, j.by, <<"clan_member", "DELETE">>)
                  /\ cached' \in {cached, [cached EXCEPT ![j.by] = Context(j.by)]}
  BY JobsBegun
<1>2. j.by \in Users /\ j.op \in Operations
  BY <1>1 DEF Jobs
<1>3. \A d \in ContextsOf(j.by) : d \in Contexts /\ d.rights \subseteq Expand(granted)
  BY <1>2, ContextsOfRoles
<1>4. Context(j.by) \in ContextsOf(j.by)
  BY DEF ContextsOf
<1>5. /\ cached' \in [Users -> Contexts \cup {None}]
      /\ \A v \in Users : cached'[v] # None => cached'[v].rights \subseteq Expand(granted)
  BY <1>1, <1>2, <1>3, <1>4 DEF IInv, TypeOK, RightsAreGranted
<1>6. /\ pc' = [pc EXCEPT ![q] = j.op] /\ job' = [job EXCEPT ![q] = j]
      /\ ctx' = [ctx EXCEPT ![q] = c] /\ plan' = [plan EXCEPT ![q] = plan[q]]
      /\ UNCHANGED <<roles, pos, grants, status, held, granted, aborts>>
      /\ begun' = begun + 1
  BY <1>1 DEF Start, tables, IInv, TypeOK
<1>7. \A l \in Operations : l \notin Statements /\ l # "idle"
  BY DEF Operations, Statements
<1>8. Carries(j.op, j, c, plan[q])
  BY <1>1, <1>2, <1>3, <1>7 DEF Carries, SentWith, Statements
<1>9. RequestTypes' /\ RequestsAreSound'
  <2>1. /\ plan[q] # None => DOMAIN plan[q] \subseteq Roles /\ plan[q] \in [DOMAIN plan[q] -> Nat]
        /\ granted \subseteq granted' /\ granted' \subseteq Rights
    BY <1>6 DEF IInv, TypeOK
  <2> QED
    BY <1>1, <1>2, <1>3, <1>6, <1>8, <2>1, RequestMoves
<1>10. begun' \in 0..MaxRequests
  BY <1>6 DEF Begin, IInv, TypeOK
<1> QED
  BY <1>5, <1>6, <1>9, <1>10, Writing DEF IInv, TypeOK, OwnerKeepsClan, RightsAreGranted

\* Every action keeps the invariant.
LEMMA IInvStep == IInv /\ [Next]_vars => IInv'
<1> SUFFICES ASSUME IInv, [Next]_vars PROVE IInv'
  OBVIOUS
<1>1. ASSUME NEW q \in Requests, Begin(q) PROVE IInv'
  BY <1>1, BeginKeepsIInv
<1>2. ASSUME NEW q \in Requests, Step(q) PROVE IInv'
  BY <1>2, ChecksKeepIInv, MembershipsKeepIInv, RolesKeepIInv, DeletionsKeepIInv,
     BaseRolesKeepIInv, AddGrantsKeepsIInv DEF Step
<1>3. ASSUME NEW q \in Requests, Abort(q) PROVE IInv'
  <2>1. UNCHANGED <<roles, pos, grants, status, held, cached, granted, begun>> /\ aborts' \in 0..MaxAborts
    BY <1>3 DEF Abort, tables, IInv, TypeOK
  <2>2. RequestTypes' /\ RequestsAreSound'
    BY <1>3, <2>1, RequestEnds DEF Abort, IInv, TypeOK
  <2> QED
    BY <2>1, <2>2, Writing DEF IInv, TypeOK, OwnerKeepsClan, RightsAreGranted
<1>4. CASE UNCHANGED vars
  BY <1>4 DEF vars, IInv, TypeOK, RequestsAreSound, OwnerKeepsClan, RightsAreGranted, Carries, Bypass, Can
<1> QED
  BY <1>1, <1>2, <1>3, <1>4 DEF Next, Quiet

\* The invariant holds in every reachable state.
LEMMA Invariance == Spec => []IInv
  BY IInvInit, IInvStep, PTL DEF Spec

\* In every clan, whatever its members do at the same time, the tables and the
\* requests in flight keep their types; no member holds a role that is gone.
THEOREM TypeCorrect == Spec => []TypeOK
<1>1. IInv => TypeOK
  BY DEF IInv
<1> QED
  BY <1>1, Invariance, PTL

\* Rights come from clan creation, the owner and admins: no sequence of role
\* edits of members, on whatever stale context, makes a right that nobody of
\* these put into a role.
THEOREM RightsSound == Spec => []RightsComeFromTheTop
<1>1. IInv => RightsComeFromTheTop
  BY DEF IInv, TypeOK, RightsAreGranted, RightsComeFromTheTop
<1> QED
  BY <1>1, Invariance, PTL

\* The owner stays an active member and keeps the owner role.
THEOREM OwnerStays == Spec => []OwnerKeepsClan
<1>1. IInv => OwnerKeepsClan
  BY DEF IInv
<1> QED
  BY <1>1, Invariance, PTL

-----------------------------------------------------------------------------
(***************************************************************************)
(* One request at a time                                                   *)
(***************************************************************************)
OneAtATime == \A p, q \in Requests : p = q

\* Who is about to get a role, or to be left, is who the checks found; whoever
\* is no member holds nothing.
MembersAreKnown ==
    /\ FormerMembersHoldNothing
    /\ \A q \in Requests :
         /\ pc[q] \in {"assignRole", "hold"} => \A u \in job[q].who : status[u] = "active"
         /\ pc[q] \in {"base", "makeBase"} /\ job[q].op = "join" =>
              \A u \in job[q].who : status[u] = "active"
         /\ pc[q] \in {"newRow", "reactivate"} => job[q].op = "join" /\ job[q].who = {job[q].by}
         /\ pc[q] = "join" => job[q].who = {job[q].by}
         /\ pc[q] \in {"base", "makeBase"} /\ job[q].op # "join" => job[q].op = "delete"
         /\ pc[q] = "delete" \/ (pc[q] # "idle" /\ pc[q] \notin {"roleless", "hold"} /\ job[q].op = "delete")
              => job[q].who = {}
         /\ pc[q] = "markLeft" => \A u \in job[q].who : held[u] = {}

\* Nobody holds a role in the clan as it is created without being a member.
LEMMA MembersInit == Init => MembersAreKnown
  BY DEF Init, MembersAreKnown, FormerMembersHoldNothing

\* What a request does to its own place and locals.
LEMMA Alone ==
  ASSUME IInv, OneAtATime, NEW q \in Requests
  PROVE  /\ \A p \in Requests : p = q
         /\ \A l : pc' = [pc EXCEPT ![q] = l] => pc'[q] = l
         /\ \A j : job' = [job EXCEPT ![q] = j] => job'[q] = j
         /\ \A f : plan' = [plan EXCEPT ![q] = f] => plan'[q] = f
<1>1. pc = [p \in Requests |-> pc[p]] /\ job = [p \in Requests |-> job[p]] /\ plan = [p \in Requests |-> plan[p]]
  BY DEF IInv, TypeOK
<1> QED
  BY <1>1 DEF OneAtATime

\* A request that ends leaves nothing to know.
LEMMA MembersEnd ==
  ASSUME IInv, OneAtATime, NEW q \in Requests, End(q), FormerMembersHoldNothing'
  PROVE  MembersAreKnown'
<1>1. pc'[q] = "idle"
  BY Alone DEF End
<1> QED
  BY <1>1, Alone DEF MembersAreKnown

\* No statement brings a role to somebody who is no member, ...
LEMMA MembersStep ==
  ASSUME IInv, OneAtATime, MembersAreKnown, NEW q \in Requests, Step(q)
  PROVE  MembersAreKnown'
<1> DEFINE l == pc[q]
<1>1. /\ \A p \in Requests : p = q
      /\ pc[q] # "idle"
      /\ held \in [Users -> SUBSET roles] /\ status \in [Users -> {"none", "active", "left"}]
  BY OneAtATime DEF OneAtATime, IInv, TypeOK, Step, Kick, Leave, DropRoles, MarkLeft, Assign, AssignRole, Hold,
     Remove, Unhold, Create, Insert, Reorder, Reseat, Delete, DropGrants, DropHolders, DropRow, Base, MakeBase,
     FindRoleless, SetGrants, AddGrants, Join, NewRow, Reactivate
<1>2. job[q] \in Jobs
  BY <1>1, Stepping
<1>3. CASE Kick(q) \/ Leave(q) \/ Remove(q) \/ SetGrants(q)
  <2>1. UNCHANGED <<status, held>>
    BY <1>3 DEF Kick, Leave, Remove, SetGrants, tables
  <2>2. CASE End(q)
    BY <2>1, <2>2, MembersEnd DEF MembersAreKnown, FormerMembersHoldNothing
  <2>3. CASE ~End(q)
    <3>1. /\ job' = job
          /\ pc'[q] \in {"dropRoles", "unhold"} \/ (pc'[q] = "dropGrants" /\ pc[q] = "setGrants")
      BY <1>3, <2>3, Alone DEF Kick, Leave, Remove, SetGrants, GotoIf, Goto
    <3>2. job[q].op \in {"kick", "leave", "remove", "setGrants"}
      BY <1>1, <1>3, Stepping DEF Carries, Operations, Kick, Leave, Remove, SetGrants
    <3> QED
      BY <1>1, <2>1, <3>1, <3>2 DEF MembersAreKnown, FormerMembersHoldNothing
  <2> QED
    BY <2>2, <2>3
<1>4. CASE Assign(q) \/ AssignRole(q) \/ Delete(q) \/ Join(q)
  <2>1. UNCHANGED <<status, held>>
    BY <1>4 DEF Assign, AssignRole, Delete, Join, tables
  <2>2. CASE End(q)
    BY <2>1, <2>2, MembersEnd DEF MembersAreKnown, FormerMembersHoldNothing
  <2>3. CASE ~End(q)
    <3>0. job' = job
      BY <1>4, <2>3 DEF Assign, AssignRole, Delete, Join, GotoIf, Goto
    <3>1. CASE Assign(q)
      <4>1. pc'[q] = "assignRole" /\ \A t \in job[q].who : status[t] = "active"
        BY <2>3, <3>1, Alone DEF Assign, GotoIf, Goto
      <4>2. job[q].op = "assign"
        BY <1>1, <3>1, Stepping DEF Carries, Operations, Assign
      <4> QED
        BY <1>1, <2>1, <3>0, <4>1, <4>2 DEF MembersAreKnown, FormerMembersHoldNothing
    <3>2. CASE AssignRole(q)
      <4>1. pc'[q] = "hold" /\ pc[q] = "assignRole"
        BY <2>3, <3>2, Alone DEF AssignRole, GotoIf, Goto
      <4> QED
        BY <1>1, <2>1, <3>0, <4>1 DEF MembersAreKnown, FormerMembersHoldNothing
    <3>3. CASE Delete(q)
      <4>1. pc'[q] = "dropGrants" /\ pc[q] = "delete"
        BY <2>3, <3>3, Alone DEF Delete, GotoIf, Goto
      <4> QED
        BY <1>1, <2>1, <3>0, <4>1 DEF MembersAreKnown, FormerMembersHoldNothing
    <3>4. CASE Join(q)
      <4>1. pc'[q] \in {"newRow", "reactivate"} /\ pc[q] = "join"
        BY <2>3, <3>4, Alone DEF Join, GotoIf, Goto
      <4>2. job[q].op = "join"
        BY <1>1, <3>4, Stepping DEF Carries, Operations, Join
      <4> QED
        BY <1>1, <2>1, <3>0, <4>1, <4>2 DEF MembersAreKnown, FormerMembersHoldNothing
    <3> QED
      BY <1>4, <3>1, <3>2, <3>3, <3>4
  <2> QED
    BY <2>2, <2>3
<1>5. CASE DropRoles(q)
  <2>1. /\ pc'[q] = "markLeft" /\ job' = job /\ status' = status
        /\ held' = [u \in Users |-> IF u \in job[q].who THEN {} ELSE held[u]]
    BY <1>5, Alone DEF DropRoles, Goto
  <2>2. job[q].who \subseteq Users
    BY <1>2 DEF Jobs
  <2>3. job[q].op # "delete" \/ job[q].who = {}
    BY <1>1, <1>5 DEF MembersAreKnown, DropRoles
  <2> QED
    BY <1>1, <2>1, <2>2, <2>3 DEF MembersAreKnown, FormerMembersHoldNothing
<1>6. CASE MarkLeft(q)
  <2>1. held' = held /\ status' = [u \in Users |-> IF u \in job[q].who THEN "left" ELSE status[u]]
    BY <1>6 DEF MarkLeft
  <2>2. FormerMembersHoldNothing'
    BY <1>6, <2>1 DEF MembersAreKnown, FormerMembersHoldNothing, MarkLeft
  <2> QED
    BY <1>6, <2>2, MembersEnd DEF MarkLeft
<1>7. CASE Hold(q) \/ Unhold(q)
  <2>1. FormerMembersHoldNothing'
    <3>1. CASE Hold(q)
      BY <3>1 DEF MembersAreKnown, FormerMembersHoldNothing, Hold
    <3>2. CASE Unhold(q)
      BY <3>2 DEF MembersAreKnown, FormerMembersHoldNothing, Unhold
    <3> QED
      BY <1>7, <3>1, <3>2
  <2> QED
    BY <1>7, <2>1, MembersEnd DEF Hold, Unhold
<1>8. CASE Create(q) \/ Insert(q) \/ Reorder(q) \/ Reseat(q) \/ AddGrants(q)
  <2>1. UNCHANGED <<status, held>>
    BY <1>8 DEF Create, Insert, Reorder, Reseat, AddGrants, tables
  <2>2. CASE Reseat(q) \/ AddGrants(q)
    BY <2>1, <2>2, MembersEnd DEF Reseat, AddGrants, MembersAreKnown, FormerMembersHoldNothing
  <2>3. CASE Create(q) \/ Insert(q) \/ Reorder(q)
    <3>1. pc'[q] \in {"insert", "reseat"}
      BY <2>3, Alone DEF Create, Insert, Reorder
    <3>2. job'[q].op # "delete"
      <4>1. CASE Create(q)
        <5>1. job[q].op = "create"
          BY <1>1, <4>1, Stepping DEF Carries, Operations, Create
        <5>2. PICK S : job' = [job EXCEPT ![q].rights = S]
          BY <4>1 DEF Create
        <5>3. PICK j : j = [job[q] EXCEPT !.rights = S]
          OBVIOUS
        <5>4. j.op = "create"
          BY <1>2, <5>1, <5>3 DEF Jobs
        <5>5. job' = [job EXCEPT ![q] = j]
          BY <5>2, <5>3
        <5> QED
          BY <5>4, <5>5, Alone
      <4>2. CASE Insert(q)
        BY <1>1, <4>2, Stepping DEF Carries, Insert
      <4>3. CASE Reorder(q)
        BY <1>1, <4>3, Stepping DEF Carries, Operations, Reorder
      <4> QED
        BY <2>3, <4>1, <4>2, <4>3
    <3> QED
      BY <1>1, <2>1, <3>1, <3>2 DEF MembersAreKnown, FormerMembersHoldNothing
  <2> QED
    BY <1>8, <2>2, <2>3
<1>9. CASE DropGrants(q) \/ DropHolders(q)
  <2>1. /\ job' = job /\ status' = status /\ pc'[q] \in {"dropHolders", "addGrants", "dropRow"}
        /\ \A u \in Users : held'[u] \subseteq held[u]
    <3>1. CASE DropGrants(q)
      <4>1. PICK m : m = IF job[q].op = "delete" THEN "dropHolders" ELSE "addGrants"
        OBVIOUS
      <4>2. job' = job /\ status' = status /\ held' = held /\ pc' = [pc EXCEPT ![q] = m]
        BY <3>1, <4>1 DEF DropGrants, Goto
      <4> QED
        BY <4>1, <4>2, Alone
    <3>2. CASE DropHolders(q)
      <4>1. /\ job' = job /\ status' = status /\ pc' = [pc EXCEPT ![q] = "dropRow"]
            /\ held' = [u \in Users |-> held[u] \ {job[q].role}]
        BY <3>2 DEF DropHolders, Goto
      <4> QED
        BY <4>1, Alone
    <3> QED
      BY <1>9, <3>1, <3>2
  <2>2. pc[q] \in {"dropGrants", "dropHolders"}
    BY <1>9 DEF DropGrants, DropHolders
  <2> QED
    BY <1>1, <2>1, <2>2 DEF MembersAreKnown, FormerMembersHoldNothing
<1>10. CASE DropRow(q)
  <2>1. /\ job' = [job EXCEPT ![q].role = None] /\ status' = status
        /\ pc' = [pc EXCEPT ![q] = "base"] /\ \A u \in Users : held'[u] \subseteq held[u]
    BY <1>10 DEF DropRow
  <2>2. PICK j : j = [job[q] EXCEPT !.role = None]
    OBVIOUS
  <2>3. job[q].op = "delete" /\ job[q].who = {}
    BY <1>1, <1>10, Stepping DEF DropRow, Carries, MembersAreKnown
  <2>4. j.op = "delete" /\ j.who = {}
    BY <1>2, <2>2, <2>3 DEF Jobs
  <2>5. job' = [job EXCEPT ![q] = j]
    BY <2>1, <2>2
  <2>6. job'[q] = j /\ pc'[q] = "base"
    BY <2>1, <2>5, Alone
  <2>7. FormerMembersHoldNothing'
    BY <2>1 DEF MembersAreKnown, FormerMembersHoldNothing
  <2> QED
    BY <1>1, <2>4, <2>6, <2>7 DEF MembersAreKnown
<1>11. CASE Base(q) \/ MakeBase(q)
  <2>1. status' = status /\ held' = held
    BY <1>11 DEF Base, MakeBase, tables
  <2>2. pc[q] \in {"base", "makeBase"}
    BY <1>11 DEF Base, MakeBase
  <2>3. CASE End(q)
    BY <2>1, <2>3, MembersEnd DEF MembersAreKnown, FormerMembersHoldNothing
  <2>4. CASE Goto(q, "makeBase")
    <3>1. pc'[q] = "makeBase" /\ job' = job
      BY <2>4, Alone DEF Goto
    <3> QED
      BY <1>1, <2>1, <2>2, <3>1 DEF MembersAreKnown, FormerMembersHoldNothing
  <2>5. CASE ~End(q) /\ ~Goto(q, "makeBase")
    <3>1. PICK r : /\ job' = [job EXCEPT ![q].role = r]
                   /\ pc' = [pc EXCEPT ![q] = IF job[q].op = "delete" THEN "roleless" ELSE "hold"]
      BY <1>11, <2>5 DEF Base, MakeBase
    <3>2. PICK j : j = [job[q] EXCEPT !.role = r]
      OBVIOUS
    <3>3. j.op = job[q].op /\ j.who = job[q].who
      BY <1>2, <3>2 DEF Jobs
    <3>4. job'[q] = j /\ pc'[q] = IF job[q].op = "delete" THEN "roleless" ELSE "hold"
      BY <3>1, <3>2, Alone
    <3> QED
      BY <1>1, <2>1, <2>2, <3>3, <3>4 DEF MembersAreKnown, FormerMembersHoldNothing
  <2> QED
    BY <2>3, <2>4, <2>5
<1>12. CASE FindRoleless(q)
  <2>1. /\ job' = [job EXCEPT ![q].who = Roleless] /\ pc' = [pc EXCEPT ![q] = "hold"]
        /\ status' = status /\ held' = held
    BY <1>12 DEF FindRoleless, tables
  <2>2. PICK j : j = [job[q] EXCEPT !.who = Roleless]
    OBVIOUS
  <2>3. j.who = Roleless
    BY <1>2, <2>2 DEF Jobs
  <2>4. job'[q] = j /\ pc'[q] = "hold"
    BY <2>1, <2>2, Alone
  <2> QED
    BY <1>1, <2>1, <2>3, <2>4 DEF MembersAreKnown, FormerMembersHoldNothing, Roleless
<1>13. CASE NewRow(q) \/ Reactivate(q)
  <2>1. CASE End(q) /\ UNCHANGED <<status, held>>
    BY <2>1, MembersEnd DEF MembersAreKnown, FormerMembersHoldNothing
  <2>2. CASE ~(End(q) /\ UNCHANGED <<status, held>>)
    <3>1. /\ job' = job /\ pc'[q] = "base" /\ held' = held
          /\ status' = [status EXCEPT ![job[q].by] = "active"]
      BY <1>13, <2>2, Alone DEF NewRow, Reactivate, Goto
    <3>2. job[q].by \in Users /\ job[q].who = {job[q].by} /\ job[q].op = "join"
      BY <1>1, <1>2, <1>13 DEF Jobs, NewRow, Reactivate, MembersAreKnown
    <3>3. \A u \in Users : status'[u] = IF u = job[q].by THEN "active" ELSE status[u]
      BY <1>1, <3>1
    <3>4. FormerMembersHoldNothing'
      BY <3>1, <3>3 DEF MembersAreKnown, FormerMembersHoldNothing
    <3> QED
      BY <1>1, <3>1, <3>2, <3>3, <3>4 DEF MembersAreKnown
  <2> QED
    BY <2>1, <2>2
<1> QED
  BY <1>3, <1>4, <1>5, <1>6, <1>7, <1>8, <1>9, <1>10, <1>11, <1>12, <1>13 DEF Step

\* ... and so does no beginning and no death of a request.
LEMMA MembersKnownNext ==
  ASSUME OneAtATime
  PROVE  IInv /\ MembersAreKnown /\ [Next]_vars => MembersAreKnown'
<1> SUFFICES ASSUME IInv, MembersAreKnown, [Next]_vars PROVE MembersAreKnown'
  OBVIOUS
<1>1. ASSUME NEW q \in Requests, Begin(q)
      PROVE  MembersAreKnown'
  <2>1. PICK c, j : Start(q, c, j) /\ j \in Jobs /\ SentWith(j)
    BY <1>1, JobsBegun
  <2>2. pc' = [pc EXCEPT ![q] = j.op] /\ job' = [job EXCEPT ![q] = j] /\ status' = status /\ held' = held
    BY <2>1 DEF Start, tables
  <2>3. pc'[q] = j.op /\ job'[q] = j /\ \A p \in Requests : p = q
    BY <2>2, Alone
  <2>4. j.op \in Operations
    BY <2>1 DEF Jobs
  <2> QED
    BY <2>1, <2>2, <2>3, <2>4 DEF MembersAreKnown, FormerMembersHoldNothing, Operations, SentWith
<1>2. ASSUME NEW q \in Requests, Step(q) PROVE MembersAreKnown'
  BY <1>2, MembersStep
<1>3. ASSUME NEW q \in Requests, Abort(q) PROVE MembersAreKnown'
  BY <1>3, MembersEnd DEF Abort, tables, MembersAreKnown, FormerMembersHoldNothing
<1>4. CASE UNCHANGED vars
  BY <1>4 DEF vars, MembersAreKnown, FormerMembersHoldNothing
<1> QED
  BY <1>1, <1>2, <1>3, <1>4 DEF Next, Quiet

\* One request at a time, who leaves or is kicked takes no role with him that
\* a rejoin would bring back, even if his request dies half way.
THEOREM NothingIsKept ==
  ASSUME OneAtATime
  PROVE  Spec => []FormerMembersHoldNothing
<1>1. Init => MembersAreKnown
  BY MembersInit
<1>2. IInv /\ MembersAreKnown /\ [Next]_vars => MembersAreKnown'
  BY MembersKnownNext
<1>3. MembersAreKnown => FormerMembersHoldNothing
  BY DEF MembersAreKnown
<1> QED
  BY <1>1, <1>2, <1>3, Invariance, PTL DEF Spec

\* Distinct positions, with the owner's on top.
Ordered ==
    /\ \A r, s \in roles : r # s => pos[r] # pos[s]
    /\ \A r \in Sortable : pos[r] < pos[OwnerRole]

\* f gives each role its own seat among the first n.
Seats(f, n) ==
    /\ f \in [Sortable -> Nat]
    /\ \A r \in Sortable : f[r] < n
    /\ \A r, s \in Sortable : r # s => f[r] # f[s]

\* Unless a request died: the roles are in order but while a request is about
\* to reseat them, for which its plan fits the roles there are; there is a role
\* besides the owner's but while a request is about to make one.
OrderKept ==
    aborts = 0 =>
      /\ pos[OwnerRole] > 0
      /\ (\A q \in Requests : pc[q] # "reseat") => Ordered
      /\ Sortable # {} \/ (\E q \in Requests : pc[q] \in {"base", "makeBase"})
      /\ \A q \in Requests :
           /\ pc[q] = "insert" => Seats(plan[q], Cardinality(Sortable) + 1)
           /\ pc[q] = "reseat" => Seats(plan[q], Cardinality(Sortable))
           /\ pc[q] = "makeBase" => Sortable = {}

\* The roles to be sorted are finitely many, and the owner's is a role.
LEMMA RolesAreFinite ==
  ASSUME IInv
  PROVE  /\ IsFiniteSet(Sortable) /\ Cardinality(Sortable) \in Nat
         /\ Sortable \subseteq Roles /\ OwnerRole \in roles /\ roles = Sortable \cup {OwnerRole}
         /\ Sortable # {} => Cardinality(Sortable) > 0
         /\ pos \in [Roles -> Nat]
<1>1. Sortable \subseteq Roles /\ OwnerRole \in roles /\ pos \in [Roles -> Nat]
  BY DEF Sortable, IInv, TypeOK, OwnerKeepsClan
<1>2. IsFiniteSet(Sortable)
  BY <1>1, FS_Subset
<1>3. Cardinality(Sortable) \in Nat /\ (Cardinality(Sortable) = 0 <=> Sortable = {})
  BY <1>2, FS_CardinalityType, FS_EmptySet
<1> QED
  BY <1>1, <1>2, <1>3 DEF Sortable

\* The clan is created with its roles in order.
LEMMA OrderInit == Init => OrderKept
<1> SUFFICES ASSUME Init PROVE OrderKept
  OBVIOUS
<1>1. PICK s \in Seeded : s # OwnerRole
  OBVIOUS
<1>2. pos[OwnerRole] = SeedPosition[OwnerRole] /\ SeedPosition[s] < SeedPosition[OwnerRole] /\ SeedPosition[s] \in Nat
      /\ SeedPosition[OwnerRole] \in Nat
  BY <1>1 DEF Init
<1>3. s \in Sortable
  BY <1>1 DEF Init, Sortable
<1>4. \A r \in roles : r \in Seeded /\ r \in Roles /\ pos[r] = SeedPosition[r]
  BY DEF Init
<1>5. Ordered
  <2>1. \A r, t \in Seeded : r # t => SeedPosition[r] # SeedPosition[t]
    OBVIOUS
  <2>2. \A r, t \in roles : r # t => pos[r] # pos[t]
    BY <1>4, <2>1
  <2>3. \A r \in Sortable : pos[r] < pos[OwnerRole]
    BY <1>2, <1>4 DEF Sortable
  <2> QED
    BY <2>2, <2>3 DEF Ordered
<1> QED
  BY <1>2, <1>3, <1>5 DEF OrderKept, Init

\* A statement that leaves the roles and their positions alone, outside the
\* handlers that reseat them.
LEMMA OrderUntouched ==
  ASSUME IInv, OneAtATime, OrderKept, NEW q \in Requests,
         UNCHANGED <<roles, pos>>, aborts' = aborts \/ aborts' > 0,
         pc[q] \notin {"reseat", "makeBase"},
         pc[q] = "base" => Sortable # {},
         pc'[q] \notin {"insert", "reseat", "makeBase"}
  PROVE  OrderKept'
<1>1. \A p \in Requests : p = q
  BY DEF OneAtATime
<1>2. CASE aborts = 0 /\ aborts' = 0
  <2>1. Sortable # {} /\ Ordered /\ pos[OwnerRole] > 0
    BY <1>1, <1>2 DEF OrderKept
  <2>2. Sortable' # {} /\ Ordered' /\ pos'[OwnerRole] > 0
    BY <2>1 DEF Sortable, Ordered
  <2> QED
    BY <1>1, <2>2 DEF OrderKept
<1>3. CASE aborts' # 0
  BY <1>3 DEF OrderKept
<1>4. CASE aborts # 0 /\ aborts' = 0
  BY <1>4 DEF IInv, TypeOK
<1> QED
  BY <1>2, <1>3, <1>4

\* A free seat below the locked roles, which are the upper ones, keeps the
\* others apart.
LEMMA CreateSeats ==
  ASSUME IInv, NEW q \in Requests, Create(q)
  PROVE  Seats(plan'[q], Cardinality(Sortable) + 1)
<1>1. PICK g \in Sorted(Sortable) :
        plan' = [plan EXCEPT ![q] = [r \in Sortable |-> IF r \in Locked(q) THEN g[r] + 1 ELSE g[r]]]
  BY DEF Create
<1>2. PICK f : f = [r \in Sortable |-> IF r \in Locked(q) THEN g[r] + 1 ELSE g[r]]
  OBVIOUS
<1>3. plan = [p \in Requests |-> plan[p]]
  BY DEF IInv, TypeOK
<1>4. plan'[q] = f
  BY <1>1, <1>2, <1>3
<1>5. PICK n : n = Cardinality(Sortable)
  OBVIOUS
<1>6. n \in Nat /\ Sortable \subseteq Roles /\ pos \in [Roles -> Nat]
  BY <1>5, RolesAreFinite
<1>7. /\ g \in [Sortable -> 0..(n - 1)]
      /\ \A r, s \in Sortable : r # s => g[r] # g[s]
      /\ \A r, s \in Sortable : pos[r] > pos[s] => g[r] > g[s]
  BY <1>5 DEF Sorted, Seatings
<1>8. ctx[q].ranks \subseteq Nat
  <2>1. pc[q] = "create"
    BY DEF Create
  <2>2. job[q].op = "create" /\ Carries(pc[q], job[q], ctx[q], plan[q])
    BY <2>1, Stepping DEF Carries, Operations
  <2> QED
    BY <2>2 DEF Carries, Contexts
<1>9. ASSUME NEW r \in Sortable, NEW s \in Sortable, r \in Locked(q), g[s] > g[r]
      PROVE  s \in Locked(q)
  <2>1. pos[s] >= pos[r]
    BY <1>6, <1>7, <1>9
  <2>2. ~CanManage(q, pos[r])
    BY <1>9 DEF Locked
  <2>3. pos[s] \in Nat /\ pos[r] \in Nat
    BY <1>6
  <2>4. ~CanManage(q, pos[s])
    BY <1>8, <2>1, <2>2, <2>3 DEF CanManage
  <2> QED
    BY <2>4 DEF Locked
<1>10. f \in [Sortable -> Nat] /\ \A r \in Sortable : f[r] < n + 1
  BY <1>2, <1>6, <1>7
<1>11. ASSUME NEW r \in Sortable, NEW s \in Sortable, r # s
       PROVE  f[r] # f[s]
  <2>1. g[r] \in Int /\ g[s] \in Int /\ g[r] # g[s]
    BY <1>6, <1>7, <1>11
  <2>2. /\ f[r] = IF r \in Locked(q) THEN g[r] + 1 ELSE g[r]
        /\ f[s] = IF s \in Locked(q) THEN g[s] + 1 ELSE g[s]
    BY <1>2
  <2>3. /\ (r \in Locked(q) /\ g[s] > g[r]) => s \in Locked(q)
        /\ (s \in Locked(q) /\ g[r] > g[s]) => r \in Locked(q)
    BY <1>9
  <2> QED
    BY <2>1, <2>2, <2>3
<1> QED
  BY <1>4, <1>5, <1>10, <1>11 DEF Seats

\* The new role takes the seat that is left.
LEMMA InsertSeats ==
  ASSUME IInv, NEW q \in Requests, Insert(q), Seats(plan[q], Cardinality(Sortable) + 1)
  PROVE  /\ Seats(plan[q], Cardinality(Sortable))'
         /\ Sortable' # {} /\ pos'[OwnerRole] = pos[OwnerRole]
<1>1. PICK new \in Roles \ MemberRoles, seat \in 0..Cardinality(DOMAIN plan[q]) :
         /\ Unused(q, new)
         /\ \A r \in DOMAIN plan[q] : r # new /\ plan[q][r] # seat
         /\ roles' = roles \cup {new}
         /\ pos' = [pos EXCEPT ![new] = 0]
         /\ plan' = [plan EXCEPT ![q] =
                       [r \in DOMAIN plan[q] \cup {new} |-> IF r = new THEN seat ELSE plan[q][r]]]
  BY DEF Insert
<1>2. PICK f : f = plan[q]
  OBVIOUS
<1>3. PICK h : h = [r \in DOMAIN plan[q] \cup {new} |-> IF r = new THEN seat ELSE plan[q][r]]
  OBVIOUS
<1>4. plan = [p \in Requests |-> plan[p]]
  BY DEF IInv, TypeOK
<1>5. plan'[q] = h
  BY <1>1, <1>3, <1>4
<1>6. PICK n : n = Cardinality(Sortable)
  OBVIOUS
<1>7. /\ f \in [Sortable -> Nat] /\ \A r \in Sortable : f[r] < n + 1
      /\ \A r, s \in Sortable : r # s => f[r] # f[s]
  BY <1>2, <1>6 DEF Seats
<1>8. DOMAIN f = Sortable
  BY <1>7
<1>9. new \notin roles /\ new # OwnerRole /\ new \notin Sortable /\ n \in Nat
  BY <1>1, <1>6, RolesAreFinite DEF Unused, Sortable
<1>10. Sortable' = Sortable \cup {new}
  BY <1>1, <1>9 DEF Sortable
<1>11. Cardinality(Sortable') = n + 1
  BY <1>6, <1>9, <1>10, RolesAreFinite, FS_AddElement
<1>12. h = [r \in Sortable \cup {new} |-> IF r = new THEN seat ELSE f[r]]
  BY <1>2, <1>3, <1>8
<1>13. seat \in Nat /\ seat < n + 1 /\ \A r \in Sortable : f[r] # seat
  BY <1>1, <1>2, <1>6, <1>8, <1>9
<1>14. /\ h \in [Sortable' -> Nat] /\ \A r \in Sortable' : h[r] < n + 1
       /\ \A r, s \in Sortable' : r # s => h[r] # h[s]
  BY <1>7, <1>9, <1>10, <1>12, <1>13
<1>15. Seats(plan[q], Cardinality(Sortable))'
  BY <1>5, <1>11, <1>14 DEF Seats
<1>16. pos'[OwnerRole] = pos[OwnerRole]
  BY <1>1, <1>9, RolesAreFinite
<1> QED
  BY <1>10, <1>15, <1>16

\* An order of all the roles is a plan.
LEMMA ReorderSeats ==
  ASSUME IInv, NEW q \in Requests, Reorder(q)
  PROVE  Seats(plan'[q], Cardinality(Sortable))
<1>1. PICK f \in Seatings(Sortable) : plan' = [plan EXCEPT ![q] = f]
  BY DEF Reorder
<1>2. plan = [p \in Requests |-> plan[p]]
  BY DEF IInv, TypeOK
<1>3. plan'[q] = f
  BY <1>1, <1>2
<1>4. PICK n : n = Cardinality(Sortable)
  OBVIOUS
<1>5. n \in Nat
  BY <1>4, RolesAreFinite
<1>6. f \in [Sortable -> 0..(n - 1)] /\ \A r, s \in Sortable : r # s => f[r] # f[s]
  BY <1>4 DEF Seatings
<1> QED
  BY <1>3, <1>4, <1>5, <1>6 DEF Seats

\* Roles that take their seats are in order.
LEMMA ReseatOrders ==
  ASSUME IInv, NEW q \in Requests, Reseat(q), Seats(plan[q], Cardinality(Sortable)), Sortable # {}
  PROVE  Ordered' /\ pos'[OwnerRole] > 0 /\ Sortable' = Sortable
<1>1. PICK f : f = plan[q]
  OBVIOUS
<1>2. PICK n : n = Cardinality(Sortable)
  OBVIOUS
<1>3. /\ f \in [Sortable -> Nat] /\ \A r \in Sortable : f[r] < n
      /\ \A r, s \in Sortable : r # s => f[r] # f[s]
  BY <1>1, <1>2 DEF Seats
<1>4. DOMAIN f = Sortable
  BY <1>3
<1>5. n \in Nat /\ n > 0 /\ Sortable \subseteq Roles /\ roles = Sortable \cup {OwnerRole} /\ OwnerRole \notin Sortable
  BY <1>2, RolesAreFinite DEF Sortable
<1>6. /\ roles' = roles
      /\ pos' = [r \in Roles |->
                 IF r = OwnerRole THEN n
                 ELSE IF r \in roles /\ r \in Sortable THEN f[r] ELSE pos[r]]
  BY <1>1, <1>2, <1>4 DEF Reseat
<1>7. pos'[OwnerRole] = n /\ \A r \in Sortable : pos'[r] = f[r]
  BY <1>5, <1>6
<1>8. Sortable' = Sortable
  BY <1>6 DEF Sortable
<1> QED
  BY <1>3, <1>5, <1>6, <1>7, <1>8 DEF Ordered

\* Every statement keeps the order, or is on the way to restore it.
LEMMA OrderStep ==
  ASSUME IInv, IInv', OneAtATime, OrderKept, NEW q \in Requests, Step(q)
  PROVE  OrderKept'
<1>1. /\ \A p \in Requests : p = q
      /\ aborts' = aborts
  BY OneAtATime DEF OneAtATime, Step, Kick, Leave, DropRoles, MarkLeft, Assign, AssignRole, Hold,
     Remove, Unhold, Create, Insert, Reorder, Reseat, Delete, DropGrants, DropHolders, DropRow, Base, MakeBase,
     FindRoleless, SetGrants, AddGrants, Join, NewRow, Reactivate, rest
<1> SUFFICES ASSUME aborts = 0 PROVE OrderKept'
  BY <1>1 DEF OrderKept
<1>2. CASE \/ Kick(q) \/ Leave(q) \/ DropRoles(q) \/ MarkLeft(q)
           \/ Assign(q) \/ AssignRole(q) \/ Hold(q) \/ Remove(q) \/ Unhold(q)
           \/ Delete(q) \/ SetGrants(q)
  <2>1. UNCHANGED <<roles, pos>> /\ pc[q] \notin {"reseat", "makeBase", "base"}
    BY <1>2 DEF Kick, Leave, DropRoles, MarkLeft, Assign, AssignRole, Hold, Remove, Unhold, Delete, SetGrants, tables
  <2>2. pc'[q] \in {"idle", "dropRoles", "markLeft", "assignRole", "hold", "unhold", "dropGrants"}
    BY <1>2, <1>1, Alone DEF Kick, Leave, DropRoles, MarkLeft, Assign, AssignRole, Hold, Remove, Unhold,
       Delete, SetGrants, Goto, GotoIf, End
  <2> QED
    BY <1>1, <2>1, <2>2, OrderUntouched
<1>3. CASE DropGrants(q) \/ DropHolders(q) \/ FindRoleless(q) \/ AddGrants(q) \/ Join(q) \/ NewRow(q) \/ Reactivate(q)
  <2>1. UNCHANGED <<roles, pos>> /\ pc[q] \notin {"reseat", "makeBase", "base"}
    BY <1>3 DEF DropGrants, DropHolders, FindRoleless, AddGrants, Join, NewRow, Reactivate, tables
  <2>2. \E m \in {"idle", "dropHolders", "addGrants", "dropRow", "hold", "newRow", "reactivate", "base"} :
          pc' = [pc EXCEPT ![q] = m]
    BY <1>3 DEF DropGrants, DropHolders, FindRoleless, AddGrants, Join, NewRow, Reactivate, Goto, GotoIf, End
  <2>3. pc'[q] \in {"idle", "dropHolders", "addGrants", "dropRow", "hold", "newRow", "reactivate", "base"}
    BY <2>2, Alone
  <2> QED
    BY <1>1, <2>1, <2>3, OrderUntouched
<1>4. CASE Create(q)
  <2>1. UNCHANGED <<roles, pos>> /\ pc[q] = "create" /\ pc'[q] = "insert"
    BY <1>4, Alone DEF Create, tables
  <2>2. Sortable' = Sortable /\ Ordered' /\ pos'[OwnerRole] > 0 /\ Sortable # {}
    BY <1>1, <2>1 DEF OrderKept, Ordered, Sortable
  <2>3. Seats(plan[q], Cardinality(Sortable) + 1)'
    BY <1>4, <2>2, CreateSeats DEF Seats
  <2> QED
    BY <1>1, <2>1, <2>2, <2>3 DEF OrderKept
<1>5. CASE Insert(q)
  <2>1. pc[q] = "insert" /\ pc'[q] = "reseat"
    BY <1>5, Alone DEF Insert
  <2>2. Seats(plan[q], Cardinality(Sortable) + 1) /\ pos[OwnerRole] > 0
    BY <2>1 DEF OrderKept
  <2>3. Seats(plan[q], Cardinality(Sortable))' /\ Sortable' # {} /\ pos'[OwnerRole] > 0
    BY <1>5, <2>2, InsertSeats
  <2> QED
    BY <1>1, <2>1, <2>3 DEF OrderKept
<1>6. CASE Reorder(q)
  <2>1. UNCHANGED <<roles, pos>> /\ pc[q] = "reorder" /\ pc'[q] = "reseat"
    BY <1>6, Alone DEF Reorder, tables
  <2>2. Sortable' = Sortable /\ pos'[OwnerRole] > 0 /\ Sortable # {}
    BY <1>1, <2>1 DEF OrderKept, Sortable
  <2>3. Seats(plan[q], Cardinality(Sortable))'
    BY <1>6, <2>2, ReorderSeats DEF Seats
  <2> QED
    BY <1>1, <2>1, <2>2, <2>3 DEF OrderKept
<1>7. CASE Reseat(q)
  <2>1. pc[q] = "reseat" /\ pc'[q] = "idle"
    BY <1>7, Alone DEF Reseat, End
  <2>2. Seats(plan[q], Cardinality(Sortable)) /\ Sortable # {}
    BY <1>1, <2>1 DEF OrderKept
  <2>3. Ordered' /\ pos'[OwnerRole] > 0 /\ Sortable' = Sortable
    BY <1>7, <2>2, ReseatOrders
  <2> QED
    BY <1>1, <2>1, <2>2, <2>3 DEF OrderKept
<1>8. CASE DropRow(q)
  <2>1. /\ pc[q] = "dropRow" /\ pc'[q] = "base"
        /\ roles' = roles \ {job[q].role} /\ pos' = [pos EXCEPT ![job[q].role] = 0]
    BY <1>8, Alone DEF DropRow
  <2>2. job[q].role # OwnerRole
    BY <2>1, Stepping DEF Carries
  <2>3. pos[OwnerRole] > 0 /\ Ordered
    BY <1>1, <2>1 DEF OrderKept
  <2>4. \A r \in roles' : r \in roles /\ pos'[r] = pos[r]
    BY <2>1, RolesAreFinite
  <2>5. OwnerRole \in roles' /\ Sortable' \subseteq Sortable
    BY <2>1, <2>2, RolesAreFinite DEF Sortable
  <2>6. Ordered' /\ pos'[OwnerRole] > 0
    BY <2>3, <2>4, <2>5 DEF Ordered, Sortable
  <2> QED
    BY <1>1, <2>1, <2>6 DEF OrderKept
<1>9. CASE Base(q)
  <2>1. UNCHANGED <<roles, pos>> /\ pc[q] = "base"
    BY <1>9 DEF Base, tables
  <2>2. CASE Sortable = {}
    <3>1. pc'[q] = "makeBase"
      BY <1>9, <2>2, Alone DEF Base, Goto
    <3>2. Sortable' = {} /\ Ordered' /\ pos'[OwnerRole] > 0
      BY <1>1, <2>1, <2>2 DEF OrderKept, Ordered, Sortable
    <3> QED
      BY <1>1, <3>1, <3>2 DEF OrderKept
  <2>3. CASE Sortable # {}
    <3>1. PICK m : m = IF job[q].op = "delete" THEN "roleless" ELSE "hold"
      OBVIOUS
    <3>2. pc' = [pc EXCEPT ![q] = m]
      BY <1>9, <2>3, <3>1 DEF Base
    <3>3. pc'[q] \in {"roleless", "hold"}
      BY <3>1, <3>2, Alone
    <3> QED
      BY <1>1, <2>1, <2>3, <3>3, OrderUntouched
  <2> QED
    BY <2>2, <2>3
<1>10. CASE MakeBase(q)
  <2>1. Sortable = {} /\ Ordered /\ pos[OwnerRole] > 0
    BY <1>1, <1>10 DEF OrderKept, MakeBase
  <2>2. MemberRoles \cap roles = {}
    BY <2>1 DEF Sortable
  <2>3. PICK new \in MemberRoles : /\ Unused(q, new)
                                   /\ roles' = roles \cup {new}
                                   /\ pos' = [pos EXCEPT ![new] = 0]
    BY <1>10, <2>2 DEF MakeBase
  <2>4. PICK m : m = IF job[q].op = "delete" THEN "roleless" ELSE "hold"
    OBVIOUS
  <2>5. pc' = [pc EXCEPT ![q] = m]
    BY <1>10, <2>2, <2>4 DEF MakeBase
  <2>6. pc'[q] \in {"roleless", "hold"}
    BY <2>4, <2>5, Alone
  <2>7. roles = {OwnerRole} /\ new # OwnerRole /\ new \in Roles /\ pos \in [Roles -> Nat] /\ OwnerRole \in Roles
    BY <2>1, <2>3, RolesAreFinite
  <2>8. roles' = {OwnerRole, new} /\ pos'[new] = 0 /\ pos'[OwnerRole] = pos[OwnerRole]
    BY <2>3, <2>7
  <2>9. Sortable' = {new}
    BY <2>7, <2>8 DEF Sortable
  <2>10. Ordered' /\ pos'[OwnerRole] > 0
    BY <2>1, <2>7, <2>8, <2>9 DEF Ordered
  <2> QED
    BY <1>1, <2>6, <2>9, <2>10 DEF OrderKept
<1> QED
  BY <1>2, <1>3, <1>4, <1>5, <1>6, <1>7, <1>8, <1>9, <1>10 DEF Step

\* So does the beginning of a request; a request that dies is left out.
LEMMA OrderKeptNext ==
  ASSUME OneAtATime
  PROVE  IInv /\ IInv' /\ OrderKept /\ [Next]_vars => OrderKept'
<1> SUFFICES ASSUME IInv, IInv', OrderKept, [Next]_vars PROVE OrderKept'
  OBVIOUS
<1>1. ASSUME NEW q \in Requests, Begin(q)
      PROVE  OrderKept'
  <2>2. PICK c, j : Start(q, c, j) /\ j \in Jobs
    BY <1>1, JobsBegun
  <2>3. /\ pc' = [pc EXCEPT ![q] = j.op] /\ UNCHANGED <<roles, pos, aborts>>
        /\ pc[q] = "idle" /\ j.op \in Operations
    BY <1>1, <2>2 DEF Start, tables, Begin, Jobs
  <2>4. pc'[q] \in Operations
    BY <2>3, Alone
  <2> QED
    BY <2>3, <2>4, OrderUntouched DEF Operations
<1>2. ASSUME NEW q \in Requests, Step(q) PROVE OrderKept'
  BY <1>2, OrderStep
<1>3. ASSUME NEW q \in Requests, Abort(q) PROVE OrderKept'
  BY <1>3 DEF Abort, OrderKept, IInv, TypeOK
<1>4. CASE UNCHANGED vars
  <2>1. UNCHANGED <<roles, pos, pc, plan, aborts>>
    BY <1>4 DEF vars
  <2>2. Sortable' = Sortable /\ (Ordered' <=> Ordered)
    BY <2>1 DEF Sortable, Ordered
  <2>3. \A f, n : Seats(f, n)' <=> Seats(f, n)
    BY <2>2 DEF Seats
  <2> QED
    BY <2>1, <2>2, <2>3 DEF OrderKept
<1> QED
  BY <1>1, <1>2, <1>3, <1>4 DEF Next, Quiet

\* One request at a time, and none that died half way: between requests the
\* positions order the roles strictly, the owner's on top.
THEOREM RolesOrdered ==
  ASSUME OneAtATime
  PROVE  Spec => []RolesAreOrdered
<1>1. Init => OrderKept
  BY OrderInit
<1>2. IInv /\ IInv' /\ OrderKept /\ [Next]_vars => OrderKept'
  BY OrderKeptNext
<1>3. OrderKept => RolesAreOrdered
  BY DEF OrderKept, RolesAreOrdered, Ordered, Idle
<1> QED
  BY <1>1, <1>2, <1>3, Invariance, PTL DEF Spec
-----------------------------------------------------------------------------
(***************************************************************************)
(* What the client offers                                                  *)
(***************************************************************************)
\* The context of a user, as far as it depends on who he is and what he holds.
LEMMA ContextKnows ==
  ASSUME IInv, NEW u \in Users
  PROVE  /\ Bypass(Context(u), u) <=> u = Owner \/ u \in Admins
         /\ Context(u).rights \in SUBSET Rights
         /\ Context(u).ranks \in SUBSET Nat
         /\ status[u] = "active" => Context(u).rights = UNION {grants[r] : r \in held[u]}
         /\ status[u] = "active" => Context(u).ranks = {pos[r] : r \in held[u]}
         /\ status[u] # "active" => Context(u).rights = {} /\ Context(u).ranks = {}
         /\ held[u] \subseteq roles /\ roles \subseteq Roles
         /\ status[Owner] = "active"
<1>1. /\ Context(u).owner = (u = Owner)
      /\ status[u] = "active" => Context(u).rights = UNION {grants[r] : r \in held[u]}
      /\ status[u] = "active" => Context(u).ranks = {pos[r] : r \in held[u]}
      /\ status[u] # "active" => Context(u).rights = {} /\ Context(u).ranks = {}
  BY DEF Context
<1>2. held[u] \subseteq roles /\ roles \subseteq Roles /\ status[Owner] = "active"
      /\ \A r \in Roles : grants[r] \in SUBSET Rights /\ pos[r] \in Nat
  BY DEF IInv, TypeOK, OwnerKeepsClan
<1>3. Context(u).rights \in SUBSET Rights /\ Context(u).ranks \in SUBSET Nat
  BY <1>1, <1>2
<1>4. Bypass(Context(u), u) <=> u = Owner \/ u \in Admins
  BY <1>1 DEF Bypass
<1> QED
  BY <1>1, <1>2, <1>3, <1>4

\* Who is stronger than a position by the client's list is so by his context.
LEMMA RolesFound ==
  ASSUME IInv, NEW u \in Users
  PROVE  /\ MyRoles(u) \subseteq held[u]
         /\ MyRoles(u) # {} => status[u] = "active"
         /\ \A p : (\E mine \in MyRoles(u) : pos[mine] > p) => \E mine \in Context(u).ranks : mine > p
         /\ u \in Members(u) => \A p : (\E mine \in Context(u).ranks : mine > p)
                                         => \E mine \in MyRoles(u) : pos[mine] > p
<1>1. MyRoles(u) = (IF u \in Members(u) THEN held[u] ELSE {}) /\ (u \in Members(u) => status[u] = "active")
  BY DEF MyRoles, Members
<1>2. status[u] = "active" => Context(u).ranks = {pos[r] : r \in held[u]}
  BY ContextKnows
<1> QED
  BY <1>1, <1>2

\* The rights the role manager counts as the user's are some of those that
\* the API knows him to have, and all of them if he is a member who may read
\* both lists.
LEMMA OwnRights ==
  ASSUME IInv, NEW u \in Users
  PROVE  /\ u = Owner => Own(u) = Rights
         /\ u # Owner => Own(u) \subseteq Context(u).rights
         /\ u # Owner /\ u \in Members(u) /\ RoleList(u) = roles => Own(u) = Context(u).rights
         /\ Own(u) \in SUBSET Rights
         /\ Expand(Own(u)) \subseteq Effective(Context(u), u)
         /\ Own(u) \subseteq Effective(Context(u), u)
<1> DEFINE R == MyRoles(u) \cap RoleList(u)
<1>1. u = Owner => Own(u) = Rights
  BY DEF Own
<1>2. u # Owner => Own(u) = UNION {grants[r] : r \in R}
  BY DEF Own, RoleDetails
<1>3. u # Owner => Own(u) \subseteq Context(u).rights
  BY <1>2, RolesFound, ContextKnows
<1>4. u # Owner /\ u \in Members(u) /\ RoleList(u) = roles => Own(u) = Context(u).rights
  <2> SUFFICES ASSUME u # Owner, u \in Members(u), RoleList(u) = roles
               PROVE  Own(u) = Context(u).rights
    OBVIOUS
  <2>1. status[u] = "active" /\ R = held[u]
    BY ContextKnows DEF Members, MyRoles
  <2> QED
    BY <1>2, <2>1, ContextKnows
<1>5. Own(u) \in SUBSET Rights /\ Context(u).rights \in SUBSET Rights
  BY <1>1, <1>3, ContextKnows
<1>6. Expand(Own(u)) \subseteq Effective(Context(u), u)
  BY <1>3, <1>5, ExpandGrows, ExpandIsRights, ContextKnows DEF Effective
<1>7. Own(u) \subseteq Effective(Context(u), u)
  BY <1>5, <1>6, ExpandIsRights
<1> QED
  BY <1>1, <1>3, <1>4, <1>5, <1>6, <1>7

\* MANAGE of a grant stands for its other actions.
LEMMA ManageIsAll ==
  ASSUME IInv, NEW u \in Users, NEW g, NEW a, <<g, a>> \in Rights, May(u, <<g, MANAGE>>)
  PROVE  May(u, <<g, a>>)
<1>1. CASE Bypass(Context(u), u)
  BY <1>1 DEF May, Can
<1>2. CASE <<g, MANAGE>> \in Context(u).rights
  BY <1>2 DEF May, Can, Expand
<1>3. CASE <<(<<g, MANAGE>>)[1], MANAGE>> \in Context(u).rights
  BY <1>2, <1>3
<1> QED
  BY <1>1, <1>2, <1>3 DEF May, Can, Expand

\* The client's computations on lists it has just fetched are the API's: the
\* role manager lets a user edit the roles that the API lets him manage and
\* counts the rights he has, the tools shown pass the guards behind them, and
\* both ways to learn that one may plan an event agree; in every clan and at
\* every moment, whatever is in flight.  The answer to joining, which shows every
\* tool, is the exception: of it only the danger zone is right.
THEOREM ClientAgrees == Spec => []ClientAgreesWithServer
<1>1. IInv => ClientAgreesWithServer
  <2> SUFFICES ASSUME IInv, NEW u \in Users
               PROVE  LET bound == u = Owner \/ u \notin Admins
                          lists == Members(u) # {} /\ RoleList(u) # {}
                      IN /\ bound /\ lists => Expand(Own(u)) = Effective(Context(u), u)
                         /\ Own(u) \subseteq Effective(Context(u), u)
                         /\ \A joined \in Answers(u) :
                              OffersDeletion(u, joined) => May(u, <<"clan", "DELETE">>)
                         /\ bound /\ lists /\ Flags(u, FALSE).canManageRoles =>
                              \A r \in roles \ {OwnerRole} : Editable(u, r) <=> Manageable(u, r)
                         /\ \A tool \in Tools(u, FALSE) : \A right \in Behind[tool] : May(u, right)
                         /\ \A r \in roles : OffersRename(u, r, FALSE) => Renames(u, r)
                         /\ MayPlan(u) => May(u, <<"event", "CREATE">>)
    BY DEF ClientAgreesWithServer
  <2>1. u = Owner => \A right : May(u, right)
    BY ContextKnows DEF May, Can
  <2>2. Flags(u, FALSE).canManageRoles => May(u, <<"clan_role", MANAGE>>) /\ Detail(u)
    BY <2>1 DEF Flags
  <2>3. ASSUME u = Owner \/ u \notin Admins, Members(u) # {}, RoleList(u) # {}
        PROVE  /\ Flags(u, FALSE).canManageRoles =>
                    \A r \in roles \ {OwnerRole} : Editable(u, r) <=> Manageable(u, r)
               /\ Expand(Own(u)) = Effective(Context(u), u)
    <3>1. u \in Members(u) /\ RoleList(u) = roles /\ (Bypass(Context(u), u) <=> u = Owner)
      BY <2>3, ContextKnows DEF Members, RoleList, Reaches
    <3>2. ASSUME Flags(u, FALSE).canManageRoles, NEW r \in roles \ {OwnerRole}
          PROVE  Editable(u, r) <=> Manageable(u, r)
      BY <2>2, <2>3, <3>1, <3>2, RolesFound DEF Editable, CeilingAbove, Manageable
    <3>3. Expand(Own(u)) = Effective(Context(u), u)
      <4>1. CASE u = Owner
        <5>1. Own(u) = Rights /\ Effective(Context(u), u) = Rights /\ Own(u) \in SUBSET Rights
          BY <3>1, <4>1, OwnRights DEF Effective
        <5>2. Own(u) \subseteq Expand(Own(u)) /\ Expand(Own(u)) \subseteq Rights
          BY <5>1, ExpandIsRights
        <5>3. PICK E : E = Expand(Own(u))
          OBVIOUS
        <5>4. Rights \subseteq E /\ E \subseteq Rights
          BY <5>1, <5>2, <5>3
        <5> QED
          BY <5>1, <5>3, <5>4
      <4>2. CASE u # Owner
        BY <3>1, <4>2, OwnRights DEF Effective
      <4> QED
        BY <4>1, <4>2
    <3> QED
      BY <3>2, <3>3
  <2>4. ASSUME NEW tool \in Tools(u, FALSE), NEW right \in Behind[tool] PROVE May(u, right)
    <3>1. tool \in DOMAIN Behind /\ Flags(u, FALSE)[tool]
      BY <2>4 DEF Tools
    <3>2. CASE tool = "canManageMembers"
      <4>1. May(u, <<"clan_member", MANAGE>>)
        BY <2>1, <3>1, <3>2 DEF Flags
      <4>2. right = <<"clan_member", "DELETE">> /\ right \in Rights
        BY <3>2, CatalogAssumption DEF Behind
      <4> QED
        BY <4>1, <4>2, ManageIsAll
    <3>3. CASE tool = "canManageRoles"
      <4>1. May(u, <<"clan_role", MANAGE>>)
        BY <2>1, <3>1, <3>3 DEF Flags
      <4>2. PICK a : right = <<"clan_role", a>> /\ right \in Rights
        BY <3>3, CatalogAssumption DEF Behind
      <4> QED
        BY <4>1, <4>2, ManageIsAll
    <3>4. CASE tool = "canEditClan"
      BY <2>1, <3>1, <3>4 DEF Flags, Behind
    <3>5. CASE tool = "canViewAudit"
      BY <2>1, <3>1, <3>5 DEF Flags, Behind
    <3>6. CASE tool = "canCreateEvent"
      BY <2>1, <3>1, <3>6 DEF Flags, Behind
    <3> QED
      BY <3>1, <3>2, <3>3, <3>4, <3>5, <3>6 DEF Behind
  <2>5. \A joined : OffersDeletion(u, joined) => May(u, <<"clan", "DELETE">>)
    BY <2>1 DEF OffersDeletion
  <2>6. ASSUME NEW r \in roles, OffersRename(u, r, FALSE) PROVE Renames(u, r)
    <3>1. May(u, <<"clan_role", MANAGE>>) /\ Detail(u) /\ Editable(u, r)
      BY <2>2, <2>6 DEF OffersRename
    <3>2. <<"clan_role", "UPDATE">> \in Rights
      BY CatalogAssumption DEF Behind
    <3>3. Reaches(u, <<"clan_role", "UPDATE">>)
      BY <3>1, <3>2, ManageIsAll DEF Detail, Reaches
    <3>4. u = Owner \/ \E mine \in MyRoles(u) : pos[mine] > pos[r]
      BY <3>1 DEF Editable, CeilingAbove
    <3> QED
      BY <3>3, <3>4, RolesFound, ContextKnows DEF Renames
  <2>7. MayPlan(u) => May(u, <<"event", "CREATE">>)
    BY <2>1, ContextKnows, ExpandIsRights DEF MayPlan, May, Can, Expand
  <2> QED
    BY <2>3, <2>4, <2>5, <2>6, <2>7, OwnRights
<1> QED
  BY <1>1, Invariance, PTL

\* Each statement is that of its label.
LEMMA StatementOf ==
  ASSUME NEW q \in Requests
  PROVE  /\ Kick(q) => pc[q] = "kick"
         /\ Leave(q) => pc[q] = "leave"
         /\ DropRoles(q) => pc[q] = "dropRoles"
         /\ MarkLeft(q) => pc[q] = "markLeft"
         /\ Assign(q) => pc[q] = "assign"
         /\ AssignRole(q) => pc[q] = "assignRole"
         /\ Hold(q) => pc[q] = "hold"
         /\ Remove(q) => pc[q] = "remove"
         /\ Unhold(q) => pc[q] = "unhold"
         /\ Create(q) => pc[q] = "create"
         /\ Insert(q) => pc[q] = "insert"
         /\ Reorder(q) => pc[q] = "reorder"
         /\ Reseat(q) => pc[q] = "reseat"
         /\ Delete(q) => pc[q] = "delete"
         /\ DropGrants(q) => pc[q] = "dropGrants"
         /\ DropHolders(q) => pc[q] = "dropHolders"
         /\ DropRow(q) => pc[q] = "dropRow"
         /\ Base(q) => pc[q] = "base"
         /\ MakeBase(q) => pc[q] = "makeBase"
         /\ FindRoleless(q) => pc[q] = "roleless"
         /\ SetGrants(q) => pc[q] = "setGrants"
         /\ AddGrants(q) => pc[q] = "addGrants"
         /\ Join(q) => pc[q] = "join"
         /\ NewRow(q) => pc[q] = "newRow"
         /\ Reactivate(q) => pc[q] = "reactivate"
  BY DEF Kick, Leave, DropRoles, MarkLeft, Assign, AssignRole, Hold, Remove, Unhold, Create, Insert,
     Reorder, Reseat, Delete, DropGrants, DropHolders, DropRow, Base, MakeBase, FindRoleless, SetGrants,
     AddGrants, Join, NewRow, Reactivate

\* What a request does moves no other.
LEMMA OnlyItMoves ==
  ASSUME IInv, NEW p \in Requests, Begin(p) \/ Step(p) \/ Abort(p)
  PROVE  \A q \in Requests \ {p} : pc'[q] = pc[q]
<1>1. \E l : pc' = [pc EXCEPT ![p] = l]
  <2>1. CASE Begin(p)
    <3>1. PICK c, j : Start(p, c, j)
      BY <2>1, JobsBegun
    <3> QED
      BY <3>1 DEF Start
  <2>2. CASE \/ Kick(p) \/ Leave(p) \/ DropRoles(p) \/ MarkLeft(p) \/ Assign(p) \/ AssignRole(p) \/ Hold(p)
             \/ Remove(p) \/ Unhold(p) \/ Create(p) \/ Insert(p) \/ Reorder(p) \/ Reseat(p) \/ Abort(p)
    BY <2>2 DEF Kick, Leave, DropRoles, MarkLeft, Assign, AssignRole, Hold, Remove, Unhold, Create, Insert,
       Reorder, Reseat, Abort, GotoIf, Goto, End
  <2>3. CASE \/ Delete(p) \/ DropGrants(p) \/ DropHolders(p) \/ DropRow(p) \/ Base(p) \/ MakeBase(p)
             \/ FindRoleless(p) \/ SetGrants(p) \/ AddGrants(p) \/ Join(p) \/ NewRow(p) \/ Reactivate(p)
    BY <2>3 DEF Delete, DropGrants, DropHolders, DropRow, Base, MakeBase, FindRoleless, SetGrants,
       AddGrants, Join, NewRow, Reactivate, GotoIf, Goto, End
  <2> QED
    BY <2>1, <2>2, <2>3 DEF Step
<1>2. pc = [q \in Requests |-> pc[q]]
  BY DEF IInv, TypeOK
<1> QED
  BY <1>1, <1>2

\* Whoever moves on takes a statement or dies.
LEMMA MovingIsStepping ==
  ASSUME IInv, [Next]_vars, NEW q \in Requests, pc[q] # "idle", pc'[q] # pc[q]
  PROVE  Step(q) \/ Abort(q)
<1>1. CASE \E p \in Requests : Begin(p) \/ Step(p) \/ Abort(p)
  BY <1>1, OnlyItMoves DEF Begin
<1>2. CASE UNCHANGED vars
  BY <1>2 DEF vars
<1> QED
  BY <1>1, <1>2 DEF Next, Quiet

\* A request that is refused failed the check of its handler.
LEMMA RefusedByTheCheck ==
  ASSUME IInv, [Next]_vars, NEW q \in Requests, Refused(q)
  PROVE  /\ pc[q] = "kick" =>
              ~(\A t \in job[q].who : status[t] = "active" /\ t # Owner /\ Outranks(q, held[t]))
         /\ pc[q] = "leave" => ~(job[q].by # Owner /\ status[job[q].by] = "active")
         /\ pc[q] = "assign" => ~(\A t \in job[q].who : status[t] = "active")
         /\ pc[q] \in {"assignRole", "remove", "delete"} =>
              ~(job[q].role \in roles \ {OwnerRole} /\ CanManage(q, pos[job[q].role]))
         /\ pc[q] = "setGrants" =>
              ~(/\ job[q].role \in roles \ {OwnerRole} /\ CanManage(q, pos[job[q].role])
                /\ job[q].rights \subseteq Effective(ctx[q], job[q].by))
         /\ pc[q] = "join" => status[job[q].by] = "active"
         /\ pc[q] \notin {"create", "reorder"}
<1>1. pc[q] # "idle" /\ pc'[q] = "idle" /\ aborts' = aborts /\ aborts \in Nat
  BY DEF Refused, IInv, TypeOK
<1>2. ~Abort(q)
  BY <1>1 DEF Abort
<1>3. Step(q)
  BY <1>1, <1>2, MovingIsStepping
<1>4. \A l : pc' = [pc EXCEPT ![q] = l] => pc'[q] = l
  BY DEF IInv, TypeOK
<1>5. ASSUME NEW ok, NEW l, GotoIf(q, ok, l), l # "idle"
      PROVE  ~ok
  BY <1>1, <1>4, <1>5 DEF GotoIf, Goto
<1>6. CASE Kick(q)
  BY <1>5, <1>6 DEF Kick
<1>7. CASE Leave(q)
  BY <1>5, <1>7 DEF Leave
<1>8. CASE Assign(q)
  BY <1>5, <1>8 DEF Assign
<1>9. CASE AssignRole(q) \/ Remove(q) \/ Delete(q)
  <2>1. PICK l \in {"hold", "unhold", "dropGrants"} :
          GotoIf(q, job[q].role \in roles \ {OwnerRole} /\ CanManage(q, pos[job[q].role]), l)
    BY <1>9 DEF AssignRole, Remove, Delete
  <2>2. ~(job[q].role \in roles \ {OwnerRole} /\ CanManage(q, pos[job[q].role]))
    BY <1>5, <2>1
  <2> QED
    BY <1>9, <2>2, StatementOf
<1>10. CASE SetGrants(q)
  BY <1>5, <1>10 DEF SetGrants
<1>11. CASE Join(q)
  <2>1. PICK l \in {"newRow", "reactivate"} : GotoIf(q, status[job[q].by] # "active", l)
    BY <1>11 DEF Join
  <2>2. status[job[q].by] = "active"
    BY <1>5, <2>1
  <2> QED
    BY <1>11, <2>2, StatementOf
<1>12. ~Create(q) /\ ~Reorder(q)
  BY <1>1, <1>4 DEF Create, Reorder
<1> QED
  BY <1>3, <1>6, <1>7, <1>8, <1>9, <1>10, <1>11, <1>12, StatementOf DEF Step

\* Who holds roles has a highest one.
LEMMA HighestHeld ==
  ASSUME IInv, NEW u \in Users, held[u] # {}
  PROVE  \E top \in held[u] : \A mine \in held[u] : pos[mine] <= pos[top]
<1> DEFINE S == {pos[r] : r \in held[u]}
           f == [r \in held[u] |-> pos[r]]
<1>1. held[u] \subseteq Roles /\ pos \in [Roles -> Nat]
  BY DEF IInv, TypeOK
<1>2. IsFiniteSet(held[u])
  BY <1>1, FS_Subset
<1>3. f \in Surjection(held[u], S)
  BY <1>1 DEF Surjection
<1>4. IsFiniteSet(S) /\ S \in SUBSET Nat /\ S # {}
  BY <1>1, <1>2, <1>3, FS_Surjection
<1>5. PICK x \in S : \A y \in S : y <= x
  BY <1>4, GreatestOfFinite
<1> QED
  BY <1>5

\* Who does not outrank the holder of some roles finds one of these roles at
\* or above his own.
LEMMA NotOutranked ==
  ASSUME IInv, NEW u \in Users, NEW S \in SUBSET roles, Context(u).ranks # {},
         ~\E mine \in Context(u).ranks : \A r \in S : mine > pos[r]
  PROVE  S \cap AtOrAbove(u) # {}
<1>1. Context(u).ranks = {pos[r] : r \in held[u]}
  BY ContextKnows
<1>2. PICK top \in held[u] : \A mine \in held[u] : pos[mine] <= pos[top]
  BY <1>1, HighestHeld
<1>3. PICK r \in S : ~(pos[top] > pos[r])
  BY <1>1
<1>4. \A x \in roles : pos[x] \in Nat
  BY DEF IInv, TypeOK
<1>5. held[u] \subseteq roles
  BY ContextKnows
<1>6. \A mine \in held[u] : pos[mine] <= pos[r]
  BY <1>2, <1>3, <1>4, <1>5
<1> QED
  BY <1>3, <1>6 DEF AtOrAbove

\* A request that was offered on current data passes its check, but for the
\* offers listed as made in vain.
LEMMA OfferedPasses ==
  ASSUME IInv, [Next]_vars, NEW q \in Requests, ctx[q] \in {None, Context(job[q].by)},
         Refused(q), pc[q] \in Operations \cup {"assignRole"}, NEW joined, Offered(job[q], joined)
  PROVE  InVain(job[q])
<1>1. Carries(pc[q], job[q], ctx[q], plan[q]) /\ job[q] \in Jobs
  BY Stepping DEF Refused
<1>2. PICK j : j = job[q]
  OBVIOUS
<1>3. j.by \in Users /\ j.who \subseteq Users
  BY <1>1, <1>2 DEF Jobs
<1>4. PICK u \in Users : u = j.by
  BY <1>3
<1>5. /\ pc[q] = j.op \/ (pc[q] = "assignRole" /\ j.op = "assign")
      /\ j.op \in {"kick", "assign", "remove"} => j.who # {}
      /\ j.op # "join" => ctx[q] = Context(u)
  BY <1>1, <1>2, <1>4, NoneAssumption DEF Carries
<1>6. ASSUME j.op # "join", NEW r \in roles, u = Owner \/ u \in Admins \/ \E mine \in Context(u).ranks : mine > pos[r]
      PROVE  CanManage(q, pos[r])
  BY <1>2, <1>4, <1>5, <1>6, ContextKnows DEF CanManage
<1>7. \A r \in roles \ {OwnerRole} : Editable(u, r) =>
        u = Owner \/ u \in Admins \/ \E mine \in Context(u).ranks : mine > pos[r]
  BY RolesFound DEF Editable, CeilingAbove
<1>8. \A r : Manageable(u, r) =>
        r # OwnerRole /\ (u = Owner \/ u \in Admins \/ \E mine \in Context(u).ranks : mine > pos[r])
  BY ContextKnows DEF Manageable
<1>9. CASE j.op = "kick"
  <2>1. PICK t \in j.who : ~(status[t] = "active" /\ t # Owner /\ Outranks(q, held[t]))
    BY <1>2, <1>5, <1>9, RefusedByTheCheck
  <2>2. OffersKick(u, t, joined)
    BY <1>2, <1>4, <1>9 DEF Offered
  <2>3. t \in Users /\ status[t] = "active"
    BY <1>3, <2>2 DEF OffersKick, Members
  <2>4. CASE t # Owner
    <3>1. ~Outranks(q, held[t])
      BY <2>1, <2>3, <2>4
    <3>2. /\ ~Bypass(Context(u), u)
          /\ ~\E mine \in Context(u).ranks : \A r \in held[t] : mine > pos[r]
      BY <1>2, <1>4, <1>5, <1>9, <3>1 DEF Outranks
    <3>3. Can(Context(u), u, <<"clan_member", "DELETE">>)
      BY <1>1, <1>2, <1>4, <1>5, <1>9 DEF Carries
    <3>4. Context(u).rights # {}
      BY <3>2, <3>3 DEF Can, Expand
    <3>5. PICK x \in Context(u).rights : TRUE
      BY <3>4
    <3>6. Context(u).ranks # {}
      <4>1. status[u] = "active"
        BY <3>5, ContextKnows
      <4>2. PICK r \in held[u] : TRUE
        BY <3>5, <4>1, ContextKnows
      <4>3. Context(u).ranks = {pos[z] : z \in held[u]}
        BY <4>1, ContextKnows
      <4>4. pos[r] \in Context(u).ranks
        BY <4>2, <4>3
      <4> QED
        BY <4>4
    <3>7. held[t] \in SUBSET roles
      BY <2>3, ContextKnows
    <3>8. held[t] \cap AtOrAbove(u) # {}
      BY <3>2, <3>6, <3>7, NotOutranked
    <3> QED
      BY <1>2, <1>4, <1>9, <3>8 DEF InVain
  <2>5. CASE t = Owner
    BY <1>2, <1>9, <2>5 DEF InVain
  <2> QED
    BY <2>4, <2>5
<1>10. CASE j.op = "assign"
  <2>1. \A t \in j.who : OffersAssign(u, t, j.role, joined)
    BY <1>2, <1>4, <1>10 DEF Offered
  <2>2. \A t \in j.who : status[t] = "active"
    BY <2>1 DEF OffersAssign, Members
  <2>3. pc[q] = "assignRole"
    BY <1>2, <1>5, <1>10, <2>2, RefusedByTheCheck
  <2>4. j.role \in roles /\ Manageable(u, j.role)
    BY <1>5, <1>10, <2>1 DEF OffersAssign, RoleList, RoleDetails
  <2> QED
    BY <1>2, <1>6, <1>8, <1>10, <2>3, <2>4, RefusedByTheCheck
<1>11. CASE j.op = "remove"
  <2>1. PICK t \in j.who : OffersRemove(u, t, j.role)
    BY <1>2, <1>4, <1>5, <1>11 DEF Offered
  <2>2. j.role \in roles /\ Manageable(u, j.role)
    BY <1>3, <2>1, ContextKnows DEF OffersRemove, MemberView
  <2> QED
    BY <1>2, <1>5, <1>6, <1>8, <1>11, <2>2, RefusedByTheCheck
<1>12. CASE j.op = "delete"
  <2>1. j.role \in roles \ {OwnerRole} /\ Editable(u, j.role)
    BY <1>2, <1>4, <1>12 DEF Offered, OffersDelete, RoleList
  <2> QED
    BY <1>2, <1>5, <1>6, <1>7, <1>12, <2>1, RefusedByTheCheck
<1>13. CASE j.op = "setGrants"
  <2>1. OffersGrants(u, j.role, j.rights, joined)
    BY <1>2, <1>4, <1>13 DEF Offered
  <2>2. /\ j.role \in roles /\ Toggles(u, j.role) # {}
        /\ j.rights \subseteq grants[j.role] \cup Toggles(u, j.role)
    BY <2>1 DEF OffersGrants, RoleList
  <2>3. j.role # OwnerRole /\ Editable(u, j.role) /\ Toggles(u, j.role) = Own(u)
    BY <2>2 DEF Toggles
  <2>4. ~(j.rights \subseteq Effective(ctx[q], j.by))
    BY <1>2, <1>5, <1>6, <1>7, <1>13, <2>2, <2>3, RefusedByTheCheck
  <2>5. ASSUME grants[j.role] \subseteq Expand(Own(u)) PROVE FALSE
    BY <1>4, <1>5, <1>13, <2>2, <2>3, <2>4, <2>5, OwnRights
  <2> QED
    BY <1>2, <1>4, <1>13, <2>5 DEF InVain
<1>14. CASE j.op = "join"
  BY <1>2, <1>5, <1>14, RefusedByTheCheck DEF InVain
<1>15. CASE j.op = "leave"
  <2>1. u # Owner
    BY <1>2, <1>4, <1>15 DEF Offered, OffersLeave
  <2> QED
    BY <1>2, <1>4, <1>5, <1>15, <2>1, RefusedByTheCheck DEF InVain
<1> QED
  BY <1>2, <1>9, <1>10, <1>11, <1>12, <1>13, <1>14, <1>15 DEF Offered

\* A role that is lower than another has its place below it.
LEMMA LowerPlace ==
  ASSUME IInv, NEW r \in Sortable, NEW x \in Sortable, pos[r] < pos[x]
  PROVE  Place(r) < Place(x)
<1> DEFINE Below(y) == {s \in Sortable : pos[s] < pos[y]}
<1>1. IsFiniteSet(Below(x)) /\ IsFiniteSet(Below(r))
  BY RolesAreFinite, FS_Subset
<1>2. /\ pos[r] \in Nat /\ pos[x] \in Nat /\ \A s \in Sortable : pos[s] \in Nat
      /\ ~(pos[r] < pos[r])
  BY RolesAreFinite
<1>3. \A s \in Sortable : pos[s] < pos[r] => pos[s] < pos[x]
  BY <1>2
<1>4. Below(r) \subseteq Below(x) /\ r \in Below(x) /\ r \notin Below(r)
  BY <1>2, <1>3
<1>5. /\ Cardinality(Below(r)) <= Cardinality(Below(x))
      /\ Cardinality(Below(r)) # Cardinality(Below(x))
  BY <1>1, <1>4, FS_Subset
<1>6. Cardinality(Below(r)) \in Nat /\ Cardinality(Below(x)) \in Nat
  BY <1>1, FS_CardinalityType
<1> QED
  BY <1>5, <1>6 DEF Place

\* A drag among the roles its user may move leaves the others where they are.
LEMMA DragsKeepTheLocked ==
  ASSUME IInv, NEW q \in Requests, pc[q] = "reorder", ctx[q] \in {None, Context(job[q].by)},
         NEW r \in Sortable, NEW s \in Sortable, r # s, NEW joined,
         OffersDrag(job[q].by, r, joined), OffersDrag(job[q].by, s, joined), NEW x \in Locked(q)
  PROVE  Moved(r, s)[x] = Place(x)
<1>1. Carries(pc[q], job[q], ctx[q], plan[q]) /\ job[q] \in Jobs
  BY Stepping
<1>2. PICK u \in Users : u = job[q].by
  BY <1>1 DEF Jobs
<1>3. job[q].op = "reorder"
  BY <1>1 DEF Carries, Operations
<1>4. ctx[q] = Context(u)
  BY <1>1, <1>2, <1>3, NoneAssumption DEF Carries
<1>5. /\ \A y \in Sortable : pos[y] \in Nat
      /\ Context(u).ranks \in SUBSET Nat
  BY RolesAreFinite, ContextKnows
<1>6. x \in Sortable /\ ~CanManage(q, pos[x])
  BY DEF Locked
<1>7. ~Bypass(Context(u), u) /\ \A mine \in Context(u).ranks : ~(mine > pos[x])
  BY <1>2, <1>4, <1>6 DEF CanManage
<1>8. ASSUME NEW y \in Sortable, OffersDrag(u, y, joined)
      PROVE  pos[y] < pos[x] /\ y # x
  <2>1. u # Owner /\ Editable(u, y) /\ y # OwnerRole
    BY <1>7, <1>8, ContextKnows DEF OffersDrag
  <2>2. PICK mine \in Context(u).ranks : mine > pos[y]
    BY <2>1, RolesFound DEF Editable, CeilingAbove
  <2>3. pos[y] < pos[x]
    BY <1>5, <1>6, <1>7, <2>2
  <2> QED
    BY <1>5, <2>3
<1>9. Place(r) < Place(x) /\ Place(s) < Place(x) /\ r # x
  BY <1>2, <1>6, <1>8, LowerPlace
<1>10. \A y \in Sortable : Place(y) \in Nat
  <2> SUFFICES ASSUME NEW y \in Sortable PROVE Cardinality({z \in Sortable : pos[z] < pos[y]}) \in Nat
    BY DEF Place
  <2> QED
    BY RolesAreFinite, FS_Subset, FS_CardinalityType
<1>11. /\ ~(Place(r) < Place(x) /\ Place(x) <= Place(s))
       /\ ~(Place(s) <= Place(x) /\ Place(x) < Place(r))
  BY <1>6, <1>9, <1>10
<1> QED
  BY <1>6, <1>9, <1>11 DEF Moved

\* Whatever the client offers on current data, with the flags of detail or of the
\* answer to joining, is carried out once the guard has let it pass, but for the
\* offers listed as made in vain, and a drag it offers leaves the roles that
\* its user may not move; with any number of requests in flight.
THEOREM OffersAccepted == Spec => OffersAreAccepted
<1> DEFINE Accepted(q) == \A joined \in Answers(job[q].by) :
      /\ Refused(q) /\ pc[q] \in Operations \cup {"assignRole"} /\ Offered(job[q], joined)
           => InVain(job[q])
      /\ pc[q] = "reorder" =>
           \A r, s \in Sortable :
             /\ r # s /\ OffersDrag(job[q].by, r, joined) /\ OffersDrag(job[q].by, s, joined)
             => \A x \in Locked(q) : Moved(r, s)[x] = Place(x)
<1> HIDE DEF Accepted
<1>1. ASSUME IInv, [Next]_vars, NEW q \in Requests, job[q] # None, ctx[q] \in {None, Context(job[q].by)}
      PROVE  Accepted(q)
  <2> SUFFICES ASSUME NEW joined \in Answers(job[q].by)
               PROVE  /\ Refused(q) /\ pc[q] \in Operations \cup {"assignRole"} /\ Offered(job[q], joined)
                           => InVain(job[q])
                      /\ pc[q] = "reorder" =>
                           \A r, s \in Sortable :
                             /\ r # s /\ OffersDrag(job[q].by, r, joined) /\ OffersDrag(job[q].by, s, joined)
                             => \A x \in Locked(q) : Moved(r, s)[x] = Place(x)
    BY DEF Accepted
  <2>1. Refused(q) /\ pc[q] \in Operations \cup {"assignRole"} /\ Offered(job[q], joined) => InVain(job[q])
    BY <1>1, OfferedPasses
  <2>2. ASSUME pc[q] = "reorder", NEW r \in Sortable, NEW s \in Sortable, r # s,
               OffersDrag(job[q].by, r, joined), OffersDrag(job[q].by, s, joined), NEW x \in Locked(q)
        PROVE  Moved(r, s)[x] = Place(x)
    BY <1>1, <2>2, DragsKeepTheLocked, SMTT(60)
  <2> QED
    BY <2>1, <2>2
<1>2. IInv /\ [Next]_vars =>
        [\A q \in Requests : job[q] # None /\ ctx[q] \in {None, Context(job[q].by)} => Accepted(q)]_vars
  BY <1>1, Zenon
<1> QED
  BY <1>2, Invariance, PTL DEF Spec, OffersAreAccepted, Accepted

-----------------------------------------------------------------------------
(***************************************************************************)
(* One request at a time: the base role                                    *)
(***************************************************************************)
\* A request makes the base role because there is none, and gives an existing
\* role to everyone whom its deletion left without one.
BaseIsKnown ==
    \A q \in Requests :
      /\ pc[q] = "makeBase" => Sortable = {}
      /\ pc[q] = "roleless" => job[q].role \in roles
      /\ pc[q] = "hold" /\ job[q].op = "delete" => job[q].role \in roles /\ Roleless \subseteq job[q].who

\* The statements that lead to the base role.
LEMMA WaysToTheBaseRole ==
  ASSUME IInv, OneAtATime, NEW q \in Requests, Step(q), pc'[q] \in {"makeBase", "roleless", "hold"}
  PROVE  AssignRole(q) \/ Base(q) \/ MakeBase(q) \/ FindRoleless(q)
<1>1. CASE \/ Kick(q) \/ Leave(q) \/ DropRoles(q) \/ MarkLeft(q) \/ Assign(q) \/ Hold(q) \/ Remove(q)
           \/ Unhold(q) \/ Delete(q) \/ SetGrants(q) \/ DropHolders(q)
  <2>1. \E m \in {"idle", "dropRoles", "markLeft", "assignRole", "unhold", "dropGrants", "dropRow"} :
          pc' = [pc EXCEPT ![q] = m]
    BY <1>1 DEF Kick, Leave, DropRoles, MarkLeft, Assign, Hold, Remove, Unhold, Delete, SetGrants,
       DropHolders, GotoIf, Goto, End
  <2> QED
    BY <2>1, Alone
<1>2. CASE \/ Create(q) \/ Insert(q) \/ Reorder(q) \/ Reseat(q) \/ DropGrants(q) \/ DropRow(q)
           \/ AddGrants(q) \/ Join(q) \/ NewRow(q) \/ Reactivate(q)
  <2>1. \E m \in {"idle", "insert", "reseat", "dropHolders", "addGrants", "base", "newRow", "reactivate"} :
          pc' = [pc EXCEPT ![q] = m]
    BY <1>2 DEF Create, Insert, Reorder, Reseat, DropGrants, DropRow, AddGrants, Join, NewRow, Reactivate,
       GotoIf, Goto, End
  <2> QED
    BY <2>1, Alone
<1> QED
  BY <1>1, <1>2 DEF Step

\* A role is written into the job of a request.
LEMMA RoleNoted ==
  ASSUME IInv, NEW q \in Requests, pc[q] # "idle", NEW r, job' = [job EXCEPT ![q].role = r]
  PROVE  job'[q].role = r /\ job'[q].op = job[q].op /\ job'[q].who = job[q].who
<1>1. job[q] \in Jobs /\ job = [p \in Requests |-> job[p]]
  BY Stepping DEF IInv, TypeOK
<1>2. PICK j : j = [job[q] EXCEPT !.role = r]
  OBVIOUS
<1>3. j.role = r /\ j.op = job[q].op /\ j.who = job[q].who
  BY <1>1, <1>2 DEF Jobs
<1>4. job'[q] = j
  BY <1>1, <1>2
<1> QED
  BY <1>3, <1>4

LEMMA BaseKnownStep ==
  ASSUME IInv, IInv', OneAtATime, BaseIsKnown, NEW q \in Requests, Step(q)
  PROVE  BaseIsKnown'
<1> SUFFICES ASSUME pc'[q] \in {"makeBase", "roleless", "hold"}
             PROVE  /\ pc'[q] = "makeBase" => Sortable' = {}
                    /\ pc'[q] = "roleless" => job'[q].role \in roles'
                    /\ pc'[q] = "hold" /\ job'[q].op = "delete" =>
                         job'[q].role \in roles' /\ Roleless' \subseteq job'[q].who
  BY Alone DEF BaseIsKnown
<1>1. CASE AssignRole(q)
  <2>1. pc'[q] = "hold" /\ job' = job
    BY <1>1, Alone DEF AssignRole, GotoIf, Goto, End
  <2>2. job[q].op = "assign"
    BY <1>1, StatementOf, Stepping DEF Carries
  <2> QED
    BY <2>1, <2>2
<1>2. CASE Base(q)
  <2>1. UNCHANGED <<roles, held, status>> /\ pc[q] = "base"
    BY <1>2 DEF Base, tables
  <2>2. CASE Sortable = {}
    <3>1. pc'[q] = "makeBase"
      BY <1>2, <2>2, Alone DEF Base, Goto
    <3> QED
      BY <2>1, <2>2, <3>1 DEF Sortable
  <2>3. CASE Sortable # {}
    <3>1. PICK r \in Roles : Lowest(r) /\ job' = [job EXCEPT ![q].role = r]
      BY <1>2, <2>3 DEF Base
    <3>2. r \in roles /\ job'[q].role = r /\ job'[q].op = job[q].op
      BY <2>1, <3>1, RoleNoted DEF Lowest, Sortable
    <3>3. PICK m : m = IF job[q].op = "delete" THEN "roleless" ELSE "hold"
      OBVIOUS
    <3>4. pc' = [pc EXCEPT ![q] = m]
      BY <1>2, <2>3, <3>3 DEF Base
    <3>5. pc'[q] = m
      BY <3>4, Alone
    <3> QED
      BY <2>1, <3>2, <3>3, <3>5
  <2> QED
    BY <2>2, <2>3
<1>3. CASE MakeBase(q)
  <2>1. MemberRoles \cap roles = {} /\ pc[q] = "makeBase"
    BY <1>3, Alone DEF MakeBase, End
  <2>2. PICK new \in MemberRoles : roles' = roles \cup {new} /\ job' = [job EXCEPT ![q].role = new]
    BY <1>3, <2>1 DEF MakeBase
  <2>3. new \in roles' /\ job'[q].role = new /\ job'[q].op = job[q].op
    BY <2>1, <2>2, RoleNoted
  <2>4. PICK m : m = IF job[q].op = "delete" THEN "roleless" ELSE "hold"
    OBVIOUS
  <2>5. pc' = [pc EXCEPT ![q] = m]
    BY <1>3, <2>1, <2>4 DEF MakeBase
  <2>6. pc'[q] = m
    BY <2>5, Alone
  <2> QED
    BY <2>3, <2>4, <2>6
<1>4. CASE FindRoleless(q)
  <2>1. /\ pc[q] = "roleless" /\ job' = [job EXCEPT ![q].who = Roleless]
        /\ UNCHANGED <<roles, held, status>> /\ pc' = [pc EXCEPT ![q] = "hold"]
    BY <1>4 DEF FindRoleless, tables
  <2>2. PICK j : j = [job[q] EXCEPT !.who = Roleless]
    OBVIOUS
  <2>3. job[q] \in Jobs
    BY <2>1, Stepping
  <2>4. j.who = Roleless /\ j.role = job[q].role
    BY <2>2, <2>3 DEF Jobs
  <2>5. job'[q] = j /\ pc'[q] = "hold"
    BY <2>1, <2>2, Alone
  <2>6. Roleless' = Roleless /\ job[q].role \in roles
    BY <2>1 DEF Roleless, BaseIsKnown
  <2> QED
    BY <2>1, <2>4, <2>5, <2>6
<1> QED
  BY <1>1, <1>2, <1>3, <1>4, WaysToTheBaseRole

\* Nothing is about the base role when a request begins or dies.
LEMMA BaseKnownNext ==
  ASSUME OneAtATime
  PROVE  IInv /\ IInv' /\ BaseIsKnown /\ [Next]_vars => BaseIsKnown'
<1> SUFFICES ASSUME IInv, IInv', BaseIsKnown, [Next]_vars PROVE BaseIsKnown'
  OBVIOUS
<1>1. ASSUME NEW q \in Requests, Begin(q) PROVE BaseIsKnown'
  <2>1. PICK c, j : Start(q, c, j) /\ j \in Jobs
    BY <1>1, JobsBegun
  <2>2. pc'[q] = j.op /\ j.op \in Operations
    BY <2>1, Alone DEF Start, Jobs
  <2> QED
    BY <2>2, Alone DEF BaseIsKnown, Operations
<1>2. ASSUME NEW q \in Requests, Step(q) PROVE BaseIsKnown'
  BY <1>2, BaseKnownStep
<1>3. ASSUME NEW q \in Requests, Abort(q) PROVE BaseIsKnown'
  <2>1. pc'[q] = "idle"
    BY <1>3, Alone DEF Abort, End
  <2> QED
    BY <2>1, Alone DEF BaseIsKnown
<1>4. CASE UNCHANGED vars
  BY <1>4 DEF vars, BaseIsKnown, Sortable, Roleless
<1> QED
  BY <1>1, <1>2, <1>3, <1>4 DEF Next, Quiet

\* The last statement of a deletion gives a role to all who have none.
LEMMA DeletionEnds ==
  ASSUME IInv, IInv', OneAtATime, BaseIsKnown, [Next]_vars, NEW q \in Requests,
         job[q] # None, job'[q] = None, job[q].op = "delete",
         pc[q] \notin {"delete", "dropGrants", "dropHolders"}, aborts' = aborts
  PROVE  Roleless' = {}
<1>1. pc'[q] = "idle"
  BY NoneAssumption DEF IInv, RequestsAreSound, Carries
<1>2. pc[q] # "idle"
  <2>1. CASE Begin(q)
    <3>1. PICK c, j : Start(q, c, j) /\ j \in Jobs
      BY <2>1, JobsBegun
    <3> QED
      BY <3>1, Alone, NoneAssumption DEF Start
  <2>2. CASE Step(q) \/ Abort(q)
    BY <2>2, StatementOf DEF Step, Abort
  <2>3. CASE UNCHANGED vars
    BY <2>3 DEF vars
  <2> QED
    BY <2>1, <2>2, <2>3 DEF Next, Quiet, OneAtATime
<1>3. Step(q)
  BY <1>1, <1>2, MovingIsStepping DEF Abort, IInv, TypeOK
<1>4. Carries(pc[q], job[q], ctx[q], plan[q]) /\ job[q] \in Jobs
  BY <1>2, Stepping
<1>5. pc[q] \in {"dropRow", "base", "makeBase", "roleless", "hold"}
  BY <1>3, <1>4, StatementOf DEF Step, Carries, Operations
<1>6. ~DropRow(q) /\ ~FindRoleless(q)
  <2>1. DropRow(q) \/ FindRoleless(q) => \E m \in {"base", "hold"} : pc' = [pc EXCEPT ![q] = m]
    BY DEF DropRow, FindRoleless
  <2> QED
    BY <1>1, <2>1, Alone
<1>7. ~Base(q)
  <2> SUFFICES ASSUME Base(q) PROVE FALSE
    OBVIOUS
  <2>1. PICK m : m = IF job[q].op = "delete" THEN "roleless" ELSE "hold"
    OBVIOUS
  <2>2. pc' = [pc EXCEPT ![q] = "makeBase"] \/ pc' = [pc EXCEPT ![q] = m]
    BY <2>1 DEF Base, Goto
  <2> QED
    BY <1>1, <2>1, <2>2, Alone
<1>8. ~MakeBase(q)
  <2> SUFFICES ASSUME MakeBase(q) PROVE FALSE
    OBVIOUS
  <2>1. Sortable = {}
    BY DEF MakeBase, BaseIsKnown
  <2>2. MemberRoles \cap roles = {}
    BY <2>1 DEF Sortable
  <2>3. PICK m : m = IF job[q].op = "delete" THEN "roleless" ELSE "hold"
    OBVIOUS
  <2>4. pc' = [pc EXCEPT ![q] = m]
    BY <2>2, <2>3 DEF MakeBase
  <2> QED
    BY <1>1, <2>3, <2>4, Alone
<1>9. Hold(q)
  BY <1>3, <1>5, <1>6, <1>7, <1>8, StatementOf DEF Step
<1>10. /\ job[q].role \in roles /\ Roleless \subseteq job[q].who /\ status' = status
       /\ held' = [u \in Users |-> IF u \in job[q].who /\ job[q].role \in roles
                                   THEN held[u] \cup {job[q].role} ELSE held[u]]
  BY <1>9 DEF Hold, BaseIsKnown
<1>11. \A u \in Users : u \in job[q].who \/ status[u] # "active" \/ held[u] # {}
  BY <1>10 DEF Roleless
<1> QED
  BY <1>10, <1>11 DEF Roleless

\* One request at a time, whoever lost his only role to a deletion has a role
\* again when the deletion is over, in every clan: an existing one, or the base
\* role made for him.
THEOREM NobodyIsRoleless ==
  ASSUME OneAtATime
  PROVE  Spec => DeletingLeavesNobodyRoleless
<1>1. Init => BaseIsKnown
  BY DEF Init, BaseIsKnown
<1>2. IInv /\ IInv' /\ BaseIsKnown /\ [Next]_vars => BaseIsKnown'
  BY BaseKnownNext
<1>3. IInv /\ IInv' /\ BaseIsKnown /\ [Next]_vars =>
        [\A q \in Requests :
           /\ job[q] # None /\ job'[q] = None
           /\ job[q].op = "delete" /\ pc[q] \notin {"delete", "dropGrants", "dropHolders"}
           /\ aborts' = aborts
           => Roleless' = {}]_vars
  BY DeletionEnds, Zenon
<1> QED
  BY <1>1, <1>2, <1>3, Invariance, PTL DEF Spec, DeletingLeavesNobodyRoleless

-----------------------------------------------------------------------------
(***************************************************************************)
(* One request at a time: the hierarchy                                    *)
(***************************************************************************)
\* What is read before the roles are reseated: the roles that the request may
\* not manage stay above those that were below them, ...
KeepsLocked(q) ==
    \A r \in Locked(q), s \in Sortable : pos[r] > pos[s] => plan[q][r] > plan[q][s]

\* ... and a seat that is left for a new role is below them.
LeavesRoomBelow(q) ==
    \A seat \in 0..Cardinality(Sortable) :
      (\A s \in Sortable : plan[q][s] # seat) => \A r \in Locked(q) : plan[q][r] > seat

\* Statements that act on the role of the job.
ActsOnRole(q) ==
    \/ pc[q] \in {"dropGrants", "addGrants", "dropHolders", "dropRow", "unhold"}
    \/ pc[q] = "hold" /\ job[q].op = "assign"

\* What the checks of a handler found still holds when its statements act on it.
Checked(q) ==
    /\ job[q].op # "join" => (ctx[q].owner <=> job[q].by = Owner)
    /\ ActsOnRole(q) => job[q].role \in roles \ {OwnerRole} /\ CanManage(q, pos[job[q].role])
    /\ pc[q] = "dropRoles" /\ job[q].op = "kick" => \A t \in job[q].who : Outranks(q, held[t])
    /\ pc[q] = "insert" =>
         Seats(plan[q], Cardinality(Sortable) + 1) /\ KeepsLocked(q) /\ LeavesRoomBelow(q)
    /\ pc[q] = "reseat" => Seats(plan[q], Cardinality(Sortable)) /\ KeepsLocked(q)

\* No role is above the owner's, and contexts know who the owner is.
OwnerOnTop == \A r \in roles : pos[r] <= pos[OwnerRole]
OwnerIsKnown == \A u \in Users : cached[u] # None => (cached[u].owner <=> u = Owner)

ChecksHold ==
    /\ OwnerOnTop /\ OwnerIsKnown
    /\ \A q \in Requests : pc[q] # "idle" => Checked(q)

LEMMA ChecksInit == Init => ChecksHold
<1> SUFFICES ASSUME Init PROVE ChecksHold
  OBVIOUS
<1>1. \A r \in Seeded : SeedPosition[r] \in Nat /\ (r # OwnerRole => SeedPosition[OwnerRole] > SeedPosition[r])
  OBVIOUS
<1>2. roles = Seeded /\ \A r \in Seeded : r \in Roles /\ pos[r] = SeedPosition[r]
  BY DEF Init
<1>3. OwnerOnTop
  BY <1>1, <1>2 DEF OwnerOnTop
<1> QED
  BY <1>3 DEF Init, ChecksHold, OwnerIsKnown

\* A request keeps its user, its kind and its context until it ends.
LEMMA WhoAsksStays ==
  ASSUME IInv, OneAtATime, NEW q \in Requests, Step(q), pc'[q] # "idle"
  PROVE  job'[q].by = job[q].by /\ job'[q].op = job[q].op /\ ctx'[q] = ctx[q] /\ cached' = cached
<1>1. pc[q] # "idle"
  BY StatementOf DEF Step
<1>2. job[q] \in Jobs /\ job = [p \in Requests |-> job[p]]
  BY <1>1, Stepping DEF IInv, TypeOK
<1>4. ~End(q)
  BY Alone DEF End
<1>5. CASE \/ Kick(q) \/ Leave(q) \/ DropRoles(q) \/ MarkLeft(q) \/ Assign(q) \/ AssignRole(q) \/ Hold(q)
           \/ Remove(q) \/ Unhold(q) \/ Reseat(q) \/ Delete(q) \/ DropGrants(q)
  BY <1>4, <1>5 DEF Kick, Leave, DropRoles, MarkLeft, Assign, AssignRole, Hold, Remove, Unhold,
     Reseat, Delete, DropGrants, GotoIf, Goto, rest
<1>6. CASE \/ Insert(q) \/ Reorder(q) \/ DropHolders(q) \/ SetGrants(q) \/ AddGrants(q) \/ Join(q)
           \/ NewRow(q) \/ Reactivate(q)
  BY <1>4, <1>6 DEF Insert, Reorder, DropHolders, SetGrants, AddGrants, Join, NewRow, Reactivate, GotoIf, Goto, rest
<1>7. CASE Create(q)
  <2>1. PICK R : job' = [job EXCEPT ![q].rights = R]
    BY <1>7 DEF Create
  <2>2. PICK j : j = [job[q] EXCEPT !.rights = R]
    OBVIOUS
  <2>3. j.by = job[q].by /\ j.op = job[q].op
    BY <1>2, <2>2 DEF Jobs
  <2>4. job'[q] = j
    BY <1>2, <2>1, <2>2
  <2> QED
    BY <1>7, <2>3, <2>4 DEF Create, rest
<1>8. CASE DropRow(q) \/ Base(q) \/ MakeBase(q)
  <2>1. job' = job \/ \E r : job' = [job EXCEPT ![q].role = r]
    BY <1>4, <1>8 DEF DropRow, Base, MakeBase, Goto
  <2>2. job'[q].by = job[q].by /\ job'[q].op = job[q].op
    <3>1. ASSUME NEW r, job' = [job EXCEPT ![q].role = r] PROVE job'[q].by = job[q].by /\ job'[q].op = job[q].op
      <4>1. PICK j : j = [job[q] EXCEPT !.role = r]
        OBVIOUS
      <4>2. j.by = job[q].by /\ j.op = job[q].op
        BY <1>2, <4>1 DEF Jobs
      <4> QED
        BY <1>2, <3>1, <4>1, <4>2
    <3> QED
      BY <2>1, <3>1
  <2>3. ctx' = ctx /\ cached' = cached
    BY <1>4, <1>8 DEF DropRow, Base, MakeBase, Goto, rest
  <2> QED
    BY <2>2, <2>3
<1>9. CASE FindRoleless(q)
  <2>1. PICK j : j = [job[q] EXCEPT !.who = Roleless]
    OBVIOUS
  <2>2. j.by = job[q].by /\ j.op = job[q].op
    BY <1>2, <2>1 DEF Jobs
  <2>3. job'[q] = j
    BY <1>2, <1>9, <2>1 DEF FindRoleless
  <2> QED
    BY <1>9, <2>2, <2>3 DEF FindRoleless, rest
<1> QED
  BY <1>5, <1>6, <1>7, <1>8, <1>9 DEF Step

\* While roles and positions stay, a request that goes on may manage the same
\* roles.
LEMMA LocksStay ==
  ASSUME NEW q \in Requests, UNCHANGED <<roles, pos>>, ctx'[q] = ctx[q], job'[q].by = job[q].by
  PROVE  /\ Sortable' = Sortable /\ Locked(q)' = Locked(q)
         /\ \A r \in Roles : CanManage(q, pos[r])' <=> CanManage(q, pos[r])
<1>1. Sortable' = Sortable
  BY DEF Sortable
<1>2. \A r : CanManage(q, pos[r])' <=> CanManage(q, pos[r])
  BY DEF CanManage, Bypass
<1> QED
  BY <1>1, <1>2 DEF Locked

\* Above a role that the request may not manage there is none it may.
LEMMA LocksGoUp ==
  ASSUME IInv, NEW q \in Requests, pc[q] # "idle", job[q].op # "join",
         NEW r \in Locked(q), NEW s \in Sortable, pos[s] >= pos[r]
  PROVE  s \in Locked(q)
<1>1. ctx[q].ranks \subseteq Nat
  BY Stepping DEF Carries, Contexts
<1>2. pos[s] \in Nat /\ pos[r] \in Nat /\ ~CanManage(q, pos[r])
  BY RolesAreFinite DEF Locked
<1>3. ~CanManage(q, pos[s])
  BY <1>1, <1>2 DEF CanManage
<1> QED
  BY <1>3 DEF Locked

\* So the roles it may not manage have the upper seats in an order by position.
LEMMA LockedSitAbove ==
  ASSUME IInv, NEW q \in Requests, pc[q] # "idle", job[q].op # "join",
         NEW g \in Sorted(Sortable), NEW r \in Locked(q), NEW s \in Sortable, g[s] > g[r]
  PROVE  s \in Locked(q)
<1>1. r \in Sortable /\ pos[s] \in Nat /\ pos[r] \in Nat
  BY RolesAreFinite DEF Locked
<1>2. PICK n : n = Cardinality(Sortable)
  OBVIOUS
<1>3. n \in Nat
  BY <1>2, RolesAreFinite
<1>4. g \in [Sortable -> 0..(n - 1)] /\ (pos[r] > pos[s] => g[r] > g[s])
  BY <1>1, <1>2 DEF Sorted, Seatings
<1>5. pos[s] >= pos[r]
  BY <1>1, <1>3, <1>4
<1> QED
  BY <1>5, LocksGoUp

\* What createRole plans to do with the roles there are.
LEMMA CreateKeepsLocked ==
  ASSUME IInv, NEW q \in Requests, Create(q), ctx'[q] = ctx[q], job'[q].by = job[q].by
  PROVE  KeepsLocked(q)' /\ LeavesRoomBelow(q)'
<1>1. PICK g \in Sorted(Sortable) :
        plan' = [plan EXCEPT ![q] = [r \in Sortable |-> IF r \in Locked(q) THEN g[r] + 1 ELSE g[r]]]
  BY DEF Create
<1>2. PICK f : f = [r \in Sortable |-> IF r \in Locked(q) THEN g[r] + 1 ELSE g[r]]
  OBVIOUS
<1>3. plan = [p \in Requests |-> plan[p]]
  BY DEF IInv, TypeOK
<1>4. plan'[q] = f
  BY <1>1, <1>2, <1>3
<1>5. PICK n : n = Cardinality(Sortable)
  OBVIOUS
<1>6. n \in Nat /\ IsFiniteSet(Sortable)
  BY <1>5, RolesAreFinite
<1>7. g \in Seatings(Sortable) /\ \A r, s \in Sortable : pos[r] > pos[s] => g[r] > g[s]
  BY DEF Sorted
<1>8. g \in [Sortable -> 0..(n - 1)]
  BY <1>5, <1>7 DEF Seatings
<1>9. UNCHANGED <<roles, pos>> /\ pc[q] = "create"
  BY DEF Create, tables
<1>10. job[q].op # "join"
  BY <1>9, Stepping DEF Carries, Operations
<1>11. Locked(q)' = Locked(q) /\ Sortable' = Sortable /\ Locked(q) \subseteq Sortable
  BY <1>9, LocksStay DEF Locked
<1>12. \A r \in Sortable : g[r] \in 0..(n - 1) /\ f[r] = IF r \in Locked(q) THEN g[r] + 1 ELSE g[r]
  BY <1>2, <1>8
<1>13. ASSUME NEW r \in Locked(q), NEW s \in Sortable, pos[r] > pos[s]
       PROVE  f[r] > f[s]
  <2>1. g[r] > g[s] /\ f[r] = g[r] + 1 /\ f[s] \in {g[s], g[s] + 1} /\ g[r] \in Int /\ g[s] \in Int
    BY <1>6, <1>7, <1>11, <1>12, <1>13
  <2> QED
    BY <2>1
<1>14. ASSUME NEW seat \in 0..n, \A s \in Sortable : f[s] # seat, NEW r \in Locked(q)
       PROVE  f[r] > seat
  <2> SUFFICES ASSUME ~(f[r] > seat) PROVE FALSE
    OBVIOUS
  <2>1. r \in Sortable /\ g[r] \in 0..(n - 1) /\ f[r] = g[r] + 1 /\ f[r] # seat
    BY <1>11, <1>12, <1>14
  <2>2. seat - 1 \in 0..(n - 1) /\ seat - 1 > g[r]
    BY <1>6, <2>1
  <2>3. PICK s \in Sortable : g[s] = seat - 1
    BY <1>5, <1>6, <1>7, <2>2, SeatsAreTaken
  <2>4. s \in Locked(q)
    BY <1>9, <1>10, <2>2, <2>3, LockedSitAbove
  <2>5. f[s] = seat
    BY <1>12, <2>3, <2>4
  <2> QED
    BY <1>14, <2>5
<1> QED
  BY <1>4, <1>5, <1>9, <1>11, <1>13, <1>14 DEF KeepsLocked, LeavesRoomBelow

\* The new role gets the seat below the roles that its user may not manage.
LEMMA InsertKeepsLocked ==
  ASSUME IInv, NEW q \in Requests, Insert(q), Seats(plan[q], Cardinality(Sortable) + 1),
         KeepsLocked(q), LeavesRoomBelow(q), ctx'[q] = ctx[q], job'[q].by = job[q].by
  PROVE  KeepsLocked(q)' /\ \A r \in roles : r \in roles' /\ pos'[r] = pos[r]
<1>1. PICK new \in Roles \ MemberRoles, seat \in 0..Cardinality(DOMAIN plan[q]) :
         /\ Unused(q, new)
         /\ \A r \in DOMAIN plan[q] : r # new /\ plan[q][r] # seat
         /\ roles' = roles \cup {new}
         /\ pos' = [pos EXCEPT ![new] = 0]
         /\ plan' = [plan EXCEPT ![q] =
                       [r \in DOMAIN plan[q] \cup {new} |-> IF r = new THEN seat ELSE plan[q][r]]]
  BY DEF Insert
<1>2. PICK f : f = plan[q]
  OBVIOUS
<1>3. PICK h : h = [r \in DOMAIN plan[q] \cup {new} |-> IF r = new THEN seat ELSE plan[q][r]]
  OBVIOUS
<1>4. plan = [p \in Requests |-> plan[p]] /\ pos \in [Roles -> Nat] /\ roles \subseteq Roles
  BY DEF IInv, TypeOK
<1>5. plan'[q] = h
  BY <1>1, <1>3, <1>4
<1>6. f \in [Sortable -> Nat] /\ DOMAIN f = Sortable
  BY <1>2 DEF Seats
<1>7. new \notin roles /\ new # OwnerRole /\ new \notin Sortable
  BY <1>1, RolesAreFinite DEF Unused, Sortable
<1>8. Sortable' = Sortable \cup {new}
  BY <1>1, <1>7 DEF Sortable
<1>9. pos'[new] = 0 /\ \A r \in roles : r \in roles' /\ pos'[r] = pos[r]
  BY <1>1, <1>4, <1>7
<1>10. h[new] = seat /\ \A r \in Sortable : h[r] = f[r]
  BY <1>2, <1>3, <1>6, <1>7
<1>11. \A r \in Locked(q) : f[r] > seat
  <2>1. seat \in 0..Cardinality(Sortable) /\ \A s \in Sortable : f[s] # seat
    BY <1>1, <1>2, <1>6
  <2> QED
    BY <1>2, <2>1 DEF LeavesRoomBelow
<1>12. \A r \in Sortable : r \in Locked(q)' => r \in Locked(q)
  <2>1. \A r \in Sortable : CanManage(q, pos[r])' <=> CanManage(q, pos[r])
    BY <1>9 DEF CanManage, Bypass, Sortable
  <2> QED
    BY <2>1 DEF Locked
<1>13. ASSUME NEW r \in Locked(q)', NEW s \in Sortable', pos'[r] > pos'[s]
       PROVE  plan'[q][r] > plan'[q][s]
  <2>1. r \in Sortable' /\ pos'[s] \in Nat
    BY <1>4, <1>8, <1>9 DEF Locked, Sortable
  <2>2. r # new
    BY <1>9, <1>13, <2>1
  <2>3. r \in Sortable /\ r \in Locked(q)
    BY <1>8, <1>12, <2>1, <2>2
  <2>4. CASE s = new
    BY <1>5, <1>10, <1>11, <2>3, <2>4
  <2>5. CASE s # new
    <3>1. s \in Sortable /\ pos[r] > pos[s]
      BY <1>8, <1>9, <1>13, <2>3, <2>5 DEF Sortable
    <3>2. f[r] > f[s]
      BY <1>2, <2>3, <3>1 DEF KeepsLocked
    <3> QED
      BY <1>5, <1>10, <2>3, <3>1, <3>2
  <2> QED
    BY <2>4, <2>5
<1> QED
  BY <1>9, <1>13 DEF KeepsLocked

\* An order that leaves the roles its user may not manage in their seats leaves
\* them above the others.
LEMMA ReorderKeepsLocked ==
  ASSUME IInv, NEW q \in Requests, Reorder(q), ctx'[q] = ctx[q], job'[q].by = job[q].by
  PROVE  KeepsLocked(q)'
<1>1. PICK f \in Seatings(Sortable), g \in Sorted(Sortable) :
         /\ \A r \in Locked(q) : f[r] = g[r]
         /\ plan' = [plan EXCEPT ![q] = f]
  BY DEF Reorder
<1>2. plan = [p \in Requests |-> plan[p]]
  BY DEF IInv, TypeOK
<1>3. plan'[q] = f
  BY <1>1, <1>2
<1>4. PICK n : n = Cardinality(Sortable)
  OBVIOUS
<1>5. n \in Nat /\ IsFiniteSet(Sortable)
  BY <1>4, RolesAreFinite
<1>6. g \in Seatings(Sortable) /\ \A r, s \in Sortable : pos[r] > pos[s] => g[r] > g[s]
  BY DEF Sorted
<1>7. /\ g \in [Sortable -> 0..(n - 1)] /\ f \in [Sortable -> 0..(n - 1)]
      /\ \A r, s \in Sortable : r # s => f[r] # f[s]
  BY <1>4, <1>6 DEF Seatings
<1>8. UNCHANGED <<roles, pos>> /\ pc[q] = "reorder"
  BY DEF Reorder, tables
<1>9. job[q].op # "join"
  BY <1>8, Stepping DEF Carries, Operations
<1>10. Locked(q)' = Locked(q) /\ Sortable' = Sortable /\ Locked(q) \subseteq Sortable
  BY <1>8, LocksStay DEF Locked
<1>11. ASSUME NEW r \in Locked(q), NEW s \in Sortable, pos[r] > pos[s]
       PROVE  f[r] > f[s]
  <2>1. g[r] > g[s] /\ f[r] = g[r] /\ r \in Sortable
    BY <1>1, <1>6, <1>10, <1>11
  <2>2. f[s] \in 0..(n - 1) /\ g[s] \in 0..(n - 1) /\ g[r] \in 0..(n - 1) /\ r # s
    BY <1>7, <1>5, <2>1
  <2>3. PICK x \in Sortable : g[x] = f[s]
    BY <1>4, <1>5, <1>6, <2>2, SeatsAreTaken
  <2>4. ASSUME f[s] > f[r] PROVE FALSE
    <3>1. x \in Locked(q)
      BY <1>8, <1>9, <2>1, <2>3, <2>4, LockedSitAbove
    <3>2. f[x] = f[s]
      BY <1>1, <2>3, <3>1
    <3>3. x = s
      BY <1>7, <3>2
    <3> QED
      BY <1>5, <2>1, <2>2, <2>3, <2>4, <3>3
  <2> QED
    BY <1>5, <1>7, <2>1, <2>2, <2>4
<1> QED
  BY <1>3, <1>8, <1>10, <1>11 DEF KeepsLocked

\* The owner role stays on top.
LEMMA OwnerStaysOnTop ==
  ASSUME IInv, OneAtATime, ChecksHold, NEW q \in Requests, Step(q)
  PROVE  OwnerOnTop'
<1>1. /\ OwnerOnTop /\ OwnerRole \in roles /\ roles \subseteq Roles /\ pos \in [Roles -> Nat]
      /\ pc[q] # "idle" /\ Checked(q)
  BY RolesAreFinite, StatementOf DEF ChecksHold, Step, IInv, TypeOK
<1>2. CASE UNCHANGED <<roles, pos>>
  BY <1>1, <1>2 DEF OwnerOnTop
<1>3. CASE Insert(q)
  <2>1. PICK new \in Roles : new \notin roles /\ roles' = roles \cup {new} /\ pos' = [pos EXCEPT ![new] = 0]
    BY <1>3 DEF Insert, Unused
  <2> QED
    BY <1>1, <2>1 DEF OwnerOnTop
<1>4. CASE Reseat(q)
  <2>1. PICK f : f = plan[q]
    OBVIOUS
  <2>2. PICK n : n = Cardinality(Sortable)
    OBVIOUS
  <2>3. f \in [Sortable -> Nat] /\ \A r \in Sortable : f[r] < n
    BY <1>1, <1>4, <2>1, <2>2 DEF Checked, Seats, Reseat
  <2>4. DOMAIN f = Sortable
    BY <2>3
  <2>5. /\ roles' = roles
        /\ pos' = [r \in Roles |->
                   IF r = OwnerRole THEN n
                   ELSE IF r \in roles /\ r \in Sortable THEN f[r] ELSE pos[r]]
    BY <1>4, <2>1, <2>2, <2>4 DEF Reseat
  <2>6. pos'[OwnerRole] = n /\ \A r \in Sortable : pos'[r] = f[r]
    BY <2>5, RolesAreFinite DEF Sortable
  <2>7. n \in Nat /\ roles = Sortable \cup {OwnerRole}
    BY <2>2, RolesAreFinite
  <2> QED
    BY <2>3, <2>5, <2>6, <2>7 DEF OwnerOnTop
<1>5. CASE DropRow(q)
  <2>1. roles' = roles \ {job[q].role} /\ pos' = [pos EXCEPT ![job[q].role] = 0]
    BY <1>5 DEF DropRow
  <2>2. job[q].role # OwnerRole
    BY <1>1, <1>5, Stepping DEF DropRow, Carries
  <2> QED
    BY <1>1, <2>1, <2>2 DEF OwnerOnTop
<1>6. CASE MakeBase(q)
  <2>1. CASE MemberRoles \cap roles # {}
    BY <1>2, <1>6, <2>1 DEF MakeBase, tables
  <2>2. CASE MemberRoles \cap roles = {}
    <3>1. PICK new \in MemberRoles : roles' = roles \cup {new} /\ pos' = [pos EXCEPT ![new] = 0]
      BY <1>6, <2>2 DEF MakeBase
    <3>2. new \in Roles /\ new \notin roles
      BY <2>2
    <3> QED
      BY <1>1, <3>1, <3>2 DEF OwnerOnTop
  <2> QED
    BY <2>1, <2>2
<1>7. Insert(q) \/ Reseat(q) \/ DropRow(q) \/ MakeBase(q) \/ UNCHANGED <<roles, pos>>
  BY DEF Step, Kick, Leave, DropRoles, MarkLeft, Assign, AssignRole, Hold, Remove, Unhold, Create, Reorder,
     Delete, DropGrants, DropHolders, Base, FindRoleless, SetGrants, AddGrants, Join, NewRow, Reactivate, tables
<1> QED
  BY <1>2, <1>3, <1>4, <1>5, <1>6, <1>7

\* The checks that a statement relies on were made, and nothing has changed
\* since.
LEMMA CheckedStep ==
  ASSUME IInv, OneAtATime, ChecksHold, NEW q \in Requests, Step(q), pc'[q] # "idle"
  PROVE  Checked(q)'
<1>1. /\ job'[q].by = job[q].by /\ job'[q].op = job[q].op /\ ctx'[q] = ctx[q]
      /\ pc[q] # "idle" /\ Checked(q)
  BY WhoAsksStays, StatementOf DEF ChecksHold, Step
<1>2. job'[q].op # "join" => (ctx'[q].owner <=> job'[q].by = Owner)
  BY <1>1 DEF Checked
<1>3. Carries(pc[q], job[q], ctx[q], plan[q]) /\ job[q] \in Jobs
  BY <1>1, Stepping
<1> DEFINE Quietly == pc'[q] \notin {"dropGrants", "addGrants", "dropHolders", "dropRow", "unhold", "dropRoles",
                                     "insert", "reseat"} /\ ~(pc'[q] = "hold" /\ job[q].op = "assign")
<1>4. Quietly => Checked(q)'
  BY <1>1, <1>2 DEF Checked, ActsOnRole
<1>5. ~End(q)
  BY Alone DEF End
<1>6. CASE Kick(q) \/ Leave(q)
  <2>1. UNCHANGED <<roles, pos, held, job>> /\ pc'[q] = "dropRoles"
        /\ (Kick(q) => \A t \in job[q].who : Outranks(q, held[t]))
    BY <1>5, <1>6, Alone DEF Kick, Leave, GotoIf, Goto, tables
  <2>2. job[q].op = "kick" => Kick(q)
    BY <1>3, <1>6, StatementOf DEF Carries, Operations
  <2>3. \A S : Outranks(q, S)' <=> Outranks(q, S)
    BY <1>1, <2>1 DEF Outranks, Bypass
  <2>4. job[q].op = "kick" => \A t \in job'[q].who : Outranks(q, held[t])'
    BY <2>1, <2>2, <2>3
  <2> QED
    BY <1>1, <1>2, <2>1, <2>4 DEF Checked, ActsOnRole
<1>7. CASE AssignRole(q) \/ Remove(q) \/ Delete(q) \/ SetGrants(q)
  <2>1. /\ UNCHANGED <<roles, pos, job>> /\ pc'[q] \in {"hold", "unhold", "dropGrants"}
        /\ job[q].role \in roles \ {OwnerRole} /\ CanManage(q, pos[job[q].role])
    BY <1>5, <1>7, Alone DEF AssignRole, Remove, Delete, SetGrants, GotoIf, Goto, tables
  <2>2. CanManage(q, pos[job[q].role])'
    BY <1>1, <2>1 DEF CanManage, Bypass
  <2> QED
    BY <1>1, <1>2, <2>1, <2>2 DEF Checked, ActsOnRole
<1>8. CASE DropGrants(q) \/ DropHolders(q)
  <2>1. \E m \in {"dropHolders", "addGrants", "dropRow"} : Goto(q, m)
    BY <1>8 DEF DropGrants, DropHolders
  <2>2. UNCHANGED <<roles, pos, job>> /\ pc'[q] \in {"dropHolders", "addGrants", "dropRow"}
    BY <1>8, <2>1, Alone DEF DropGrants, DropHolders, Goto
  <2>3. job[q].role \in roles \ {OwnerRole} /\ CanManage(q, pos[job[q].role])
    BY <1>1, <1>8, StatementOf DEF Checked, ActsOnRole
  <2>4. CanManage(q, pos[job[q].role])'
    BY <1>1, <2>2, <2>3 DEF CanManage, Bypass
  <2> QED
    BY <1>1, <1>2, <2>2, <2>3, <2>4 DEF Checked, ActsOnRole
<1>9. CASE Create(q)
  <2>1. UNCHANGED <<roles, pos>> /\ pc'[q] = "insert"
    BY <1>9, Alone DEF Create, tables
  <2>2. KeepsLocked(q)' /\ LeavesRoomBelow(q)'
    BY <1>1, <1>9, CreateKeepsLocked
  <2>3. Sortable' = Sortable
    BY <2>1 DEF Sortable
  <2>4. Seats(plan[q], Cardinality(Sortable) + 1)'
    BY <1>9, <2>3, CreateSeats DEF Seats
  <2> QED
    BY <1>1, <1>2, <2>1, <2>2, <2>4 DEF Checked, ActsOnRole
<1>10. CASE Insert(q)
  <2>1. Seats(plan[q], Cardinality(Sortable) + 1) /\ KeepsLocked(q) /\ LeavesRoomBelow(q)
    BY <1>1, <1>10 DEF Checked, Insert
  <2>2. KeepsLocked(q)' /\ Seats(plan[q], Cardinality(Sortable))'
    BY <1>1, <1>10, <2>1, InsertKeepsLocked, InsertSeats
  <2>3. pc'[q] = "reseat"
    BY <1>10, Alone DEF Insert
  <2> QED
    BY <1>1, <1>2, <2>2, <2>3 DEF Checked, ActsOnRole
<1>11. CASE Reorder(q)
  <2>1. UNCHANGED <<roles, pos>> /\ pc'[q] = "reseat"
    BY <1>11, Alone DEF Reorder, tables
  <2>2. Sortable' = Sortable
    BY <2>1 DEF Sortable
  <2>3. KeepsLocked(q)' /\ Seats(plan[q], Cardinality(Sortable))'
    BY <1>1, <1>11, <2>2, ReorderKeepsLocked, ReorderSeats DEF Seats
  <2> QED
    BY <1>1, <1>2, <2>1, <2>3 DEF Checked, ActsOnRole
<1>12. CASE \/ DropRoles(q) \/ MarkLeft(q) \/ Assign(q) \/ Hold(q) \/ Unhold(q) \/ Reseat(q) \/ AddGrants(q)
            \/ Join(q) \/ NewRow(q) \/ Reactivate(q) \/ DropRow(q)
  <2>1. \E m \in {"markLeft", "assignRole", "newRow", "reactivate", "base"} : pc' = [pc EXCEPT ![q] = m]
    BY <1>5, <1>12 DEF DropRoles, MarkLeft, Assign, Hold, Unhold, Reseat, AddGrants, Join, NewRow, Reactivate,
       DropRow, GotoIf, Goto
  <2>2. pc'[q] \in {"markLeft", "assignRole", "newRow", "reactivate", "base"}
    BY <2>1, Alone
  <2> QED
    BY <1>4, <2>2
<1>13. CASE Base(q) \/ MakeBase(q) \/ FindRoleless(q)
  <2>1. job[q].op # "assign"
    BY <1>3, <1>13, StatementOf DEF Carries
  <2>2. pc'[q] \in {"makeBase", "roleless", "hold"}
    <3>1. PICK m : m = IF job[q].op = "delete" THEN "roleless" ELSE "hold"
      OBVIOUS
    <3>2. pc' = [pc EXCEPT ![q] = m] \/ pc' = [pc EXCEPT ![q] = "makeBase"] \/ pc' = [pc EXCEPT ![q] = "hold"]
      BY <1>5, <1>13, <3>1 DEF Base, MakeBase, FindRoleless, Goto
    <3> QED
      BY <3>1, <3>2, Alone
  <2> QED
    BY <1>4, <2>1, <2>2
<1> QED
  BY <1>6, <1>7, <1>8, <1>9, <1>10, <1>11, <1>12, <1>13 DEF Step

\* Requests begin with a context that knows the owner.
LEMMA ChecksHoldNext ==
  ASSUME OneAtATime
  PROVE  IInv /\ IInv' /\ ChecksHold /\ [Next]_vars => ChecksHold'
<1> SUFFICES ASSUME IInv, IInv', ChecksHold, [Next]_vars PROVE ChecksHold'
  OBVIOUS
<1>1. ASSUME NEW q \in Requests, Begin(q) PROVE ChecksHold'
  <2>1. PICK c, j : /\ Start(q, c, j) /\ j \in Jobs
                    /\ j.op # "join" => c \in ContextsOf(j.by)
                    /\ cached' \in {cached, [cached EXCEPT ![j.by] = Context(j.by)]}
    BY <1>1, JobsBegun
  <2>2. /\ pc' = [pc EXCEPT ![q] = j.op] /\ job' = [job EXCEPT ![q] = j] /\ ctx' = [ctx EXCEPT ![q] = c]
        /\ UNCHANGED <<roles, pos>> /\ j.op \in Operations /\ j.by \in Users
    BY <2>1 DEF Start, tables, Jobs
  <2>3. pc'[q] = j.op /\ job'[q] = j /\ ctx'[q] = c
    BY <2>2 DEF IInv, TypeOK
  <2>4. OwnerIsKnown /\ OwnerOnTop
    BY DEF ChecksHold
  <2>5. \A u \in Users : Context(u).owner <=> u = Owner
    BY DEF Context
  <2>6. \A d \in ContextsOf(j.by) : d.owner <=> j.by = Owner
    BY <2>2, <2>4, <2>5 DEF ContextsOf, OwnerIsKnown
  <2>7. OwnerIsKnown' /\ OwnerOnTop'
    BY <2>1, <2>2, <2>4, <2>5 DEF OwnerIsKnown, OwnerOnTop, IInv, TypeOK
  <2>8. Checked(q)'
    BY <2>1, <2>2, <2>3, <2>6 DEF Checked, ActsOnRole, Operations
  <2> QED
    BY <2>7, <2>8 DEF ChecksHold, OneAtATime
<1>2. ASSUME NEW q \in Requests, Step(q) PROVE ChecksHold'
  <2>1. cached' = cached
    BY <1>2 DEF Step, Kick, Leave, DropRoles, MarkLeft, Assign, AssignRole, Hold,
       Remove, Unhold, Create, Insert, Reorder, Reseat, Delete, DropGrants, DropHolders, DropRow, Base, MakeBase,
       FindRoleless, SetGrants, AddGrants, Join, NewRow, Reactivate, rest
  <2>2. OwnerIsKnown'
    BY <2>1 DEF ChecksHold, OwnerIsKnown
  <2> QED
    BY <1>2, <2>2, CheckedStep, OwnerStaysOnTop DEF ChecksHold, OneAtATime
<1>3. ASSUME NEW q \in Requests, Abort(q) PROVE ChecksHold'
  <2>1. pc'[q] = "idle" /\ UNCHANGED <<roles, pos, cached>>
    BY <1>3, Alone DEF Abort, End, tables
  <2> QED
    BY <2>1, Alone DEF ChecksHold, OwnerIsKnown, OwnerOnTop
<1>4. CASE UNCHANGED vars
  <2>1. UNCHANGED <<roles, pos, held, cached, pc, job, ctx, plan>>
    BY <1>4 DEF vars, tables
  <2>2. \A q \in Requests : Checked(q) => Checked(q)'
    <3>1. Sortable' = Sortable
      BY <2>1 DEF Sortable
    <3>2. ASSUME NEW q \in Requests PROVE Locked(q)' = Locked(q)
      BY <2>1, LocksStay
    <3> QED
      BY <2>1, <3>1, <3>2 DEF Checked, ActsOnRole, CanManage, Outranks, Bypass, Seats, KeepsLocked, LeavesRoomBelow
  <2> QED
    BY <2>1, <2>2 DEF ChecksHold, OwnerIsKnown, OwnerOnTop
<1> QED
  BY <1>1, <1>2, <1>3, <1>4 DEF Next, Quiet

\* For a user who is bound by the hierarchy and whose context knows his place,
\* the roles at or above his own are those he may not manage.
LEMMA AboveIsLocked ==
  ASSUME IInv, ChecksHold, FormerMembersHoldNothing, NEW q \in Requests, ActsUnderHierarchy(q)
  PROVE  /\ \A r \in roles : r \in AtOrAbove(job[q].by) <=> ~CanManage(q, pos[r])
         /\ \A r \in AtOrAbove(job[q].by), s \in roles \ AtOrAbove(job[q].by) : pos[r] > pos[s]
         /\ OwnerRole \in AtOrAbove(job[q].by)
         /\ ~Bypass(ctx[q], job[q].by)
         /\ AtOrAbove(job[q].by) \subseteq roles
<1>1. /\ pc[q] # "idle" /\ job[q].op # "join" /\ KnowsItsPlace(q)
      /\ job[q].by # Owner /\ job[q].by \notin Admins
  BY DEF ActsUnderHierarchy
<1>2. job[q] \in Jobs /\ ctx[q].ranks \subseteq Nat
  BY <1>1, Stepping DEF Carries, Contexts
<1>3. PICK u \in Users : u = job[q].by
  BY <1>2 DEF Jobs
<1>4. ~Bypass(ctx[q], job[q].by)
  BY <1>1 DEF ChecksHold, Checked, Bypass
<1>5. /\ held[u] \subseteq roles /\ roles \subseteq Roles /\ OwnerRole \in roles
      /\ \A r \in roles : pos[r] \in Nat
  BY RolesAreFinite DEF IInv, TypeOK
<1>6. Context(u).ranks = {pos[r] : r \in held[u]}
  BY DEF Context, FormerMembersHoldNothing
<1>7. \A r \in roles : r \in AtOrAbove(u) <=> ~CanManage(q, pos[r])
  <2> SUFFICES ASSUME NEW r \in roles PROVE (\E mine \in held[u] : ~(pos[mine] <= pos[r])) <=> CanManage(q, pos[r])
    BY DEF AtOrAbove
  <2>1. ASSUME NEW mine \in held[u], ~(pos[mine] <= pos[r]) PROVE CanManage(q, pos[r])
    <3>1. pos[mine] \in Context(u).ranks
      BY <1>6
    <3>2. PICK o \in ctx[q].ranks : o >= pos[mine]
      BY <1>1, <1>3, <3>1 DEF KnowsItsPlace
    <3>3. o > pos[r]
      BY <1>2, <1>5, <2>1, <3>2
    <3> QED
      BY <3>3 DEF CanManage
  <2>2. ASSUME CanManage(q, pos[r]) PROVE \E mine \in held[u] : ~(pos[mine] <= pos[r])
    <3>1. PICK o \in ctx[q].ranks : o > pos[r]
      BY <1>4, <2>2 DEF CanManage
    <3>2. PICK p \in Context(u).ranks : p >= o
      BY <1>1, <1>3, <3>1 DEF KnowsItsPlace
    <3>3. PICK mine \in held[u] : pos[mine] = p
      BY <1>6, <3>2
    <3> QED
      BY <1>2, <1>5, <3>1, <3>2, <3>3
  <2> QED
    BY <2>1, <2>2
<1>8. \A r \in AtOrAbove(u), s \in roles \ AtOrAbove(u) : pos[r] > pos[s]
  BY <1>5 DEF AtOrAbove
<1>9. OwnerRole \in AtOrAbove(u)
  BY <1>5 DEF AtOrAbove, ChecksHold, OwnerOnTop
<1> QED
  BY <1>3, <1>4, <1>7, <1>8, <1>9 DEF AtOrAbove

\* What a step does to the hierarchy above u, if A is AtOrAbove(u): it lets the
\* roles of A, their rights and positions be, ...
LEMMA RolesAboveStay ==
  ASSUME IInv, NEW u \in Users,
         \A r \in AtOrAbove(u), s \in roles \ AtOrAbove(u) : pos[r] > pos[s],
         AtOrAbove(u) \subseteq roles',
         \A r \in AtOrAbove(u) : grants'[r] = grants[r],
         \A r \in roles : r \in roles' => pos'[r] = pos[r],
         \A r \in roles' \ roles : pos'[r] = 0
  PROVE  KeepsRolesAbove(u)
<1>1. AtOrAbove(u) \subseteq roles /\ \A r \in roles : pos[r] \in Nat
  BY DEF AtOrAbove, IInv, TypeOK
<1> QED
  BY <1>1 DEF KeepsRolesAbove

\* ... and so their holders.
LEMMA MembersAboveStay ==
  ASSUME NEW u \in Users, status' = status,
         \A v \in Users \ {u} : held[v] \cap AtOrAbove(u) \subseteq held'[v],
         \A v \in Users : (held'[v] \ held[v]) \cap AtOrAbove(u) = {}
  PROVE  KeepsMembersAbove(u) /\ AssignsOnlyBelow(u)
  BY DEF KeepsMembersAbove, AssignsOnlyBelow

\* Every statement respects the hierarchy, because its handler's checks do.
LEMMA StatementsRespect ==
  ASSUME IInv, OneAtATime, MembersAreKnown, ChecksHold, NEW q \in Requests, Step(q), ActsUnderHierarchy(q)
  PROVE  /\ KeepsRolesAbove(job[q].by)
         /\ KeepsMembersAbove(job[q].by)
         /\ job[q].op # "delete" => AssignsOnlyBelow(job[q].by)
<1>1. /\ Carries(pc[q], job[q], ctx[q], plan[q]) /\ job[q] \in Jobs /\ job[q].op # "join"
      /\ pc[q] # "idle" /\ Checked(q) /\ FormerMembersHoldNothing
  BY Stepping DEF ActsUnderHierarchy, ChecksHold, MembersAreKnown
<1>2. PICK u \in Users : u = job[q].by
  BY <1>1 DEF Jobs
<1>3. /\ \A r \in roles : r \in AtOrAbove(u) <=> ~CanManage(q, pos[r])
      /\ \A r \in AtOrAbove(u), s \in roles \ AtOrAbove(u) : pos[r] > pos[s]
      /\ OwnerRole \in AtOrAbove(u) /\ AtOrAbove(u) \subseteq roles
      /\ ~Bypass(ctx[q], job[q].by)
  BY <1>1, <1>2, AboveIsLocked
<1>4. /\ held \in [Users -> SUBSET roles] /\ roles \subseteq Roles
      /\ pos \in [Roles -> Nat] /\ grants \in [Roles -> SUBSET Rights]
  BY DEF IInv, TypeOK
<1>5. UNCHANGED <<roles, pos, grants>> => KeepsRolesAbove(u)
  BY <1>3, RolesAboveStay
<1>6. UNCHANGED <<status, held>> => KeepsMembersAbove(u) /\ AssignsOnlyBelow(u)
  BY MembersAboveStay
<1>7. ActsOnRole(q) => job[q].role \in roles /\ job[q].role \notin AtOrAbove(u)
  BY <1>1, <1>3 DEF Checked
<1>8. CASE UNCHANGED tables
  BY <1>2, <1>5, <1>6, <1>8 DEF tables
<1>9. CASE DropRoles(q)
  <2>1. /\ UNCHANGED <<roles, pos, grants, status>> /\ pc[q] = "dropRoles"
        /\ held' = [v \in Users |-> IF v \in job[q].who THEN {} ELSE held[v]]
    BY <1>9 DEF DropRoles
  <2>2. ASSUME NEW v \in Users \ {u}, v \in job[q].who PROVE held[v] \cap AtOrAbove(u) = {}
    <3>1. job[q].op = "kick"
      BY <1>1, <1>2, <2>1, <2>2 DEF Carries
    <3>2. Outranks(q, held[v])
      BY <1>1, <2>1, <2>2, <3>1 DEF Checked
    <3>3. \A r \in held[v] : CanManage(q, pos[r])
      BY <1>3, <3>2 DEF Outranks, CanManage
    <3> QED
      BY <1>3, <1>4, <3>3
  <2>3. KeepsMembersAbove(u) /\ AssignsOnlyBelow(u)
    BY <2>1, <2>2, MembersAboveStay
  <2> QED
    BY <1>2, <1>5, <2>1, <2>3
<1>10. CASE MarkLeft(q)
  <2>1. /\ UNCHANGED <<roles, pos, grants, held>> /\ pc[q] = "markLeft"
        /\ status' = [v \in Users |-> IF v \in job[q].who THEN "left" ELSE status[v]]
    BY <1>10 DEF MarkLeft
  <2>2. \A v \in job[q].who : held[v] = {}
    BY <2>1 DEF MembersAreKnown
  <2>3. KeepsMembersAbove(u) /\ AssignsOnlyBelow(u)
    BY <2>1, <2>2 DEF KeepsMembersAbove, AssignsOnlyBelow, IInv, TypeOK
  <2> QED
    BY <1>2, <1>5, <2>1, <2>3
<1>11. CASE Hold(q)
  <2>1. /\ UNCHANGED <<roles, pos, grants, status>> /\ pc[q] = "hold"
        /\ held' = [v \in Users |-> IF v \in job[q].who /\ job[q].role \in roles
                                    THEN held[v] \cup {job[q].role} ELSE held[v]]
    BY <1>11 DEF Hold
  <2>2. KeepsMembersAbove(u)
    BY <2>1 DEF KeepsMembersAbove
  <2>3. ASSUME job[q].op # "delete" PROVE AssignsOnlyBelow(u)
    <3>1. ActsOnRole(q)
      BY <1>1, <2>1, <2>3 DEF Carries, ActsOnRole
    <3> QED
      BY <1>7, <2>1, <3>1 DEF AssignsOnlyBelow
  <2> QED
    BY <1>2, <1>5, <2>1, <2>2, <2>3
<1>12. CASE Unhold(q)
  <2>1. /\ UNCHANGED <<roles, pos, grants, status>> /\ ActsOnRole(q)
        /\ held' = [v \in Users |-> IF v \in job[q].who THEN held[v] \ {job[q].role} ELSE held[v]]
    BY <1>12 DEF Unhold, ActsOnRole
  <2>2. KeepsMembersAbove(u) /\ AssignsOnlyBelow(u)
    BY <1>7, <2>1, MembersAboveStay
  <2> QED
    BY <1>2, <1>5, <2>1, <2>2
<1>13. CASE Insert(q)
  <2>1. PICK new \in Roles : /\ new \notin roles /\ roles' = roles \cup {new}
                             /\ pos' = [pos EXCEPT ![new] = 0]
                             /\ grants' = [grants EXCEPT ![new] = job[q].rights]
                             /\ UNCHANGED <<status, held>>
    BY <1>13 DEF Insert, Unused
  <2>2. \A r \in roles : r \in roles' /\ pos'[r] = pos[r] /\ grants'[r] = grants[r]
    BY <1>4, <2>1
  <2>3. \A r \in roles' \ roles : pos'[r] = 0
    BY <1>4, <2>1
  <2>4. KeepsRolesAbove(u)
    BY <1>3, <2>2, <2>3, RolesAboveStay
  <2> QED
    BY <1>2, <1>6, <2>1, <2>4
<1>14. CASE Reseat(q)
  <2>1. PICK f : f = plan[q]
    OBVIOUS
  <2>2. PICK n : n = Cardinality(Sortable)
    OBVIOUS
  <2>3. /\ f \in [Sortable -> Nat] /\ \A r \in Sortable : f[r] < n
        /\ \A r \in Locked(q), s \in Sortable : pos[r] > pos[s] => f[r] > f[s]
    BY <1>1, <1>14, <2>1, <2>2 DEF Checked, Seats, KeepsLocked, Reseat
  <2>4. DOMAIN f = Sortable
    BY <2>3
  <2>5. /\ UNCHANGED <<roles, grants, status, held>>
        /\ pos' = [r \in Roles |->
                   IF r = OwnerRole THEN n
                   ELSE IF r \in roles /\ r \in Sortable THEN f[r] ELSE pos[r]]
    BY <1>14, <2>1, <2>2, <2>4 DEF Reseat
  <2>6. pos'[OwnerRole] = n /\ \A r \in Sortable : pos'[r] = f[r]
    BY <2>5, RolesAreFinite DEF Sortable
  <2>7. /\ n \in Nat /\ roles = Sortable \cup {OwnerRole} /\ \A r \in roles : pos[r] \in Nat
        /\ \A r \in roles : pos[r] <= pos[OwnerRole]
    BY <1>4, <2>2, RolesAreFinite DEF ChecksHold, OwnerOnTop
  <2>8. ASSUME NEW r \in AtOrAbove(u), NEW s \in roles, pos[r] > pos[s]
        PROVE  pos'[r] > pos'[s]
    <3>1. s # OwnerRole /\ s \in Sortable
      BY <1>3, <2>7, <2>8
    <3>2. CASE r = OwnerRole
      BY <2>3, <2>6, <2>7, <3>1, <3>2
    <3>3. CASE r # OwnerRole
      <4>1. r \in Locked(q) /\ r \in Sortable
        BY <1>3, <2>7, <3>3 DEF Locked
      <4> QED
        BY <2>3, <2>6, <2>8, <3>1, <4>1
    <3> QED
      BY <3>2, <3>3
  <2>9. KeepsRolesAbove(u)
    BY <1>3, <2>5, <2>8 DEF KeepsRolesAbove
  <2> QED
    BY <1>2, <1>6, <2>5, <2>9
<1>15. CASE DropGrants(q) \/ AddGrants(q)
  <2>1. /\ UNCHANGED <<roles, pos, status, held>> /\ ActsOnRole(q)
        /\ \A r \in roles \ {job[q].role} : grants'[r] = grants[r]
    BY <1>4, <1>15 DEF DropGrants, AddGrants, ActsOnRole
  <2>2. KeepsRolesAbove(u)
    BY <1>3, <1>7, <2>1, RolesAboveStay
  <2> QED
    BY <1>2, <1>6, <2>1, <2>2
<1>16. CASE DropHolders(q)
  <2>1. /\ UNCHANGED <<roles, pos, grants, status>> /\ ActsOnRole(q)
        /\ held' = [v \in Users |-> held[v] \ {job[q].role}]
    BY <1>16 DEF DropHolders, ActsOnRole
  <2>2. KeepsMembersAbove(u) /\ AssignsOnlyBelow(u)
    BY <1>7, <2>1, MembersAboveStay
  <2> QED
    BY <1>2, <1>5, <2>1, <2>2
<1>17. CASE DropRow(q)
  <2>1. /\ roles' = roles \ {job[q].role} /\ ActsOnRole(q) /\ status' = status
        /\ pos' = [pos EXCEPT ![job[q].role] = 0]
        /\ grants' = [grants EXCEPT ![job[q].role] = {}]
        /\ held' = [v \in Users |-> held[v] \ {job[q].role}]
    BY <1>17 DEF DropRow, ActsOnRole
  <2>2. \A r \in roles' : r \in roles /\ pos'[r] = pos[r] /\ grants'[r] = grants[r]
    BY <1>4, <2>1
  <2>3. KeepsRolesAbove(u)
    BY <1>3, <1>7, <2>1, <2>2, RolesAboveStay
  <2>4. KeepsMembersAbove(u) /\ AssignsOnlyBelow(u)
    BY <1>7, <2>1, MembersAboveStay
  <2> QED
    BY <1>2, <2>3, <2>4
<1>18. CASE MakeBase(q) /\ ~UNCHANGED tables
  <2>1. MemberRoles \cap roles = {}
    BY <1>18 DEF MakeBase
  <2>2. PICK new \in MemberRoles : /\ roles' = roles \cup {new}
                                   /\ pos' = [pos EXCEPT ![new] = 0]
                                   /\ grants' = [grants EXCEPT ![new] = Defaults[new]]
                                   /\ UNCHANGED <<status, held>>
    BY <1>18, <2>1 DEF MakeBase
  <2>3. new \in Roles /\ new \notin roles
    BY <2>1
  <2>4. \A r \in roles : r \in roles' /\ pos'[r] = pos[r] /\ grants'[r] = grants[r]
    BY <1>4, <2>2, <2>3
  <2>5. \A r \in roles' \ roles : pos'[r] = 0
    BY <1>4, <2>2, <2>3
  <2>6. KeepsRolesAbove(u)
    BY <1>3, <2>4, <2>5, RolesAboveStay
  <2> QED
    BY <1>2, <1>6, <2>2, <2>6
<1>19. ~NewRow(q) /\ ~Reactivate(q)
  BY <1>1, StatementOf DEF Carries
<1>20. CASE \/ Kick(q) \/ Leave(q) \/ Assign(q) \/ AssignRole(q) \/ Remove(q) \/ Create(q) \/ Reorder(q)
            \/ Delete(q) \/ Base(q) \/ FindRoleless(q) \/ SetGrants(q) \/ Join(q)
  BY <1>8, <1>20 DEF Kick, Leave, Assign, AssignRole, Remove, Create, Reorder, Delete, Base, FindRoleless,
     SetGrants, Join
<1> QED
  BY <1>8, <1>9, <1>10, <1>11, <1>12, <1>13, <1>14, <1>15, <1>16, <1>17, <1>18, <1>19, <1>20 DEF Step

\* One request at a time, members act on roles below their own only: every
\* statement of every handler leaves the roles at or above the highest role of
\* its user, their rights, order and holders as they are, in every clan, and
\* whatever died before; as long as the context it runs under knows his place.
THEOREM HierarchyHolds ==
  ASSUME OneAtATime
  PROVE  Spec => HierarchyRespected
<1>1. Init => MembersAreKnown /\ ChecksHold
  BY MembersInit, ChecksInit
<1>2. IInv /\ IInv' /\ MembersAreKnown /\ ChecksHold /\ [Next]_vars => MembersAreKnown' /\ ChecksHold'
  BY MembersKnownNext, ChecksHoldNext
<1>3. ASSUME IInv, MembersAreKnown, ChecksHold, [Next]_vars, NEW q \in Requests, ActsUnderHierarchy(q)
      PROVE  /\ KeepsRolesAbove(job[q].by)
             /\ KeepsMembersAbove(job[q].by)
             /\ job[q].op # "delete" => AssignsOnlyBelow(job[q].by)
  <2>1. CASE Step(q)
    BY <1>3, <2>1, StatementsRespect
  <2>2. CASE Abort(q)
    <3>1. UNCHANGED tables /\ FormerMembersHoldNothing
      BY <1>3, <2>2 DEF Abort, MembersAreKnown
    <3>2. job[q].by \in Users
      BY <1>3, Stepping DEF ActsUnderHierarchy, Jobs
    <3>3. KeepsRolesAbove(job[q].by)
      BY <1>3, <3>1, <3>2, AboveIsLocked, RolesAboveStay DEF tables
    <3> QED
      BY <3>1, <3>2, <3>3, MembersAboveStay DEF tables
  <2> QED
    BY <1>3, <2>1, <2>2, MovingIsStepping DEF ActsUnderHierarchy
<1>4. IInv /\ MembersAreKnown /\ ChecksHold /\ [Next]_vars =>
        [\A q \in Requests : ActsUnderHierarchy(q) =>
           /\ KeepsRolesAbove(job[q].by)
           /\ KeepsMembersAbove(job[q].by)
           /\ job[q].op # "delete" => AssignsOnlyBelow(job[q].by)]_vars
  BY <1>3, Zenon
<1> QED
  BY <1>1, <1>2, <1>4, Invariance, PTL DEF Spec, HierarchyRespected
=============================================================================
