----------------------------- MODULE Rls_proofs -----------------------------
(* Proofs about Rls, for any number of clans, users, rows and requests:    *)
(* what joins two rows joins rows of one clan, and therefore nothing that  *)
(* is read or written leaves the clan of the request.                      *)
EXTENDS Rls, TLAPS

LEMMA NoneIsNoRow == /\ None \notin Clans
                     /\ None \notin Ids
                     /\ Members \subseteq Ids
                     /\ Roles \subseteq Ids
BY RlsAssumption DEF Ids

LEMMA InitIInv == Init => IInv
PROOF
<1> SUFFICES ASSUME Init PROVE IInv OBVIOUS
<1>a. begun \in 0 .. MaxRequests BY RlsAssumption DEF Init
<1>b. clanOf \in [Ids -> Clans \cup {None}] /\ rows \subseteq Ids /\ active \subseteq Members
      /\ links \subseteq Members \X Roles
    BY DEF Init
<1>c. pc \in [Requests -> {"idle", "scoped", "system"}] BY DEF Init
<1>e. user \in [Requests -> Users \cup {None}] /\ ctx \in [Requests -> Clans \cup {None}] BY DEF Init
<1>f. mine \in [Requests -> (SUBSET Clans) \cup {None}]
  <2>1. None \in (SUBSET Clans) \cup {None} OBVIOUS
  <2>2. mine = [q \in Requests |-> None] BY DEF Init
  <2> QED BY <2>1, <2>2
<1>g. target \in [Requests -> Clans \cup {None}] BY DEF Init
<1>d. seen \in [Requests -> SUBSET Ids] /\ found \in [Requests -> SUBSET Ids] BY DEF Init
<1>1. TypeOK BY <1>a, <1>b, <1>c, <1>d, <1>e, <1>f, <1>g DEF TypeOK
<1>2. RowsHaveClans /\ LinksStayInside BY DEF Init, RowsHaveClans, LinksStayInside
<1>3. StoresStayInside /\ ReadsStayInside BY DEF Init, StoresStayInside, ReadsStayInside
<1> QED BY <1>1, <1>2, <1>3 DEF IInv

(* The clans a user is in are clans.                                       *)
LEMMA ClansOfType ==
    ASSUME TypeOK, RowsHaveClans, NEW u
    PROVE  ClansOf(u) \subseteq Clans
BY NoneIsNoRow DEF TypeOK, RowsHaveClans, ClansOf, Ids

(* What a read returns, the roles behind the links included, is in scope.  *)
LEMMA IncludedIsInScope ==
    ASSUME IInv, NEW q \in Requests, NEW m \in rows \cap Members, InScope(q, m)
    PROVE  /\ Included(q, {m}) \subseteq Ids
           /\ \A x \in Included(q, {m}) : clanOf[x] \in Scope(q)
PROOF
<1>1. TypeOK /\ LinksStayInside BY DEF IInv
<1> SUFFICES ASSUME NEW x \in Included(q, {m})
             PROVE  x \in Ids /\ clanOf[x] \in Scope(q)
    OBVIOUS
<1>2. x = m \/ \E l \in links : l[1] = m /\ x = l[2] BY DEF Included
<1>3. CASE x = m BY <1>3, NoneIsNoRow DEF InScope
<1>4. CASE \E l \in links : l[1] = m /\ x = l[2]
  <2>1. PICK l \in links : l[1] = m /\ x = l[2] BY <1>4
  <2>2. l[2] \in Roles BY <1>1, <2>1 DEF TypeOK
  <2>3. clanOf[l[1]] = clanOf[l[2]] BY <1>1, <2>1 DEF LinksStayInside
  <2> QED BY <2>1, <2>2, <2>3, NoneIsNoRow DEF InScope
<1> QED BY <1>2, <1>3, <1>4

-----------------------------------------------------------------------------
(* Steps that only move the stores.                                        *)

LEMMA BeginStep ==
    ASSUME IInv, NEW q \in Requests, Begin(q)
    PROVE  IInv'
PROOF
<1>1. TypeOK /\ RowsHaveClans /\ LinksStayInside /\ StoresStayInside /\ ReadsStayInside BY DEF IInv
<1>2. ctx' \in [Requests -> Clans \cup {None}] /\ user' \in [Requests -> Users \cup {None}]
    BY <1>1 DEF Begin, TypeOK
<1>3. TypeOK' BY <1>1, <1>2, RlsAssumption DEF Begin, TypeOK, tables
<1>4. RowsHaveClans' /\ LinksStayInside' BY <1>1 DEF Begin, tables, RowsHaveClans, LinksStayInside
<1>5. StoresStayInside'
  <2> SUFFICES ASSUME NEW p \in Requests
               PROVE  /\ pc'[p] = "idle" => ctx'[p] = None /\ mine'[p] = None /\ seen'[p] = {}
                      /\ pc'[p] = "system" => target'[p] # None /\ (ctx'[p] # None => target'[p] = ctx'[p])
                      /\ \A x \in found'[p] : pc'[p] = "system" /\ clanOf'[x] = target'[p]
      BY DEF StoresStayInside
  <2>1. CASE p = q BY <1>1, <2>1 DEF Begin, tables, StoresStayInside, TypeOK
  <2>2. CASE p # q BY <1>1, <2>2 DEF Begin, tables, StoresStayInside, TypeOK
  <2> QED BY <2>1, <2>2
<1>6. ReadsStayInside'
  <2> SUFFICES ASSUME NEW p \in Requests, NEW x \in seen'[p] PROVE (clanOf[x] \in Scope(p))'
      BY DEF ReadsStayInside
  <2>1. seen[p] = seen'[p] /\ p # q BY <1>1 DEF Begin, StoresStayInside
  <2>2. Scope(p)' = Scope(p) BY <1>1, <2>1 DEF Begin, Scope, TypeOK
  <2> QED BY <1>1, <2>1, <2>2 DEF Begin, tables, ReadsStayInside
<1> QED BY <1>3, <1>4, <1>5, <1>6 DEF IInv

LEMMA MembershipsStep ==
    ASSUME IInv, NEW q \in Requests, Memberships(q)
    PROVE  IInv'
PROOF
<1>1. TypeOK /\ RowsHaveClans /\ LinksStayInside /\ StoresStayInside /\ ReadsStayInside BY DEF IInv
<1>2. ClansOf(user[q]) \subseteq Clans BY <1>1, ClansOfType
<1>3. TypeOK' BY <1>1, <1>2 DEF Memberships, TypeOK, tables
<1>4. RowsHaveClans' /\ LinksStayInside' BY <1>1 DEF Memberships, tables, RowsHaveClans, LinksStayInside
<1>5. StoresStayInside' BY <1>1 DEF Memberships, tables, StoresStayInside, TypeOK
<1>6. ReadsStayInside'
  <2> SUFFICES ASSUME NEW p \in Requests, NEW x \in seen[p] PROVE (clanOf[x] \in Scope(p))'
      BY DEF ReadsStayInside, Memberships
  <2>1. p # q BY <1>1 DEF Memberships, ReadsStayInside, Scope
  <2>2. Scope(p)' = Scope(p) BY <1>1, <2>1 DEF Memberships, Scope, TypeOK
  <2> QED BY <1>1, <2>2 DEF Memberships, tables, ReadsStayInside
<1> QED BY <1>3, <1>4, <1>5, <1>6 DEF IInv

LEMMA EndStep ==
    ASSUME IInv, NEW q \in Requests, End(q)
    PROVE  IInv'
PROOF
<1>1. TypeOK /\ RowsHaveClans /\ LinksStayInside /\ StoresStayInside /\ ReadsStayInside BY DEF IInv
<1>2. mine' \in [Requests -> (SUBSET Clans) \cup {None}]
  <2>1. None \in (SUBSET Clans) \cup {None} OBVIOUS
  <2>2. mine' = [mine EXCEPT ![q] = None] BY DEF End
  <2> QED BY <1>1, <2>1, <2>2 DEF TypeOK
<1>3. TypeOK' BY <1>1, <1>2 DEF End, TypeOK, tables
<1>4. RowsHaveClans' /\ LinksStayInside' BY <1>1 DEF End, tables, RowsHaveClans, LinksStayInside
<1>5. StoresStayInside' BY <1>1 DEF End, tables, StoresStayInside, TypeOK
<1>6. ReadsStayInside'
  <2> SUFFICES ASSUME NEW p \in Requests, NEW x \in seen'[p] PROVE (clanOf[x] \in Scope(p))'
      BY DEF ReadsStayInside
  <2>1. p # q /\ x \in seen[p] BY <1>1 DEF End, TypeOK
  <2>2. Scope(p)' = Scope(p) BY <1>1, <2>1 DEF End, Scope, TypeOK
  <2> QED BY <1>1, <2>1, <2>2 DEF End, tables, ReadsStayInside
<1> QED BY <1>3, <1>4, <1>5, <1>6 DEF IInv

LEMMA SectionStep ==
    ASSUME IInv, NEW q \in Requests, EnterSystem(q) \/ LeaveSystem(q)
    PROVE  IInv'
PROOF
<1>1. TypeOK /\ RowsHaveClans /\ LinksStayInside /\ StoresStayInside /\ ReadsStayInside BY DEF IInv
<1>2. UNCHANGED <<tables, user, ctx, mine, seen, begun>> BY DEF EnterSystem, LeaveSystem
<1>3. TypeOK' BY <1>1, <1>2 DEF EnterSystem, LeaveSystem, TypeOK, tables
<1>4. RowsHaveClans' /\ LinksStayInside' BY <1>1, <1>2 DEF tables, RowsHaveClans, LinksStayInside
<1>5. StoresStayInside'
  <2>1. CASE EnterSystem(q)
        BY <1>1, <1>2, <2>1, NoneIsNoRow DEF EnterSystem, tables, StoresStayInside, TypeOK
  <2>2. CASE LeaveSystem(q)
        BY <1>1, <1>2, <2>2 DEF LeaveSystem, tables, StoresStayInside, TypeOK
  <2> QED BY <2>1, <2>2
<1>6. ReadsStayInside' BY <1>1, <1>2 DEF tables, ReadsStayInside, Scope
<1> QED BY <1>3, <1>4, <1>5, <1>6 DEF IInv

LEMMA ReadStep ==
    ASSUME IInv, NEW q \in Requests, FindMembers(q) \/ FindRoles(q) \/ FindUnique(q)
    PROVE  IInv'
PROOF
<1>1. TypeOK /\ RowsHaveClans /\ LinksStayInside /\ StoresStayInside /\ ReadsStayInside BY DEF IInv
<1>2. PICK X \in SUBSET Ids : See(q, X) /\ (\A x \in X : clanOf[x] \in Scope(q)) /\ pc[q] = "scoped"
  <2>1. CASE FindMembers(q) \/ FindUnique(q)
    <3>1. PICK m \in rows \cap Members : InScope(q, m) /\ See(q, Included(q, {m}))
        BY <2>1 DEF FindMembers, FindUnique
    <3>2. pc[q] = "scoped" BY <2>1 DEF FindMembers, FindUnique
    <3> QED BY <3>1, <3>2, IncludedIsInScope
  <2>2. CASE FindRoles(q)
    <3>1. PICK r \in rows \cap Roles : InScope(q, r) /\ See(q, {r}) BY <2>2 DEF FindRoles
    <3>2. pc[q] = "scoped" BY <2>2 DEF FindRoles
    <3> QED BY <3>1, <3>2, NoneIsNoRow DEF InScope
  <2> QED BY <2>1, <2>2
<1>3. TypeOK' BY <1>1, <1>2 DEF See, TypeOK, tables, stores
<1>4. RowsHaveClans' /\ LinksStayInside' BY <1>1, <1>2 DEF See, tables, RowsHaveClans, LinksStayInside
<1>5. StoresStayInside' BY <1>1, <1>2 DEF See, tables, stores, StoresStayInside, TypeOK
<1>6. ReadsStayInside'
  <2> SUFFICES ASSUME NEW p \in Requests, NEW x \in seen'[p] PROVE (clanOf[x] \in Scope(p))'
      BY DEF ReadsStayInside
  <2>1. Scope(p)' = Scope(p) BY <1>2 DEF See, stores, Scope
  <2>2. x \in seen[p] \/ (p = q /\ x \in X) BY <1>1, <1>2 DEF See, TypeOK
  <2>3. clanOf[x] \in Scope(p) BY <1>1, <1>2, <2>2 DEF ReadsStayInside
  <2> QED BY <1>2, <2>1, <2>3 DEF See, tables
<1> QED BY <1>3, <1>4, <1>5, <1>6 DEF IInv

-----------------------------------------------------------------------------
(* Steps that change the tables.                                           *)

(* Links that are made or removed leave the stores alone.                  *)
LEMMA LinksStep ==
    ASSUME IInv, NEW q \in Requests,
           AssignRole(q) \/ LinkBase(q) \/ DeleteLinks(q) \/ DeleteRole(q) \/ Deactivate(q)
    PROVE  IInv'
PROOF
<1>1. TypeOK /\ RowsHaveClans /\ LinksStayInside /\ StoresStayInside /\ ReadsStayInside BY DEF IInv
<1>2. UNCHANGED <<clanOf, stores, seen, found, begun>>
    BY DEF AssignRole, LinkBase, DeleteLinks, DeleteRole, Deactivate
<1>3. StoresStayInside' BY <1>1, <1>2 DEF stores, StoresStayInside
<1>4. ReadsStayInside' BY <1>1, <1>2 DEF stores, ReadsStayInside, Scope
<1>5. CASE AssignRole(q) \/ LinkBase(q)
  <2>1. PICK m \in rows \cap Members, r \in rows \cap Roles :
            /\ links' = links \cup {<<m, r>>}
            /\ clanOf[m] = clanOf[r]
    <3>1. CASE AssignRole(q)
      <4>1. PICK m \in seen[q] \cap rows \cap Members, r \in seen[q] \cap rows \cap Roles :
                links' = links \cup {<<m, r>>}
          BY <3>1 DEF AssignRole
      <4>2. Scope(q) = {ctx[q]} BY <3>1 DEF AssignRole, Scope
      <4> QED BY <1>1, <4>1, <4>2 DEF ReadsStayInside
    <3>2. CASE LinkBase(q)
      <4>1. PICK m \in found[q] \cap rows \cap Members, r \in found[q] \cap rows \cap Roles :
                links' = links \cup {<<m, r>>}
          BY <3>2 DEF LinkBase
      <4> QED BY <1>1, <4>1 DEF StoresStayInside
    <3> QED BY <1>5, <3>1, <3>2
  <2>2. UNCHANGED <<rows, active>> BY <1>5 DEF AssignRole, LinkBase
  <2>3. TypeOK' BY <1>1, <1>2, <2>1, <2>2 DEF TypeOK, stores
  <2>4. RowsHaveClans' BY <1>1, <1>2, <2>2 DEF RowsHaveClans
  <2>5. LinksStayInside' BY <1>1, <1>2, <2>1, <2>2 DEF LinksStayInside
  <2> QED BY <1>3, <1>4, <2>3, <2>4, <2>5 DEF IInv
<1>6. CASE DeleteLinks(q)
  <2>1. links' \subseteq links /\ UNCHANGED <<rows, active>> BY <1>6 DEF DeleteLinks
  <2>2. TypeOK' BY <1>1, <1>2, <2>1 DEF TypeOK, stores
  <2>3. RowsHaveClans' BY <1>1, <1>2, <2>1 DEF RowsHaveClans
  <2>4. LinksStayInside' BY <1>1, <1>2, <2>1 DEF LinksStayInside
  <2> QED BY <1>3, <1>4, <2>2, <2>3, <2>4 DEF IInv
<1>7. CASE DeleteRole(q)
  <2>1. PICK r \in rows \cap Roles : rows' = rows \ {r} /\ links' = {l \in links : l[2] # r}
      BY <1>7 DEF DeleteRole
  <2>2. UNCHANGED active BY <1>7 DEF DeleteRole
  <2>3. TypeOK' BY <1>1, <1>2, <2>1, <2>2 DEF TypeOK, stores
  <2>4. RowsHaveClans' BY <1>1, <1>2, <2>1, <2>2, RlsAssumption DEF RowsHaveClans, TypeOK
  <2>5. LinksStayInside'
    <3> SUFFICES ASSUME NEW l \in links, l[2] # r
                 PROVE  l[1] \in rows \ {r} /\ l[2] \in rows \ {r} /\ clanOf[l[1]] = clanOf[l[2]]
        BY <1>2, <2>1 DEF LinksStayInside
    <3>1. l[1] \in Members BY <1>1 DEF TypeOK
    <3> QED BY <1>1, <3>1, RlsAssumption DEF LinksStayInside
  <2> QED BY <1>3, <1>4, <2>3, <2>4, <2>5 DEF IInv
<1>8. CASE Deactivate(q)
  <2>1. PICK m \in rows \cap Members : active' = active \ {m} BY <1>8 DEF Deactivate
  <2>2. UNCHANGED <<rows, links>> BY <1>8 DEF Deactivate
  <2>3. TypeOK' BY <1>1, <1>2, <2>1, <2>2 DEF TypeOK, stores
  <2>4. RowsHaveClans' BY <1>1, <1>2, <2>1, <2>2 DEF RowsHaveClans
  <2>5. LinksStayInside' BY <1>1, <1>2, <2>2 DEF LinksStayInside
  <2> QED BY <1>3, <1>4, <2>3, <2>4, <2>5 DEF IInv
<1> QED BY <1>5, <1>6, <1>7, <1>8

(* A row that is inserted gets its clan for good.                          *)
LEMMA InsertKeeps ==
    ASSUME IInv, NEW x \in Ids, NEW c \in Clans, Insert(x, c)
    PROVE  /\ clanOf' \in [Ids -> Clans \cup {None}]
           /\ rows' \subseteq Ids
           /\ clanOf'[x] = c
           /\ clanOf[x] = None
           /\ \A y \in Ids : y # x => clanOf'[y] = clanOf[y]
           /\ \A y \in rows' : clanOf'[y] # None
           /\ x \notin rows
PROOF
<1>1. TypeOK /\ RowsHaveClans BY DEF IInv
<1> QED BY <1>1, NoneIsNoRow DEF Insert, Fresh, TypeOK, RowsHaveClans

(* The rows a request was given have clans.                                *)
LEMMA GivenHaveClans ==
    ASSUME IInv, NEW q \in Requests
    PROVE  /\ \A x \in seen[q] : x \in Ids /\ clanOf[x] # None
           /\ \A x \in found[q] : x \in Ids /\ clanOf[x] # None
PROOF
<1>1. TypeOK /\ StoresStayInside /\ ReadsStayInside BY DEF IInv
<1>2. None \notin Scope(q) BY <1>1, NoneIsNoRow DEF TypeOK, Scope
<1>3. \A x \in seen[q] : x \in Ids /\ clanOf[x] # None BY <1>1, <1>2 DEF ReadsStayInside, TypeOK
<1>4. \A x \in found[q] : x \in Ids /\ clanOf[x] # None BY <1>1 DEF StoresStayInside, TypeOK
<1> QED BY <1>3, <1>4

(* A new row joins nothing yet: the rest of the tables and of the stores   *)
(* keeps what it says.                                                     *)
LEMMA InsertStep ==
    ASSUME IInv, NEW x \in Ids, NEW c \in Clans, Insert(x, c),
           UNCHANGED <<links, stores>>
    PROVE  /\ LinksStayInside'
           /\ \A q \in Requests : Scope(q)' = Scope(q)
           /\ \A q \in Requests : \A y \in seen[q] : clanOf'[y] \in Scope(q)
           /\ \A q \in Requests : \A y \in found[q] : clanOf'[y] = target[q]
           /\ active \subseteq rows'
PROOF
<1>1. TypeOK /\ RowsHaveClans /\ LinksStayInside /\ StoresStayInside /\ ReadsStayInside BY DEF IInv
<1>2. \A y \in Ids : y # x => clanOf'[y] = clanOf[y] BY InsertKeeps
<1>3. clanOf[x] = None BY InsertKeeps
<1>4. x \notin rows BY InsertKeeps
<1>5. LinksStayInside'
  <2>1. rows \subseteq rows' BY DEF Insert
  <2> QED BY <1>1, <1>2, <1>4, <2>1 DEF LinksStayInside, TypeOK
<1>6. \A q \in Requests : Scope(q)' = Scope(q) BY DEF stores, Scope
<1>7. ASSUME NEW q \in Requests, NEW y \in seen[q] PROVE clanOf'[y] \in Scope(q)
  <2>1. y \in Ids /\ y # x BY <1>3, GivenHaveClans
  <2> QED BY <1>1, <1>2, <2>1 DEF ReadsStayInside
<1>8. ASSUME NEW q \in Requests, NEW y \in found[q] PROVE clanOf'[y] = target[q]
  <2>1. y \in Ids /\ y # x BY <1>3, GivenHaveClans
  <2> QED BY <1>1, <1>2, <2>1 DEF StoresStayInside
<1>9. active \subseteq rows' BY <1>1 DEF RowsHaveClans, Insert
<1> QED BY <1>5, <1>6, <1>7, <1>8, <1>9

LEMMA CreateRoleStep ==
    ASSUME IInv, NEW q \in Requests, CreateRole(q)
    PROVE  IInv'
PROOF
<1>1. TypeOK /\ RowsHaveClans /\ StoresStayInside /\ ReadsStayInside BY DEF IInv
<1>2. UNCHANGED <<active, links, stores, found, begun>> BY DEF CreateRole
<1>3. PICK r \in Roles : Insert(r, ctx[q]) /\ seen' = [seen EXCEPT ![q] = @ \cup {r}]
    BY DEF CreateRole
<1>4. ctx[q] \in Clans /\ r \in Ids BY <1>1, NoneIsNoRow DEF CreateRole, TypeOK
<1>5. /\ clanOf' \in [Ids -> Clans \cup {None}] /\ rows' \subseteq Ids
      /\ clanOf'[r] = ctx[q] /\ (\A y \in rows' : clanOf'[y] # None)
    BY <1>3, <1>4, InsertKeeps
<1>6. /\ LinksStayInside' /\ active \subseteq rows'
      /\ \A p \in Requests : Scope(p)' = Scope(p)
      /\ \A p \in Requests : \A y \in seen[p] : clanOf'[y] \in Scope(p)
      /\ \A p \in Requests : \A y \in found[p] : clanOf'[y] = target[p]
    BY <1>2, <1>3, <1>4, InsertStep
<1>7. TypeOK' BY <1>1, <1>2, <1>3, <1>4, <1>5 DEF TypeOK, stores
<1>8. RowsHaveClans' BY <1>2, <1>5, <1>6 DEF RowsHaveClans
<1>9. StoresStayInside'
  <2>1. pc[q] # "idle" BY DEF CreateRole
  <2>2. \A p \in Requests : p # q => seen'[p] = seen[p] BY <1>1, <1>3 DEF TypeOK
  <2> QED BY <1>1, <1>2, <1>6, <2>1, <2>2 DEF StoresStayInside, stores
<1>10. ReadsStayInside'
  <2> SUFFICES ASSUME NEW p \in Requests, NEW x \in seen'[p] PROVE (clanOf[x] \in Scope(p))'
      BY DEF ReadsStayInside
  <2>1. x \in seen[p] \/ (p = q /\ x = r) BY <1>1, <1>3 DEF TypeOK
  <2>2. ctx[q] \in Scope(q) BY <1>4, NoneIsNoRow DEF Scope
  <2> QED BY <1>5, <1>6, <2>1, <2>2
<1> QED BY <1>6, <1>7, <1>8, <1>9, <1>10 DEF IInv

(* Inside runSystem: a row of the target is found or inserted.             *)
LEMMA SystemStep ==
    ASSUME IInv, NEW q \in Requests, CreateMember(q) \/ Reactivate(q) \/ BaseRole(q)
    PROVE  IInv'
PROOF
<1>1. TypeOK /\ RowsHaveClans /\ LinksStayInside /\ StoresStayInside /\ ReadsStayInside BY DEF IInv
<1>2. UNCHANGED <<links, stores, seen, begun>> /\ pc[q] = "system"
    BY DEF CreateMember, Reactivate, BaseRole
<1>3. target[q] \in Clans BY <1>1, <1>2 DEF StoresStayInside, TypeOK
<1>4. PICK z \in Ids : /\ Find(q, z)
                       /\ \/ Insert(z, target[q])
                          \/ z \in rows /\ clanOf[z] = target[q] /\ UNCHANGED <<clanOf, rows>>
                       /\ active' = active \/ (active' = active \cup {z} /\ z \in Members)
  <2>1. CASE CreateMember(q)
    <3>1. PICK m \in Members : Insert(m, target[q]) /\ active' = active \cup {m} /\ Find(q, m)
        BY <2>1 DEF CreateMember
    <3> QED BY <3>1, NoneIsNoRow
  <2>2. CASE Reactivate(q)
    <3>1. PICK m \in rows \cap Members : /\ clanOf[m] = target[q] /\ Find(q, m)
                                         /\ active' = active \/ active' = active \cup {m}
        BY <2>2 DEF Reactivate
    <3>2. UNCHANGED <<clanOf, rows>> BY <2>2 DEF Reactivate
    <3> QED BY <3>1, <3>2, NoneIsNoRow
  <2>3. CASE BaseRole(q)
    <3>1. PICK r \in Roles : /\ \/ r \in rows /\ clanOf[r] = target[q] /\ UNCHANGED <<clanOf, rows>>
                                \/ Insert(r, target[q])
                             /\ Find(q, r)
        BY <2>3 DEF BaseRole
    <3>2. active' = active BY <2>3 DEF BaseRole
    <3> QED BY <3>1, <3>2, NoneIsNoRow
  <2> QED BY <2>1, <2>2, <2>3
<1>5. /\ clanOf' \in [Ids -> Clans \cup {None}] /\ rows' \subseteq Ids
      /\ clanOf'[z] = target[q] /\ z \in rows' /\ (\A y \in rows' : clanOf'[y] # None)
      /\ LinksStayInside' /\ active \subseteq rows'
      /\ \A p \in Requests : \A y \in seen[p] : clanOf'[y] \in Scope(p)
      /\ \A p \in Requests : \A y \in found[p] : clanOf'[y] = target[p]
  <2>1. CASE Insert(z, target[q])
    <3>1. z \in rows' BY <2>1 DEF Insert
    <3>2. /\ clanOf' \in [Ids -> Clans \cup {None}] /\ rows' \subseteq Ids
          /\ clanOf'[z] = target[q] /\ (\A y \in rows' : clanOf'[y] # None)
        BY <1>3, <2>1, InsertKeeps
    <3> QED BY <1>2, <1>3, <2>1, <3>1, <3>2, InsertStep
  <2>2. CASE z \in rows /\ clanOf[z] = target[q] /\ UNCHANGED <<clanOf, rows>>
    <3>1. LinksStayInside' BY <1>1, <1>2, <2>2 DEF LinksStayInside
    <3> QED BY <1>1, <2>2, <3>1 DEF TypeOK, RowsHaveClans, StoresStayInside, ReadsStayInside
  <2> QED BY <1>4, <2>1, <2>2
<1>6. found' = [found EXCEPT ![q] = @ \cup {z}] BY <1>4 DEF Find
<1>7. TypeOK' BY <1>1, <1>2, <1>4, <1>5, <1>6 DEF TypeOK, stores
<1>8. RowsHaveClans' BY <1>4, <1>5 DEF RowsHaveClans
<1>9. StoresStayInside'
  <2> SUFFICES ASSUME NEW p \in Requests
               PROVE  /\ pc[p] = "idle" => ctx[p] = None /\ mine[p] = None /\ seen[p] = {}
                      /\ pc[p] = "system" => target[p] # None /\ (ctx[p] # None => target[p] = ctx[p])
                      /\ \A x \in found'[p] : pc[p] = "system" /\ clanOf'[x] = target[p]
      BY <1>2 DEF StoresStayInside, stores
  <2>1. \A x \in found'[p] : x \in found[p] \/ (p = q /\ x = z) BY <1>1, <1>6 DEF TypeOK
  <2> QED BY <1>1, <1>2, <1>5, <2>1 DEF StoresStayInside
<1>10. ReadsStayInside'
  <2>1. \A p \in Requests : Scope(p)' = Scope(p) BY <1>2 DEF stores, Scope
  <2> QED BY <1>2, <1>5, <2>1 DEF ReadsStayInside
<1> QED BY <1>5, <1>7, <1>8, <1>9, <1>10 DEF IInv

-----------------------------------------------------------------------------
LEMMA StepIInv == IInv /\ [Next]_vars => IInv'
PROOF
<1> SUFFICES ASSUME IInv, [Next]_vars PROVE IInv' OBVIOUS
<1>1. CASE Next
  <2>1. PICK q \in Requests : Begin(q) \/ Scoped(q) \/ System(q) BY <1>1 DEF Next
  <2>2. CASE Begin(q) BY <2>2, BeginStep
  <2>3. CASE Scoped(q)
        BY <2>3, MembershipsStep, ReadStep, CreateRoleStep, LinksStep, SectionStep, EndStep DEF Scoped
  <2>4. CASE System(q) BY <2>4, SystemStep, LinksStep, SectionStep DEF System
  <2> QED BY <2>1, <2>2, <2>3, <2>4
<1>2. CASE UNCHANGED vars
  <2>1. UNCHANGED <<clanOf, rows, active, links, pc, user, ctx, mine, target, seen, found, begun>>
      BY <1>2 DEF vars, tables, stores
  <2>2. \A q \in Requests : Scope(q)' = Scope(q) BY <2>1 DEF Scope
  <2>3. TypeOK' BY <2>1 DEF IInv, TypeOK
  <2>4. RowsHaveClans' /\ LinksStayInside' BY <2>1 DEF IInv, RowsHaveClans, LinksStayInside
  <2>5. StoresStayInside' BY <2>1 DEF IInv, StoresStayInside
  <2>6. ReadsStayInside' BY <2>1, <2>2 DEF IInv, ReadsStayInside
  <2> QED BY <2>3, <2>4, <2>5, <2>6 DEF IInv
<1> QED BY <1>1, <1>2

THEOREM Invariant == Spec => []IInv
BY InitIInv, StepIInv, PTL DEF Spec

(* Every variable keeps the values the tables and the store of a request   *)
(* can have.                                                               *)
THEOREM TypeCorrect == Spec => []TypeOK
PROOF
<1>1. IInv => TypeOK BY DEF IInv
<1> QED BY <1>1, Invariant, PTL

(* What a handler is given outside runSystem is of a clan of its scope,    *)
(* although the relation from a link to its role is not filtered           *)
(* (scopeRelations): for any number of clans, rows and requests.           *)
THEOREM ReadsStay == Spec => []ReadsStayInside
PROOF
<1>1. IInv => ReadsStayInside BY DEF IInv
<1> QED BY <1>1, Invariant, PTL

-----------------------------------------------------------------------------
(* What a step writes is in one clan.                                      *)

LEMMA NothingTouched ==
    ASSUME UNCHANGED tables
    PROVE  Touched = {}
BY DEF Touched, tables

LEMMA LinkTouches ==
    ASSUME NEW m, NEW r, NEW c, links' = links \cup {<<m, r>>}, UNCHANGED <<clanOf, rows, active>>,
           clanOf[m] = c, clanOf[r] = c
    PROVE  Touched \subseteq {c}
BY DEF Touched

LEMMA InsertTouches ==
    ASSUME NEW x \in Ids, NEW c, clanOf'[x] = c, rows' = rows \cup {x}, UNCHANGED links,
           active' = active \/ active' = active \cup {x}
    PROVE  Touched \subseteq {c}
BY DEF Touched

LEMMA ScopedTouches ==
    ASSUME IInv, NEW q \in Requests, Scoped(q), Touched # {}
    PROVE  pc[q] = "scoped" /\ Touched \subseteq {ctx[q]}
PROOF
<1>1. TypeOK /\ RowsHaveClans /\ LinksStayInside /\ StoresStayInside /\ ReadsStayInside BY DEF IInv
<1>2. ~(UNCHANGED tables) BY NothingTouched
<1>3. CreateRole(q) \/ AssignRole(q) \/ DeleteLinks(q) \/ Deactivate(q) \/ DeleteRole(q)
    BY <1>2 DEF Scoped, Memberships, FindMembers, FindRoles, FindUnique, See, EnterSystem, End
<1>4. pc[q] = "scoped" /\ Scope(q) = {ctx[q]}
    BY <1>3 DEF CreateRole, AssignRole, DeleteLinks, Deactivate, DeleteRole, Scope
<1>5. CASE CreateRole(q)
  <2>1. PICK r \in Roles : Insert(r, ctx[q]) BY <1>5 DEF CreateRole
  <2>2. ctx[q] \in Clans /\ r \in Ids BY <1>1, <1>5, NoneIsNoRow DEF CreateRole, TypeOK
  <2>3. clanOf'[r] = ctx[q] /\ rows' = rows \cup {r} BY <2>1, <2>2, InsertKeeps DEF Insert
  <2>4. UNCHANGED <<active, links>> BY <1>5 DEF CreateRole
  <2> QED BY <1>4, <2>2, <2>3, <2>4, InsertTouches
<1>6. CASE AssignRole(q)
  <2>1. PICK m \in seen[q] \cap rows \cap Members, r \in seen[q] \cap rows \cap Roles :
            links' = links \cup {<<m, r>>}
      BY <1>6 DEF AssignRole
  <2>2. clanOf[m] = ctx[q] /\ clanOf[r] = ctx[q] BY <1>1, <1>4, <2>1 DEF ReadsStayInside
  <2>3. UNCHANGED <<clanOf, rows, active>> BY <1>6 DEF AssignRole
  <2> QED BY <1>4, <2>1, <2>2, <2>3, LinkTouches
<1>7. CASE DeleteLinks(q)
  <2>1. PICK W \in SUBSET links : links' = links \ {l \in W : LinkInScope(q, l)} BY <1>7 DEF DeleteLinks
  <2>2. UNCHANGED <<clanOf, rows, active>> BY <1>7 DEF DeleteLinks
  <2>3. \A l \in (links \ links') \cup (links' \ links) : clanOf[l[1]] = ctx[q] /\ clanOf[l[2]] = ctx[q]
      BY <1>1, <1>4, <2>1 DEF LinksStayInside, LinkInScope, InScope
  <2> QED BY <1>4, <2>2, <2>3 DEF Touched
<1>8. CASE Deactivate(q)
  <2>1. PICK m \in rows \cap Members : InScope(q, m) /\ active' = active \ {m} BY <1>8 DEF Deactivate
  <2>2. UNCHANGED <<clanOf, rows, links>> BY <1>8 DEF Deactivate
  <2> QED BY <1>4, <2>1, <2>2 DEF Touched, InScope
<1>9. CASE DeleteRole(q)
  <2>1. PICK r \in rows \cap Roles : /\ InScope(q, r)
                                     /\ rows' = rows \ {r}
                                     /\ links' = {l \in links : l[2] # r}
      BY <1>9 DEF DeleteRole
  <2>2. UNCHANGED <<clanOf, active>> BY <1>9 DEF DeleteRole
  <2>3. clanOf[r] = ctx[q] BY <1>4, <2>1 DEF InScope
  <2>4. \A l \in (links \ links') \cup (links' \ links) : clanOf[l[1]] = ctx[q] /\ clanOf[l[2]] = ctx[q]
      BY <1>1, <2>1, <2>3 DEF LinksStayInside
  <2> QED BY <1>4, <2>1, <2>2, <2>3, <2>4 DEF Touched
<1> QED BY <1>3, <1>5, <1>6, <1>7, <1>8, <1>9

LEMMA SystemTouches ==
    ASSUME IInv, NEW q \in Requests, System(q), Touched # {}
    PROVE  pc[q] = "system" /\ Touched \subseteq {target[q]}
PROOF
<1>1. TypeOK /\ RowsHaveClans /\ LinksStayInside /\ StoresStayInside BY DEF IInv
<1>2. ~(UNCHANGED tables) BY NothingTouched
<1>3. CreateMember(q) \/ Reactivate(q) \/ BaseRole(q) \/ LinkBase(q)
    BY <1>2 DEF System, LeaveSystem
<1>4. pc[q] = "system" BY <1>3 DEF CreateMember, Reactivate, BaseRole, LinkBase
<1>a. target[q] \in Clans BY <1>1, <1>4 DEF StoresStayInside, TypeOK
<1>5. CASE CreateMember(q)
  <2>1. PICK m \in Members : Insert(m, target[q]) /\ active' = active \cup {m} BY <1>5 DEF CreateMember
  <2>2. clanOf'[m] = target[q] /\ rows' = rows \cup {m} BY <1>a, <2>1, NoneIsNoRow, InsertKeeps DEF Insert
  <2>3. UNCHANGED links BY <1>5 DEF CreateMember
  <2> QED BY <1>4, <2>1, <2>2, <2>3, NoneIsNoRow, InsertTouches
<1>6. CASE Reactivate(q)
  <2>1. PICK m \in rows \cap Members : /\ clanOf[m] = target[q]
                                       /\ active' = active \/ active' = active \cup {m}
      BY <1>6 DEF Reactivate
  <2>2. UNCHANGED <<clanOf, rows, links>> BY <1>6 DEF Reactivate
  <2> QED BY <1>4, <2>1, <2>2 DEF Touched
<1>7. CASE BaseRole(q)
  <2>1. PICK r \in Roles : UNCHANGED <<clanOf, rows>> \/ Insert(r, target[q]) BY <1>7 DEF BaseRole
  <2>2. UNCHANGED <<active, links>> BY <1>7 DEF BaseRole
  <2>3. Insert(r, target[q]) BY <1>2, <2>1, <2>2 DEF tables
  <2>4. clanOf'[r] = target[q] /\ rows' = rows \cup {r} BY <1>a, <2>3, NoneIsNoRow, InsertKeeps DEF Insert
  <2> QED BY <1>4, <2>2, <2>4, NoneIsNoRow, InsertTouches
<1>8. CASE LinkBase(q)
  <2>1. PICK m \in found[q] \cap rows \cap Members, r \in found[q] \cap rows \cap Roles :
            links' = links \cup {<<m, r>>}
      BY <1>8 DEF LinkBase
  <2>2. clanOf[m] = target[q] /\ clanOf[r] = target[q] BY <1>1, <2>1 DEF StoresStayInside
  <2>3. UNCHANGED <<clanOf, rows, active>> BY <1>8 DEF LinkBase
  <2> QED BY <1>4, <2>1, <2>2, <2>3, LinkTouches
<1> QED BY <1>3, <1>5, <1>6, <1>7, <1>8

(* A statement changes rows of one clan, that of the context or, inside    *)
(* runSystem, the one the section is about; the rows that createMany of    *)
(* links leaves unchecked (validateCreate) and the cascades included.      *)
THEOREM WritesStay == Spec => WritesStayInside
PROOF
<1>1. ASSUME IInv, Next, Touched # {}
      PROVE  \E q \in Requests : /\ pc[q] = "scoped" => Touched = {ctx[q]}
                                 /\ pc[q] = "system" => Touched = {target[q]}
                                 /\ pc[q] # "idle"
  <2>1. PICK q \in Requests : Begin(q) \/ Scoped(q) \/ System(q) BY <1>1 DEF Next
  <2>2. ~ Begin(q) BY <1>1, NothingTouched DEF Begin
  <2>3. CASE Scoped(q) BY <1>1, <2>3, ScopedTouches
  <2>4. CASE System(q) BY <1>1, <2>4, SystemTouches
  <2> QED BY <2>1, <2>2, <2>3, <2>4
<1>2. ASSUME IInv, [Next]_vars
      PROVE  [Touched # {} =>
                \E q \in Requests : /\ pc[q] = "scoped" => Touched = {ctx[q]}
                                    /\ pc[q] = "system" => Touched = {target[q]}
                                    /\ pc[q] # "idle"]_vars
    BY <1>1, <1>2
<1> QED BY <1>2, Invariant, PTL DEF Spec, WritesStayInside
=============================================================================
