------------------------ MODULE RefreshSessions_proofs ------------------------
(***************************************************************************)
(* Proofs about the two ends of a session: RefreshSessions, for any number *)
(* of accounts, tokens, links and requests in flight, and WebSession, for  *)
(* any number of tabs and calls.                                           *)
(***************************************************************************)
EXTENDS RefreshSessions, WebSession, TLAPS

USE NoneAssumption, MaxAbortsAssumption

\* The variables of RefreshSessions keep their types.
LEMMA TypeInit == Init => TypeOK
<1>1. 0 \in 0..MaxAborts
  OBVIOUS
<1> QED
  BY <1>1 DEF Init, TypeOK, PCs, Idle

\* TypeOK alone is not inductive: the token, link and password a request writes
\* are its locals, so the facts about locals are needed.
LEMMA TypeStep == TypeOK /\ RequestsActForOwner /\ [Next]_vars => TypeOK'
<1> SUFFICES ASSUME TypeOK, RequestsActForOwner, [Next]_vars PROVE TypeOK'
  OBVIOUS
<1> USE DEF TypeOK, table, account, request, Begin, Goto, Answer, Store, PCs, Idle
<1>1. ASSUME NEW r \in Requests, Login(r) PROVE TypeOK'
  BY <1>1 DEF Login, LoginVerify
<1>2. ASSUME NEW r \in Requests, Refresh(r) PROVE TypeOK'
  <2> PICK t \in Tokens : \/ RefreshReplayed(r, t)
                          \/ RefreshExpired(r, t)
                          \/ \E n \in Tokens : RefreshAccepted(r, t, n)
    BY <1>2 DEF Refresh
  <2>1. CASE RefreshReplayed(r, t)
    BY <2>1 DEF RefreshReplayed, Exists
  <2>2. CASE RefreshExpired(r, t)
    BY <2>2 DEF RefreshExpired
  <2>3. CASE \E n \in Tokens : RefreshAccepted(r, t, n)
    BY <2>3 DEF RefreshAccepted
  <2> QED
    BY <2>1, <2>2, <2>3
<1>3. ASSUME NEW r \in Requests, Reset(r) PROVE TypeOK'
  BY <1>3 DEF Reset, ResetPassword
<1>4. ASSUME NEW r \in Requests, Step(r) PROVE TypeOK'
  <2>1. CASE IssueTokens(r)
    BY <2>1 DEF IssueTokens
  <2>2. CASE RevokeExpired(r)
    BY <2>2 DEF RevokeExpired, RequestsActForOwner, Presenting
  <2>3. CASE RotateClaim(r) \/ RotateCollide(r)
    BY <2>3 DEF RotateClaim, RotateCollide
  <2>4. CASE RotateCommit(r)
    <3>1. tok[r] \in Tokens
      BY <2>4 DEF RotateCommit, RequestsActForOwner, Presenting
    <3> QED
      BY <2>4, <3>1 DEF RotateCommit
  <2>5. CASE RevokeAllStart(r)
    BY <2>5 DEF RevokeAllStart, ActiveOf
  <2>6. CASE RevokeAllEnd(r)
    BY <2>6 DEF RevokeAllEnd
  <2>7. CASE ResetStart(r)
    BY <2>7 DEF ResetStart, ActiveOf
  <2>8. CASE ResetCommit(r)
    BY <2>8 DEF ResetCommit, RequestsActForOwner, Presenting
  <2> QED
    BY <1>4, <2>1, <2>2, <2>3, <2>4, <2>5, <2>6, <2>7, <2>8 DEF Step
<1>5. ASSUME NEW r \in Requests, Abort(r) PROVE TypeOK'
  BY <1>5 DEF Abort
<1>6. ASSUME NEW t \in Tokens, Logout(t) \/ Expire(t) PROVE TypeOK'
  BY <1>6 DEF Logout, Expire
<1>7. ASSUME NEW u \in Users, NEW l \in Links, ForgotPassword(u, l) PROVE TypeOK'
  BY <1>7 DEF ForgotPassword
<1>8. ASSUME NEW l \in Links, ExpireLink(l) PROVE TypeOK'
  BY <1>8 DEF ExpireLink
<1>9. CASE UNCHANGED vars
  BY <1>9 DEF vars
<1> QED
  BY <1>1, <1>2, <1>3, <1>4, <1>5, <1>6, <1>7, <1>8, <1>9 DEF Next

\* The tables are empty and no request is in flight at first.
LEMMA IInvInit == Init => IInv
  BY TypeInit
     DEF Init, IInv, RowsExist, FamiliesAreRooted, ReservedAreFresh,
         RequestsActForOwner, ClaimsHold, OneUsableTokenPerLogin, RotationIsAllOrNothing, Exists,
         Active, Reserving, Presenting, Idle

\* The conjuncts of IInv other than the types.
Parts == /\ RowsExist
         /\ FamiliesAreRooted
         /\ ReservedAreFresh
         /\ RequestsActForOwner
         /\ ClaimsHold
         /\ OneUsableTokenPerLogin
         /\ RotationIsAllOrNothing

\* Every action keeps the parts, and types of the next state may be used.
LEMMA PartsStep ==
    ASSUME IInv, TypeOK', [Next]_vars
    PROVE  Parts'
<1> USE DEF Parts, IInv, TypeOK, RowsExist, FamiliesAreRooted, ReservedAreFresh, RequestsActForOwner,
         ClaimsHold, OneUsableTokenPerLogin, RotationIsAllOrNothing, Exists, Active, IsLogin,
         Reserving, Presenting, Idle, PCs, table, account, request, Begin, Goto
<1>1. ASSUME NEW r \in Requests, Login(r) PROVE Parts'
  BY <1>1 DEF Login, LoginVerify, Fresh
<1>2. ASSUME NEW r \in Requests, Refresh(r) PROVE Parts'
  <2> PICK t \in Tokens : \/ RefreshReplayed(r, t)
                          \/ RefreshExpired(r, t)
                          \/ \E n \in Tokens : RefreshAccepted(r, t, n)
    BY <1>2 DEF Refresh
  <2>1. CASE RefreshReplayed(r, t)
    BY <2>1 DEF RefreshReplayed
  <2>2. CASE RefreshExpired(r, t)
    BY <2>2 DEF RefreshExpired
  <2>3. CASE \E n \in Tokens : RefreshAccepted(r, t, n)
    BY <2>3 DEF RefreshAccepted, Fresh
  <2> QED
    BY <2>1, <2>2, <2>3
<1>3. ASSUME NEW r \in Requests, Reset(r) PROVE Parts'
  BY <1>3 DEF Reset, ResetPassword
<1>4. ASSUME NEW r \in Requests, Step(r) PROVE Parts'
  <2> USE DEF Answer, Store, Locked
  <2>1. CASE IssueTokens(r)
    BY <2>1 DEF IssueTokens
  <2>2. CASE RevokeExpired(r)
    BY <2>2 DEF RevokeExpired
  <2>3. CASE RotateClaim(r)
    BY <2>3 DEF RotateClaim, Claimable
  <2>33. CASE RotateCollide(r)
    BY <2>33 DEF RotateCollide
  <2>4. CASE RotateCommit(r)
    BY <2>4 DEF RotateCommit
  <2>5. CASE RevokeAllStart(r)
    BY <2>5 DEF RevokeAllStart, ActiveOf
  <2>6. CASE RevokeAllEnd(r)
    BY <2>6 DEF RevokeAllEnd
  <2>7. CASE ResetStart(r)
    BY <2>7 DEF ResetStart, ActiveOf
  <2>8. CASE ResetCommit(r)
    BY <2>8 DEF ResetCommit
  <2> QED
    BY <1>4, <2>1, <2>2, <2>3, <2>33, <2>4, <2>5, <2>6, <2>7, <2>8 DEF Step
<1>5. ASSUME NEW r \in Requests, Abort(r) PROVE Parts'
  BY <1>5 DEF Abort, Answer
<1>6. ASSUME NEW t \in Tokens, Logout(t) PROVE Parts'
  BY <1>6 DEF Logout, Locked
<1>66. ASSUME NEW t \in Tokens, Expire(t) PROVE Parts'
  BY <1>66 DEF Expire
<1>7. ASSUME NEW u \in Users, NEW l \in Links, ForgotPassword(u, l) PROVE Parts'
  BY <1>7 DEF ForgotPassword
<1>8. ASSUME NEW l \in Links, ExpireLink(l) PROVE Parts'
  BY <1>8 DEF ExpireLink
<1>9. CASE UNCHANGED vars
  BY <1>9 DEF vars
<1> QED
  BY <1>1, <1>2, <1>3, <1>4, <1>5, <1>6, <1>66, <1>7, <1>8, <1>9 DEF Next

\* Every action keeps the invariant.
LEMMA IInvStep == IInv /\ [Next]_vars => IInv'
<1> SUFFICES ASSUME IInv, [Next]_vars PROVE IInv'
  OBVIOUS
<1>1. TypeOK'
  BY TypeStep DEF IInv
<1>2. Parts'
  BY <1>1, PartsStep
<1> QED
  BY <1>1, <1>2 DEF IInv, Parts

\* The invariant holds in every reachable state.
LEMMA Invariance == Spec => []IInv
<1> QED
  BY IInvInit, IInvStep, PTL DEF Spec

\* The variables keep their types.
THEOREM TypeCorrect == Spec => []TypeOK
<1>1. IInv => TypeOK
  BY DEF IInv
<1> QED
  BY <1>1, Invariance, PTL

\* However many requests run, the tokens of one login are usable one at a time.
THEOREM OneUsable == Spec => []OneUsableTokenPerLogin
<1>1. IInv => OneUsableTokenPerLogin
  BY DEF IInv
<1> QED
  BY <1>1, Invariance, PTL

\* A rotation leaves a complete link to its successor or no trace.
THEOREM RotationAtomic == Spec => []RotationIsAllOrNothing
<1>1. IInv => RotationIsAllOrNothing
  BY DEF IInv
<1> QED
  BY <1>1, Invariance, PTL

(***************************************************************************)
(* Refinement of SessionContract.                                          *)
(***************************************************************************)
ContractVars == <<[s \in Tokens |-> StatusOf(s)], [s \in Tokens |-> HolderOf(s)]>>

\* Revoking tokens of one account ends sessions of that account.
LEMMA RevokingEnds ==
    ASSUME IInv, NEW u \in Users, NEW T \in SUBSET Tokens,
           \A t \in T : owner[t] = u,
           revoked' = revoked \cup T, UNCHANGED <<owner, family>>
    PROVE  Contract!Next
<1> DEFINE S == {s \in Tokens : StatusOf(s) = "open" /\ StatusOf(s)' # "open"}
<1> USE DEF IInv, TypeOK, FamiliesAreRooted, RowsExist, Exists, Active, IsLogin
<1>1. \A s \in Tokens : IsLogin(s)' <=> IsLogin(s)
  OBVIOUS
<1>2. ASSUME NEW s \in S PROVE HolderOf(s) = u
  <2>1. PICK t \in Tokens : Active(t) /\ family[t] = s
    BY <1>2 DEF StatusOf
  <2>2. ~Active(t)'
    BY <1>1, <1>2, <2>1 DEF StatusOf
  <2>3. owner[t] = u
    BY <2>1, <2>2
  <2> QED
    BY <2>1, <2>3 DEF HolderOf
<1>3. S \in SUBSET Contract!OpenSessionsOf(u)
  BY <1>2 DEF Contract!OpenSessionsOf
<1>4. ASSUME NEW s \in Tokens
      PROVE  StatusOf(s)' = IF s \in S THEN "ended" ELSE StatusOf(s)
  <2>1. \A t \in Tokens : Active(t)' => Active(t)
    OBVIOUS
  <2> QED
    BY <1>1, <2>1 DEF StatusOf
<1>5. \A s \in Tokens : HolderOf(s)' = HolderOf(s)
  BY <1>1 DEF HolderOf
<1>6. Contract!End(u, S)
  BY <1>3, <1>4, <1>5 DEF Contract!End
<1> QED
  BY <1>3, <1>6 DEF Contract!Next

\* A step that touches neither rows nor revocations is invisible.
LEMMA QuietStep ==
    ASSUME UNCHANGED <<owner, revoked, family>>
    PROVE  UNCHANGED ContractVars
  BY DEF ContractVars, StatusOf, HolderOf, IsLogin, Active, Exists

\* The row of a login opens its session.
LEMMA LoginOpens ==
    ASSUME IInv, NEW r \in Requests, IssueTokens(r)
    PROVE  Contract!Next
<1> USE DEF IInv, TypeOK, Exists, Active, IsLogin, IssueTokens, Store
<1>1. PICK n \in Tokens : n = next[r] /\ ~Exists(n)
  BY DEF ReservedAreFresh, Reserving
<1>u. PICK u \in Users : u = who[r]
  BY DEF ReservedAreFresh, Reserving
<1>2. n \notin revoked /\ \A t \in Tokens : ~(Exists(t) /\ family[t] = n)
  BY <1>1 DEF RowsExist, FamiliesAreRooted
<1>3. /\ owner' = [owner EXCEPT ![n] = u]
      /\ family' = [family EXCEPT ![n] = n]
      /\ revoked' = revoked
  BY <1>u, <1>1
<1>4. StatusOf(n) = "none" /\ StatusOf(n)' = "open" /\ HolderOf(n)' = u
  <2>1. Active(n)' /\ IsLogin(n)' /\ owner'[n] = u /\ family'[n] = n
    BY <1>u, <1>1, <1>2, <1>3
  <2> QED
    BY <1>1, <2>1 DEF StatusOf, HolderOf
<1>5. ASSUME NEW s \in Tokens, s # n
      PROVE  StatusOf(s)' = StatusOf(s) /\ HolderOf(s)' = HolderOf(s)
  BY <1>1, <1>2, <1>3, <1>5 DEF StatusOf, HolderOf
<1>6. \A s \in Tokens : /\ StatusOf(s)' = IF s = n THEN "open" ELSE StatusOf(s)
                        /\ HolderOf(s)' = IF s = n THEN u ELSE HolderOf(s)
  BY <1>4, <1>5
<1>7. Contract!Open(n, u)
  BY <1>1, <1>4, <1>6 DEF Contract!Open
<1> QED
  BY <1>1, <1>7 DEF Contract!Next

\* A rotation hands the session on: it stays open and nothing else changes.
LEMMA RotationIsInvisible ==
    ASSUME IInv, NEW r \in Requests, RotateCommit(r)
    PROVE  UNCHANGED ContractVars
<1> USE DEF IInv, TypeOK, Exists, Active, IsLogin
<1>1. PICK n \in Tokens : n = next[r] /\ ~Exists(n) /\ who[r] \in Users
  BY DEF RotateCommit, ReservedAreFresh, Reserving
<1>2. PICK o \in Tokens : o = tok[r] /\ Active(o) /\ family[o] \in Tokens /\ IsLogin(family[o])
  BY DEF RotateCommit, RequestsActForOwner, Presenting, ClaimsHold, FamiliesAreRooted
<1>3. n \notin revoked /\ \A t \in Tokens : ~(Exists(t) /\ family[t] = n)
  BY <1>1 DEF RowsExist, FamiliesAreRooted
<1>4. /\ owner' = [owner EXCEPT ![n] = who[r]]
      /\ family' = [family EXCEPT ![n] = family[o]]
      /\ revoked' = revoked \cup {o}
  BY <1>1, <1>2 DEF RotateCommit, Store
<1>5. n # o /\ n # family[o]
  BY <1>1, <1>2
<1>6. \A s \in Tokens : IsLogin(s)' <=> IsLogin(s)
  BY <1>1, <1>2, <1>4, <1>5
<1>7. Active(n)' /\ family'[n] = family[o]
  BY <1>1, <1>3, <1>4, <1>5
<1>8. ASSUME NEW t \in Tokens, t # n, t # o
      PROVE  (Active(t)' <=> Active(t)) /\ family'[t] = family[t]
  BY <1>4, <1>8
<1>9. ASSUME NEW s \in Tokens
      PROVE  (\E t \in Tokens : Active(t) /\ family[t] = s)'
                <=> \E t \in Tokens : Active(t) /\ family[t] = s
  BY <1>1, <1>2, <1>4, <1>5, <1>7, <1>8
<1>10. \A s \in Tokens : StatusOf(s)' = StatusOf(s)
  BY <1>6, <1>9 DEF StatusOf
<1>11. \A s \in Tokens : HolderOf(s)' = HolderOf(s)
  BY <1>1, <1>4, <1>6 DEF HolderOf
<1> QED
  BY <1>10, <1>11 DEF ContractVars

\* Every step is one of the contract or leaves its variables alone.
LEMMA ContractStep ==
    ASSUME IInv, [Next]_vars
    PROVE  Contract!Next \/ UNCHANGED ContractVars
<1> USE DEF table, account, request
<1>1. ASSUME NEW r \in Requests, Login(r) \/ Refresh(r) \/ Reset(r) \/ Abort(r)
      PROVE  UNCHANGED ContractVars
  BY <1>1, QuietStep
     DEF Login, LoginVerify, Refresh, RefreshReplayed, RefreshExpired,
         RefreshAccepted, Reset, ResetPassword, Abort
<1>2. ASSUME NEW r \in Requests, Step(r)
      PROVE  Contract!Next \/ UNCHANGED ContractVars
  <2>1. CASE IssueTokens(r)
    BY <2>1, LoginOpens
  <2>2. CASE RotateCommit(r)
    BY <2>2, RotationIsInvisible
  <2>3. CASE RotateClaim(r) \/ RotateCollide(r) \/ RevokeAllStart(r) \/ ResetStart(r)
    BY <2>3, QuietStep DEF RotateClaim, RotateCollide, RevokeAllStart, ResetStart
  <2>4. CASE RevokeExpired(r)
    <3>1. tok[r] \in Tokens /\ owner[tok[r]] \in Users
      BY <2>4 DEF RevokeExpired, IInv, TypeOK, RequestsActForOwner, Presenting, Exists
    <3>2. revoked' = revoked \cup {tok[r]} /\ UNCHANGED <<owner, family>>
      BY <2>4 DEF RevokeExpired
    <3>3. {tok[r]} \in SUBSET Tokens /\ \A t \in {tok[r]} : owner[t] = owner[tok[r]]
      BY <3>1
    <3> QED
      BY <3>1, <3>2, <3>3, RevokingEnds
  <2>5. CASE RevokeAllEnd(r) \/ ResetCommit(r)
    <3>1. revoked' = revoked \cup snap[r] /\ UNCHANGED <<owner, family>>
      BY <2>5 DEF RevokeAllEnd, ResetCommit
    <3>2. snap[r] \in SUBSET Tokens /\ who[r] \in Users /\ \A t \in snap[r] : owner[t] = who[r]
      BY <2>5 DEF RevokeAllEnd, ResetCommit, IInv, TypeOK, RequestsActForOwner,
                  Presenting, Exists
    <3> QED
      BY <3>1, <3>2, RevokingEnds
  <2> QED
    BY <1>2, <2>1, <2>2, <2>3, <2>4, <2>5 DEF Step
<1>3. ASSUME NEW t \in Tokens, Logout(t)
      PROVE  Contract!Next
  <2>1. owner[t] \in Users
    BY <1>3 DEF Logout, IInv, TypeOK, Exists
  <2>2. revoked' = revoked \cup {t} /\ UNCHANGED <<owner, family>>
    BY <1>3 DEF Logout
  <2>3. {t} \in SUBSET Tokens /\ \A s \in {t} : owner[s] = owner[t]
    OBVIOUS
  <2> QED
    BY <2>1, <2>2, <2>3, RevokingEnds
<1>4. ASSUME NEW t \in Tokens, Expire(t) PROVE UNCHANGED ContractVars
  BY <1>4, QuietStep DEF Expire
<1>5. ASSUME NEW u \in Users, NEW l \in Links, ForgotPassword(u, l) \/ ExpireLink(l)
      PROVE  UNCHANGED ContractVars
  BY <1>5, QuietStep DEF ForgotPassword, ExpireLink
<1>6. ASSUME NEW l \in Links, ExpireLink(l)
      PROVE  UNCHANGED ContractVars
  BY <1>6, QuietStep DEF ExpireLink
<1>7. CASE UNCHANGED vars
  BY <1>7, QuietStep DEF vars
<1> QED
  BY <1>1, <1>2, <1>3, <1>4, <1>5, <1>6, <1>7 DEF Next

\* Every behaviour of the statement-level interleaving is one of the contract:
\* sessions are opened by logins only, end for one account at a time and never
\* come back.
THEOREM Refinement == Spec => ImplementsContract
<1>1. Init => Contract!Init
  BY DEF Init, Contract!Init, StatusOf, HolderOf, IsLogin, Exists
<1>2. IInv /\ [Next]_vars => [Contract!Next]_ContractVars
  BY ContractStep
<1> QED
  BY <1>1, <1>2, Invariance, PTL DEF Spec, ImplementsContract, Contract!Spec, ContractVars
-----------------------------------------------------------------------------
(***************************************************************************)
(* Ending all sessions, as long as no two requests overlap                 *)
(***************************************************************************)
\* At most one request is in flight; nothing has become usable since its UPDATE
\* took the snapshot, and nobody has used the link it has read.
Undisturbed ==
    ~overlap =>
      /\ \A q, r \in Requests : pc[q] # Idle /\ pc[r] # Idle => q = r
      /\ \A r \in Requests :
           /\ pc[r] \in {"revoking", "resetting"} => ActiveOf(who[r]) \subseteq snap[r]
           /\ pc[r] \in {"reset", "resetting"} => link[r] \notin linkUsed

\* A request begins where none is in flight.
LEMMA UndisturbedBegin ==
    ASSUME IInv, NEW r \in Requests, NEW label \in {"issue", "expire", "claim", "revokeAll", "reset"},
           Begin(r, label), ~overlap',
           label = "reset" => link'[r] \notin linkUsed'
    PROVE  Undisturbed'
<1>1. /\ pc' = [pc EXCEPT ![r] = label]
      /\ \A q \in Requests : pc[q] = Idle
  BY DEF Begin
<1>2. /\ pc'[r] = label
      /\ \A q \in Requests : q # r => pc'[q] = Idle
  BY <1>1 DEF IInv, TypeOK
<1> QED
  BY <1>2 DEF Undisturbed, Idle

\* A request that answers leaves none in flight.
LEMMA UndisturbedAnswer ==
    ASSUME IInv, Undisturbed, NEW r \in Requests, pc[r] # Idle, Answer(r)
    PROVE  Undisturbed'
<1> SUFFICES ASSUME ~overlap PROVE \A q \in Requests : pc'[q] = Idle
  BY DEF Undisturbed, Answer, Goto, Idle
<1>1. \A q \in Requests : q # r => pc[q] = Idle
  BY DEF Undisturbed
<1> QED
  BY <1>1 DEF Answer, Goto, IInv, TypeOK

\* The request in flight goes on; it is the only one.
LEMMA UndisturbedGoto ==
    ASSUME IInv, Undisturbed, NEW r \in Requests, pc[r] # Idle,
           RotateClaim(r) \/ RevokeAllStart(r) \/ ResetStart(r)
    PROVE  Undisturbed'
<1> SUFFICES ASSUME ~overlap PROVE Undisturbed'
  BY DEF Undisturbed, RotateClaim, RevokeAllStart, ResetStart, Goto
<1>1. \A q \in Requests : q # r => pc[q] = Idle
  BY DEF Undisturbed
<1>2. CASE RotateClaim(r)
  <2>1. pc'[r] = "commit" /\ \A q \in Requests : q # r => pc'[q] = Idle
    BY <1>1, <1>2 DEF RotateClaim, Goto, IInv, TypeOK
  <2> QED
    BY <2>1 DEF Undisturbed, Idle
<1>3. CASE RevokeAllStart(r) \/ ResetStart(r)
  <2>1. /\ \A q \in Requests : q # r => pc'[q] = Idle
        /\ snap'[r] = ActiveOf(who[r])
        /\ UNCHANGED <<owner, revoked, who, link, linkUsed>>
        /\ (pc[r] = "revokeAll" /\ pc'[r] = "revoking") \/ pc[r] = "reset"
    BY <1>1, <1>3 DEF RevokeAllStart, ResetStart, Goto, IInv, TypeOK, table, account
  <2>2. ActiveOf(who[r])' \subseteq snap'[r]
    BY <2>1 DEF ActiveOf
  <2> QED
    BY <2>1, <2>2 DEF Undisturbed, Idle
<1> QED
  BY <1>2, <1>3

\* Every action keeps it.
LEMMA UndisturbedStep == IInv /\ Undisturbed /\ [Next]_vars => Undisturbed'
<1> SUFFICES ASSUME IInv, Undisturbed, [Next]_vars, ~overlap' PROVE Undisturbed'
  BY DEF Undisturbed
<1>1. ASSUME NEW r \in Requests, Login(r) \/ Refresh(r) PROVE Undisturbed'
  <2>1. \E label \in {"issue", "expire", "claim", "revokeAll"} : Begin(r, label)
    BY <1>1 DEF Login, LoginVerify, Refresh, RefreshReplayed, RefreshExpired, RefreshAccepted
  <2> QED
    BY <2>1, UndisturbedBegin
<1>2. ASSUME NEW r \in Requests, Reset(r) PROVE Undisturbed'
  <2>1. PICK l \in Links : /\ Begin(r, "reset") /\ l \notin linkUsed
                           /\ link' = [link EXCEPT ![r] = l] /\ linkUsed' = linkUsed
    BY <1>2 DEF Reset, ResetPassword, account
  <2>2. link'[r] = l
    BY <2>1 DEF IInv, TypeOK
  <2> QED
    BY <2>1, <2>2, UndisturbedBegin
<1>3. ASSUME NEW r \in Requests, Step(r) \/ Abort(r) PROVE Undisturbed'
  <2>1. pc[r] # Idle
    BY <1>3 DEF Step, Abort, IssueTokens, RevokeExpired, RotateClaim, RotateCollide, RotateCommit,
       RevokeAllStart, RevokeAllEnd, ResetStart, ResetCommit, Idle
  <2>2. CASE Answer(r)
    BY <2>1, <2>2, UndisturbedAnswer
  <2>3. CASE RotateClaim(r) \/ RevokeAllStart(r) \/ ResetStart(r)
    BY <2>1, <2>3, UndisturbedGoto
  <2> QED
    BY <1>3, <2>2, <2>3 DEF Step, Abort, IssueTokens, RevokeExpired, RotateCollide, RotateCommit,
       RevokeAllEnd, ResetCommit
<1>4. ASSUME NEW t \in Tokens, Logout(t) PROVE Undisturbed'
  BY <1>4 DEF Logout, Undisturbed, ActiveOf, account, request
<1>5. ASSUME NEW t \in Tokens, Expire(t) PROVE Undisturbed'
  BY <1>5 DEF Expire, Undisturbed, ActiveOf, account, request
<1>6. ASSUME NEW u \in Users, NEW l \in Links, ForgotPassword(u, l) PROVE Undisturbed'
  BY <1>6 DEF ForgotPassword, Undisturbed, ActiveOf, table, request
<1>7. ASSUME NEW l \in Links, ExpireLink(l) PROVE Undisturbed'
  BY <1>7 DEF ExpireLink, Undisturbed, ActiveOf, table, request
<1>8. CASE UNCHANGED vars
  BY <1>8 DEF vars, Undisturbed, ActiveOf
<1> QED
  BY <1>1, <1>2, <1>3, <1>4, <1>5, <1>6, <1>7, <1>8 DEF Next

\* As long as no two requests overlap, whoever ends all sessions of a user leaves
\* him no usable token, and a link sets one password (revokeAllForUser, resetPassword).
THEOREM EndedForGood == Spec => EndingIsFinal
<1> DEFINE Final(r) ==
      /\ \A t \in Tokens : owner'[t] = who[r] => t \in revoked'
      /\ ResetCommit(r) => link[r] \notin linkUsed /\ link[r] \in linkUsed'
<1>1. Init => Undisturbed
  BY DEF Init, Undisturbed, Idle
<1>2. ASSUME IInv, Undisturbed, NEW r \in Requests, RevokeAllEnd(r) \/ ResetCommit(r), ~overlap
      PROVE  Final(r)
  <2>1. /\ pc[r] \in {"revoking", "resetting"}
        /\ owner' = owner /\ revoked' = revoked \cup snap[r]
    BY <1>2 DEF RevokeAllEnd, ResetCommit
  <2>2. ActiveOf(who[r]) \subseteq snap[r]
    BY <1>2, <2>1 DEF Undisturbed
  <2>3. ResetCommit(r) => link[r] \notin linkUsed /\ link[r] \in linkUsed'
    BY <1>2 DEF Undisturbed, ResetCommit
  <2> QED
    BY <2>1, <2>2, <2>3 DEF ActiveOf
<1>3. IInv /\ Undisturbed =>
        [\A r \in Requests : (RevokeAllEnd(r) \/ ResetCommit(r)) /\ ~overlap => Final(r)]_vars
  BY <1>2, Zenon
<1> QED
  BY <1>1, <1>3, UndisturbedStep, Invariance, PTL DEF Spec, EndingIsFinal

-----------------------------------------------------------------------------
(***************************************************************************)
(* The other end of these sessions, the tabs of a browser.  Its rows and   *)
(* requests have names of their own.                                       *)
(***************************************************************************)

USE SessionAssumption

\* Calls belong to open tabs and carry what their kind needs.
CallsAreWhole ==
    /\ \A t \in Tabs : access[t] # None \/ refreshing[t] # {} => t \in opened
    /\ \A c \in InFlight :
         /\ call[c].tab \in opened
         /\ call[c].phase = "waiting" => call[c].kind \in {"query", "wrongLogin"}
         /\ call[c].kind = "login" =>
              IF call[c].phase = "sent" THEN call[c].user \in People ELSE call[c].token \in Cookies

Types == WebTypeOK /\ CallsAreWhole

LEMMA WholeInit == WebInit => Types
  BY DEF WebInit, Types, WebTypeOK, CallsAreWhole, InFlight

\* A row that is issued is of its user and was unheld.
LEMMA IssuedRow ==
    ASSUME NEW u \in People, Unused(u) # {}
    PROVE  /\ Issued(u) \in Unused(u) /\ Issued(u) \in Cookies
           /\ Owner(Issued(u)) = u
<1>1. Issued(u) \in Unused(u)
  BY DEF Issued
<1>2. Issued(u) \in {u} \X (1..MaxTokens)
  BY <1>1 DEF Unused
<1> QED
  BY <1>1, <1>2 DEF Cookies, Owner

LEMMA IssueAdds ==
    ASSUME NEW u, NEW left, Issue(u, left)
    PROVE  live' = left \cup {Issued(u)}
  BY DEF Issue, Issued

LEMMA OwnerType == ASSUME NEW k \in Cookies PROVE Owner(k) \in People
  BY DEF Cookies, Owner

\* A refresh is sent, or waits for the one under way.
LEMMA RefreshTyped ==
    ASSUME Types, NEW t \in Tabs, RefreshSession(t)
    PROVE  /\ refreshing' \in [Tabs -> SUBSET Refreshes] /\ disturbed' \in BOOLEAN
           /\ \A s \in Tabs \ {t} : refreshing'[s] = refreshing[s]
<1>1. CASE refreshing[t] = {}
  <2>1. PICK r : r = RefreshRequest(1)
    OBVIOUS
  <2>2. r \in Refreshes
    BY <2>1 DEF RefreshRequest, Refreshes, Types, WebTypeOK
  <2>3. refreshing' = [refreshing EXCEPT ![t] = {r}]
    BY <1>1, <2>1 DEF RefreshSession
  <2>4. disturbed' \in BOOLEAN
    BY <1>1, Zenon DEF RefreshSession
  <2> QED
    BY <2>2, <2>3, <2>4 DEF Types, WebTypeOK
<1>2. CASE refreshing[t] # {}
  BY <1>2 DEF RefreshSession, Types, WebTypeOK
<1> QED
  BY <1>1, <1>2

LEMMA WatchedTyped == Watched => crossed' \in BOOLEAN
  BY DEF Watched

LEMMA WholeStep == Types /\ [WebNext]_webVars => Types'
<1> SUFFICES ASSUME Types, [WebNext]_webVars PROVE Types'
  OBVIOUS
<1> USE DEF Types
<1>1. ASSUME NEW t \in Tabs, Open(t) \/ Close(t) \/ AccessExpires(t) PROVE Types'
  <2>1. CASE Open(t)
    <3>1. UNCHANGED <<live, cookie, ready, access, stale, call, out>> /\ opened' = opened \cup {t}
      BY <2>1 DEF Open
    <3>2. /\ refreshing' \in [Tabs -> SUBSET Refreshes] /\ disturbed' \in BOOLEAN
          /\ \A s \in Tabs \ {t} : refreshing'[s] = refreshing[s]
      BY <2>1, RefreshTyped DEF Open
    <3> QED
      BY <2>1, <3>1, <3>2, WatchedTyped DEF Open, WebTypeOK, CallsAreWhole, InFlight
  <2>2. CASE Close(t)
    BY <2>2, WatchedTyped DEF Close, ForgetUnheld, WebTypeOK, CallsAreWhole, InFlight
  <2>3. CASE AccessExpires(t)
    BY <2>3 DEF AccessExpires, WebTypeOK, CallsAreWhole, InFlight
  <2> QED
    BY <1>1, <2>1, <2>2, <2>3
<1>2. ASSUME NEW t \in Tabs, NEW c \in Calls, NEW kind \in {"login", "wrongLogin", "logout", "query"},
             NEW k \in Cookies \cup {None}, NEW u \in People \cup {None}, kind = "login" => u \in People,
             Send(c, t, kind, k, u)
      PROVE  Types'
  BY <1>2, WatchedTyped DEF Send, tab, WebTypeOK, CallsAreWhole, InFlight, Exchanges
<1>3. ASSUME NEW t \in Tabs, NEW c \in Calls,
             \/ UseLogout(c, t) \/ Query(c, t) \/ WrongLogin(c, t)
             \/ \E u \in People : UseLogin(c, t, u)
      PROVE  Types'
  <2>1. Presented(t) \in People \cup {None}
    BY DEF Presented, WebTypeOK
  <2> QED
    BY <1>2, <1>3, <2>1 DEF UseLogout, Query, WrongLogin, UseLogin, WebTypeOK
<1>4. ASSUME NEW t \in Tabs, NEW r \in refreshing[t], ServeRefresh(t, r) PROVE Types'
  <2>0. r \in Refreshes
    BY DEF WebTypeOK
  <2>1. PICK k \in Cookies \cup {None} : refreshing' = [refreshing EXCEPT ![t] =
                          (@ \ {r}) \cup {[r EXCEPT !.phase = "answered", !.token = k]}] /\ live' \subseteq Cookies
    <3>1. CASE r.token = None
      BY <1>4, <2>0, <3>1 DEF ServeRefresh, WebTypeOK
    <3>2. CASE r.token \in Cookies \ live
      BY <1>4, <2>0, <3>2 DEF ServeRefresh, WebTypeOK
    <3>3. CASE r.token \in live
      <4>1. r.token \in Cookies /\ r.token # None
        BY <3>3 DEF WebTypeOK
      <4>2. PICK u \in People : u = Owner(r.token)
        BY <4>1, OwnerType
      <4>3. /\ Issue(u, live \ {r.token})
            /\ refreshing' = [refreshing EXCEPT ![t] =
                 (@ \ {r}) \cup {[r EXCEPT !.phase = "answered", !.token = Issued(u)]}]
        BY <1>4, <3>3, <4>1, <4>2 DEF ServeRefresh
      <4>4. Issued(u) \in Cookies /\ live' = (live \ {r.token}) \cup {Issued(u)}
        BY <4>3, IssuedRow DEF Issue, Issued
      <4> QED
        BY <4>3, <4>4 DEF WebTypeOK
    <3> QED
      BY <1>4, <3>1, <3>2, <3>3 DEF ServeRefresh
  <2>2. [r EXCEPT !.phase = "answered", !.token = k] \in Refreshes
    BY <2>0 DEF Refreshes
  <2>3. UNCHANGED <<cookie, opened, ready, access, stale, call, disturbed, crossed, out>>
    BY <1>4 DEF ServeRefresh, tab
  <2> QED
    BY <2>1, <2>2, <2>3 DEF WebTypeOK, CallsAreWhole, InFlight
<1>5. ASSUME NEW t \in Tabs, SettleRefresh(t) PROVE Types'
  <2> PICK r \in refreshing[t] :
          Refreshed(t, r) \/ RefreshRefused(t, r) \/ RefreshLost(t, r)
    BY <1>5 DEF SettleRefresh
  <2>0. r \in Refreshes /\ t \in opened
    BY DEF WebTypeOK, CallsAreWhole
  <2>1. CASE Refreshed(t, r)
    <3>1. r.token \in Cookies /\ Owner(r.token) \in People
      BY <2>0, <2>1, OwnerType DEF Refreshed, Refreshes
    <3>2. PICK u \in People : u = Owner(r.token)
      BY <3>1
    <3>3. ASSUME NEW c \in Calls
          PROVE  /\ call'[c] \in Exchanges \cup {None}
                 /\ call'[c] # None => /\ call[c] # None /\ call'[c].tab = call[c].tab
                                       /\ call'[c].kind = call[c].kind /\ call'[c].token = call[c].token
                                       /\ call'[c] = call[c] \/ (call'[c].phase = "sent" /\ call'[c].kind # "login")
      <4>0. call'[c] = IF Waits(c, t) THEN [call[c] EXCEPT !.phase = "sent", !.retried = TRUE,
                                              !.user = IF call[c].kind = "query" THEN u ELSE None]
                       ELSE call[c]
        BY <2>1, <3>2, Zenon DEF Refreshed
      <4>1. CASE Waits(c, t)
        <5>1. PICK j : j = [call[c] EXCEPT !.phase = "sent", !.retried = TRUE,
                                 !.user = IF call[c].kind = "query" THEN u ELSE None]
          OBVIOUS
        <5>2. call[c] \in Exchanges /\ call[c].kind # "login"
          BY <4>1 DEF Waits, WebTypeOK, CallsAreWhole, InFlight
        <5>3. /\ j \in Exchanges /\ j.tab = call[c].tab /\ j.kind = call[c].kind
              /\ j.token = call[c].token /\ j.phase = "sent"
          BY <5>1, <5>2 DEF Exchanges
        <5>4. call'[c] = j
          BY <4>0, <4>1, <5>1
        <5> QED
          BY <4>1, <5>2, <5>3, <5>4 DEF Waits
      <4>2. CASE ~Waits(c, t)
        <5>1. call'[c] = call[c]
          BY <4>0, <4>2
        <5> QED
          BY <5>1 DEF WebTypeOK
      <4> QED
        BY <4>1, <4>2
    <3>4. /\ UNCHANGED <<opened, disturbed, out>> /\ crossed' \in BOOLEAN /\ live' \subseteq live /\ cookie' \in Cookies
          /\ ready' = ready \cup {t} /\ stale' = stale \ {t}
          /\ access' = [access EXCEPT ![t] = u]
          /\ refreshing' = [refreshing EXCEPT ![t] = @ \ {r}]
          /\ call' = [c \in Calls |-> call'[c]]
      BY <2>1, <3>1, <3>2, WatchedTyped, Zenon DEF Refreshed, SetAccess, Done, ForgetUnheld
    <3> QED
      BY <2>0, <3>3, <3>4 DEF WebTypeOK, CallsAreWhole, InFlight
  <2>2. CASE RefreshRefused(t, r) \/ RefreshLost(t, r)
    <3>1. /\ UNCHANGED <<cookie, opened, out>> /\ crossed' \in BOOLEAN /\ live' \subseteq live
          /\ ready' = ready \cup {t} /\ stale' = stale \ {t}
          /\ access' = [access EXCEPT ![t] = None]
          /\ refreshing' = [refreshing EXCEPT ![t] = @ \ {r}]
          /\ call' = [c \in Calls |-> IF Waits(c, t) THEN None ELSE call[c]]
      BY <2>2, WatchedTyped
        DEF RefreshRefused, RefreshLost, RefreshFailed, SetAccess, Done, ForgetUnheld
    <3>2. disturbed' \in BOOLEAN
      BY <2>2 DEF RefreshRefused, RefreshLost, WebTypeOK
    <3> QED
      BY <2>0, <3>1, <3>2 DEF WebTypeOK, CallsAreWhole, InFlight
  <2> QED
    BY <2>1, <2>2
<1>6. ASSUME NEW c \in Calls, Serve(c) PROVE Types'
  <2>1. c \in InFlight /\ call[c] \in Exchanges /\ call[c].phase = "sent"
    BY <1>6 DEF Serve, InFlight, WebTypeOK
  <2>2. PICK k \in Cookies \cup {None}, ok \in BOOLEAN :
           Reply(c, ok, k) /\ live' \subseteq Cookies /\ (call[c].kind = "login" => k \in Cookies)
    BY <1>6, <2>1, IssuedRow DEF Serve, Issue, Issued, WebTypeOK, CallsAreWhole
  <2>3. UNCHANGED <<cookie, opened, ready, access, stale, refreshing, disturbed, crossed, out>>
    BY <1>6 DEF Serve, tab
  <2>4. PICK j : j = [call[c] EXCEPT !.phase = "answered", !.user = None, !.ok = ok, !.token = k]
    OBVIOUS
  <2>5. /\ j \in Exchanges /\ j.tab = call[c].tab /\ j.kind = call[c].kind
        /\ j.phase = "answered" /\ j.token = k
    BY <2>1, <2>4 DEF Exchanges
  <2>6. call' = [call EXCEPT ![c] = j]
    BY <2>2, <2>4 DEF Reply
  <2> QED
    BY <2>1, <2>2, <2>3, <2>5, <2>6 DEF WebTypeOK, CallsAreWhole, InFlight
<1>7. ASSUME NEW c \in Calls, Settle(c) PROVE Types'
  <2>0. /\ c \in InFlight /\ call[c] \in Exchanges
        /\ call[c].tab \in opened /\ call[c].tab \in Tabs
    BY <1>7
      DEF Settle, LoggedIn, LoggedOut, QueryAnswered, CallLost, InFlight, WebTypeOK, CallsAreWhole
  <2>1. CASE LoggedIn(c)
    <3>1. call[c].token \in Cookies /\ Owner(call[c].token) \in People
      BY <2>0, <2>1, OwnerType DEF LoggedIn, CallsAreWhole
    <3> QED
      BY <2>0, <2>1, <3>1, WatchedTyped
        DEF LoggedIn, SetAccess, Free, ForgetUnheld, WebTypeOK, CallsAreWhole, InFlight
  <2>2. CASE LoggedOut(c)
    BY <2>0, <2>2, WatchedTyped
      DEF LoggedOut, SetAccess, Free, ForgetUnheld, WebTypeOK, CallsAreWhole, InFlight
  <2>3. CASE QueryAnswered(c)
    <3>1. CASE Free(c) /\ UNCHANGED <<refreshing, disturbed>>
      BY <2>3, <3>1, WatchedTyped
        DEF QueryAnswered, Free, tab, WebTypeOK, CallsAreWhole, InFlight
    <3>2. CASE call' = [call EXCEPT ![c].phase = "waiting"] /\ RefreshSession(call[c].tab)
      <4>1. PICK j : j = [call[c] EXCEPT !.phase = "waiting"]
        OBVIOUS
      <4>2. j \in Exchanges /\ j.tab = call[c].tab /\ j.kind \in {"query", "wrongLogin"}
        BY <2>0, <2>3, <4>1 DEF Exchanges, QueryAnswered
      <4>3. call' = [call EXCEPT ![c] = j]
        BY <3>2, <4>1
      <4>4. /\ refreshing' \in [Tabs -> SUBSET Refreshes] /\ disturbed' \in BOOLEAN
            /\ \A s \in Tabs \ {call[c].tab} : refreshing'[s] = refreshing[s]
        BY <2>0, <3>2, RefreshTyped
      <4>5. UNCHANGED <<live, cookie, opened, ready, access, stale, out>> /\ crossed' \in BOOLEAN
        BY <2>3, WatchedTyped DEF QueryAnswered, tab
      <4> QED
        BY <2>0, <4>2, <4>3, <4>4, <4>5 DEF WebTypeOK, CallsAreWhole, InFlight
    <3> QED
      BY <2>3, <3>1, <3>2 DEF QueryAnswered
  <2>4. CASE CallLost(c)
    BY <2>0, <2>4, WatchedTyped
      DEF CallLost, SetAccess, Free, ForgetUnheld, WebTypeOK, CallsAreWhole, InFlight
  <2> QED
    BY <1>7, <2>1, <2>2, <2>3, <2>4 DEF Settle
<1>8. ASSUME NEW u \in People, EndSessions(u) PROVE Types'
  BY <1>8 DEF EndSessions, tab, WebTypeOK, CallsAreWhole, InFlight
<1>9. CASE UNCHANGED webVars
  BY <1>9 DEF webVars, WebTypeOK, CallsAreWhole, InFlight
<1> QED
  BY <1>1, <1>3, <1>4, <1>5, <1>6, <1>7, <1>8, <1>9 DEF WebNext

-----------------------------------------------------------------------------
\* A refresh carries the cookie to the server, and a live token back.
RefreshesAreGood ==
    \A t \in Tabs : \A r \in refreshing[t] :
        /\ r.phase = "sent" => r.token = cookie
        /\ r.phase = "answered" => r.token \in live \/ (r.token = None /\ cookie = None)

\* So does a login, and a logout carries the cookie there.
CallsAreGood ==
    \A c \in SessionCalls :
        /\ call[c].kind = "login" /\ call[c].phase = "answered" => call[c].token \in live
        /\ call[c].kind = "logout" /\ call[c].phase = "sent" => call[c].token = cookie

\* The cookie is live, unless the answer that replaces it is under way.
CookieIsGood ==
    \/ cookie \in live \cup {None}
    \/ \E t \in Tabs : \E r \in refreshing[t] : r.phase = "answered"
    \/ \E c \in SessionCalls : call[c].kind = "logout" /\ call[c].phase = "answered"

SessionIsKnown ==
    ~disturbed => OneSessionCall /\ RefreshesAreGood /\ CallsAreGood /\ CookieIsGood

\* Calls about the session stay as they are.
SameCalls ==
    \A c \in Calls : /\ c \in SessionCalls' <=> c \in SessionCalls
                     /\ c \in SessionCalls => call'[c] = call[c]

\* What somebody could still present stays live.
LiveStays ==
    \A k \in live : \/ k \in live'
                    \/ /\ k # cookie /\ \A t \in Tabs : \A r \in refreshing[t] : k # r.token
                       /\ \A c \in SessionCalls : k # call[c].token

LEMMA KnownKept ==
    ASSUME SessionIsKnown, ~disturbed, UNCHANGED <<cookie, refreshing>>, SameCalls, LiveStays
    PROVE  SessionIsKnown'
<1>0. SessionCalls \subseteq Calls /\ SessionCalls' \subseteq Calls
  BY DEF SessionCalls, InFlight
<1>1. \A c : c \in SessionCalls' <=> c \in SessionCalls
  BY <1>0 DEF SameCalls
<1>2. \A c \in SessionCalls : call'[c] = call[c]
  BY <1>0 DEF SameCalls
<1> HIDE DEF SessionCalls
<1>3. OneSessionCall'
  BY <1>1 DEF OneSessionCall, SessionIsKnown
<1>4. RefreshesAreGood'
  BY DEF RefreshesAreGood, SessionIsKnown, LiveStays
<1>5. CallsAreGood'
  BY <1>1, <1>2 DEF CallsAreGood, SessionIsKnown, LiveStays
<1>6. CookieIsGood'
  BY <1>1, <1>2 DEF CookieIsGood, SessionIsKnown, LiveStays
<1> QED
  BY <1>3, <1>4, <1>5, <1>6 DEF SessionIsKnown

\* Rows that somebody holds afterwards are not forgotten.
LEMMA HeldStays ==
    ASSUME ForgetUnheld, NEW k \in live,
           \/ k = cookie' \/ \E t \in Tabs : \E r \in refreshing'[t] : k = r.token
           \/ \E c \in InFlight' : k = call'[c].token
    PROVE  k \in live'
  BY DEF ForgetUnheld, Held

\* A refresh begins when there is no other call about the session.
LEMMA RefreshKnown ==
    ASSUME Types, SessionIsKnown, NEW t \in Tabs, RefreshSession(t), UNCHANGED <<live, cookie>>,
           SameCalls
    PROVE  SessionIsKnown'
<1> SUFFICES ASSUME ~disturbed' PROVE SessionIsKnown'
  BY DEF SessionIsKnown
<1>1. CASE refreshing[t] = {}
  <2>1. ~disturbed /\ SessionCalls = {} /\ \A s \in Tabs : refreshing[s] = {}
    BY <1>1 DEF RefreshSession, SessionCallInFlight
  <2>2. SessionCalls' = {}
    <3>1. SessionCalls' \subseteq Calls
      BY DEF SessionCalls, InFlight
    <3> QED
      BY <2>1, <3>1 DEF SameCalls
  <2>3. PICK r : r = RefreshRequest(1)
    OBVIOUS
  <2>4. r.phase = "sent" /\ r.token = cookie
    BY <2>3 DEF RefreshRequest
  <2>5. refreshing'[t] = {r} /\ \A s \in Tabs : s # t => refreshing'[s] = {}
    BY <1>1, <2>1, <2>3 DEF RefreshSession, Types, WebTypeOK
  <2>6. CookieIsGood
    BY <2>1 DEF SessionIsKnown
  <2> HIDE DEF SessionCalls
  <2>7. cookie \in live \cup {None}
    BY <2>1, <2>6 DEF CookieIsGood
  <2>8. OneSessionCall' /\ CallsAreGood'
    BY <2>2, <2>5 DEF OneSessionCall, CallsAreGood
  <2>9. RefreshesAreGood' /\ CookieIsGood'
    BY <2>4, <2>5, <2>7 DEF RefreshesAreGood, CookieIsGood
  <2> QED
    BY <2>8, <2>9 DEF SessionIsKnown
<1>2. CASE refreshing[t] # {}
  <2>1. UNCHANGED <<refreshing, disturbed>>
    BY <1>2 DEF RefreshSession
  <2> QED
    BY <2>1, KnownKept DEF LiveStays
<1> QED
  BY <1>1, <1>2

\* A refresh in flight is the only call about the session ...
LEMMA SoleRefresh ==
    ASSUME SessionIsKnown, ~disturbed, NEW t \in Tabs, NEW r \in refreshing[t]
    PROVE  /\ SessionCalls = {} /\ refreshing[t] = {r}
           /\ \A s \in Tabs : s # t => refreshing[s] = {}
           /\ r.phase = "sent" => r.token = cookie /\ cookie \in live \cup {None}
           /\ r.phase = "answered" => r.token \in live \/ (r.token = None /\ cookie = None)
<1> HIDE DEF SessionCalls
<1>1. SessionCalls = {} /\ refreshing[t] = {r} /\ \A s \in Tabs : s # t => refreshing[s] = {}
  BY DEF SessionIsKnown, OneSessionCall
<1>2. RefreshesAreGood /\ CookieIsGood
  BY DEF SessionIsKnown
<1> QED
  BY <1>1, <1>2 DEF RefreshesAreGood, CookieIsGood

\* ... and so is a login or a logout.
LEMMA SoleCall ==
    ASSUME SessionIsKnown, ~disturbed, NEW c \in SessionCalls
    PROVE  /\ SessionCalls = {c} /\ \A t \in Tabs : refreshing[t] = {}
           /\ cookie \in live \cup {None} \/ call[c].kind = "logout"
           /\ call[c].kind = "login" /\ call[c].phase = "answered" => call[c].token \in live
<1> HIDE DEF SessionCalls
<1>1. SessionCalls = {c} /\ \A t \in Tabs : refreshing[t] = {}
  BY DEF SessionIsKnown, OneSessionCall
<1>2. CallsAreGood /\ CookieIsGood
  BY DEF SessionIsKnown
<1> QED
  BY <1>1, <1>2 DEF CallsAreGood, CookieIsGood

\* Between two of them the cookie is all there is to know.
LEMMA QuietKnown ==
    ASSUME SessionCalls' = {}, \A t \in Tabs : refreshing'[t] = {},
           cookie' \in live' \cup {None}
    PROVE  SessionIsKnown'
<1> HIDE DEF SessionCalls
<1> QED
  BY DEF SessionIsKnown, OneSessionCall, RefreshesAreGood, CallsAreGood, CookieIsGood

LEMMA OpenKnown ==
    ASSUME Types, SessionIsKnown, NEW t \in Tabs, Open(t)
    PROVE  SessionIsKnown'
<1>1. RefreshSession(t) /\ UNCHANGED <<live, cookie, call>>
  BY DEF Open
<1>2. SameCalls
  BY <1>1 DEF SameCalls, SessionCalls, InFlight
<1> QED
  BY <1>1, <1>2, RefreshKnown

\* What the tabs and the server forget is of no session.
LEMMA ForgetKnown ==
    ASSUME SessionIsKnown, ~disturbed, UNCHANGED <<cookie, refreshing>>, SameCalls,
           ForgetUnheld
    PROVE  SessionIsKnown'
<1>1. LiveStays
  <2> SUFFICES ASSUME NEW k \in live,
                      \/ k = cookie \/ \E t \in Tabs : \E r \in refreshing[t] : k = r.token
                      \/ \E c \in SessionCalls : k = call[c].token
               PROVE  k \in live'
    BY DEF LiveStays
  <2>1. CASE \E c \in SessionCalls : k = call[c].token
    <3> PICK c \in SessionCalls : k = call[c].token
      BY <2>1
    <3>1. c \in InFlight' /\ call'[c] = call[c]
      BY DEF SameCalls, SessionCalls, InFlight
    <3> QED
      BY <3>1, HeldStays
  <2> QED
    BY <2>1, HeldStays
<1> QED
  BY <1>1, KnownKept

LEMMA CloseKnown ==
    ASSUME Types, SessionIsKnown, NEW t \in Tabs, Close(t)
    PROVE  SessionIsKnown'
<1> SUFFICES ASSUME ~disturbed' PROVE SessionIsKnown'
  BY DEF SessionIsKnown
<1>1. ~disturbed /\ refreshing[t] = {} /\ \A c \in SessionCalls : call[c].tab # t
  BY DEF Close
<1>2. UNCHANGED <<cookie, refreshing>> /\ ForgetUnheld
  BY <1>1 DEF Close, Types, WebTypeOK
<1>3. call' = [c \in Calls |-> IF call[c] # None /\ call[c].tab = t THEN None ELSE call[c]]
  BY DEF Close
<1>4. SameCalls
  BY <1>1, <1>3 DEF SameCalls, SessionCalls, InFlight
<1> QED
  BY <1>1, <1>2, <1>4, ForgetKnown

LEMMA SendKnown ==
    ASSUME Types, SessionIsKnown, NEW t \in Tabs, NEW c \in Calls,
           NEW kind \in {"login", "wrongLogin", "logout", "query"}, NEW k, NEW u,
           Send(c, t, kind, k, u), kind = "logout" => k = cookie
    PROVE  SessionIsKnown'
<1> SUFFICES ASSUME ~disturbed' PROVE SessionIsKnown'
  BY DEF SessionIsKnown
<1>1. PICK j : j = [tab |-> t, kind |-> kind, phase |-> "sent", token |-> k,
                    user |-> u, retried |-> FALSE, ok |-> FALSE]
  OBVIOUS
<1>2. j.kind = kind /\ j.phase = "sent" /\ j.token = k
  BY <1>1
<1>3. ~disturbed /\ (kind \in {"login", "logout"} => ~SessionCallInFlight)
  BY DEF Send
<1>4. /\ call[c] = None /\ call' = [call EXCEPT ![c] = j]
      /\ UNCHANGED <<live, cookie, refreshing>>
  BY <1>1 DEF Send
<1>5. \A d \in Calls : call'[d] = IF d = c THEN j ELSE call[d]
  BY <1>4 DEF Types, WebTypeOK
<1>6. CASE kind \in {"login", "logout"}
  <2>1. SessionCalls = {} /\ \A s \in Tabs : refreshing[s] = {}
    BY <1>3, <1>6 DEF SessionCallInFlight
  <2>2. SessionCalls' \subseteq {c}
    BY <1>5, <2>1 DEF SessionCalls, InFlight
  <2>3. cookie \in live \cup {None}
    BY <1>3, <2>1 DEF SessionIsKnown, CookieIsGood
  <2> HIDE DEF SessionCalls
  <2>4. OneSessionCall' /\ RefreshesAreGood'
    BY <1>4, <2>1, <2>2 DEF OneSessionCall, RefreshesAreGood
  <2>5. CallsAreGood' /\ CookieIsGood'
    BY <1>2, <1>4, <1>5, <2>2, <2>3 DEF CallsAreGood, CookieIsGood
  <2> QED
    BY <2>4, <2>5 DEF SessionIsKnown
<1>7. CASE kind \notin {"login", "logout"}
  <2>1. SameCalls
    BY <1>2, <1>4, <1>5, <1>7 DEF SameCalls, SessionCalls, InFlight
  <2>2. LiveStays
    BY <1>4 DEF LiveStays
  <2> QED
    BY <1>3, <1>4, <2>1, <2>2, KnownKept
<1> QED
  BY <1>6, <1>7

LEMMA ServeRefreshKnown ==
    ASSUME Types, SessionIsKnown, NEW t \in Tabs, NEW r \in refreshing[t],
           ServeRefresh(t, r)
    PROVE  SessionIsKnown'
<1> SUFFICES ASSUME ~disturbed PROVE SessionIsKnown'
  BY DEF ServeRefresh, SessionIsKnown
<1>0. r.phase = "sent" /\ r \in Refreshes
  BY DEF ServeRefresh, Types, WebTypeOK
<1>1. /\ SessionCalls = {} /\ refreshing[t] = {r}
      /\ \A s \in Tabs : s # t => refreshing[s] = {}
      /\ r.token = cookie /\ cookie \in live \cup {None}
  BY <1>0, SoleRefresh
<1>2. UNCHANGED <<cookie, call>>
  BY DEF ServeRefresh
<1>3. SessionCalls' = {}
  BY <1>1, <1>2 DEF SessionCalls, InFlight
<1>4. PICK k : /\ refreshing' = [refreshing EXCEPT ![t] =
                     (@ \ {r}) \cup {[r EXCEPT !.phase = "answered", !.token = k]}]
               /\ (k \in live' /\ cookie # None) \/ (k = None /\ cookie = None)
  <2>1. CASE r.token = None
    <3>1. ~(r.token \in live) /\ ~(r.token \in Cookies \ live)
      BY <2>1 DEF Types, WebTypeOK
    <3> QED
      BY <1>1, <2>1, <3>1 DEF ServeRefresh
  <2>2. CASE r.token \in live
    <3>1. r.token \in Cookies /\ r.token # None
      BY <2>2 DEF Types, WebTypeOK
    <3>2. PICK u \in People : u = Owner(r.token)
      BY <3>1, OwnerType
    <3>3. /\ Issue(u, live \ {r.token})
          /\ refreshing' = [refreshing EXCEPT ![t] =
               (@ \ {r}) \cup {[r EXCEPT !.phase = "answered", !.token = Issued(u)]}]
      BY <2>2, <3>1, <3>2 DEF ServeRefresh
    <3>4. Issued(u) \in live'
      BY <3>3, IssueAdds
    <3> QED
      BY <1>1, <3>1, <3>3, <3>4
  <2> QED
    BY <1>1, <2>1, <2>2
<1>5. PICK j : j = [r EXCEPT !.phase = "answered", !.token = k]
  OBVIOUS
<1>6. j.phase = "answered" /\ j.token = k
  BY <1>0, <1>5 DEF Refreshes
<1>7. refreshing'[t] = {j} /\ \A s \in Tabs : s # t => refreshing'[s] = {}
  BY <1>1, <1>4, <1>5 DEF Types, WebTypeOK
<1> HIDE DEF SessionCalls
<1>8. OneSessionCall' /\ CallsAreGood'
  BY <1>3, <1>7 DEF OneSessionCall, CallsAreGood
<1>9. RefreshesAreGood' /\ CookieIsGood'
  BY <1>2, <1>4, <1>6, <1>7 DEF RefreshesAreGood, CookieIsGood
<1> QED
  BY <1>8, <1>9 DEF SessionIsKnown

LEMMA SettleRefreshKnown ==
    ASSUME Types, SessionIsKnown, NEW t \in Tabs, SettleRefresh(t)
    PROVE  SessionIsKnown'
<1> SUFFICES ASSUME ~disturbed' PROVE SessionIsKnown'
  BY DEF SessionIsKnown
<1> PICK r \in refreshing[t] : Refreshed(t, r) \/ RefreshRefused(t, r)
  BY DEF SettleRefresh, RefreshLost
<1>1. /\ r.phase = "answered" /\ disturbed' = disturbed /\ ForgetUnheld
      /\ refreshing' = [refreshing EXCEPT ![t] = @ \ {r}]
  BY DEF Refreshed, RefreshRefused, Refusal, RefreshFailed, Done
<1>2. /\ SessionCalls = {} /\ refreshing[t] = {r}
      /\ \A s \in Tabs : s # t => refreshing[s] = {}
      /\ r.token \in live \/ (r.token = None /\ cookie = None)
  BY <1>1, SoleRefresh
<1>3. \A s \in Tabs : refreshing'[s] = {}
  BY <1>1, <1>2 DEF Types, WebTypeOK
<1>4. \A c \in Calls : call'[c] # None => call[c] # None /\ call'[c].kind = call[c].kind
  <2> SUFFICES ASSUME NEW c \in Calls, call'[c] # None
               PROVE  call[c] # None /\ call'[c].kind = call[c].kind
    OBVIOUS
  <2>1. CASE Waits(c, t) /\ Refreshed(t, r)
    <3>1. PICK u : u = IF call[c].kind = "query" THEN Owner(r.token) ELSE None
      OBVIOUS
    <3>2. call'[c] = [call[c] EXCEPT !.phase = "sent", !.retried = TRUE, !.user = u]
      BY <2>1, <3>1, Zenon DEF Refreshed
    <3>3. call[c] \in Exchanges
      BY <2>1 DEF Waits, Types, WebTypeOK
    <3> QED
      BY <2>1, <3>2, <3>3 DEF Waits, Exchanges
  <2>2. CASE Waits(c, t) /\ RefreshRefused(t, r)
    BY <2>2 DEF RefreshRefused, RefreshFailed
  <2>3. CASE ~Waits(c, t)
    <3>1. call'[c] = call[c]
      BY <2>3, Zenon DEF Refreshed, RefreshRefused, RefreshFailed
    <3> QED
      BY <3>1
  <2> QED
    BY <2>1, <2>2, <2>3
<1>5. SessionCalls' = {}
  BY <1>2, <1>4 DEF SessionCalls, InFlight
<1>6. cookie' \in live' \cup {None}
  <2>1. CASE Refreshed(t, r)
    <3>1. cookie' = r.token /\ r.token # None
      BY <2>1 DEF Refreshed
    <3> QED
      BY <1>1, <1>2, <3>1, HeldStays
  <2>2. CASE RefreshRefused(t, r)
    <3>1. cookie' = cookie /\ r.token = None
      BY <2>2 DEF RefreshRefused, Refusal, RefreshFailed
    <3>2. r.token \notin live
      BY <3>1 DEF Types, WebTypeOK
    <3> QED
      BY <1>1, <1>2, <3>1, <3>2
  <2> QED
    BY <2>1, <2>2
<1> QED
  BY <1>3, <1>5, <1>6, QuietKnown

LEMMA ServeKnown ==
    ASSUME Types, SessionIsKnown, NEW c \in Calls, Serve(c)
    PROVE  SessionIsKnown'
<1> SUFFICES ASSUME ~disturbed PROVE SessionIsKnown'
  BY DEF Serve, SessionIsKnown
<1>1. c \in InFlight /\ call[c] \in Exchanges /\ call[c].phase = "sent"
  BY DEF Serve, InFlight, Types, WebTypeOK
<1>2. UNCHANGED <<cookie, refreshing>>
  BY DEF Serve
<1>3. PICK ok \in BOOLEAN, k \in Cookies \cup {None} :
                   /\ Reply(c, ok, k)
                   /\ call[c].kind = "login" => live \subseteq live' /\ k \in live'
                   /\ call[c].kind \in {"query", "wrongLogin"} => live' = live
  <2>1. CASE call[c].kind = "login"
    <3>1. PICK u \in People : u = call[c].user
      BY <1>1, <2>1 DEF Types, CallsAreWhole
    <3>2. Issue(u, live) /\ Reply(c, TRUE, Issued(u))
      BY <2>1, <3>1 DEF Serve
    <3>3. live' = live \cup {Issued(u)} /\ Issued(u) \in Cookies
      BY <3>2, IssueAdds, IssuedRow DEF Issue
    <3> QED
      BY <2>1, <3>2, <3>3
  <2>2. CASE call[c].kind # "login"
    BY <2>2 DEF Serve
  <2> QED
    BY <2>1, <2>2
<1>4. PICK j : j = [call[c] EXCEPT !.phase = "answered", !.user = None, !.ok = ok, !.token = k]
  OBVIOUS
<1>5. j.kind = call[c].kind /\ j.phase = "answered" /\ j.token = k /\ j # None
  <2>1. j.kind = call[c].kind /\ j.phase = "answered" /\ j.token = k
    BY <1>1, <1>4 DEF Exchanges
  <2>2. j \in Exchanges
    BY <1>1, <1>3, <1>4 DEF Exchanges
  <2> QED
    BY <2>1, <2>2
<1>6. call' = [call EXCEPT ![c] = j]
  BY <1>3, <1>4 DEF Reply
<1>7. \A d \in Calls : call'[d] = IF d = c THEN j ELSE call[d]
  BY <1>6 DEF Types, WebTypeOK
<1>8. SessionCalls' = SessionCalls
  BY <1>1, <1>5, <1>7 DEF SessionCalls, InFlight
<1>9. CASE call[c].kind \in {"query", "wrongLogin"}
  <2>1. SameCalls /\ LiveStays
    BY <1>3, <1>7, <1>8, <1>9 DEF SameCalls, LiveStays, SessionCalls
  <2> QED
    BY <1>2, <2>1, KnownKept
<1>10. CASE call[c].kind \in {"login", "logout"}
  <2>1. c \in SessionCalls
    BY <1>1, <1>10 DEF SessionCalls
  <2>2. SessionCalls = {c} /\ \A t \in Tabs : refreshing[t] = {}
    BY <2>1, SoleCall
  <2>3. call[c].kind = "login" => cookie \in live \cup {None}
    BY <2>1, SoleCall
  <2> HIDE DEF SessionCalls
  <2>4. OneSessionCall' /\ RefreshesAreGood'
    BY <1>2, <1>8, <2>2 DEF OneSessionCall, RefreshesAreGood
  <2>5. CallsAreGood'
    BY <1>3, <1>5, <1>7, <1>8, <2>2 DEF CallsAreGood
  <2>6. CookieIsGood'
    BY <1>2, <1>3, <1>5, <1>7, <1>8, <1>10, <2>2, <2>3 DEF CookieIsGood
  <2> QED
    BY <2>4, <2>5, <2>6 DEF SessionIsKnown
<1> QED
  BY <1>1, <1>9, <1>10 DEF Exchanges

LEMMA SettleKnown ==
    ASSUME Types, SessionIsKnown, NEW c \in Calls, Settle(c)
    PROVE  SessionIsKnown'
<1> SUFFICES ASSUME ~disturbed' PROVE SessionIsKnown'
  BY DEF SessionIsKnown
<1>0. c \in InFlight /\ call[c].tab \in Tabs
  BY
    DEF Settle, LoggedIn, LoggedOut, QueryAnswered, CallLost, InFlight, Types, WebTypeOK, Exchanges
<1>1. CASE LoggedIn(c) \/ LoggedOut(c)
  <2>1. /\ ForgetUnheld /\ call' = [call EXCEPT ![c] = None]
        /\ UNCHANGED <<refreshing, disturbed>> /\ c \in SessionCalls
    BY <1>0, <1>1 DEF LoggedIn, LoggedOut, Free, SessionCalls
  <2>2. SessionCalls = {c} /\ \A t \in Tabs : refreshing[t] = {}
    BY <2>1, SoleCall
  <2>3. SessionCalls' = {}
    BY <2>1, <2>2 DEF SessionCalls, InFlight, Types, WebTypeOK
  <2>4. cookie' \in live' \cup {None}
    <3>1. CASE LoggedIn(c)
      <4>1. call[c].token \in live
        BY <2>1, <3>1, SoleCall DEF LoggedIn
      <4>2. cookie' = call[c].token
        BY <3>1 DEF LoggedIn
      <4> QED
        BY <2>1, <4>1, <4>2, HeldStays
    <3>2. CASE LoggedOut(c)
      BY <3>2 DEF LoggedOut
    <3> QED
      BY <1>1, <3>1, <3>2
  <2> QED
    BY <2>1, <2>2, <2>3, <2>4, QuietKnown
<1>2. CASE QueryAnswered(c)
  <2>1. /\ call[c].kind \in {"query", "wrongLogin"} /\ call[c] \in Exchanges
        /\ UNCHANGED <<live, cookie>>
    BY <1>0, <1>2 DEF QueryAnswered, InFlight, Types, WebTypeOK
  <2>2. CASE Free(c) /\ UNCHANGED <<refreshing, disturbed>>
    <3>1. SameCalls /\ LiveStays
      BY <2>1, <2>2
        DEF Free, SameCalls, LiveStays, SessionCalls, InFlight, Types, WebTypeOK
    <3> QED
      BY <2>1, <2>2, <3>1, KnownKept
  <2>3. CASE call' = [call EXCEPT ![c].phase = "waiting"] /\ RefreshSession(call[c].tab)
    <3>1. PICK j : j = [call[c] EXCEPT !.phase = "waiting"]
      OBVIOUS
    <3>2. j.kind = call[c].kind
      BY <2>1, <3>1 DEF Exchanges
    <3>3. call' = [call EXCEPT ![c] = j]
      BY <2>3, <3>1
    <3>4. SameCalls
      BY <2>1, <3>2, <3>3 DEF SameCalls, SessionCalls, InFlight, Types, WebTypeOK
    <3> QED
      BY <1>0, <2>1, <2>3, <3>4, RefreshKnown
  <2> QED
    BY <1>2, <2>2, <2>3 DEF QueryAnswered
<1>3. CASE CallLost(c)
  <2>1. c \notin SessionCalls /\ ~disturbed
    BY <1>3 DEF CallLost
  <2>2. /\ UNCHANGED <<cookie, refreshing>> /\ ForgetUnheld
        /\ call' = [call EXCEPT ![c] = None]
    BY <1>3 DEF CallLost, Free
  <2>3. SameCalls
    BY <2>1, <2>2 DEF SameCalls, SessionCalls, InFlight, Types, WebTypeOK
  <2> QED
    BY <2>1, <2>2, <2>3, ForgetKnown
<1> QED
  BY <1>1, <1>2, <1>3 DEF Settle

LEMMA KnownInit == WebInit => SessionIsKnown
<1> SUFFICES ASSUME WebInit PROVE SessionIsKnown
  OBVIOUS
<1>1. SessionCalls = {} /\ (\A t \in Tabs : refreshing[t] = {}) /\ cookie = None
  BY DEF WebInit, SessionCalls, InFlight
<1> QED
  BY <1>1 DEF SessionIsKnown, OneSessionCall, RefreshesAreGood, CallsAreGood, CookieIsGood

LEMMA KnownStep ==
    Types /\ SessionIsKnown /\ [WebNext]_webVars => SessionIsKnown'
<1> SUFFICES ASSUME Types, SessionIsKnown, [WebNext]_webVars
             PROVE  SessionIsKnown'
  OBVIOUS
<1>1. CASE (\E t \in Tabs : AccessExpires(t)) \/ UNCHANGED webVars
  <2>1. UNCHANGED <<live, cookie, refreshing, call, disturbed>>
    BY <1>1 DEF AccessExpires, webVars
  <2>2. SameCalls /\ LiveStays
    BY <2>1 DEF SameCalls, LiveStays, SessionCalls, InFlight
  <2> QED
    BY <2>1, <2>2, KnownKept DEF SessionIsKnown
<1>2. ASSUME NEW t \in Tabs, NEW c \in Calls,
             \/ UseLogout(c, t) \/ Query(c, t) \/ WrongLogin(c, t)
             \/ \E u \in People : UseLogin(c, t, u)
      PROVE  SessionIsKnown'
  BY <1>2, SendKnown DEF UseLogout, Query, WrongLogin, UseLogin
<1>3. ASSUME NEW u \in People, EndSessions(u) PROVE SessionIsKnown'
  BY <1>3 DEF EndSessions, SessionIsKnown
<1> QED
  BY <1>1, <1>2, <1>3, OpenKnown, CloseKnown, ServeRefreshKnown, SettleRefreshKnown,
     ServeKnown, SettleKnown DEF WebNext

-----------------------------------------------------------------------------
(***************************************************************************)
(* What holds after lost calls, too, as long as no two calls about the     *)
(* session cross.                                                          *)
(***************************************************************************)
\* A refresh carries the cookie, and is refused only when that is dead.
RefreshesFollow ==
    \A t \in Tabs : \A r \in refreshing[t] :
        /\ r.phase = "sent" => r.token = cookie
        /\ Refusal(r) => cookie \notin live

\* After a logout there is no cookie, and none is under way.
NoWayBack ==
    out => cookie = None /\ \A t \in Tabs : \A r \in refreshing[t] : r.token = None

Uncrossed == ~crossed => OneSessionCall /\ RefreshesFollow

LEMMA WatchedCalls ==
    ASSUME Watched, Uncrossed, ~crossed'
    PROVE  ~SessionCallInFlight' \/ (~crossed /\ OneSessionCall /\ RefreshesFollow /\ OneSessionCall')
  BY DEF Watched, Uncrossed

\* Nothing is in flight: there is nothing to say.
LEMMA NothingInFlight ==
    ASSUME ~SessionCallInFlight'
    PROVE  Uncrossed'
<1>1. SessionCalls' = {} /\ \A t \in Tabs : refreshing'[t] = {}
  BY DEF SessionCallInFlight
<1> HIDE DEF SessionCalls
<1> QED
  BY <1>1 DEF Uncrossed, OneSessionCall, RefreshesFollow

\* No row of the cookie becomes live, and refreshes begin with the cookie.
LEMMA FollowKept ==
    ASSUME cookie' = cookie, cookie \in live' => cookie \in live, RefreshesFollow,
           \A t \in Tabs : \A r \in refreshing'[t] :
               r \in refreshing[t] \/ (r.phase = "sent" /\ r.token = cookie)
    PROVE  RefreshesFollow'
  BY DEF RefreshesFollow, Refusal

LEMMA WatchedKept ==
    ASSUME Watched, Uncrossed, cookie' = cookie, cookie \in live' => cookie \in live,
           \A t \in Tabs : \A r \in refreshing'[t] :
               r \in refreshing[t] \/ (r.phase = "sent" /\ r.token = cookie)
    PROVE  Uncrossed'
  BY WatchedCalls, NothingInFlight, FollowKept DEF Uncrossed

LEMMA WayKept ==
    ASSUME NoWayBack, out' => out, cookie' = cookie,
           \A t \in Tabs : \A r \in refreshing'[t] :
               r \in refreshing[t] \/ (r.phase = "sent" /\ r.token = cookie)
    PROVE  NoWayBack'
  BY DEF NoWayBack

\* The set of calls about the session stays the same.
LEMMA SameSet ==
    ASSUME OneSessionCall, SessionCalls' = SessionCalls, refreshing' = refreshing
    PROVE  OneSessionCall'
<1> HIDE DEF SessionCalls
<1> QED
  BY DEF OneSessionCall

\* A refresh that is sent carries the cookie.
LEMMA RefreshSent ==
    ASSUME Types, NEW t \in Tabs, RefreshSession(t)
    PROVE  \A s \in Tabs : \A r \in refreshing'[s] :
               r \in refreshing[s] \/ (r.phase = "sent" /\ r.token = cookie)
<1>1. CASE refreshing[t] = {}
  <2>1. PICK r : r = RefreshRequest(1)
    OBVIOUS
  <2>2. r.phase = "sent" /\ r.token = cookie
    BY <2>1 DEF RefreshRequest
  <2>3. refreshing' = [refreshing EXCEPT ![t] = {r}]
    BY <1>1, <2>1 DEF RefreshSession
  <2> QED
    BY <2>2, <2>3 DEF Types, WebTypeOK
<1>2. CASE refreshing[t] # {}
  BY <1>2 DEF RefreshSession
<1> QED
  BY <1>1, <1>2

LEMMA UncrossedServeRefresh ==
    ASSUME Types, Uncrossed, NoWayBack, NEW t \in Tabs, NEW r \in refreshing[t], ServeRefresh(t, r)
    PROVE  Uncrossed' /\ NoWayBack'
<1>0. /\ r.phase = "sent" /\ r \in Refreshes
      /\ UNCHANGED <<cookie, call, crossed, out>>
  BY DEF ServeRefresh, Types, WebTypeOK
<1>1. PICK k : /\ refreshing' = [refreshing EXCEPT ![t] =
                     (@ \ {r}) \cup {[r EXCEPT !.phase = "answered", !.token = k]}]
               /\ k = None => r.token \notin live /\ live' \subseteq live
               /\ k # None => r.token \in live
  <2>1. CASE r.token = None
    <3>1. r.token \notin live /\ r.token \notin Cookies
      BY <2>1 DEF Types, WebTypeOK
    <3> QED
      BY <2>1, <3>1 DEF ServeRefresh
  <2>2. CASE r.token \in Cookies \ live
    BY <2>2 DEF ServeRefresh
  <2>3. CASE r.token \in live
    <3>1. r.token \in Cookies /\ r.token # None
      BY <2>3 DEF Types, WebTypeOK
    <3>2. PICK u \in People : u = Owner(r.token)
      BY <3>1, OwnerType
    <3>3. /\ Issue(u, live \ {r.token})
          /\ refreshing' = [refreshing EXCEPT ![t] =
               (@ \ {r}) \cup {[r EXCEPT !.phase = "answered", !.token = Issued(u)]}]
      BY <2>3, <3>1, <3>2 DEF ServeRefresh
    <3>4. Issued(u) \in Cookies
      BY <3>3, IssuedRow DEF Issue
    <3>5. Issued(u) # None
      BY <3>4
    <3> QED
      BY <2>3, <3>3, <3>5
  <2> QED
    BY <1>0, <2>1, <2>2, <2>3 DEF Refreshes
<1>2. PICK j : j = [r EXCEPT !.phase = "answered", !.token = k]
  OBVIOUS
<1>3. j.phase = "answered" /\ j.token = k
  BY <1>0, <1>2 DEF Refreshes
<1>4. /\ refreshing'[t] = (refreshing[t] \ {r}) \cup {j}
      /\ \A s \in Tabs : s # t => refreshing'[s] = refreshing[s]
  BY <1>1, <1>2 DEF Types, WebTypeOK
<1>5. SessionCalls' = SessionCalls
  BY <1>0 DEF SessionCalls, InFlight
<1> HIDE DEF SessionCalls
<1>6. Uncrossed'
  <2> SUFFICES ASSUME ~crossed' PROVE OneSessionCall' /\ RefreshesFollow'
    BY DEF Uncrossed
  <2>1. OneSessionCall /\ RefreshesFollow
    BY <1>0 DEF Uncrossed
  <2>2. refreshing[t] = {r} /\ \A s \in Tabs : s # t => refreshing[s] = {}
    BY <2>1 DEF OneSessionCall
  <2>3. refreshing'[t] = {j} /\ \A s \in Tabs : s # t => refreshing'[s] = {}
    BY <1>4, <2>2
  <2>4. r.token = cookie
    BY <1>0, <2>1 DEF RefreshesFollow
  <2>5. OneSessionCall'
    BY <1>5, <2>1, <2>2, <2>3 DEF OneSessionCall
  <2>6. RefreshesFollow'
    BY <1>0, <1>1, <1>3, <2>3, <2>4 DEF RefreshesFollow, Refusal
  <2> QED
    BY <2>5, <2>6
<1>7. NoWayBack'
  <2> SUFFICES ASSUME out PROVE cookie = None /\ \A s \in Tabs : \A q \in refreshing'[s] : q.token = None
    BY <1>0 DEF NoWayBack
  <2>1. r.token = None /\ None \notin live
    BY DEF NoWayBack, Types, WebTypeOK
  <2>2. k = None
    BY <1>1, <2>1
  <2> QED
    BY <1>3, <1>4, <2>2 DEF NoWayBack
<1> QED
  BY <1>6, <1>7

LEMMA UncrossedSettleRefresh ==
    ASSUME Types, Uncrossed, NoWayBack, NEW t \in Tabs, SettleRefresh(t)
    PROVE  Uncrossed' /\ NoWayBack'
<1> PICK r \in refreshing[t] : Refreshed(t, r) \/ RefreshRefused(t, r) \/ RefreshLost(t, r)
  BY DEF SettleRefresh
<1>1. /\ Watched /\ out' = out /\ ForgetUnheld
      /\ refreshing' = [refreshing EXCEPT ![t] = @ \ {r}]
  BY DEF Refreshed, RefreshRefused, RefreshLost, RefreshFailed, Done
<1>2. live' \subseteq live /\ \A s \in Tabs : refreshing'[s] \subseteq refreshing[s]
  BY <1>1 DEF ForgetUnheld, Types, WebTypeOK
<1>3. CASE Refreshed(t, r)
  <2>1. r.token # None
    BY <1>3 DEF Refreshed
  <2>2. NoWayBack'
    BY <1>1, <2>1 DEF NoWayBack
  <2>3. CASE ~crossed /\ OneSessionCall /\ OneSessionCall'
    <3>1. \A s \in Tabs : refreshing'[s] = {}
      BY <1>1, <2>3 DEF OneSessionCall, Types, WebTypeOK
    <3> QED
      BY <2>2, <2>3, <3>1 DEF Uncrossed, RefreshesFollow
  <2>4. CASE ~SessionCallInFlight' \/ crossed'
    BY <2>2, <2>4, NothingInFlight DEF Uncrossed
  <2> QED
    BY <1>1, <2>3, <2>4, WatchedCalls
<1>4. CASE RefreshRefused(t, r) \/ RefreshLost(t, r)
  <2>1. cookie' = cookie
    BY <1>4 DEF RefreshRefused, RefreshLost, RefreshFailed
  <2> QED
    BY <1>1, <1>2, <2>1, WatchedKept, WayKept
<1> QED
  BY <1>3, <1>4

LEMMA UncrossedServe ==
    ASSUME Types, Uncrossed, NoWayBack, NEW c \in Calls, Serve(c)
    PROVE  Uncrossed' /\ NoWayBack'
<1>1. c \in InFlight /\ call[c] \in Exchanges
  BY DEF Serve, InFlight, Types, WebTypeOK
<1>2. UNCHANGED <<cookie, refreshing, crossed, out>>
  BY DEF Serve
<1>3. PICK ok \in BOOLEAN, k \in Cookies \cup {None} :
           Reply(c, ok, k) /\ (call[c].kind # "login" => live' \subseteq live)
  <2>1. CASE call[c].kind = "login"
    <3>1. PICK u \in People : u = call[c].user
      BY <1>1, <2>1 DEF Serve, Types, CallsAreWhole
    <3>2. Issue(u, live) /\ Reply(c, TRUE, Issued(u))
      BY <2>1, <3>1 DEF Serve
    <3>3. Issued(u) \in Cookies
      BY <3>2, IssuedRow DEF Issue
    <3> QED
      BY <2>1, <3>2, <3>3
  <2>2. CASE call[c].kind # "login"
    BY <2>2 DEF Serve
  <2> QED
    BY <2>1, <2>2
<1>4. PICK j : j = [call[c] EXCEPT !.phase = "answered", !.user = None, !.ok = ok, !.token = k]
  OBVIOUS
<1>5. j \in Exchanges /\ j.kind = call[c].kind
  BY <1>1, <1>4 DEF Exchanges
<1>6. j # None
  BY <1>5
<1>7. call' = [call EXCEPT ![c] = j]
  BY <1>3, <1>4 DEF Reply
<1>8. SessionCalls' = SessionCalls
  BY <1>1, <1>5, <1>6, <1>7 DEF SessionCalls, InFlight, Types, WebTypeOK
<1>9. ~crossed => RefreshesFollow'
  <2>1. CASE call[c].kind = "login"
    <3>1. c \in SessionCalls
      BY <1>1, <2>1 DEF SessionCalls
    <3> HIDE DEF SessionCalls
    <3> QED
      BY <1>2, <3>1 DEF Uncrossed, OneSessionCall, RefreshesFollow
  <2>2. CASE call[c].kind # "login"
    BY <1>2, <1>3, <2>2, FollowKept DEF Uncrossed
  <2> QED
    BY <2>1, <2>2
<1> QED
  BY <1>2, <1>8, <1>9, SameSet DEF Uncrossed, NoWayBack

LEMMA UncrossedSettle ==
    ASSUME Types, Uncrossed, NoWayBack, NEW c \in Calls, Settle(c)
    PROVE  Uncrossed' /\ NoWayBack'
<1>0. c \in InFlight /\ call[c].tab \in Tabs
  BY
    DEF Settle, LoggedIn, LoggedOut, QueryAnswered, CallLost, InFlight, Types, WebTypeOK, Exchanges
<1>1. CASE LoggedIn(c) \/ LoggedOut(c)
  <2>1. Watched /\ refreshing' = refreshing /\ c \in SessionCalls
    BY <1>0, <1>1 DEF LoggedIn, LoggedOut, SessionCalls
  <2> HIDE DEF SessionCalls
  <2>2. ~crossed => \A t \in Tabs : refreshing[t] = {}
    BY <2>1 DEF Uncrossed, OneSessionCall
  <2>3. Uncrossed'
    <3>1. CASE ~SessionCallInFlight' \/ crossed'
      BY <3>1, NothingInFlight DEF Uncrossed
    <3>2. CASE ~crossed /\ OneSessionCall'
      BY <2>1, <2>2, <3>2 DEF Uncrossed, RefreshesFollow
    <3> QED
      BY <2>1, <3>1, <3>2, WatchedCalls
  <2>4. NoWayBack'
    <3>1. CASE LoggedIn(c)
      BY <3>1 DEF LoggedIn, NoWayBack
    <3>2. CASE LoggedOut(c)
      BY <2>1, <2>2, <3>2 DEF LoggedOut, NoWayBack
    <3> QED
      BY <1>1, <3>1, <3>2
  <2> QED
    BY <2>3, <2>4
<1>2. CASE QueryAnswered(c)
  <2>1. Watched /\ UNCHANGED <<live, cookie, out>>
    BY <1>2 DEF QueryAnswered
  <2>2. refreshing' = refreshing \/ RefreshSession(call[c].tab)
    BY <1>2 DEF QueryAnswered
  <2>3. \A t \in Tabs : \A r \in refreshing'[t] :
               r \in refreshing[t] \/ (r.phase = "sent" /\ r.token = cookie)
    BY <1>0, <2>2, RefreshSent
  <2> QED
    BY <2>1, <2>3, WatchedKept, WayKept
<1>3. CASE CallLost(c)
  <2>1. Watched /\ UNCHANGED <<cookie, refreshing, out>> /\ live' \subseteq live
    BY <1>3 DEF CallLost, ForgetUnheld
  <2> QED
    BY <2>1, WatchedKept, WayKept
<1> QED
  BY <1>1, <1>2, <1>3 DEF Settle

LEMMA UncrossedInit == WebInit => Uncrossed /\ NoWayBack
<1> SUFFICES ASSUME WebInit PROVE Uncrossed /\ NoWayBack
  OBVIOUS
<1>1. SessionCalls = {} /\ (\A t \in Tabs : refreshing[t] = {}) /\ ~out
  BY DEF WebInit, SessionCalls, InFlight
<1> HIDE DEF SessionCalls
<1> QED
  BY <1>1 DEF Uncrossed, NoWayBack, OneSessionCall, RefreshesFollow

LEMMA UncrossedStep ==
    Types /\ Uncrossed /\ NoWayBack /\ [WebNext]_webVars => Uncrossed' /\ NoWayBack'
<1> SUFFICES ASSUME Types, Uncrossed, NoWayBack, [WebNext]_webVars
             PROVE  Uncrossed' /\ NoWayBack'
  OBVIOUS
<1>1. CASE \/ \E t \in Tabs : AccessExpires(t)
           \/ \E u \in People : EndSessions(u)
           \/ UNCHANGED webVars
  <2>1. UNCHANGED <<cookie, refreshing, call, crossed, out>> /\ live' \subseteq live
    BY <1>1 DEF AccessExpires, EndSessions, webVars
  <2>2. SessionCalls' = SessionCalls
    BY <2>1 DEF SessionCalls, InFlight
  <2>3. ~crossed => RefreshesFollow'
    BY <2>1, FollowKept DEF Uncrossed
  <2> QED
    BY <2>1, <2>2, <2>3, SameSet DEF Uncrossed, NoWayBack
<1>2. ASSUME NEW t \in Tabs, Open(t) PROVE Uncrossed' /\ NoWayBack'
  <2>1. Watched /\ UNCHANGED <<live, cookie, out>> /\ RefreshSession(t)
    BY <1>2 DEF Open
  <2> QED
    BY <2>1, RefreshSent, WatchedKept, WayKept
<1>3. ASSUME NEW t \in Tabs, Close(t) PROVE Uncrossed' /\ NoWayBack'
  <2>1. Watched /\ UNCHANGED <<cookie, out>> /\ live' \subseteq live
    BY <1>3 DEF Close, ForgetUnheld
  <2>2. \A s \in Tabs : refreshing'[s] \subseteq refreshing[s]
    BY <1>3 DEF Close, Types, WebTypeOK
  <2> QED
    BY <2>1, <2>2, WatchedKept, WayKept
<1>4. ASSUME NEW t \in Tabs, NEW c \in Calls,
             \/ UseLogout(c, t) \/ Query(c, t) \/ WrongLogin(c, t)
             \/ \E u \in People : UseLogin(c, t, u)
      PROVE  Uncrossed' /\ NoWayBack'
  <2>1. Watched /\ UNCHANGED <<live, cookie, refreshing, out>>
    BY <1>4 DEF UseLogout, Query, WrongLogin, UseLogin, Send
  <2> QED
    BY <2>1, WatchedKept, WayKept
<1> QED
  BY <1>1, <1>2, <1>3, <1>4, UncrossedServeRefresh, UncrossedSettleRefresh, UncrossedServe,
     UncrossedSettle DEF WebNext

\* Together they are inductive.
Browser == Types /\ SessionIsKnown /\ Uncrossed /\ NoWayBack

LEMMA BrowserInvariance == WebSpec => []Browser
<1>1. WebInit => Browser
  BY WholeInit, KnownInit, UncrossedInit DEF Browser
<1>2. Browser /\ [WebNext]_webVars => Browser'
  BY WholeStep, KnownStep, UncrossedStep DEF Browser
<1> QED
  BY <1>1, <1>2, PTL DEF WebSpec

\* The variables of WebSession keep their types.
THEOREM BrowserTypeCorrect == WebSpec => []WebTypeOK
<1>1. Browser => WebTypeOK
  BY DEF Browser, Types
<1> QED
  BY <1>1, BrowserInvariance, PTL

\* A refresh that presents a dead token has a cause: two calls about the session in
\* flight at once, one of them lost, or sessions ended elsewhere (api.ts 20).
THEOREM Reuses == WebSpec => []ReusesHaveACause
<1>1. Browser => ReusesHaveACause
  <2> SUFFICES ASSUME SessionIsKnown, NEW t \in Tabs, NEW r \in refreshing[t],
                      r.phase = "sent", r.token \in Cookies \ live, ~disturbed
               PROVE  FALSE
    BY DEF ReusesHaveACause, Browser
  <2> QED
    BY SoleRefresh
<1> QED
  BY <1>1, BrowserInvariance, PTL

\* A logout that is answered, and that no other call about the session crosses,
\* leaves no cookie before the next login, and no answer under way sets one
\* (use-logout, auth.controller).
THEOREM Logouts == WebSpec => []LogoutIsFinal
<1>1. Browser => LogoutIsFinal
  BY DEF Browser, NoWayBack, LogoutIsFinal
<1> QED
  BY <1>1, BrowserInvariance, PTL

\* A tab gives up its access token for its own logout, for a session that has
\* ended, or because its refresh got no answer; a refusal costs a live session only
\* when calls about the session have crossed (the interceptor, api.ts 27-52).
THEOREM Kept == WebSpec => LiveSessionsAreKept
<1> DEFINE Caused(t) == \/ cookie \notin live
                        \/ crossed
                        \/ \E r \in refreshing[t] \ refreshing'[t] : ~Refusal(r)
                        \/ \E c \in InFlight : call[c].kind = "logout" /\ call[c].tab = t /\ call'[c] = None
           Allowed == \A t \in opened \cap opened' : access[t] # None /\ access'[t] = None => Caused(t)
<1>1. Browser /\ [WebNext]_webVars => [Allowed]_webVars
  <2> SUFFICES ASSUME Types, Uncrossed, WebNext,
                      NEW s \in opened \cap opened', access[s] # None, access'[s] = None
               PROVE  Caused(s)
    BY Zenon DEF webVars, Browser
  <2>0. s \in Tabs /\ access \in [Tabs -> People \cup {None}]
    BY DEF Types, WebTypeOK
  <2>1. ASSUME NEW t \in Tabs, Close(t) PROVE FALSE
    BY <2>0, <2>1 DEF Close
  <2>2. ASSUME NEW t \in Tabs, SettleRefresh(t) PROVE Caused(s)
    <3> PICK r \in refreshing[t] :
          Refreshed(t, r) \/ RefreshRefused(t, r) \/ RefreshLost(t, r)
      BY <2>2 DEF SettleRefresh
    <3>1. CASE Refreshed(t, r)
      <4>1. r.token \in Cookies /\ access' = [access EXCEPT ![t] = Owner(r.token)]
        <5>1. r \in Refreshes
          BY DEF Types, WebTypeOK
        <5> QED
          BY <3>1, <5>1 DEF Refreshed, SetAccess, Refreshes
      <4>2. PICK u \in People : u = Owner(r.token)
        BY <4>1, OwnerType
      <4> QED
        BY <2>0, <4>1, <4>2
    <3>2. CASE RefreshRefused(t, r) \/ RefreshLost(t, r)
      <4>1. access' = [access EXCEPT ![t] = None] /\ refreshing' = [refreshing EXCEPT ![t] = @ \ {r}]
        BY <3>2 DEF RefreshRefused, RefreshLost, RefreshFailed, SetAccess, Done
      <4>2. s = t
        BY <2>0, <4>1
      <4>3. r \in refreshing[s] \ refreshing'[s]
        BY <4>1, <4>2 DEF Types, WebTypeOK
      <4>4. Refusal(r) => cookie \notin live \/ crossed
        BY DEF Uncrossed, RefreshesFollow
      <4> QED
        BY <4>3, <4>4
    <3> QED
      BY <3>1, <3>2
  <2>3. ASSUME NEW c \in Calls, Settle(c) PROVE Caused(s)
    <3>1. CASE LoggedIn(c)
      <4>1. /\ call[c].token \in Cookies
            /\ access' = [access EXCEPT ![call[c].tab] = Owner(call[c].token)]
        BY <3>1 DEF LoggedIn, SetAccess, Types, CallsAreWhole
      <4>2. PICK u \in People : u = Owner(call[c].token)
        BY <4>1, OwnerType
      <4> QED
        BY <2>0, <4>1, <4>2
    <3>2. CASE LoggedOut(c) \/ CallLost(c)
      <4>1. c \in InFlight /\ call'[c] = None
        BY <3>2 DEF LoggedOut, CallLost, Free, InFlight, Types, WebTypeOK
      <4>2. call[c].kind = "logout" /\ access' = [access EXCEPT ![call[c].tab] = None]
        BY <2>0, <3>2 DEF LoggedOut, CallLost, SetAccess
      <4>3. call[c].tab = s
        BY <2>0, <4>2
      <4> QED
        BY <4>1, <4>2, <4>3
    <3>3. CASE QueryAnswered(c)
      BY <3>3 DEF QueryAnswered, tab
    <3> QED
      BY <2>3, <3>1, <3>2, <3>3 DEF Settle
  <2>4. ASSUME access' = access PROVE FALSE
    BY <2>4
  <2>5. ASSUME NEW t \in Tabs, Open(t) \/ AccessExpires(t) PROVE FALSE
    BY <2>4, <2>5 DEF Open, AccessExpires
  <2>6. ASSUME NEW t \in Tabs, NEW c \in Calls,
               \/ UseLogout(c, t) \/ Query(c, t) \/ WrongLogin(c, t)
               \/ \E u \in People : UseLogin(c, t, u)
        PROVE  FALSE
    BY <2>4, <2>6 DEF UseLogout, Query, WrongLogin, UseLogin, Send, tab
  <2>7. ASSUME NEW t \in Tabs, NEW r \in refreshing[t], ServeRefresh(t, r) PROVE FALSE
    BY <2>4, <2>7 DEF ServeRefresh, tab
  <2>8. ASSUME NEW c \in Calls, Serve(c) PROVE FALSE
    BY <2>4, <2>8 DEF Serve, tab
  <2>9. ASSUME NEW u \in People, EndSessions(u) PROVE FALSE
    BY <2>4, <2>9 DEF EndSessions, tab
  <2> QED
    BY <2>1, <2>2, <2>3, <2>5, <2>6, <2>7, <2>8, <2>9 DEF WebNext
<1> QED
  BY <1>1, BrowserInvariance, PTL DEF WebSpec, LiveSessionsAreKept
=============================================================================
