----------------------- MODULE ClanContextCache_proofs -----------------------
(***************************************************************************)
(* Proofs about ClanContextCache, for any number of users, processes and   *)
(* requests, any number of statements per handler, any faults.             *)
(***************************************************************************)
EXTENDS ClanContextCache, TLAPS

USE WiringAssumption, BoundsAssumption, NoneAssumption

\* The map of running loads has a place for every request.
LEMMA KeyType == \A r \in Requests : KeyOf(r) \in Procs \X Users
  BY DEF KeyOf

\* Empty tables, an empty cache and idle requests satisfy the invariant.
LEMMA IInvInit == Init => IInv
<1> SUFFICES ASSUME Init PROVE IInv
  OBVIOUS
<1> USE DEF Init
<1>1. TypeOK
  <2>1. 0 \in 0..HandlerWrites /\ 0 \in 0..MaxFaults
    OBVIOUS
  <2> QED
    BY <2>1 DEF TypeOK, PCs, Contexts
<1>2. Monotone /\ HitsSeeBumpedWrites
  BY DEF Monotone, HitsSeeBumpedWrites, Hit
<1>3. InflightIsLoading /\ LoadsAreShared /\ JoinersFollow
  BY KeyType DEF InflightIsLoading, Loading, LoadsAreShared, JoinersFollow
<1>4. ContextsAreSound /\ ContextsSeeBumpedWrites
  BY DEF ContextsAreSound, ContextsSeeBumpedWrites
<1> QED
  BY <1>1, <1>2, <1>3, <1>4 DEF IInv

\* What the end of the requests of S does to the locals.
LEMMA FinishedEffect ==
    ASSUME TypeOK, NEW S \in SUBSET Requests, Finished(S)
    PROVE  /\ pc' \in [Requests -> PCs]
           /\ verSeen' \in [Requests -> Nat]
           /\ ctx' \in [Requests -> Contexts]
           /\ left' \in [Requests -> 0..HandlerWrites]
           /\ bumped' \in [Requests -> BOOLEAN]
           /\ since' \in [Requests -> Nat]
           /\ \A q \in S : pc'[q] = "idle" /\ verSeen'[q] = 0 /\ ctx'[q] = None /\ since'[q] = 0
           /\ \A q \in Requests \ S : /\ pc'[q] = pc[q]
                                      /\ verSeen'[q] = verSeen[q]
                                      /\ ctx'[q] = ctx[q]
                                      /\ since'[q] = since[q]
<1> USE DEF TypeOK, Finished
<1>1. pc' \in [Requests -> PCs]
  BY DEF PCs
<1>2. ctx' \in [Requests -> Contexts]
  BY DEF Contexts
<1>3. verSeen' \in [Requests -> Nat] /\ since' \in [Requests -> Nat]
  OBVIOUS
<1>4. left' \in [Requests -> 0..HandlerWrites]
  <2>1. 0 \in 0..HandlerWrites
    OBVIOUS
  <2> QED
    BY <2>1
<1>5. bumped' \in [Requests -> BOOLEAN]
  OBVIOUS
<1> QED
  BY <1>1, <1>2, <1>3, <1>4, <1>5

\* Requests may end together when they take their running loads out of the map
\* and everyone who joined one of those loads ends too.
LEMMA FinishedKeepsIInv ==
    ASSUME IInv, NEW S \in SUBSET Requests, Finished(S),
           UNCHANGED <<writes, deleted, version, covered, entry>>,
           faults' \in 0..MaxFaults /\ missed' \in BOOLEAN,
           inflight' = [k \in Procs \X Users |-> IF inflight[k] \in S THEN None ELSE inflight[k]],
           \A q \in Requests : pc[q] = "joined" /\ inflight[KeyOf(q)] \in S => q \in S
    PROVE  IInv'
<1> USE KeyType
<1> USE DEF IInv
<1>1. TypeOK'
  BY FinishedEffect DEF TypeOK
<1>2. Monotone'
  BY FinishedEffect DEF Monotone, TypeOK
<1>3. HitsSeeBumpedWrites'
  BY DEF HitsSeeBumpedWrites, Hit
<1>4. InflightIsLoading'
  BY FinishedEffect DEF InflightIsLoading, TypeOK, KeyOf
<1>5. LoadsAreShared'
  <2>1. ASSUME NEW r \in Requests, pc'[r] \in {"query", "store", "finish"}
        PROVE  inflight'[KeyOf(r)] = r
    BY <2>1, FinishedEffect DEF LoadsAreShared
  <2>2. ASSUME NEW r \in Requests, pc'[r] = "joined"
        PROVE  \E q \in Requests : /\ inflight'[KeyOf(r)] = q
                                   /\ KeyOf(q) = KeyOf(r)
                                   /\ pc'[q] \in {"query", "store", "finish"}
    <3>1. r \notin S /\ pc[r] = "joined"
      BY <2>2, FinishedEffect
    <3>2. PICK q \in Requests : /\ inflight[KeyOf(r)] = q
                                /\ KeyOf(q) = KeyOf(r)
                                /\ pc[q] \in {"query", "store", "finish"}
      BY <3>1 DEF LoadsAreShared
    <3>3. q \notin S
      BY <3>1, <3>2
    <3> QED
      BY <3>2, <3>3, FinishedEffect
  <2> QED
    BY <2>1, <2>2 DEF LoadsAreShared, KeyOf
<1>6. JoinersFollow'
  <2> SUFFICES ASSUME NEW r \in Requests, pc'[r] = "joined"
               PROVE  since'[r] = since'[inflight'[KeyOf(r)]]
    BY DEF JoinersFollow, KeyOf
  <2>1. r \notin S /\ pc[r] = "joined"
    BY FinishedEffect
  <2>2. inflight[KeyOf(r)] \in Requests \ S
    BY <2>1 DEF LoadsAreShared
  <2> QED
    BY <2>1, <2>2, FinishedEffect DEF JoinersFollow
<1>7. ContextsAreSound' /\ ContextsSeeBumpedWrites'
  BY FinishedEffect DEF ContextsAreSound, ContextsSeeBumpedWrites
<1> QED
  BY <1>1, <1>2, <1>3, <1>4, <1>5, <1>6, <1>7

\* A request that runs no load is not in the map.
LEMMA NotInMap ==
    ASSUME IInv, NEW r \in Requests, pc[r] \notin Loading
    PROVE  inflight = [k \in Procs \X Users |-> IF inflight[k] \in {r} THEN None ELSE inflight[k]]
  BY DEF IInv, TypeOK, InflightIsLoading

\* Every action keeps the invariant.
LEMMA IInvStep == IInv /\ [Next]_vars => IInv'
<1> SUFFICES ASSUME IInv, [Next]_vars PROVE IInv'
  OBVIOUS
<1> USE KeyType
<1> USE DEF IInv, TypeOK, PCs, Contexts, Monotone, HitsSeeBumpedWrites, Hit,
            InflightIsLoading, Loading, LoadsAreShared, JoinersFollow,
            ContextsAreSound, ContextsSeeBumpedWrites, tables, redis
<1>1. ASSUME NEW r \in Requests, Ask(r) PROVE IInv'
  BY <1>1 DEF Ask
<1>2. ASSUME NEW r \in Requests, NEW n \in 0..HandlerWrites, Admit(r, n) PROVE IInv'
  BY <1>2 DEF Admit
<1>3. ASSUME NEW r \in Requests, StartLoad(r) PROVE IInv'
  BY <1>3 DEF StartLoad
<1>4. ASSUME NEW r \in Requests, JoinLoad(r) PROVE IInv'
  BY <1>4 DEF JoinLoad
<1>5. ASSUME NEW r \in Requests, Query(r) PROVE IInv'
  BY <1>5 DEF Query
<1>6. ASSUME NEW r \in Requests, Store(r) PROVE IInv'
  BY <1>6 DEF Store
<1>7. ASSUME NEW r \in Requests, Finish(r) PROVE IInv'
  <2>1. inflight[KeyOf(r)] = r /\ \A k \in Procs \X Users : inflight[k] \in Sharing(r) => k = KeyOf(r)
    BY <1>7 DEF Finish, Sharing
  <2>2. inflight' = [k \in Procs \X Users |-> IF inflight[k] \in Sharing(r) THEN None ELSE inflight[k]]
    <3>1. inflight' = [inflight EXCEPT ![KeyOf(r)] = None]
      BY <1>7 DEF Finish
    <3>2. inflight \in [Procs \X Users -> Requests \cup {None}] /\ r \in Sharing(r)
      BY DEF Sharing
    <3> HIDE DEF IInv
    <3> QED
      BY <2>1, <3>1, <3>2
  <2>3. \A q \in Requests : pc[q] = "joined" /\ inflight[KeyOf(q)] \in Sharing(r) => q \in Sharing(r)
    BY <2>1 DEF Sharing
  <2>4. CASE ctx[r] = NotFound
    <3>1. Sharing(r) \in SUBSET Requests /\ Finished(Sharing(r)) /\ faults' \in 0..MaxFaults /\ missed' \in BOOLEAN
          /\ UNCHANGED <<writes, deleted, version, covered, entry>>
      BY <1>7, <2>4 DEF Finish, Sharing
    <3> HIDE DEF IInv
    <3> QED
      BY <2>2, <2>3, <3>1, FinishedKeepsIInv
  <2>5. CASE ctx[r] # NotFound
    <3>1. ctx[r] \in Nat /\ ctx[r] >= since[r] /\ \A q \in Sharing(r) : since[q] = since[r]
      BY <1>7, <2>1, <2>5 DEF Finish, Sharing
    <3>2. \A q \in Requests :
             /\ pc'[q] = IF q \in Sharing(r) THEN "asked" ELSE pc[q]
             /\ ctx'[q] = IF q \in Sharing(r) THEN ctx[r] ELSE ctx[q]
      BY <1>7, <2>5 DEF Finish
    <3>3. UNCHANGED <<writes, deleted, version, covered, missed, entry, verSeen, left, bumped, since, faults>>
      BY <1>7, <2>5 DEF Finish
    <3>4. TypeOK'
      BY <1>7, <2>5, <2>2, <3>1, <3>3 DEF Finish
    <3>5. Monotone' /\ HitsSeeBumpedWrites'
      BY <3>3
    <3>6. InflightIsLoading'
      BY <2>2, <3>2 DEF KeyOf
    <3>7. LoadsAreShared'
      BY <2>2, <2>3, <3>2 DEF KeyOf
    <3>8. JoinersFollow'
      BY <2>2, <2>3, <3>2, <3>3 DEF KeyOf
    <3>9. ContextsAreSound' /\ ContextsSeeBumpedWrites'
      BY <3>1, <3>2, <3>3
    <3> QED
      BY <3>4, <3>5, <3>6, <3>7, <3>8, <3>9
  <2> QED
    BY <2>4, <2>5
<1>8. ASSUME NEW r \in Requests, LoadFails(r) PROVE IInv'
  <2>1. inflight[KeyOf(r)] = r /\ \A k \in Procs \X Users : inflight[k] \in Sharing(r) => k = KeyOf(r)
    BY <1>8 DEF LoadFails, Sharing
  <2>2. inflight' = [k \in Procs \X Users |-> IF inflight[k] \in Sharing(r) THEN None ELSE inflight[k]]
    <3>1. inflight' = [inflight EXCEPT ![KeyOf(r)] = None]
      BY <1>8 DEF LoadFails
    <3>2. inflight \in [Procs \X Users -> Requests \cup {None}] /\ r \in Sharing(r)
      BY DEF Sharing
    <3> HIDE DEF IInv
    <3> QED
      BY <2>1, <3>1, <3>2
  <2>3. \A q \in Requests : pc[q] = "joined" /\ inflight[KeyOf(q)] \in Sharing(r) => q \in Sharing(r)
    BY <2>1 DEF Sharing
  <2>4. Sharing(r) \in SUBSET Requests /\ Finished(Sharing(r)) /\ faults' \in 0..MaxFaults /\ missed' \in BOOLEAN
        /\ UNCHANGED <<writes, deleted, version, covered, entry>>
    BY <1>8 DEF LoadFails, Sharing
  <2> HIDE DEF IInv
  <2> QED
    BY <2>2, <2>3, <2>4, FinishedKeepsIInv
<1>9. ASSUME NEW r \in Requests, Reject(r) \/ StatementFails(r) \/ BumpFails(r) \/ Answer(r) PROVE IInv'
  <2>0. pc[r] \notin Loading /\ Finished({r}) /\ faults' \in 0..MaxFaults
        /\ UNCHANGED <<writes, deleted, version, covered, entry, inflight>>
    BY <1>9 DEF Reject, StatementFails, BumpFails, Answer
  <2>b. missed \in BOOLEAN
    OBVIOUS
  <2>m. missed' \in BOOLEAN
    <3> HIDE DEF IInv
    <3> QED
      <4>1. CASE BumpFails(r)
        <5>1. missed' = (missed \/ writes > covered)
          BY <4>1 DEF BumpFails
        <5> QED
          BY <5>1
      <4>2. CASE ~BumpFails(r)
        <5>1. missed' = missed
          BY <1>9, <4>2 DEF Reject, StatementFails, Answer
        <5> QED
          BY <2>b, <5>1
      <4> QED
        BY <4>1, <4>2
  <2>1. pc[r] \notin Loading /\ Finished({r}) /\ faults' \in 0..MaxFaults /\ missed' \in BOOLEAN
        /\ UNCHANGED <<writes, deleted, version, covered, entry, inflight>>
    BY <2>0, <2>m
  <2>2. \A q \in Requests : pc[q] = "joined" => inflight[KeyOf(q)] # r
    BY <2>1
  <2> HIDE DEF IInv
  <2> QED
    BY <2>1, <2>2, NotInMap, FinishedKeepsIInv
<1>10. ASSUME NEW r \in Requests, NEW del \in BOOLEAN, Write(r, del) PROVE IInv'
  BY <1>10 DEF Write, Commit
<1>11. ASSUME NEW r \in Requests, Bump(r) PROVE IInv'
  <2>1. TypeOK'
    <3>1. pc' = [pc EXCEPT ![r] = "handle"] /\ bumped' = [bumped EXCEPT ![r] = TRUE]
      BY <1>11 DEF Bump
    <3>2. pc' \in [Requests -> PCs] /\ bumped' \in [Requests -> BOOLEAN]
      BY <3>1
    <3>3. missed' = FALSE
      BY <1>11 DEF Bump
    <3>4. missed' \in BOOLEAN
      BY <3>3
    <3> QED
      BY <1>11, <3>2, <3>4 DEF Bump
  <2>2. /\ Monotone' /\ HitsSeeBumpedWrites' /\ InflightIsLoading' /\ LoadsAreShared'
        /\ JoinersFollow' /\ ContextsAreSound' /\ ContextsSeeBumpedWrites'
    BY <1>11 DEF Bump
  <2> QED
    BY <2>1, <2>2
<1>12. ASSUME SystemWrite PROVE IInv'
  BY <1>12 DEF SystemWrite, Commit
<1>13. ASSUME NEW u \in Users, Expire(u) PROVE IInv'
  BY <1>13 DEF Expire
<1>14. ASSUME NEW p \in Procs, Crash(p) PROVE IInv'
  <2> DEFINE S == {r \in Requests : ProcOf[r] = p}
  <2>1. \A k \in Procs \X Users : inflight[k] # None => (inflight[k] \in S <=> k[1] = p)
    BY DEF KeyOf
  <2>2. inflight' = [k \in Procs \X Users |-> IF inflight[k] \in S THEN None ELSE inflight[k]]
    BY <1>14, <2>1 DEF Crash
  <2>3. \A q \in Requests : pc[q] = "joined" /\ inflight[KeyOf(q)] \in S => q \in S
    BY <2>1 DEF KeyOf
  <2>4. S \in SUBSET Requests /\ Finished(S) /\ faults' \in 0..MaxFaults /\ missed' \in BOOLEAN
        /\ UNCHANGED <<writes, deleted, version, covered, entry>>
    BY <1>14 DEF Crash
  <2> HIDE DEF IInv, S
  <2> QED
    BY <2>2, <2>3, <2>4, FinishedKeepsIInv
<1>15. CASE UNCHANGED vars
  BY <1>15 DEF vars
<1> HIDE DEF IInv
<1> QED
  BY <1>1, <1>2, <1>3, <1>4, <1>5, <1>6, <1>7, <1>8, <1>9, <1>10, <1>11, <1>12,
     <1>13, <1>14, <1>15 DEF Next, Step

\* The invariant holds in every reachable state.
LEMMA Invariance == Spec => []IInv
<1> QED
  BY IInvInit, IInvStep, PTL DEF Spec

\* The variables keep their types.
THEOREM TypeCorrect == Spec => []TypeOK
<1>1. IInv => TypeOK
  BY DEF IInv
<1> QED
  BY <1>1, Invariance, PTL

\* An entry that counts holds every write bumped so far: the version read
\* before the query makes the cache sound whatever loads, writers, processes
\* and crashes interleave.
THEOREM HitsAreSound == Spec => []HitsSeeBumpedWrites
<1>1. IInv => HitsSeeBumpedWrites
  BY DEF IInv
<1> QED
  BY <1>1, Invariance, PTL

\* So does the context of every handler, relative to the MGET it rests on.
THEOREM ContextsAreAsFreshAsTheirVersion == Spec => []ContextsSeeBumpedWrites
<1>1. IInv => ContextsSeeBumpedWrites
  BY DEF IInv
<1> QED
  BY <1>1, Invariance, PTL

\* A process runs one load per user, and nobody waits for a load that is over.
THEOREM LoadsAreSingleFlight == Spec => []LoadsAreShared
<1>1. IInv => LoadsAreShared
  BY DEF IInv
<1> QED
  BY <1>1, Invariance, PTL

(***************************************************************************)
(* Writes that no version covers.                                          *)
(***************************************************************************)
\* No step leaves an uncovered write without a pending bump and unnoticed.
LEMMA UncoveredStep ==
    IInv /\ UncoveredWritesAreBeingBumped /\ [Next]_vars => UncoveredWritesAreBeingBumped'
<1> SUFFICES ASSUME TypeOK, Monotone, UncoveredWritesAreBeingBumped, [Next]_vars
             PROVE  UncoveredWritesAreBeingBumped'
  BY DEF IInv
<1> USE DEF TypeOK, UncoveredWritesAreBeingBumped, tables, redis
<1>1. ASSUME NEW r \in Requests,
             Ask(r) \/ StartLoad(r) \/ JoinLoad(r) \/ Query(r) \/ Store(r)
      PROVE  UncoveredWritesAreBeingBumped'
  BY <1>1 DEF Ask, StartLoad, JoinLoad, Query, Store
<1>2. ASSUME NEW r \in Requests, NEW n \in 0..HandlerWrites, Admit(r, n)
      PROVE  UncoveredWritesAreBeingBumped'
  BY <1>2 DEF Admit
<1>3. ASSUME NEW r \in Requests,
             Finish(r) \/ LoadFails(r) \/ Reject(r) \/ StatementFails(r) \/ Answer(r)
      PROVE  UncoveredWritesAreBeingBumped'
  <2>1. UNCHANGED <<writes, covered, missed>>
    BY <1>3 DEF Finish, LoadFails, Reject, StatementFails, Answer
  <2>2. ASSUME NEW q \in Requests, pc[q] = "bump" PROVE pc'[q] = "bump"
    <3>1. q \notin Sharing(r) /\ q # r
      BY <1>3, <2>2 DEF Finish, LoadFails, Reject, StatementFails, Answer, Sharing
    <3>2. \A S \in SUBSET Requests : q \notin S /\ Finished(S) => pc'[q] = pc[q]
      BY FinishedEffect
    <3>3. {r} \in SUBSET Requests /\ Sharing(r) \in SUBSET Requests
      BY DEF Sharing
    <3>4. \/ Finished({r}) \/ Finished(Sharing(r))
          \/ pc' = [p \in Requests |-> IF p \in Sharing(r) THEN "asked" ELSE pc[p]]
      BY <1>3 DEF Finish, LoadFails, Reject, StatementFails, Answer
    <3> HIDE DEF TypeOK, UncoveredWritesAreBeingBumped
    <3> QED
      BY <2>2, <3>1, <3>2, <3>3, <3>4
  <2> QED
    BY <2>1, <2>2
<1>4. ASSUME NEW r \in Requests, NEW del \in BOOLEAN, Write(r, del)
      PROVE  UncoveredWritesAreBeingBumped'
  BY <1>4 DEF Write
<1>5. ASSUME NEW r \in Requests, Bump(r) PROVE UncoveredWritesAreBeingBumped'
  BY <1>5 DEF Bump
<1>6. ASSUME NEW r \in Requests, BumpFails(r) PROVE UncoveredWritesAreBeingBumped'
  <2>1. writes' = writes /\ covered' = covered /\ missed' = (missed \/ writes > covered)
    BY <1>6 DEF BumpFails
  <2> HIDE DEF TypeOK
  <2> QED
    BY <2>1
<1>7. ASSUME SystemWrite PROVE UncoveredWritesAreBeingBumped'
  BY <1>7 DEF SystemWrite
<1>8. ASSUME NEW u \in Users, Expire(u) PROVE UncoveredWritesAreBeingBumped'
  BY <1>8 DEF Expire
<1>9. ASSUME NEW p \in Procs, Crash(p) PROVE UncoveredWritesAreBeingBumped'
  <2>1. writes' = writes /\ covered' = covered
        /\ missed' = (missed \/ \E r \in Requests : ProcOf[r] = p /\ pc[r] = "bump")
    BY <1>9 DEF Crash
  <2>2. \A r \in Requests : ProcOf[r] # p => pc'[r] = pc[r]
    BY <1>9 DEF Crash, Finished
  <2> QED
    BY <2>1, <2>2
<1>10. CASE UNCHANGED vars
  BY <1>10 DEF vars
<1> QED
  BY <1>1, <1>2, <1>3, <1>4, <1>5, <1>6, <1>7, <1>8, <1>9, <1>10 DEF Next, Step

\* A write that later requests could miss has its bump pending, or is a further
\* statement of its request, a system write, or one whose bump was lost.
THEOREM WritesAreBumpedOrMissed == Spec => []UncoveredWritesAreBeingBumped
<1>1. Init => UncoveredWritesAreBeingBumped
  BY DEF Init, UncoveredWritesAreBeingBumped
<1> QED
  BY <1>1, Invariance, UncoveredStep, PTL DEF Spec
=============================================================================
