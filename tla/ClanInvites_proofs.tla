------------------------- MODULE ClanInvites_proofs -------------------------
(***************************************************************************)
(* Proofs about ClanInvites and InviteOffers, for any number of users,     *)
(* invites and requests in flight.                                         *)
(***************************************************************************)
EXTENDS InviteOffers, FiniteSetTheorems, TLAPS

USE InvitesAssumption, MaxUpsetsAssumption

\* What a request in flight keeps in its locals.
JobsAreKnown ==
    \A q \in Requests :
        /\ pc[q] \in Admitting \cup {"targetMember", "duplicate"} => job[q].who \in Users
        /\ pc[q] \in Admitting => job[q].inv \in made \cup {None}
        /\ pc[q] = "count" => job[q].inv \in made

\* Codes nobody has yet are not used.
UnmadeAreUnused == \A i \in Invites \ made : uses[i] = 0

\* The redemptions of i that have passed the test of its limit.
Redeeming(i) == {q \in Requests : pc[q] \in Admitting /\ job[q].inv = i}

Spare == IF overlap THEN Cardinality(Requests) - 1 ELSE 0

\* OverrunIsBounded is not inductive: a redemption that has passed the test
\* will count, so it is a use already.
UsesAreBounded ==
    \A i \in made : limit[i] # None =>
        uses[i] + Cardinality(Redeeming(i)) <= limit[i] + Spare

\* EntriesAreCounted for all ids, with the uses that are going to be counted.
EntriesAreKnown ==
    /\ aborts = 0 => \A i \in Invites : entered[i] <= uses[i] + Cardinality(Counting(i))
    /\ ~overlap => \A i \in Invites : uses[i] + Cardinality(Counting(i)) <= entered[i]

Solo == ~overlap => \A p, q \in Requests : pc[p] # "idle" /\ pc[q] # "idle" => p = q

\* What the statements of q so far have found, and nobody else has changed.
Found(q) ==
    /\ pc[q] = "insert" /\ job[q].who \in Users => OpenFor(job[q].who) = {}
    /\ pc[q] = "reactivate" => status[job[q].who] # "active"
    /\ pc[q] = "newRow" => status[job[q].who] = "none"
    /\ pc[q] \in {"member", "newRow", "reactivate"} =>
         /\ ~deleted
         /\ policy = "OPEN" \/ (policy = "INVITE_ONLY" /\ job[q].inv # None)
    /\ pc[q] \in {"clan", "member", "newRow", "reactivate"} /\ job[q].inv # None =>
         /\ job[q].inv \in made \ revoked
         /\ target[job[q].inv] \in {None, job[q].who}
         /\ limit[job[q].inv] # None => uses[job[q].inv] < limit[job[q].inv]

AloneFound == ~overlap => \A q \in Requests : Found(q)

\* OneOpenInvitePerUser without counting.
OneOpen == ~overlap => \A u \in Users : \A i, j \in OpenFor(u) : i = j

Types == TypeOK /\ JobsAreKnown /\ UnmadeAreUnused
IInv ==
    /\ Types
    /\ UsesAreBounded
    /\ EntriesAreKnown
    /\ Solo
    /\ AloneFound
    /\ OneOpen

-----------------------------------------------------------------------------
(***************************************************************************)
(* Types and locals                                                        *)
(***************************************************************************)
\* Init has the types.
LEMMA TypeInit == Init => Types
<1> SUFFICES ASSUME Init PROVE Types
  OBVIOUS
<1>1. 0 \in 0..MaxUpsets
  OBVIOUS
<1>2. NoJob \in Jobs
  BY DEF NoJob, Jobs
<1>3. TypeOK
  BY <1>1, <1>2 DEF Init, TypeOK, Policies
<1>4. JobsAreKnown /\ UnmadeAreUnused
  BY DEF Init, JobsAreKnown, UnmadeAreUnused, Admitting
<1> QED
  BY <1>3, <1>4 DEF Types

\* Starting a request keeps types and locals.
LEMMA BeginStep ==
  ASSUME Types, NEW q \in Requests, Begin(q)
  PROVE  Types'
<1> USE DEF Types, TypeOK, JobsAreKnown, UnmadeAreUnused, Jobs, Policies, Admitting,
            Creating, Start, AtOnce, invites, clan, counters
<1>1. ASSUME NEW n \in Limits \cup {None}, CreateLink(q, n)
      PROVE  Types'
  BY <1>1 DEF CreateLink
<1>2. ASSUME NEW u \in Users, CreateTargeted(q, u)
      PROVE  Types'
  BY <1>2 DEF CreateTargeted
<1>3. ASSUME NEW u \in Users, Join(q, u)
      PROVE  Types'
  BY <1>3 DEF Join
<1>4. ASSUME NEW u \in Users, Depart(q, u)
      PROVE  Types'
  BY <1>4 DEF Depart
<1>5. ASSUME NEW u \in Users, NEW i \in Invites, Redeem(q, u, i)
      PROVE  Types'
  BY <1>5 DEF Redeem, Redeemable
<1>6. ASSUME NEW i \in Invites, Revoke(q, i)
      PROVE  Types'
  BY <1>6 DEF Revoke
<1>7. ASSUME NEW p \in Policies, SetPolicy(q, p)
      PROVE  Types'
  BY <1>7 DEF SetPolicy
<1>8. CASE SoftDelete(q)
  BY <1>8 DEF SoftDelete
<1> HIDE DEF Types, TypeOK, JobsAreKnown, UnmadeAreUnused
<1> QED
  BY <1>1, <1>2, <1>3, <1>4, <1>5, <1>6, <1>7, <1>8 DEF Begin

\* Admission keeps types and locals.
LEMMA EnterStep ==
  ASSUME Types, NEW q \in Requests, Enter(q),
         pc[q] \in {"newRow", "reactivate"}
  PROVE  Types'
<1> USE DEF Types, TypeOK, JobsAreKnown, UnmadeAreUnused, Jobs, NoJob, Policies, Admitting,
            Creating, GotoIf, Goto, End, invites
<1>1. job[q].who \in Users /\ job[q].inv \in made \cup {None}
  OBVIOUS
<1>2. entered' \in [Invites -> Nat]
  BY DEF Enter
<1>3. status' \in [Users -> {"none", "active", "left"}]
  BY DEF Enter
<1>4. CASE job[q].inv # None
  <2>1. pc' = [pc EXCEPT ![q] = "count"] /\ job' = job /\ overlap' = overlap
    BY <1>4 DEF Enter
  <2> QED
    BY <1>1, <1>2, <1>3, <1>4, <2>1 DEF Enter
<1>5. CASE job[q].inv = None
  <2>1. pc' = [pc EXCEPT ![q] = "idle"] /\ job' = [job EXCEPT ![q] = NoJob] /\ overlap' = overlap
    BY <1>5 DEF Enter
  <2>2. NoJob \in Jobs
    OBVIOUS
  <2> QED
    BY <1>1, <1>2, <1>3, <2>1, <2>2 DEF Enter
<1> QED
  BY <1>4, <1>5

\* The later statements keep types and locals.
LEMMA StepStep ==
  ASSUME Types, NEW q \in Requests, Step(q)
  PROVE  Types'
<1> USE DEF Jobs, NoJob, Policies, Admitting, Creating, GotoIf, Goto, End,
            invites, clan, counters
<1>1. CASE TargetMember(q)
  BY <1>1 DEF TargetMember, Types, TypeOK, JobsAreKnown, UnmadeAreUnused
<1>2. CASE Duplicate(q)
  BY <1>2 DEF Duplicate, Types, TypeOK, JobsAreKnown, UnmadeAreUnused
<1>3. CASE Insert(q)
  <2> USE DEF Types, TypeOK, JobsAreKnown, UnmadeAreUnused
  <2>1. job[q] \in Jobs
    OBVIOUS
  <2> QED
    BY <1>3, <2>1 DEF Insert
<1>4. CASE Clan(q)
  BY <1>4 DEF Clan, Types, TypeOK, JobsAreKnown, UnmadeAreUnused
<1>5. CASE Member(q)
  BY <1>5 DEF Member, Types, TypeOK, JobsAreKnown, UnmadeAreUnused
<1>6. CASE NewRow(q) /\ status[job[q].who] # "none"
  <2>1. /\ pc' = [pc EXCEPT ![q] = "idle"] /\ job' = [job EXCEPT ![q] = NoJob]
        /\ UNCHANGED <<invites, clan, counters, overlap>>
    BY <1>6 DEF NewRow
  <2>2. NoJob \in Jobs
    OBVIOUS
  <2> QED
    BY <2>1, <2>2 DEF Types, TypeOK, JobsAreKnown, UnmadeAreUnused
<1>7. CASE NewRow(q) /\ status[job[q].who] = "none"
  BY <1>7, EnterStep DEF NewRow
<1>8. CASE Reactivate(q)
  BY <1>8, EnterStep DEF Reactivate
<1>9. CASE Count(q)
  <2> USE DEF Types, TypeOK, JobsAreKnown, UnmadeAreUnused
  <2>1. job[q].inv \in made
    BY <1>9 DEF Count
  <2> QED
    BY <1>9, <2>1 DEF Count
<1> QED
  BY <1>1, <1>2, <1>3, <1>4, <1>5, <1>6, <1>7, <1>8, <1>9 DEF Step

\* Every step keeps types and locals.
LEMMA TypeStep ==
  ASSUME Types, [Next]_vars
  PROVE  Types'
<1>1. ASSUME NEW q \in Requests, Begin(q)
      PROVE  Types'
  BY <1>1, BeginStep
<1>2. ASSUME NEW q \in Requests, Step(q)
      PROVE  Types'
  BY <1>2, StepStep
<1> USE DEF Types, TypeOK, JobsAreKnown, UnmadeAreUnused
<1>3. ASSUME NEW q \in Requests, Abort(q)
      PROVE  Types'
  BY <1>3 DEF Abort, End, NoJob, Jobs, Admitting, invites, clan
<1>4. ASSUME NEW i \in Invites, Expire(i)
      PROVE  Types'
  BY <1>4 DEF Expire, clan, counters
<1>5. CASE UNCHANGED vars
  BY <1>5 DEF vars
<1> HIDE DEF Types, TypeOK, JobsAreKnown, UnmadeAreUnused
<1> QED
  BY <1>1, <1>2, <1>3, <1>4, <1>5 DEF Next

-----------------------------------------------------------------------------
(***************************************************************************)
(* Uses and entries                                                        *)
(***************************************************************************)
\* Any set of requests can be counted.
LEMMA RequestSets ==
  ASSUME NEW T, T \subseteq Requests
  PROVE  /\ IsFiniteSet(T)
         /\ Cardinality(T) \in Nat
         /\ Cardinality(Requests) \in Nat
         /\ Cardinality(T) <= Cardinality(Requests)
<1>1. IsFiniteSet(T) /\ Cardinality(T) <= Cardinality(Requests)
  BY FS_Subset
<1> QED
  BY <1>1, FS_CardinalityType

\* Smaller sets of requests count less.
LEMMA RequestSubsets ==
  ASSUME NEW S, S \subseteq Requests, NEW T, T \subseteq S
  PROVE  Cardinality(T) <= Cardinality(S)
  BY RequestSets, FS_Subset

\* overlap is latched when a request begins while another one is in flight.
Latched == overlap' = overlap \/ (overlap' = TRUE /\ Requests # {})

\* The spare never shrinks.
LEMMA SpareGrows ==
  ASSUME Types, Latched
  PROVE  Spare \in Int /\ Spare' \in Int /\ Spare <= Spare'
<1>1. Cardinality(Requests) \in Nat
  BY RequestSets
<1>2. Requests # {} => Cardinality(Requests) # 0
  BY FS_EmptySet
<1>3. CASE overlap' = overlap
  BY <1>1, <1>3 DEF Spare
<1>4. CASE overlap' = TRUE /\ Requests # {}
  BY <1>1, <1>2, <1>4 DEF Spare
<1> QED
  BY <1>3, <1>4 DEF Latched

\* Rows, uses and entries are as before, and so are the requests about to
\* count one; a request may only have given up.
Calm ==
    /\ uses' = uses
    /\ limit' = limit
    /\ made' = made
    /\ entered' = entered
    /\ aborts' = aborts
    /\ Latched
    /\ \A i \in Invites : Redeeming(i)' \subseteq Redeeming(i) /\ Counting(i)' = Counting(i)

\* Beginnings other than a redemption are calm.
LEMMA BeginIsCalm ==
  ASSUME Types, NEW q \in Requests, Begin(q),
         ~\E u \in Users, i \in Invites : Redeem(q, u, i)
  PROVE  Calm
<1> USE DEF Calm, Redeeming, Counting, Types, TypeOK, Admitting, Start, AtOnce,
            invites, clan, counters
<1>0. overlap' = (overlap \/ Busy) => Latched
  BY DEF Busy, Latched
<1>1. ASSUME NEW n \in Limits \cup {None}, CreateLink(q, n) PROVE Calm
  BY <1>0, <1>1 DEF CreateLink
<1>2. ASSUME NEW u \in Users, CreateTargeted(q, u) PROVE Calm
  BY <1>0, <1>2 DEF CreateTargeted
<1>3. ASSUME NEW u \in Users, Join(q, u) PROVE Calm
  BY <1>0, <1>3 DEF Join
<1>4. CASE \E u \in Users : Depart(q, u)
  BY <1>0, <1>4 DEF Depart
<1>5. CASE \E i \in Invites : Revoke(q, i)
  BY <1>0, <1>5 DEF Revoke
<1>6. CASE \E p \in Policies : SetPolicy(q, p)
  BY <1>0, <1>6 DEF SetPolicy
<1>7. CASE SoftDelete(q)
  BY <1>0, <1>7 DEF SoftDelete
<1> HIDE DEF Calm
<1> QED
  BY <1>1, <1>2, <1>3, <1>4, <1>5, <1>6, <1>7 DEF Begin

\* So are the statements before the row of the member is written.
LEMMA ReadsAreCalm ==
  ASSUME Types, NEW q \in Requests,
         \/ TargetMember(q) \/ Duplicate(q) \/ Clan(q) \/ Member(q)
         \/ NewRow(q) /\ status[job[q].who] # "none"
  PROVE  Calm
<1> USE DEF Calm, Latched, Redeeming, Counting, Types, TypeOK, Admitting, GotoIf, Goto, End,
            NoJob, invites, clan, counters
<1>1. CASE TargetMember(q)
  BY <1>1 DEF TargetMember
<1>2. CASE Duplicate(q)
  BY <1>2 DEF Duplicate
<1>3. CASE Clan(q)
  BY <1>3 DEF Clan
<1>4. CASE Member(q)
  BY <1>4 DEF Member
<1>5. CASE NewRow(q) /\ status[job[q].who] # "none"
  BY <1>5 DEF NewRow
<1> HIDE DEF Calm
<1> QED
  BY <1>1, <1>2, <1>3, <1>4, <1>5

\* Time and stuttering are calm too.
LEMMA TimeIsCalm ==
  ASSUME (\E i \in Invites : Expire(i)) \/ UNCHANGED vars
  PROVE  Calm
<1>1. /\ uses' = uses /\ limit' = limit /\ made' = made /\ pc' = pc /\ job' = job
      /\ entered' = entered /\ aborts' = aborts /\ overlap' = overlap
  BY DEF Expire, clan, counters, vars
<1>2. \A i \in Invites : Redeeming(i)' \subseteq Redeeming(i) /\ Counting(i)' = Counting(i)
  BY <1>1 DEF Redeeming, Counting
<1> QED
  BY <1>1, <1>2 DEF Calm, Latched

\* Calm steps keep the bound, and so do entries and deaths, where only the
\* redemptions in flight can become fewer.
LEMMA BoundKept ==
  ASSUME Types, Types', UsesAreBounded, uses' = uses, limit' = limit, made' = made,
         Latched,
         \A i \in Invites : Redeeming(i)' \subseteq Redeeming(i)
  PROVE  UsesAreBounded'
<1> SUFFICES ASSUME NEW i \in made, limit[i] # None
             PROVE  uses[i] + Cardinality(Redeeming(i)') <= limit[i] + Spare'
  BY DEF UsesAreBounded
<1>1. i \in Invites /\ uses[i] \in Nat /\ limit[i] \in Nat
  BY DEF Types, TypeOK
<1>2. uses[i] + Cardinality(Redeeming(i)) <= limit[i] + Spare
  BY DEF UsesAreBounded
<1>3. Redeeming(i) \subseteq Requests /\ Redeeming(i)' \subseteq Requests
  BY DEF Redeeming
<1>4. /\ Cardinality(Redeeming(i)) \in Nat
      /\ Cardinality(Redeeming(i)') \in Nat
  BY <1>3, RequestSets
<1>5. Cardinality(Redeeming(i)') <= Cardinality(Redeeming(i))
  BY <1>1, <1>3, RequestSubsets
<1>6. Spare \in Int /\ Spare' \in Int /\ Spare <= Spare'
  BY SpareGrows
<1> QED
  BY <1>1, <1>2, <1>4, <1>5, <1>6

\* The uses of an invite, counted or to be counted, stay within the bound.
LEMMA UsesStep ==
  ASSUME IInv, Types', [Next]_vars
  PROVE  UsesAreBounded'
<1> USE DEF IInv
<1>1. CASE Calm
  BY <1>1, BoundKept DEF Calm
<1>2. ASSUME NEW q \in Requests, NEW u \in Users, NEW j \in Invites, Redeem(q, u, j)
      PROVE  UsesAreBounded'
  <2> SUFFICES ASSUME NEW i \in made, limit[i] # None
               PROVE  uses[i] + Cardinality(Redeeming(i)') <= limit[i] + Spare'
    BY <1>2 DEF UsesAreBounded, Redeem, invites
  <2> DEFINE old == Redeeming(i)
             new == Redeeming(i)'
  <2>1. i \in Invites /\ uses[i] \in Nat /\ limit[i] \in Nat /\ pc[q] = "idle"
    BY <1>2 DEF Types, TypeOK, Redeem, Start
  <2>2. uses[i] + Cardinality(old) <= limit[i] + Spare
    BY DEF UsesAreBounded
  <2>3. new = IF i = j THEN old \cup {q} ELSE old
    BY <1>2, <2>1 DEF Redeem, Start, Redeeming, Types, TypeOK, Admitting
  <2>4. old \subseteq Requests /\ new \subseteq Requests
    BY DEF Redeeming
  <2>5. Latched
    BY <1>2 DEF Redeem, Start, Latched, Types, TypeOK
  <2>6. Spare \in Int /\ Spare' \in Int /\ Spare <= Spare'
    BY <2>5, SpareGrows
  <2>7. /\ Cardinality(old) \in Nat /\ Cardinality(new) \in Nat
        /\ Cardinality(new) <= Cardinality(Requests)
        /\ Cardinality(Requests) \in Nat
    BY <2>4, RequestSets
  <2>8. CASE i # j
    BY <2>1, <2>2, <2>3, <2>6, <2>7, <2>8
  <2>9. CASE i = j
    <3>1. uses[i] < limit[i]
      BY <1>2, <2>9 DEF Redeem, Redeemable
    <3>2. CASE overlap'
      <4>1. Spare' = Cardinality(Requests) - 1
        BY <3>2 DEF Spare
      <4> QED
        BY <2>1, <2>7, <3>1, <4>1
    <3>3. CASE ~overlap'
      <4>1. ~Busy
        BY <1>2, <3>3 DEF Redeem, Start
      <4>2. old = {}
        BY <4>1 DEF Busy, Redeeming, Admitting
      <4>3. new = {q}
        BY <2>3, <2>9, <4>2
      <4> HIDE DEF new
      <4>4. Spare' = 0
        BY <3>3 DEF Spare
      <4>5. Cardinality(new) = 1
        BY <4>3, FS_Singleton
      <4> QED
        BY <2>1, <3>1, <4>4, <4>5 DEF new
    <3> QED
      BY <3>2, <3>3
  <2> QED
    BY <2>8, <2>9
<1>3. ASSUME NEW q \in Requests, Insert(q)
      PROVE  UsesAreBounded'
  <2> SUFFICES ASSUME NEW i \in made', limit'[i] # None
               PROVE  uses[i] + Cardinality(Redeeming(i)') <= limit'[i] + Spare
    BY <1>3 DEF UsesAreBounded, Insert, End, Spare
  <2>1. Redeeming(i)' = Redeeming(i)
    BY <1>3 DEF Insert, End, Redeeming, Admitting, Types, TypeOK
  <2>2. CASE i \in made
    <3>1. limit'[i] = limit[i]
      BY <1>3, <2>2 DEF Insert, Types, TypeOK
    <3> QED
      BY <2>1, <2>2, <3>1 DEF UsesAreBounded
  <2>3. CASE i \notin made
    <3>1. i \in Invites /\ limit'[i] \in Nat \ {0}
      <4>1. i \in Invites /\ limit'[i] \in Limits \cup {None}
        BY DEF Types, TypeOK
      <4> QED
        BY <4>1
    <3>2. uses[i] = 0
      BY <2>3, <3>1 DEF Types, UnmadeAreUnused
    <3>3. Redeeming(i) = {}
      BY <2>3, <3>1 DEF Redeeming, Types, JobsAreKnown
    <3>4. Cardinality(Redeeming(i)') = 0
      BY <2>1, <3>3, FS_EmptySet
    <3>5. Spare \in Nat
      <4>1. Cardinality(Requests) \in Nat /\ Cardinality(Requests) # 0
        BY RequestSets, FS_EmptySet
      <4> QED
        BY <4>1 DEF Spare
    <3> QED
      BY <3>1, <3>2, <3>4, <3>5
  <2> QED
    BY <2>2, <2>3
<1>4. ASSUME NEW q \in Requests, Count(q)
      PROVE  UsesAreBounded'
  <2> SUFFICES ASSUME NEW i \in made, limit[i] # None
               PROVE  uses'[i] + Cardinality(Redeeming(i)') <= limit[i] + Spare
    BY <1>4 DEF UsesAreBounded, Count, End, Spare
  <2> DEFINE old == Redeeming(i)
             new == Redeeming(i)'
  <2>1. i \in Invites /\ uses[i] \in Nat /\ limit[i] \in Nat
    BY DEF Types, TypeOK
  <2>2. uses[i] + Cardinality(old) <= limit[i] + Spare
    BY DEF UsesAreBounded
  <2>3. new = old \ {q}
    BY <1>4, <2>1 DEF Count, End, NoJob, Redeeming, Types, TypeOK, Admitting
  <2>4. old \subseteq Requests
    BY DEF Redeeming
  <2>5. Cardinality(old) \in Nat /\ IsFiniteSet(old)
    BY <2>4, RequestSets
  <2>6. Cardinality(new) = IF q \in old THEN Cardinality(old) - 1 ELSE Cardinality(old)
    BY <2>3, <2>5, FS_RemoveElement
  <2>7. CASE job[q].inv = i
    <3>1. q \in old
      BY <1>4, <2>7 DEF Count, Redeeming, Admitting
    <3>2. uses'[i] = uses[i] + 1
      BY <1>4, <2>1, <2>7 DEF Count, Types, TypeOK
    <3> QED
      BY <2>1, <2>2, <2>5, <2>6, <3>1, <3>2
  <2>8. CASE job[q].inv # i
    <3>1. q \notin old
      BY <2>8 DEF Redeeming
    <3>2. uses'[i] = uses[i]
      BY <1>4, <2>1, <2>8 DEF Count, Types, TypeOK
    <3> QED
      BY <2>2, <2>6, <3>1, <3>2
  <2> QED
    BY <2>7, <2>8
<1>5. ASSUME NEW q \in Requests, Enter(q), pc[q] \in {"newRow", "reactivate"}
      PROVE  UsesAreBounded'
  <2>1. \A i \in Invites : Redeeming(i)' \subseteq Redeeming(i)
    BY <1>5 DEF Enter, GotoIf, Goto, End, NoJob, Redeeming, Types, TypeOK, Admitting
  <2>2. uses' = uses /\ limit' = limit /\ made' = made /\ overlap' = overlap
    BY <1>5 DEF Enter, GotoIf, Goto, End, invites
  <2> QED
    BY <2>1, <2>2, BoundKept DEF Latched
<1>6. ASSUME NEW q \in Requests, Abort(q)
      PROVE  UsesAreBounded'
  <2>1. \A i \in Invites : Redeeming(i)' \subseteq Redeeming(i)
    BY <1>6 DEF Abort, End, NoJob, Redeeming, Types, TypeOK, Admitting
  <2>2. uses' = uses /\ limit' = limit /\ made' = made /\ overlap' = overlap
    BY <1>6 DEF Abort, End, invites
  <2> QED
    BY <2>1, <2>2, BoundKept DEF Latched
<1>7. ASSUME NEW q \in Requests, Begin(q)
      PROVE  UsesAreBounded'
  BY <1>1, <1>2, <1>7, BeginIsCalm
<1>8. ASSUME NEW q \in Requests, Step(q)
      PROVE  UsesAreBounded'
  <2>1. CASE NewRow(q) /\ status[job[q].who] = "none"
    BY <1>5, <2>1 DEF NewRow
  <2>2. CASE Reactivate(q)
    BY <1>5, <2>2 DEF Reactivate
  <2> QED
    BY <1>1, <1>3, <1>4, <1>8, <2>1, <2>2, ReadsAreCalm DEF Step
<1>9. CASE (\E i \in Invites : Expire(i)) \/ UNCHANGED vars
  BY <1>1, <1>9, TimeIsCalm
<1> QED
  BY <1>6, <1>7, <1>8, <1>9 DEF Next

\* Steps that leave uses, entries and the requests about to count alone.
LEMMA EntriesKept ==
  ASSUME Types, EntriesAreKnown, uses' = uses, entered' = entered, aborts' = aborts,
         overlap => overlap', \A i \in Invites : Counting(i)' = Counting(i)
  PROVE  EntriesAreKnown'
<1>1. aborts = 0 => \A i \in Invites : entered'[i] <= uses'[i] + Cardinality(Counting(i)')
  BY DEF EntriesAreKnown
<1>2. ~overlap' => \A i \in Invites : uses'[i] + Cardinality(Counting(i)') <= entered'[i]
  BY DEF EntriesAreKnown
<1> QED
  BY <1>1, <1>2 DEF EntriesAreKnown

\* Admission counts an entry and makes the request one about to count its use.
LEMMA EntryCounted ==
  ASSUME IInv, NEW q \in Requests, Enter(q), pc[q] \in {"newRow", "reactivate"},
         ~overlap => status[job[q].who] # "active"
  PROVE  EntriesAreKnown'
<1> USE DEF IInv
<1> DEFINE j == job[q].inv
<1>1. uses' = uses /\ aborts' = aborts /\ overlap' = overlap
  BY DEF Enter, GotoIf, Goto, End, invites
<1>2. \A i \in Invites :
        entered'[i] = IF i = j /\ status[job[q].who] # "active" THEN entered[i] + 1 ELSE entered[i]
  BY DEF Enter
<1>3. \A i \in Invites : Counting(i)' = IF i = j THEN Counting(i) \cup {q} ELSE Counting(i)
  <2>1. CASE j = None
    BY <2>1 DEF Enter, GotoIf, Goto, End, NoJob, Counting, Types, TypeOK
  <2>2. CASE j # None
    BY <2>2 DEF Enter, GotoIf, Goto, Counting, Types, TypeOK
  <2> QED
    BY <2>1, <2>2
<1>4. SUFFICES ASSUME NEW i \in Invites
               PROVE  /\ aborts = 0 => entered'[i] <= uses[i] + Cardinality(Counting(i)')
                      /\ ~overlap => uses[i] + Cardinality(Counting(i)') <= entered'[i]
  BY <1>1 DEF EntriesAreKnown
<1>5. Counting(i) \subseteq Requests /\ q \notin Counting(i)
  BY DEF Counting
<1>6. IsFiniteSet(Counting(i)) /\ Cardinality(Counting(i)) \in Nat
  BY <1>5, RequestSets
<1>7. uses[i] \in Nat /\ entered[i] \in Nat
  BY DEF Types, TypeOK
<1>8. /\ aborts = 0 => entered[i] <= uses[i] + Cardinality(Counting(i))
      /\ ~overlap => uses[i] + Cardinality(Counting(i)) <= entered[i]
  BY DEF EntriesAreKnown
<1>9. CASE i = j
  <2>1. Cardinality(Counting(i)') = Cardinality(Counting(i)) + 1
    BY <1>3, <1>5, <1>6, <1>9, FS_AddElement
  <2>2. entered'[i] <= entered[i] + 1 /\ (~overlap => entered'[i] = entered[i] + 1)
    BY <1>2, <1>7, <1>9
  <2>3. entered'[i] \in Nat
    BY <1>2, <1>7
  <2> HIDE DEF j
  <2> QED
    BY <1>6, <1>7, <1>8, <2>1, <2>2, <2>3
<1>10. CASE i # j
  <2>1. Counting(i)' = Counting(i) /\ entered'[i] = entered[i]
    BY <1>2, <1>3, <1>10
  <2> QED
    BY <1>8, <2>1
<1> QED
  BY <1>9, <1>10

\* The count turns a request about to count into a use.
LEMMA UseCounted ==
  ASSUME IInv, NEW q \in Requests, Count(q)
  PROVE  EntriesAreKnown'
<1> USE DEF IInv
<1>1. entered' = entered /\ aborts' = aborts /\ overlap' = overlap
  BY DEF Count, End, counters
<1>2. \A i \in Invites : Counting(i)' = Counting(i) \ {q}
  BY DEF Count, End, NoJob, Counting, Types, TypeOK
<1>3. \A i \in Invites : uses'[i] = IF i = job[q].inv THEN uses[i] + 1 ELSE uses[i]
  BY DEF Count, Types, TypeOK
<1>4. SUFFICES ASSUME NEW i \in Invites
               PROVE  /\ aborts = 0 => entered[i] <= uses'[i] + Cardinality(Counting(i)')
                      /\ ~overlap => uses'[i] + Cardinality(Counting(i)') <= entered[i]
  BY <1>1 DEF EntriesAreKnown
<1>5. Counting(i) \subseteq Requests
  BY DEF Counting
<1>6. IsFiniteSet(Counting(i)) /\ Cardinality(Counting(i)) \in Nat
  BY <1>5, RequestSets
<1>7. uses[i] \in Nat /\ entered[i] \in Nat
  BY DEF Types, TypeOK
<1>8. Cardinality(Counting(i)') =
        IF q \in Counting(i) THEN Cardinality(Counting(i)) - 1 ELSE Cardinality(Counting(i))
  BY <1>2, <1>6, FS_RemoveElement
<1>9. q \in Counting(i) <=> i = job[q].inv
  BY DEF Count, Counting
<1>10. uses'[i] + Cardinality(Counting(i)') = uses[i] + Cardinality(Counting(i))
  BY <1>3, <1>6, <1>7, <1>8, <1>9
<1> QED
  BY <1>10 DEF EntriesAreKnown

\* Entries are counted by every step.
LEMMA EntriesStep ==
  ASSUME IInv, [Next]_vars
  PROVE  EntriesAreKnown'
<1> USE DEF IInv
<1>1. CASE Calm
  BY <1>1, EntriesKept DEF Calm, Latched
<1>2. ASSUME NEW q \in Requests, NEW u \in Users, NEW j \in Invites, Redeem(q, u, j)
      PROVE  EntriesAreKnown'
  <2>1. \A i \in Invites : Counting(i)' = Counting(i)
    BY <1>2 DEF Redeem, Start, Counting, Types, TypeOK
  <2>2. uses' = uses /\ entered' = entered /\ aborts' = aborts /\ (overlap => overlap')
    BY <1>2 DEF Redeem, Start, invites, counters
  <2> QED
    BY <2>1, <2>2, EntriesKept
<1>3. ASSUME NEW q \in Requests, Insert(q)
      PROVE  EntriesAreKnown'
  <2>1. \A i \in Invites : Counting(i)' = Counting(i)
    BY <1>3 DEF Insert, End, Counting, Types, TypeOK
  <2>2. uses' = uses /\ entered' = entered /\ aborts' = aborts /\ (overlap => overlap')
    BY <1>3 DEF Insert, End, counters
  <2> QED
    BY <2>1, <2>2, EntriesKept
<1>4. ASSUME NEW q \in Requests, Abort(q)
      PROVE  EntriesAreKnown'
  <2>1. aborts' # 0 /\ uses' = uses /\ entered' = entered /\ overlap' = overlap
    BY <1>4 DEF Abort, End, invites, Types, TypeOK
  <2>2. SUFFICES ASSUME NEW i \in Invites, ~overlap
                 PROVE  uses[i] + Cardinality(Counting(i)') <= entered[i]
    BY <2>1 DEF EntriesAreKnown
  <2>3. Counting(i)' \subseteq Counting(i) /\ Counting(i) \subseteq Requests
    BY <1>4 DEF Abort, End, NoJob, Counting, Types, TypeOK
  <2>4. /\ Cardinality(Counting(i)) \in Nat /\ Cardinality(Counting(i)') \in Nat
        /\ Cardinality(Counting(i)') <= Cardinality(Counting(i))
    BY <2>3, RequestSets, RequestSubsets
  <2>5. uses[i] \in Nat /\ entered[i] \in Nat
    BY DEF Types, TypeOK
  <2>6. uses[i] + Cardinality(Counting(i)) <= entered[i]
    BY <2>2 DEF EntriesAreKnown
  <2> QED
    BY <2>4, <2>5, <2>6
<1>5. ASSUME NEW q \in Requests, Begin(q)
      PROVE  EntriesAreKnown'
  BY <1>1, <1>2, <1>5, BeginIsCalm
<1>6. ASSUME NEW q \in Requests, Step(q)
      PROVE  EntriesAreKnown'
  <2>1. CASE NewRow(q) /\ status[job[q].who] = "none"
    BY <2>1, EntryCounted DEF NewRow
  <2>2. CASE Reactivate(q)
    BY <2>2, EntryCounted DEF Reactivate, AloneFound, Found
  <2> QED
    BY <1>1, <1>3, <1>6, <2>1, <2>2, ReadsAreCalm, UseCounted DEF Step
<1>7. CASE (\E i \in Invites : Expire(i)) \/ UNCHANGED vars
  BY <1>1, <1>7, TimeIsCalm
<1> QED
  BY <1>4, <1>5, <1>6, <1>7 DEF Next

-----------------------------------------------------------------------------
(***************************************************************************)
(* While no two requests overlap                                           *)
(***************************************************************************)
\* A beginning is the request's own, and latches overlap.
LEMMA BeginFrame ==
  ASSUME Types, NEW q \in Requests, Begin(q)
  PROVE  /\ pc[q] = "idle"
         /\ overlap' = (overlap \/ Busy)
         /\ \A p \in Requests \ {q} : pc'[p] = pc[p] /\ job'[p] = job[p]
  BY DEF Begin, CreateLink, CreateTargeted, Join, Depart, Redeem, Revoke, SetPolicy,
         SoftDelete, Start, AtOnce, Types, TypeOK

\* A later statement, or its failure, is the request's own too.
LEMMA StepFrame ==
  ASSUME Types, NEW q \in Requests, Step(q) \/ Abort(q)
  PROVE  /\ pc[q] # "idle"
         /\ overlap' = overlap
         /\ \A p \in Requests \ {q} : pc'[p] = pc[p] /\ job'[p] = job[p]
<1> USE DEF Types, TypeOK, GotoIf, Goto, End
<1>1. CASE TargetMember(q) \/ Duplicate(q)
  BY <1>1 DEF TargetMember, Duplicate
<1>2. CASE Insert(q) \/ Count(q)
  BY <1>2 DEF Insert, Count
<1>3. CASE Clan(q) \/ Member(q)
  BY <1>3 DEF Clan, Member
<1>4. CASE NewRow(q)
  BY <1>4 DEF NewRow, Enter
<1>5. CASE Reactivate(q)
  BY <1>5 DEF Reactivate, Enter
<1>6. CASE Abort(q)
  BY <1>6 DEF Abort
<1> QED
  BY <1>1, <1>2, <1>3, <1>4, <1>5, <1>6 DEF Step

\* As long as overlap is not latched, one request is in flight.
LEMMA SoloStep ==
  ASSUME Types, Solo, [Next]_vars
  PROVE  Solo'
<1>1. ASSUME NEW q \in Requests, Begin(q) PROVE Solo'
  BY <1>1, BeginFrame DEF Solo, Busy
<1>2. ASSUME NEW q \in Requests, Step(q) \/ Abort(q) PROVE Solo'
  BY <1>2, StepFrame DEF Solo
<1>3. CASE (\E i \in Invites : Expire(i)) \/ UNCHANGED vars
  <2>1. pc' = pc /\ overlap' = overlap
    BY <1>3 DEF Expire, vars
  <2> QED
    BY <2>1 DEF Solo
<1> QED
  BY <1>1, <1>2, <1>3 DEF Next

\* What a request has found when it has just begun.
LEMMA FoundAtFirst ==
  ASSUME Types, NEW q \in Requests, Begin(q)
  PROVE  Found(q)'
<1> USE DEF Types, TypeOK, Found, Start, AtOnce, invites, clan
<1>1. ASSUME NEW n \in Limits \cup {None}, CreateLink(q, n) PROVE Found(q)'
  BY <1>1 DEF CreateLink
<1>2. ASSUME NEW u \in Users, CreateTargeted(q, u) PROVE Found(q)'
  BY <1>2 DEF CreateTargeted
<1>3. ASSUME NEW u \in Users, Join(q, u) PROVE Found(q)'
  BY <1>3 DEF Join
<1>4. ASSUME NEW u \in Users, NEW i \in Invites, Redeem(q, u, i) PROVE Found(q)'
  BY <1>4 DEF Redeem, Redeemable
<1>5. CASE pc'[q] = "idle"
  BY <1>5
<1>6. ASSUME NEW u \in Users, Depart(q, u) PROVE pc'[q] = "idle"
  BY <1>6 DEF Depart
<1>7. ASSUME NEW i \in Invites, Revoke(q, i) PROVE pc'[q] = "idle"
  BY <1>7 DEF Revoke
<1>8. ASSUME NEW p \in Policies, SetPolicy(q, p) PROVE pc'[q] = "idle"
  BY <1>8 DEF SetPolicy
<1>9. CASE SoftDelete(q)
  BY <1>9 DEF SoftDelete
<1> HIDE DEF Found
<1> QED
  BY <1>1, <1>2, <1>3, <1>4, <1>5, <1>6, <1>7, <1>8, <1>9 DEF Begin

\* What it has found after a later statement.
LEMMA FoundNext ==
  ASSUME Types, NEW q \in Requests, Found(q), Step(q) \/ Abort(q)
  PROVE  Found(q)'
<1> USE DEF Types, TypeOK, invites, clan, counters
<1>1. CASE pc'[q] \in {"idle", "duplicate", "count"}
  BY <1>1 DEF Found
<1>2. CASE TargetMember(q) \/ Insert(q) \/ Count(q)
  BY <1>1, <1>2 DEF TargetMember, Insert, Count, GotoIf, Goto, End
<1>3. CASE Duplicate(q)
  <2>1. CASE pc'[q] = "idle"
    BY <1>1, <2>1
  <2>2. CASE pc'[q] # "idle"
    <3>1. pc'[q] = "insert" /\ job' = job /\ UNCHANGED <<made, revoked, target>>
      BY <1>3, <2>2 DEF Duplicate, GotoIf, Goto, End
    <3>2. job[q].who \in Users
      BY <1>3 DEF Duplicate, JobsAreKnown
    <3>3. OpenFor(job[q].who) = {}
      BY <1>3, <2>2, <3>2 DEF Duplicate, GotoIf, Goto, End, OpenFor
    <3> QED
      BY <3>1, <3>3 DEF Found, OpenFor
  <2> QED
    BY <2>1, <2>2
<1>4. CASE Clan(q)
  <2>1. CASE pc'[q] = "idle"
    BY <1>1, <2>1
  <2>2. CASE pc'[q] # "idle"
    BY <1>4, <2>2 DEF Clan, GotoIf, Goto, End, Found
  <2> QED
    BY <2>1, <2>2
<1>5. CASE Member(q)
  <2>1. CASE pc'[q] = "idle"
    BY <1>1, <2>1
  <2>2. CASE pc'[q] # "idle"
    BY <1>5, <2>2 DEF Member, GotoIf, Goto, End, Found
  <2> QED
    BY <2>1, <2>2
<1>6. CASE NewRow(q)
  BY <1>1, <1>6 DEF NewRow, Enter, GotoIf, Goto, End
<1>7. CASE Reactivate(q)
  BY <1>1, <1>7 DEF Reactivate, Enter, GotoIf, Goto, End
<1>8. CASE Abort(q)
  BY <1>1, <1>8 DEF Abort, End
<1> QED
  BY <1>2, <1>3, <1>4, <1>5, <1>6, <1>7, <1>8 DEF Step

\* Nobody but the request itself changes what it has found.
LEMMA AloneFoundStep ==
  ASSUME Types, Solo, AloneFound, [Next]_vars
  PROVE  AloneFound'
<1>1. ASSUME NEW p \in Requests, pc'[p] = "idle" PROVE Found(p)'
  BY <1>1 DEF Found
<1>2. ASSUME NEW q \in Requests, Begin(q), ~overlap' PROVE \A p \in Requests : Found(p)'
  <2>1. \A p \in Requests \ {q} : pc'[p] = "idle"
    BY <1>2, BeginFrame DEF Busy
  <2> QED
    BY <1>1, <1>2, <2>1, FoundAtFirst
<1>3. ASSUME NEW q \in Requests, Step(q) \/ Abort(q), ~overlap'
      PROVE  \A p \in Requests : Found(p)'
  <2>1. ~overlap /\ \A p \in Requests \ {q} : pc'[p] = "idle"
    BY <1>3, StepFrame DEF Solo
  <2>2. Found(q)
    BY <2>1 DEF AloneFound
  <2> QED
    BY <1>1, <1>3, <2>1, <2>2, FoundNext
<1>4. ASSUME (\E i \in Invites : Expire(i)) \/ UNCHANGED vars, ~overlap'
      PROVE  \A p \in Requests : Found(p)'
  <2>1. UNCHANGED <<made, target, limit, uses, revoked, status, policy, deleted, pc, job, overlap>>
    BY <1>4 DEF Expire, clan, vars
  <2>2. \A p \in Requests : Found(p)
    BY <1>4, <2>1 DEF AloneFound
  <2> QED
    BY <2>1, <2>2 DEF Found, OpenFor
<1> QED
  BY <1>2, <1>3, <1>4 DEF Next, AloneFound

\* A second open invite for a user is never inserted.
LEMMA OneOpenStep ==
  ASSUME IInv, [Next]_vars
  PROVE  OneOpen'
<1> USE DEF IInv, Types, TypeOK
<1>1. ASSUME overlap => overlap', \A u \in Users : OpenFor(u)' \subseteq OpenFor(u)
      PROVE  OneOpen'
  BY <1>1 DEF OneOpen
<1>2. ASSUME NEW q \in Requests, Begin(q) PROVE OneOpen'
  <2>1. \A u \in Users : OpenFor(u)' \subseteq OpenFor(u)
    BY <1>2 DEF Begin, CreateLink, CreateTargeted, Join, Depart, Redeem, Revoke,
                SetPolicy, SoftDelete, invites, OpenFor
  <2> QED
    BY <1>1, <1>2, <2>1, BeginFrame
<1>3. ASSUME NEW q \in Requests, Step(q) \/ Abort(q), ~Insert(q) PROVE OneOpen'
  <2>1. UNCHANGED <<made, target, revoked>>
    BY <1>3 DEF Step, Abort, TargetMember, Duplicate, Clan, Member, NewRow, Reactivate,
                Enter, Count, invites
  <2>2. overlap' = overlap
    BY <1>3, StepFrame
  <2> QED
    BY <1>1, <2>1, <2>2 DEF OpenFor
<1>4. ASSUME NEW q \in Requests, Insert(q) PROVE OneOpen'
  <2>1. SUFFICES ASSUME ~overlap, NEW u \in Users, NEW i \in OpenFor(u)', NEW j \in OpenFor(u)'
                 PROVE  i = j
    BY <1>4 DEF OneOpen, Insert, End
  <2>2. PICK k \in Invites \ made :
          /\ made' = made \cup {k}
          /\ target' = [target EXCEPT ![k] = job[q].who]
          /\ revoked' = revoked
    BY <1>4 DEF Insert
  <2>3. CASE u = job[q].who
    <3>1. OpenFor(u) = {}
      BY <1>4, <2>1, <2>3 DEF Insert, AloneFound, Found
    <3> QED
      BY <2>2, <3>1 DEF OpenFor
  <2>4. CASE u # job[q].who
    <3>1. i \in OpenFor(u) /\ j \in OpenFor(u)
      BY <2>2, <2>4 DEF OpenFor
    <3> QED
      BY <2>1, <3>1 DEF OneOpen
  <2> QED
    BY <2>3, <2>4
<1>5. CASE (\E i \in Invites : Expire(i)) \/ UNCHANGED vars
  BY <1>1, <1>5 DEF Expire, vars, OpenFor
<1> QED
  BY <1>2, <1>3, <1>4, <1>5 DEF Next

-----------------------------------------------------------------------------
(***************************************************************************)
(* Theorems                                                                *)
(***************************************************************************)
\* The invariant holds at the start.
LEMMA IInvInit == Init => IInv
<1> SUFFICES ASSUME Init PROVE IInv
  OBVIOUS
<1>1. Types
  BY TypeInit
<1>2. UsesAreBounded /\ Solo /\ AloneFound /\ OneOpen
  BY DEF Init, UsesAreBounded, Solo, AloneFound, Found, OneOpen, OpenFor
<1>3. \A i \in Invites : Counting(i) = {}
  BY DEF Init, Counting
<1>4. \A i \in Invites : Cardinality(Counting(i)) = 0
  BY <1>3, FS_EmptySet
<1>5. EntriesAreKnown
  BY <1>4 DEF Init, EntriesAreKnown
<1> QED
  BY <1>1, <1>2, <1>5 DEF IInv

\* Every step preserves the invariant.
LEMMA IInvStep == IInv /\ [Next]_vars => IInv'
<1> SUFFICES ASSUME IInv, [Next]_vars PROVE IInv'
  OBVIOUS
<1>1. Types'
  BY TypeStep DEF IInv
<1>2. UsesAreBounded'
  BY <1>1, UsesStep
<1>3. EntriesAreKnown'
  BY EntriesStep
<1>4. Solo'
  BY SoloStep DEF IInv
<1>5. AloneFound'
  BY AloneFoundStep DEF IInv
<1>6. OneOpen'
  BY OneOpenStep
<1> QED
  BY <1>1, <1>2, <1>3, <1>4, <1>5, <1>6 DEF IInv

\* The inductive invariant holds in every reachable state.
THEOREM Invariance == Spec => []IInv
  BY IInvInit, IInvStep, PTL DEF Spec

\* Types are kept.
THEOREM TypeCorrect == Spec => []TypeOK
<1>1. IInv => TypeOK
  BY DEF IInv, Types
<1> QED
  BY <1>1, Invariance, PTL

\* The uses of an invite are within what the invariant bounds.
LEMMA BoundFollows == IInv => OverrunIsBounded
<1> SUFFICES ASSUME IInv, NEW i \in made, limit[i] # None
             PROVE  uses[i] <= limit[i] + Spare
  BY DEF OverrunIsBounded, Spare
<1>1. uses[i] \in Nat /\ limit[i] \in Nat
  BY DEF IInv, Types, TypeOK
<1>2. uses[i] + Cardinality(Redeeming(i)) <= limit[i] + Spare
  BY DEF IInv, UsesAreBounded
<1>3. Cardinality(Redeeming(i)) \in Nat
  BY RequestSets DEF Redeeming
<1>4. Spare \in Int
  BY RequestSets DEF Spare
<1> QED
  BY <1>1, <1>2, <1>3, <1>4

\* For any number of concurrent requests, an invite is overrun by at most one
\* use per further request, and by none while no two requests overlap.
THEOREM OverrunBounded == Spec => []OverrunIsBounded
  BY BoundFollows, Invariance, PTL

\* Nobody gets in uncounted, and while no two requests overlap nothing but
\* entries is counted.
THEOREM EntriesCounted == Spec => []EntriesAreCounted
<1>1. IInv => EntriesAreCounted
  <2> SUFFICES ASSUME IInv, NEW i \in made
               PROVE  /\ aborts = 0 => entered[i] <= uses[i] + Cardinality(Counting(i))
                      /\ ~overlap => uses[i] <= entered[i]
    BY DEF EntriesAreCounted
  <2>1. i \in Invites /\ uses[i] \in Nat /\ entered[i] \in Nat
    BY DEF IInv, Types, TypeOK
  <2>2. Cardinality(Counting(i)) \in Nat
    <3>1. Counting(i) \subseteq Requests
      BY DEF Counting
    <3> QED
      BY <3>1, RequestSets
  <2> QED
    BY <2>1, <2>2 DEF IInv, EntriesAreKnown
<1> QED
  BY <1>1, Invariance, PTL

\* While no two requests overlap, no user has two open invites.
THEOREM OneOpenInvite == Spec => []OneOpenInvitePerUser
<1>1. IInv => OneOpenInvitePerUser
  <2> SUFFICES ASSUME IInv, ~overlap, NEW u \in Users
               PROVE  Cardinality(OpenFor(u)) <= 1
    BY DEF OneOpenInvitePerUser
  <2>1. \A i, j \in OpenFor(u) : i = j
    BY DEF IInv, OneOpen
  <2>2. CASE OpenFor(u) = {}
    BY <2>2, FS_EmptySet
  <2>3. CASE OpenFor(u) # {}
    <3>1. PICK i \in OpenFor(u) : TRUE
      BY <2>3
    <3>2. OpenFor(u) = {i}
      BY <2>1, <3>1
    <3>3. Cardinality({i}) = 1
      BY FS_Singleton
    <3> QED
      BY <3>2, <3>3
  <2> QED
    BY <2>2, <2>3
<1> QED
  BY <1>1, Invariance, PTL

\* While no two requests overlap, whoever gets in is allowed to.
THEOREM EntriesWarranted == Spec => EntriesAreWarranted
<1> DEFINE Warranted(q, u) ==
             /\ ~overlap
             /\ pc[q] \in {"newRow", "reactivate"} /\ pc'[q] # pc[q]
             /\ status[u] # "active" /\ status'[u] = "active"
             => /\ ~deleted
                /\ policy # "CLOSED"
                /\ \/ policy = "OPEN" /\ job[q].inv = None
                   \/ \E i \in made \ revoked :
                        /\ i = job[q].inv
                        /\ target[i] \in {None, u}
                        /\ limit[i] # None => uses[i] < limit[i]
<1>1. ASSUME IInv, [Next]_vars, NEW q \in Requests, NEW u \in Users
      PROVE  Warranted(q, u)
  <2> SUFFICES ASSUME ~overlap, pc[q] \in {"newRow", "reactivate"}, pc'[q] # pc[q],
                      status[u] # "active", status'[u] = "active"
               PROVE  /\ ~deleted
                      /\ policy # "CLOSED"
                      /\ \/ policy = "OPEN" /\ job[q].inv = None
                         \/ \E i \in made \ revoked :
                              /\ i = job[q].inv
                              /\ target[i] \in {None, u}
                              /\ limit[i] # None => uses[i] < limit[i]
    OBVIOUS
  <2> USE DEF IInv, Types, TypeOK
  <2>1. PICK p \in Requests : Begin(p) \/ Step(p) \/ Abort(p)
    BY <1>1 DEF Next, Expire, vars
  <2>2. p = q
    BY <1>1, <2>1, BeginFrame, StepFrame
  <2>3. Step(q)
    BY <1>1, <2>1, <2>2, BeginFrame DEF Abort, clan
  <2>4. NewRow(q) \/ Reactivate(q)
    BY <2>3 DEF Step, TargetMember, Duplicate, Insert, Clan, Member, Count
  <2>5. job[q].who = u
    BY <1>1, <2>4 DEF NewRow, Reactivate, Enter, clan
  <2>6. Found(q)
    BY <1>1 DEF AloneFound
  <2> QED
    BY <2>5, <2>6 DEF Found
<1>2. IInv /\ [Next]_vars => \A q \in Requests, u \in Users : Warranted(q, u)
  BY <1>1
<1> QED
  BY <1>2, Invariance, PTL DEF Spec, EntriesAreWarranted

-----------------------------------------------------------------------------
(***************************************************************************)
(* What the pages offer                                                    *)
(***************************************************************************)
\* An invite by name has no limit, and neither has one that is being made.
NamedAreUnlimited ==
    /\ \A i \in made : target[i] # None => limit[i] = None
    /\ \A q \in Requests : pc[q] \in Creating => job[q].who = None \/ job[q].limit = None

\* Limits are given to links only.
LEMMA NamedStep ==
  ASSUME Types, NamedAreUnlimited, [Next]_vars
  PROVE  NamedAreUnlimited'
<1> USE DEF NamedAreUnlimited, Types, TypeOK, Creating, invites, clan, counters
<1>1. ASSUME NEW q \in Requests, Begin(q)
      PROVE  NamedAreUnlimited'
  <2> USE DEF Start, AtOnce
  <2>1. ASSUME NEW n \in Limits \cup {None}, CreateLink(q, n) PROVE NamedAreUnlimited'
    BY <2>1 DEF CreateLink
  <2>2. ASSUME NEW u \in Users, CreateTargeted(q, u) PROVE NamedAreUnlimited'
    BY <2>2 DEF CreateTargeted
  <2>3. ASSUME NEW u \in Users, Join(q, u) \/ Depart(q, u) PROVE NamedAreUnlimited'
    BY <2>3 DEF Join, Depart
  <2>4. ASSUME NEW u \in Users, NEW i \in Invites, Redeem(q, u, i) PROVE NamedAreUnlimited'
    BY <2>4 DEF Redeem
  <2>5. ASSUME NEW i \in Invites, Revoke(q, i) PROVE NamedAreUnlimited'
    BY <2>5 DEF Revoke
  <2>6. CASE SoftDelete(q) \/ \E p \in Policies : SetPolicy(q, p)
    BY <2>6 DEF SoftDelete, SetPolicy
  <2> HIDE DEF NamedAreUnlimited
  <2> QED
    BY <1>1, <2>1, <2>2, <2>3, <2>4, <2>5, <2>6 DEF Begin
<1>2. ASSUME NEW q \in Requests, Step(q)
      PROVE  NamedAreUnlimited'
  <2> USE DEF GotoIf, Goto, End, NoJob
  <2>1. CASE TargetMember(q) \/ Duplicate(q)
    BY <2>1 DEF TargetMember, Duplicate
  <2>2. CASE Insert(q)
    BY <2>2 DEF Insert
  <2>3. CASE Clan(q) \/ Member(q)
    BY <2>3 DEF Clan, Member
  <2>4. CASE NewRow(q) \/ Reactivate(q)
    BY <2>4 DEF NewRow, Reactivate, Enter
  <2>5. CASE Count(q)
    BY <2>5 DEF Count
  <2> HIDE DEF NamedAreUnlimited
  <2> QED
    BY <1>2, <2>1, <2>2, <2>3, <2>4, <2>5 DEF Step
<1>3. ASSUME NEW q \in Requests, Abort(q)
      PROVE  NamedAreUnlimited'
  BY <1>3 DEF Abort, End, NoJob
<1>4. ASSUME NEW i \in Invites, Expire(i)
      PROVE  NamedAreUnlimited'
  BY <1>4 DEF Expire
<1>5. CASE UNCHANGED vars
  BY <1>5 DEF vars
<1> HIDE DEF NamedAreUnlimited
<1> QED
  BY <1>1, <1>2, <1>3, <1>4, <1>5 DEF Next

\* So an invite by name lets its user in until it is revoked or its clan is
\* deleted.
LEMMA NamedLetIn ==
  ASSUME Types, NamedAreUnlimited, NEW i \in made \ revoked, target[i] # None, ~deleted
  PROVE  OffersJoin(i)
<1>1. i \notin expired /\ limit[i] = None
  BY DEF Types, TypeOK, NamedAreUnlimited
<1> QED
  BY <1>1 DEF OffersJoin, Preview, Redeemable

\* A statement that refuses what was offered does so for one of the reasons
\* the pages do not look at.
LEMMA RefusedInVain ==
  ASSUME IInv, NamedAreUnlimited, [Next]_vars, ~overlap, NEW q \in Requests, Offered(q), Refuses(q)
  PROVE  InVain(q)
<1> USE DEF IInv
<1>1. pc[q] # "idle" /\ pc'[q] = "idle" /\ aborts' = aborts /\ status' = status
  BY DEF Refuses
<1>2. PICK p \in Requests : Begin(p) \/ Step(p) \/ Abort(p)
  BY <1>1 DEF Next, Expire, vars
<1>3. p = q
  BY <1>1, <1>2, BeginFrame, StepFrame
<1>4. Step(q)
  BY <1>1, <1>2, <1>3, BeginFrame DEF Abort, Types, TypeOK
<1>5. Found(q)
  BY DEF AloneFound
<1>6. pc[q] \in {"targetMember", "duplicate"} => job[q].who \in Users
  BY DEF Types, JobsAreKnown
<1>7. ASSUME NEW label, Goto(q, label)
      PROVE  label = "idle"
  BY <1>1, <1>7 DEF Goto, Types, TypeOK
<1>8. CASE TargetMember(q)
  BY <1>7, <1>8 DEF TargetMember, GotoIf, InVain, Creating
<1>9. CASE Duplicate(q)
  <2>1. PICK i \in OpenFor(job[q].who) : TRUE
    BY <1>7, <1>9 DEF Duplicate
  <2>2. ~deleted
    BY <1>9 DEF Duplicate, Offered, OffersCreation, Admitting
  <2>3. i \in made \ revoked /\ target[i] # None
    BY <1>6, <1>9, <2>1 DEF Duplicate, OpenFor
  <2>4. OffersJoin(i)
    BY <2>2, <2>3, NamedLetIn
  <2> QED
    BY <1>9, <2>1, <2>4 DEF Duplicate, InVain, Creating
<1>10. CASE Clan(q)
  <2>1. job[q].inv # None /\ ~deleted
    BY <1>10 DEF Clan, Offered, Creating, OffersJoin, Preview
  <2>2. policy \notin {"OPEN", "INVITE_ONLY"}
    BY <1>7, <1>10, <2>1 DEF Clan, GotoIf
  <2> QED
    BY <1>10, <2>2 DEF Clan, InVain, Creating, Types, TypeOK, Policies
<1>11. CASE Member(q)
  <2>1. (IF status[job[q].who] = "none" THEN "newRow" ELSE "reactivate") # "idle"
    OBVIOUS
  <2> QED
    BY <1>7, <1>11, <2>1 DEF Member, GotoIf, InVain, Creating
<1>12. CASE NewRow(q)
  <2>1. job[q].inv # None
    BY <1>12 DEF NewRow, Offered, Creating
  <2>2. status[job[q].who] = "none"
    BY <1>5, <1>12 DEF NewRow, Found
  <2> QED
    BY <1>7, <1>12, <2>1, <2>2 DEF NewRow, Enter, GotoIf
<1> QED
  BY <1>4, <1>8, <1>9, <1>10, <1>11, <1>12
     DEF Step, Refuses, Insert, Reactivate, Count

\* While no two requests overlap, what the client offers about invites works,
\* but for what its pages do not look at; links lead to a page to join by
\* until they expire or are used up, and the code of an invite by name does.
THEOREM OffersAccepted == Spec => OffersAreAccepted
<1>1. ASSUME IInv, NamedAreUnlimited, ~overlap, NEW i \in Invites, OffersCopy(i)
      PROVE  OffersJoin(i) \/ i \in expired \/ uses[i] = limit[i]
  <2>1. i \in made \ revoked /\ ~deleted
    BY <1>1 DEF OffersCopy, List
  <2>2. uses[i] \in Nat /\ (limit[i] # None => limit[i] \in Nat)
    BY <1>1 DEF IInv, Types, TypeOK
  <2>3. limit[i] # None => uses[i] <= limit[i]
    BY <1>1, <2>1, <2>2, BoundFollows DEF OverrunIsBounded
  <2> QED
    BY <2>1, <2>2, <2>3 DEF OffersJoin, Preview, Redeemable
<1>2. ASSUME IInv, NamedAreUnlimited, NEW i \in List, SentTo(i) # {}
      PROVE  OffersJoin(i)
  BY <1>2, NamedLetIn DEF List, SentTo, IInv
<1>3. IInv /\ NamedAreUnlimited /\ [Next]_vars =>
        [~overlap =>
           /\ \A q \in Requests : Offered(q) /\ Refuses(q) => InVain(q)
           /\ \A i \in Invites : OffersCopy(i) =>
                OffersJoin(i) \/ i \in expired \/ uses[i] = limit[i]
           /\ \A i \in List : SentTo(i) # {} => OffersJoin(i)]_vars
  BY <1>1, <1>2, RefusedInVain
<1>4. Init => NamedAreUnlimited
  BY DEF Init, NamedAreUnlimited, Creating
<1>5. IInv /\ NamedAreUnlimited /\ [Next]_vars => NamedAreUnlimited'
  BY NamedStep DEF IInv
<1> QED
  BY <1>3, <1>4, <1>5, Invariance, PTL DEF Spec, OffersAreAccepted
=============================================================================
