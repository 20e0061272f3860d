--------------------------- MODULE Events_proofs ---------------------------
(***************************************************************************)
(* Proofs about Events and EventOffers, for any clans, users, events,      *)
(* invites and number of requests in flight.                               *)
(***************************************************************************)
EXTENDS EventOffers, FiniteSetTheorems, TLAPS

USE PeopleAssumption, IdsAssumption, FormsAssumption, BoundsAssumption, NoneAssumption

\* The statements that follow the lookup of an event of the route's clan.
Inside == {"confirm", "drop", "readers", "delete", "targetEntry", "duplicate", "insert"}

\* What a request about to run the statement label keeps in its locals.
JobOK(label, j) ==
    /\ j \in Jobs
    /\ event[j.event] # None
    /\ label \in {"register", "leave", "update"} => j.op = label
    /\ label = "find" => j.op \in Managing \ {"update"}
    /\ label = "confirm" => j.op = "approve"
    /\ label = "drop" => j.op = "reject"
    /\ label \in {"readers", "delete"} => j.op = "cancel"
    /\ label \in {"targetEntry", "duplicate"} => j.op = "invite"
    /\ label \in {"open", "count"} => j.op = "redeem"
    /\ label \in {"present", "enter"} => j.op \in {"register", "redeem"}
    /\ j.op \in {"approve", "reject", "invite"} => j.who \in Users
    /\ j.op = "update" => j.set # None
    /\ j.op = "redeem" <=> j.inv # None
    /\ j.inv # None => invite[j.inv] # None /\ invite[j.inv].event = j.event
    /\ label \in Inside => event[j.event].organizer = j.clan

Labels == Operations \cup Statements
JobsAreKnown == \A q \in Requests : pc[q] # "idle" => JobOK(pc[q], job[q])

\* Codes nobody has yet are not used.
UnmadeAreUnused == \A i \in Invites : invite[i] = None => uses[i] = 0

Types == TypeOK /\ JobsAreKnown /\ UnmadeAreUnused

-----------------------------------------------------------------------------
(***************************************************************************)
(* Types and locals                                                        *)
(***************************************************************************)
\* Rows are never taken back, and an event never changes hands.
RowsStay ==
    /\ \A e \in Events : event[e] # None =>
         event'[e] # None /\ event'[e].organizer = event[e].organizer
    /\ \A i \in Invites : invite[i] # None => invite'[i] = invite[i]

\* Then locals that were right stay right.
LEMMA JobStays ==
  ASSUME RowsStay, NEW label, NEW j, JobOK(label, j)
  PROVE  JobOK(label, j)'
<1>1. j \in Jobs /\ j.event \in Events
  BY DEF JobOK, Jobs
<1>2. event'[j.event] # None /\ event'[j.event].organizer = event[j.event].organizer
  BY <1>1 DEF JobOK, RowsStay
<1>3. j.inv # None => j.inv \in Invites /\ invite'[j.inv] = invite[j.inv]
  BY <1>1 DEF JobOK, RowsStay, Jobs
<1> QED
  BY <1>2, <1>3 DEF JobOK

\* A request goes on, or ends; the others keep their locals.
LEMMA JobsStay ==
  ASSUME Types, RowsStay, NEW q \in Requests, NEW label, NEW j,
         label = "idle" \/ JobOK(label, j)',
         pc' = [pc EXCEPT ![q] = label], job' = [job EXCEPT ![q] = j]
  PROVE  JobsAreKnown'
<1> SUFFICES ASSUME NEW p \in Requests, NEW l, NEW k, l = pc'[p], k = job'[p], l # "idle"
             PROVE  JobOK(l, k)'
  BY DEF JobsAreKnown, JobOK
<1>1. CASE p = q
  BY <1>1 DEF Types, TypeOK
<1>2. CASE p # q
  <2>1. l = pc[p] /\ k = job[p]
    BY <1>2 DEF Types, TypeOK
  <2>2. JobOK(l, k)
    BY <2>1 DEF Types, JobsAreKnown, JobOK
  <2> QED
    BY <2>2, JobStays
<1> QED
  BY <1>1, <1>2

\* The locals of a request that goes on, or ends.
Locals == /\ pc' \in [Requests -> {"idle"} \cup Operations \cup Statements]
          /\ job' \in [Requests -> Jobs \cup {None}]
          /\ JobsAreKnown'

\* A request that goes on with locals that fit its next statement.
LEMMA Advance ==
  ASSUME Types, RowsStay, NEW q \in Requests, NEW label \in Labels, NEW j, JobOK(label, j),
         pc' = [pc EXCEPT ![q] = label], job' = [job EXCEPT ![q] = j]
  PROVE  Locals
<1>1. JobOK(label, j)'
  BY JobStays
<1>2. JobsAreKnown'
  BY <1>1, JobsStay
<1>3. j \in Jobs
  BY DEF JobOK
<1> QED
  BY <1>2, <1>3 DEF Types, TypeOK, Labels, Locals

\* A request that ends.
LEMMA Return ==
  ASSUME Types, RowsStay, NEW q \in Requests, End(q)
  PROVE  Locals
<1>1. JobsAreKnown'
  BY JobsStay DEF End, Proceed
<1> QED
  BY <1>1 DEF Types, TypeOK, End, Proceed, Locals

\* Goto leaves the locals of q as they are.
LEMMA Onward ==
  ASSUME Types, RowsStay, NEW q \in Requests, pc[q] # "idle", NEW label \in Labels,
         JobOK(label, job[q]), Goto(q, label)
  PROVE  Locals
<1>1. PICK j : j = job[q]
  OBVIOUS
<1>2. JobOK(label, j)
  BY <1>1 DEF JobOK
<1> QED
  BY <1>1, <1>2, Advance DEF Goto, Proceed

\* A step that leaves all requests where they are.
LEMMA Unmoved ==
  ASSUME Types, RowsStay, pc' = pc, job' = job
  PROVE  Locals
<1>1. SUFFICES ASSUME NEW q \in Requests, NEW l, NEW k, l = pc'[q], k = job'[q], l # "idle"
               PROVE  JobOK(l, k)'
  BY DEF JobsAreKnown, JobOK, Locals, Types, TypeOK
<1>2. JobOK(l, k)
  BY <1>1 DEF Types, JobsAreKnown, JobOK
<1> QED
  BY <1>2, JobStays

\* The rest of the types.
Data ==
    /\ members \in [Clans -> SUBSET Users]
    /\ event \in [Events -> EventRows \cup {None}]
    /\ cancelled \subseteq {e \in Events : event[e] # None}
    /\ entry \in [Events -> [Users -> Statuses \cup {None}]]
    /\ \A e \in Events, u \in Users : entry[e][u] # None => event[e] # None
    /\ invite \in [Invites -> InviteRows \cup {None}]
    /\ \A i \in Invites : invite[i] # None => event[invite[i].event] # None
    /\ uses \in [Invites -> Nat]
    /\ expired \cup revoked \subseteq {i \in Invites : invite[i] # None}
    /\ notices \subseteq Notices
    /\ UnmadeAreUnused

Counters == overlap \in BOOLEAN /\ begun \in 0..MaxRequests /\ upsets \in 0..MaxUpsets

\* The invariant in the parts that the steps disturb.
LEMMA TypeParts == Types <=> Data /\ Counters /\ JobsAreKnown
                             /\ pc \in [Requests -> {"idle"} \cup Operations \cup Statements]
                             /\ job \in [Requests -> Jobs \cup {None}]
  BY DEF Types, TypeOK, Data, Counters

\* The parts make up the invariant after a step.
LEMMA TypePartsNext ==
  ASSUME Data', Counters', Locals
  PROVE  Types'
  BY DEF Types, TypeOK, Data, Counters, Locals

\* Nothing is wrong in the empty database.
LEMMA TypeInit == Init => Types
<1> SUFFICES ASSUME Init PROVE Types
  OBVIOUS
<1>1. JobsAreKnown /\ UnmadeAreUnused
  BY DEF Init, JobsAreKnown, UnmadeAreUnused
<1>2. overlap \in BOOLEAN
  BY DEF Init
<1>4. begun \in 0..MaxRequests /\ upsets \in 0..MaxUpsets
  BY DEF Init
<1>3. members \in [Clans -> SUBSET Users]
  BY DEF Init
<1> QED
  BY <1>1, <1>2, <1>3, <1>4 DEF Init, Types, TypeOK

\* Steps that read.
Reading == UNCHANGED <<world, events, entry, invites, notices, overlap, begun>>

\* They keep the data.
LEMMA ReadingKeeps ==
  ASSUME Types, Reading
  PROVE  Data' /\ Counters' /\ RowsStay
  BY DEF Types, TypeOK, Reading, world, events, invites, Data, Counters, RowsStay, UnmadeAreUnused

\* Creating an event.
LEMMA CreateStep ==
  ASSUME Types, NEW u \in Users, NEW e \in Events, event[e] = None, NEW s \in Settings,
         NEW o \in Organizers, Persist(u, o, e, s)
  PROVE  Types'
<1> DEFINE row == [organizer |-> o, creator |-> u, set |-> s]
<1>1. row \in EventRows /\ row # None
  BY DEF EventRows
<1>2. event' = [event EXCEPT ![e] = row]
  BY DEF Persist
<1> HIDE DEF row
<1>3. RowsStay
  BY <1>1, <1>2 DEF Persist, RowsStay, Types, TypeOK, invites
<1>4. Data'
  BY <1>1, <1>2 DEF Persist, Data, Types, TypeOK, invites, world, UnmadeAreUnused
<1>5. overlap' \in BOOLEAN
  BY DEF Persist, Types, TypeOK, Busy
<1>6. Counters'
  BY <1>5 DEF Persist, Counters, Types, TypeOK, world
<1>7. pc' = pc /\ job' = job
  BY DEF Persist
<1>8. Locals
  BY <1>3, <1>7, Unmoved
<1> QED
  BY <1>4, <1>6, <1>8, TypePartsNext

\* Starting a request.
LEMMA StartStep ==
  ASSUME Types, NEW q \in Requests, begun < MaxRequests,
         NEW label \in Labels, NEW j, JobOK(label, j), Start(q, label, j)
  PROVE  Types'
<1>1. Data' /\ RowsStay
  BY DEF Start, Types, TypeOK, world, events, invites, Data, RowsStay, UnmadeAreUnused
<1>2. overlap' \in BOOLEAN
  BY DEF Start, Open, Types, TypeOK, Busy
<1>3. begun' \in 0..MaxRequests
  BY DEF Start, Open, Types, TypeOK
<1>4. Counters'
  BY <1>2, <1>3 DEF Start, Counters, Types, TypeOK, world
<1>5. Locals
  BY <1>1, Advance DEF Start
<1> QED
  BY <1>1, <1>4, <1>5, TypePartsNext

\* The locals of the requests that start.
LEMMA JobTypes ==
  ASSUME NEW op \in Operations, NEW u \in Users, NEW e \in Events
  PROVE  Job(op, u, e) \in Jobs
  BY DEF Job, Jobs, Statuses

\* Naming a user in the locals.
LEMMA WithWho ==
  ASSUME NEW b, b \in Jobs, NEW t \in Users
  PROVE  [b EXCEPT !.who = t] \in Jobs
  BY DEF Jobs

\* Naming a limit or a change.
LEMMA WithLimit ==
  ASSUME NEW b, b \in Jobs, NEW n \in Limits \cup {None}, NEW k, k = [b EXCEPT !.limit = n]
  PROVE  k \in Jobs /\ k.event = b.event /\ k.op = b.op /\ k.inv = b.inv /\ k.set = b.set
  BY DEF Jobs

LEMMA WithSet ==
  ASSUME NEW b, b \in Jobs, NEW n \in Changes, NEW k, k = [b EXCEPT !.set = n]
  PROVE  k \in Jobs /\ k.event = b.event /\ k.op = b.op /\ k.inv = b.inv /\ k.set = n
  BY DEF Jobs

\* The requests below a clan start with locals that fit.
LEMMA ManagingStep ==
  ASSUME Types, NEW q \in Requests, begun < MaxRequests, NEW u \in Users, NEW c \in Clans,
         NEW e \in Events, event[e] # None, BeginManaging(q, u, c, e)
  PROVE  Types'
<1> USE DEF JobOK, Inside, Labels, Operations, Managing, Statements
<1>0. ASSUME NEW op \in Managing
      PROVE  /\ [Job(op, u, e) EXCEPT !.clan = c] \in Jobs
             /\ [Job(op, u, e) EXCEPT !.clan = c].event = e
             /\ [Job(op, u, e) EXCEPT !.clan = c].op = op
             /\ [Job(op, u, e) EXCEPT !.clan = c].inv = None
  BY <1>0 DEF Job, Jobs, Statuses
<1> DEFINE J(op) == [Job(op, u, e) EXCEPT !.clan = c]
<1>1. ASSUME NEW t \in Users, NEW op \in {"approve", "reject", "invite"},
             Start(q, "find", [J(op) EXCEPT !.who = t])
      PROVE  Types'
  <2>1. PICK k : k = [J(op) EXCEPT !.who = t]
    OBVIOUS
  <2>3. PICK b : b = J(op)
    OBVIOUS
  <2>4. b \in Jobs /\ b.event = e /\ b.op = op /\ b.inv = None
    BY <1>0, <1>1, <2>3
  <2>5. k = [b EXCEPT !.who = t]
    BY <2>1, <2>3
  <2> HIDE DEF J
  <2>7. k \in Jobs
    BY <1>1, <2>4, <2>5, WithWho
  <2>8. k.event = e /\ k.op = op /\ k.inv = None
    BY <1>1, <2>4, <2>5 DEF Jobs
  <2>9. k.who = t
    BY <1>1, <2>4, <2>5 DEF Jobs
  <2>6. k \in Jobs /\ k.event = e /\ k.op = op /\ k.inv = None /\ k.who = t
    BY <2>7, <2>8, <2>9
  <2>2. JobOK("find", k)
    BY <1>1, <2>6
  <2> QED
    BY <1>1, <2>1, <2>2, StartStep DEF J
<1>2. ASSUME NEW n \in Limits \cup {None}, Start(q, "find", [J("link") EXCEPT !.limit = n])
      PROVE  Types'
  <2>1. PICK k : k = [J("link") EXCEPT !.limit = n]
    OBVIOUS
  <2>3. PICK b : b = J("link")
    OBVIOUS
  <2>4. b \in Jobs /\ b.event = e /\ b.op = "link" /\ b.inv = None
    BY <1>0, <2>3
  <2>5. k = [b EXCEPT !.limit = n]
    BY <2>1, <2>3
  <2> HIDE DEF J
  <2>6. k \in Jobs /\ k.event = e /\ k.op = "link" /\ k.inv = None
    BY <2>4, <2>5, WithLimit
  <2>2. JobOK("find", k)
    BY <2>6
  <2> QED
    BY <1>2, <2>1, <2>2, StartStep DEF J
<1>3. ASSUME NEW s \in Changes, Start(q, "update", [J("update") EXCEPT !.set = s])
      PROVE  Types'
  <2>1. PICK k : k = [J("update") EXCEPT !.set = s]
    OBVIOUS
  <2>3. PICK b : b = J("update")
    OBVIOUS
  <2>4. b \in Jobs /\ b.event = e /\ b.op = "update" /\ b.inv = None
    BY <1>0, <2>3
  <2>5. k = [b EXCEPT !.set = s]
    BY <2>1, <2>3
  <2> HIDE DEF J
  <2>6. k \in Jobs /\ k.event = e /\ k.op = "update" /\ k.inv = None /\ k.set = s
    BY <2>4, <2>5, WithSet
  <2>2. JobOK("update", k)
    BY <1>3, <2>6
  <2> QED
    BY <1>3, <2>1, <2>2, StartStep DEF J
<1>4. ASSUME Start(q, "find", J("cancel"))
      PROVE  Types'
  <2>1. JobOK("find", J("cancel"))
    BY <1>0 DEF Jobs
  <2> QED
    BY <1>4, <2>1, StartStep
<1> HIDE DEF JobOK, Inside, Labels, Operations, Managing, Statements
<1> QED
  BY <1>1, <1>2, <1>3, <1>4 DEF BeginManaging, Manage

\* So do all others, or they are done at once.
LEMMA BeginStep ==
  ASSUME Types, NEW q \in Requests, Begin(q)
  PROVE  Types'
<1>1. PICK u \in Users, e \in Events :
        \/ /\ event[e] = None
           /\ \E s \in Settings :
                \/ \E c \in Clans : CreateClan(u, c, e, s)
                \/ \E o \in Orgs : CreateOrg(u, o, e, s)
                \/ CreateSystem(u, e, s)
        \/ /\ event[e] # None
           /\ begun < MaxRequests
           /\ \/ \E c \in Clans : BeginManaging(q, u, c, e)
              \/ Start(q, "register", Job("register", u, e))
              \/ entry[e][u] # None /\ Start(q, "leave", Job("leave", u, e))
              \/ \E i \in Invites :
                   /\ invite[i] # None /\ invite[i].event = e
                   /\ BeginRedeem(q, u, i) \/ \E c \in Clans : Revoke(u, c, i)
  BY Zenon DEF Begin
<1>2. CASE event[e] = None
  BY <1>1, <1>2, CreateStep DEF CreateClan, CreateOrg, CreateSystem, Organizers
<1>3. ASSUME event[e] # None, begun < MaxRequests, NEW c \in Clans, BeginManaging(q, u, c, e)
      PROVE  Types'
  BY <1>3, ManagingStep
<1>4. ASSUME event[e] # None, begun < MaxRequests, NEW l \in {"register", "leave"},
             Start(q, l, Job(l, u, e))
      PROVE  Types'
  <2>1. l \in Labels /\ l \in Operations
    BY DEF Labels, Operations
  <2>2. JobOK(l, Job(l, u, e))
    BY <1>4, <2>1, JobTypes DEF JobOK, Job, Inside
  <2> QED
    BY <1>4, <2>1, <2>2, StartStep
<1>5. ASSUME event[e] # None, begun < MaxRequests, NEW i \in Invites,
             invite[i] # None, invite[i].event = e, BeginRedeem(q, u, i)
      PROVE  Types'
  <2>1. PICK k : k = [Job("redeem", u, e) EXCEPT !.inv = i]
    OBVIOUS
  <2>2. k \in Jobs
    BY <2>1 DEF Job, Jobs, Statuses, Operations
  <2>3. JobOK("open", k)
    BY <1>5, <2>1, <2>2 DEF JobOK, Job, Inside
  <2> QED
    BY <1>5, <2>1, <2>3, StartStep DEF BeginRedeem, Labels, Statements
<1>6. ASSUME begun < MaxRequests, NEW i \in Invites, NEW c \in Clans, Revoke(u, c, i)
      PROVE  Types'
  <2>1. Data' /\ RowsStay
    BY <1>6 DEF Revoke, Types, TypeOK, world, events, Data, RowsStay, UnmadeAreUnused
  <2>2. overlap' \in BOOLEAN
    BY <1>6 DEF Revoke, Open, Types, TypeOK, Busy
  <2>3. begun' \in 0..MaxRequests
    BY <1>6 DEF Revoke, Open, Types, TypeOK
  <2>4. Counters'
    BY <1>6, <2>2, <2>3 DEF Revoke, Counters, Types, TypeOK, world
  <2>5. pc' = pc /\ job' = job
    BY <1>6 DEF Revoke
  <2> QED
    BY <2>1, <2>4, <2>5, Unmoved, TypePartsNext
<1> QED
  BY <1>1, <1>2, <1>3, <1>4, <1>5, <1>6

\* What a statement adds to the locals leaves the rest of them alone.
Same(j, k) ==
    /\ k.op = j.op /\ k.by = j.by /\ k.clan = j.clan /\ k.event = j.event
    /\ k.who = j.who /\ k.inv = j.inv /\ k.limit = j.limit /\ k.set = j.set

\* The organizers of the sender are kept, ...
LEMMA WithMine ==
  ASSUME NEW j \in Jobs, NEW S \in SUBSET Organizers
  PROVE  LET k == [j EXCEPT !.mine = S] IN k \in Jobs /\ Same(j, k)
  BY DEF Jobs, Same

\* ... the status that register found, ...
LEMMA WithStatus ==
  ASSUME NEW j \in Jobs, NEW S \in SUBSET Organizers, NEW st \in Statuses
  PROVE  LET k == [j EXCEPT !.mine = S, !.status = st] IN k \in Jobs /\ Same(j, k)
  BY DEF Jobs, Same

\* ... and the readers of cancel.
LEMMA WithReaders ==
  ASSUME NEW j \in Jobs, NEW S \in SUBSET Users
  PROVE  LET k == [j EXCEPT !.readers = S] IN k \in Jobs /\ Same(j, k)
  BY DEF Jobs, Same

\* Such locals fit the same statements.
LEMMA JobLike ==
  ASSUME NEW label, NEW j, NEW k, JobOK(label, j), k \in Jobs, Same(j, k)
  PROVE  JobOK(label, k)
  BY DEF JobOK, Same

\* OrganizersOf finds organizers.
LEMMA OrganizersTyped ==
  ASSUME NEW u
  PROVE  OrganizersOf(u) \in SUBSET Organizers
  BY DEF OrganizersOf, Organizers

\* Statements that only read and then go on or end.
LEMMA ReadingStep ==
  ASSUME Types, NEW q \in Requests, UNCHANGED <<world, events, entry, invites, notices>>,
         \/ End(q)
         \/ \E label, k : label \in Labels /\ JobOK(label, k) /\ Proceed(q, label, k)
  PROVE  Types'
<1>1. Reading
  BY DEF Reading, End, Proceed
<1>2. Data' /\ Counters' /\ RowsStay
  BY <1>1, ReadingKeeps
<1>3. CASE End(q)
  BY <1>2, <1>3, Return, TypePartsNext
<1>4. ASSUME NEW label \in Labels, NEW k, JobOK(label, k), Proceed(q, label, k)
      PROVE  Types'
  <2>1. Locals
    BY <1>2, <1>4, Advance DEF Proceed
  <2> QED
    BY <1>2, <2>1, TypePartsNext
<1> QED
  BY <1>3, <1>4

\* register reads the event.
LEMMA RegisterStep ==
  ASSUME Types, NEW q \in Requests, Register(q)
  PROVE  Types'
<1>1. PICK j : j = job[q]
  OBVIOUS
<1>2. JobOK("register", j) /\ j \in Jobs
  BY <1>1 DEF Register, Types, JobsAreKnown, JobOK
<1>3. PICK S : S = OrganizersOf(j.by)
  OBVIOUS
<1>4. PICK st : st = IF event[j.event].set.approval THEN "PENDING" ELSE "CONFIRMED"
  OBVIOUS
<1>5. st \in Statuses
  BY <1>4 DEF Statuses
<1>6. PICK k : k = [j EXCEPT !.mine = S, !.status = st]
  OBVIOUS
<1>7. k \in Jobs /\ Same(j, k)
  BY <1>2, <1>3, <1>5, <1>6, OrganizersTyped, WithStatus
<1>8. JobOK("present", j)
  BY <1>2 DEF JobOK, Inside
<1>9. JobOK("present", k)
  BY <1>7, <1>8, JobLike
<1>10. End(q) \/ Proceed(q, "present", k)
  BY <1>1, <1>3, <1>4, <1>6 DEF Register
<1>11. "present" \in Labels
  BY DEF Labels, Statements
<1>12. UNCHANGED <<world, events, entry, invites, notices>>
  BY DEF Register
<1> QED
  BY <1>9, <1>10, <1>11, <1>12, ReadingStep

\* The lookup of the route's event, which is the clan's from then on.
LEMMA FindStep ==
  ASSUME Types, NEW q \in Requests, Find(q)
  PROVE  Types'
<1>1. PICK j : j = job[q]
  OBVIOUS
<1>2. JobOK("find", j) /\ j \in Jobs
  BY <1>1 DEF Find, Types, JobsAreKnown, JobOK
<1>3. PICK k : k = [j EXCEPT !.mine = OrganizersOf(j.by)]
  OBVIOUS
<1>4. k \in Jobs /\ Same(j, k)
  BY <1>2, <1>3, OrganizersTyped, WithMine
<1>5. CASE End(q)
  BY <1>5, ReadingStep DEF Find
<1>6. CASE ~End(q)
  <2>1. Proceed(q, Following[j.op], k) /\ event[j.event].organizer = j.clan
    BY <1>1, <1>3, <1>6 DEF Find
  <2>2. Following[j.op] \in Labels
    BY <1>2 DEF JobOK, Following, Labels, Statements, Managing
  <2>3. PICK l \in Labels : l = Following[j.op]
    BY <2>2
  <2>4. JobOK(l, j)
    BY <1>2, <2>1, <2>3 DEF JobOK, Following, Inside, Managing
  <2>5. JobOK(l, k)
    BY <1>4, <2>4, JobLike
  <2>6. Proceed(q, l, k)
    BY <2>1, <2>3
  <2> QED
    BY <2>5, <2>6, ReadingStep DEF Find
<1> QED
  BY <1>5, <1>6

\* Statements that read and leave their locals alone.
LEMMA TestStep ==
  ASSUME Types, NEW q \in Requests,
         Present(q) \/ Detail(q) \/ TargetEntry(q) \/ Duplicate(q) \/ EventOpen(q)
  PROVE  Types'
<1>1. PICK j : j = job[q]
  OBVIOUS
<1>2. JobOK(pc[q], j)
  BY <1>1 DEF Types, JobsAreKnown, JobOK, Present, Detail, TargetEntry, Duplicate, EventOpen
<1>3. UNCHANGED <<world, events, entry, invites, notices>>
  BY DEF Present, Detail, TargetEntry, Duplicate, EventOpen
<1>4. {"enter", "duplicate", "insert", "present"} \subseteq Labels
  BY DEF Labels, Statements
<1>5. CASE End(q)
  BY <1>3, <1>5, ReadingStep
<1>6. CASE ~End(q)
  <2>1. CASE Present(q)
    <3>1. Proceed(q, "enter", j)
      BY <1>1, <1>6, <2>1 DEF Present, GotoIf, Goto
    <3>2. JobOK("enter", j)
      BY <1>2, <2>1 DEF JobOK, Present, Inside
    <3> QED
      BY <1>3, <1>4, <3>1, <3>2, ReadingStep
  <2>2. CASE TargetEntry(q)
    <3>1. Proceed(q, "duplicate", j)
      BY <1>1, <1>6, <2>2 DEF TargetEntry, GotoIf, Goto
    <3>2. JobOK("duplicate", j)
      BY <1>2, <2>2 DEF JobOK, TargetEntry, Inside
    <3> QED
      BY <1>3, <1>4, <3>1, <3>2, ReadingStep
  <2>3. CASE Duplicate(q)
    <3>1. Proceed(q, "insert", j)
      BY <1>1, <1>6, <2>3 DEF Duplicate, GotoIf, Goto
    <3>2. JobOK("insert", j)
      BY <1>2, <2>3 DEF JobOK, Duplicate, Inside
    <3> QED
      BY <1>3, <1>4, <3>1, <3>2, ReadingStep
  <2>4. CASE EventOpen(q)
    <3>1. Proceed(q, "present", j)
      BY <1>1, <1>6, <2>4 DEF EventOpen, GotoIf, Goto
    <3>2. JobOK("present", j)
      BY <1>2, <2>4 DEF JobOK, EventOpen, Inside
    <3> QED
      BY <1>3, <1>4, <3>1, <3>2, ReadingStep
  <2> QED
    BY <1>6, <2>1, <2>2, <2>3, <2>4 DEF Detail
<1> QED
  BY <1>5, <1>6

\* Statements that write, and then go on or end.
LEMMA WritingStep ==
  ASSUME Types, NEW q \in Requests, Data', RowsStay, upsets' = upsets,
         \/ End(q)
         \/ \E label, k : label \in Labels /\ JobOK(label, k) /\ Proceed(q, label, k)
  PROVE  Types'
<1>1. overlap' = overlap /\ begun' = begun
  BY DEF End, Proceed
<1>2. Counters'
  BY <1>1 DEF Counters, Types, TypeOK
<1>3. CASE End(q)
  BY <1>2, <1>3, Return, TypePartsNext
<1>4. ASSUME NEW label \in Labels, NEW k, JobOK(label, k), Proceed(q, label, k)
      PROVE  Types'
  <2>1. Locals
    BY <1>4, Advance DEF Proceed
  <2> QED
    BY <1>2, <2>1, TypePartsNext
<1> QED
  BY <1>3, <1>4

\* A change of entries of events that are there, and notices.
LEMMA EntryData ==
  ASSUME Types, UNCHANGED <<world, events, invites>>, NEW e \in Events, event[e] # None,
         NEW u \in Users, NEW st \in Statuses \cup {None},
         entry' = [entry EXCEPT ![e][u] = st], notices' \subseteq Notices
  PROVE  Data' /\ RowsStay /\ upsets' = upsets
<1>1. entry' \in [Events -> [Users -> Statuses \cup {None}]]
  BY DEF Types, TypeOK
<1>2. \A d \in Events, v \in Users : entry'[d][v] # None => event[d] # None
  BY DEF Types, TypeOK
<1> QED
  BY <1>1, <1>2 DEF Types, TypeOK, world, events, invites, Data, RowsStay, UnmadeAreUnused

\* What is handed to NotificationService.emit has the fields it asks for.
LEMMA TellTyped ==
  ASSUME notices \subseteq Notices, NEW S \in SUBSET Users, NEW e \in Events,
         NEW type \in {"JOIN_REQUEST", "ACCEPTED", "DECLINED", "CANCELLED", "INVITE"}
  PROVE  Tell(S, type, e) \subseteq Notices
  BY DEF Tell, Notices

\* A notice to one user.
LEMMA TellOne ==
  ASSUME Types, NEW u \in Users, NEW e \in Events,
         NEW type \in {"JOIN_REQUEST", "ACCEPTED", "DECLINED", "CANCELLED", "INVITE"}
  PROVE  Tell({u}, type, e) \subseteq Notices
<1>1. notices \subseteq Notices
  BY DEF Types, TypeOK
<1> QED
  BY <1>1 DEF Tell, Notices

\* The entry of a user, and the notice to the creator of the event.
LEMMA EnterStep ==
  ASSUME Types, NEW q \in Requests, Enter(q)
  PROVE  Types'
<1>1. PICK j : j = job[q]
  OBVIOUS
<1>2. JobOK("enter", j) /\ j \in Jobs
  BY <1>1 DEF Enter, Types, JobsAreKnown, JobOK
<1>3. UNCHANGED <<world, events, invites>>
  BY DEF Enter
<1>4. CASE End(q) /\ UNCHANGED <<entry, notices>>
  BY <1>3, <1>4, ReadingStep
<1>5. CASE ~(End(q) /\ UNCHANGED <<entry, notices>>)
  <2>1. /\ entry' = [entry EXCEPT ![j.event][j.by] = j.status]
        /\ notices' = IF j.status = "PENDING"
                      THEN Tell({event[j.event].creator}, "JOIN_REQUEST", j.event) ELSE notices
        /\ Proceed(q, IF j.inv = None THEN "detail" ELSE "count", j)
    BY <1>1, <1>5 DEF Enter, Goto
  <2>2. j.event \in Events /\ event[j.event] # None /\ j.by \in Users /\ j.status \in Statuses
    BY <1>2 DEF JobOK, Jobs
  <2>3. event[j.event].creator \in Users
    BY <2>2 DEF Types, TypeOK, EventRows
  <2>9. Tell({event[j.event].creator}, "JOIN_REQUEST", j.event) \subseteq Notices
    BY <2>2, <2>3, TellOne
  <2>4. notices' \subseteq Notices
    BY <2>1, <2>9 DEF Types, TypeOK
  <2>5. Data' /\ RowsStay /\ upsets' = upsets
    BY <1>3, <2>1, <2>2, <2>4, EntryData
  <2>6. PICK l : l = IF j.inv = None THEN "detail" ELSE "count"
    OBVIOUS
  <2>7. l \in Labels
    BY <2>6 DEF Labels, Statements
  <2>8. JobOK(l, j)
    BY <1>2, <2>6 DEF JobOK, Inside
  <2> QED
    BY <2>1, <2>5, <2>6, <2>7, <2>8, WritingStep
<1> QED
  BY <1>4, <1>5

\* The deletion of one's own entry.
LEMMA LeaveStep ==
  ASSUME Types, NEW q \in Requests, Leave(q)
  PROVE  Types'
<1>1. PICK j : j = job[q]
  OBVIOUS
<1>2. JobOK("leave", j) /\ j \in Jobs
  BY <1>1 DEF Leave, Types, JobsAreKnown, JobOK
<1>3. j.event \in Events /\ event[j.event] # None /\ j.by \in Users
  BY <1>2 DEF JobOK, Jobs
<1>4. entry' = [entry EXCEPT ![j.event][j.by] = None]
  BY <1>1 DEF Leave
<1>5. notices' \subseteq Notices
  BY DEF Leave, Types, TypeOK
<1>6. Data' /\ RowsStay /\ upsets' = upsets
  BY <1>3, <1>4, <1>5, EntryData DEF Leave
<1> QED
  BY <1>6, WritingStep DEF Leave

\* approve and reject change the entry of the user they name.
LEMMA AnswerStep ==
  ASSUME Types, NEW q \in Requests, Confirm(q) \/ Drop(q)
  PROVE  Types'
<1>1. PICK j : j = job[q]
  OBVIOUS
<1>2. JobOK(pc[q], j) /\ j \in Jobs /\ pc[q] \in {"confirm", "drop"}
  BY <1>1 DEF Confirm, Drop, Types, JobsAreKnown, JobOK
<1>3. UNCHANGED <<world, events, invites>>
  BY DEF Confirm, Drop
<1>4. CASE End(q) /\ UNCHANGED <<entry, notices>>
  BY <1>3, <1>4, ReadingStep
<1>5. CASE ~(End(q) /\ UNCHANGED <<entry, notices>>)
  <2>1. PICK st \in {"CONFIRMED", None}, type \in {"ACCEPTED", "DECLINED"} :
          /\ entry' = [entry EXCEPT ![j.event][j.who] = st]
          /\ notices' = Tell({j.who}, type, j.event)
          /\ Proceed(q, "detail", j)
    <3>1. CASE Confirm(q)
      BY <1>1, <1>5, <3>1 DEF Confirm, Goto
    <3>2. CASE Drop(q)
      BY <1>1, <1>5, <3>2 DEF Drop, Goto
    <3> QED
      BY <3>1, <3>2
  <2>2. j.event \in Events /\ event[j.event] # None /\ j.who \in Users
    BY <1>2 DEF JobOK, Jobs
  <2>3. st \in Statuses \cup {None}
    BY DEF Statuses
  <2>8. Tell({j.who}, type, j.event) \subseteq Notices
    BY <2>2, TellOne
  <2>4. notices' \subseteq Notices
    BY <2>1, <2>8
  <2>5. Data' /\ RowsStay /\ upsets' = upsets
    BY <1>3, <2>1, <2>2, <2>3, <2>4, EntryData
  <2>6. JobOK("detail", j)
    BY <1>2 DEF JobOK, Inside
  <2>7. "detail" \in Labels
    BY DEF Labels, Statements
  <2> QED
    BY <2>1, <2>5, <2>6, <2>7, WritingStep
<1> QED
  BY <1>4, <1>5

\* What the form sends takes the place of the settings.
LEMMA UpdateStep ==
  ASSUME Types, NEW q \in Requests, Update(q)
  PROVE  Types'
<1>1. PICK j : j = job[q]
  OBVIOUS
<1>2. JobOK("update", j) /\ j \in Jobs
  BY <1>1 DEF Update, Types, JobsAreKnown, JobOK
<1>3. CASE End(q) /\ UNCHANGED event
  BY <1>3, ReadingStep DEF Update, events
<1>4. CASE ~(End(q) /\ UNCHANGED event)
  <2>1. PICK k : k = [j EXCEPT !.mine = OrganizersOf(j.by)]
    OBVIOUS
  <2>2. k \in Jobs /\ Same(j, k)
    BY <1>2, <2>1, OrganizersTyped, WithMine
  <2>3. event' = [event EXCEPT ![j.event].set = j.set] /\ Proceed(q, "detail", k)
    BY <1>1, <1>4, <2>1 DEF Update
  <2>4. j.event \in Events /\ event[j.event] # None /\ j.set \in SettingsOK
    BY <1>2 DEF JobOK, Jobs
  <2>5. PICK row : row = [event[j.event] EXCEPT !.set = j.set]
    OBVIOUS
  <2>6. event[j.event] \in EventRows
    BY <2>4 DEF Types, TypeOK
  <2>7. row \in EventRows /\ row # None /\ row.organizer = event[j.event].organizer
    BY <2>4, <2>5, <2>6 DEF EventRows
  <2>8. event' = [event EXCEPT ![j.event] = row]
    BY <2>3, <2>5
  <2>9. RowsStay
    BY <2>4, <2>7, <2>8 DEF RowsStay, Update, invites, Types, TypeOK
  <2>10. Data' /\ upsets' = upsets
    BY <2>4, <2>7, <2>8 DEF Data, Update, invites, world, Types, TypeOK, UnmadeAreUnused
  <2>11. JobOK("detail", k)
    <3>1. JobOK("detail", j)
      BY <1>2 DEF JobOK, Inside
    <3> QED
      BY <2>2, <3>1, JobLike
  <2>12. "detail" \in Labels
    BY DEF Labels, Statements
  <2> QED
    BY <2>3, <2>9, <2>10, <2>11, <2>12, WritingStep
<1> QED
  BY <1>3, <1>4

\* cancel keeps in its locals whom it will tell.
LEMMA ReadersStep ==
  ASSUME Types, NEW q \in Requests, Readers(q)
  PROVE  Types'
<1>1. PICK j : j = job[q]
  OBVIOUS
<1>2. JobOK("readers", j) /\ j \in Jobs
  BY <1>1 DEF Readers, Types, JobsAreKnown, JobOK
<1>3. PICK S : S = {u \in Users : entry[j.event][u] # None /\ EntryVisible(q, u)}
  OBVIOUS
<1>4. PICK k : k = [j EXCEPT !.readers = S]
  OBVIOUS
<1>5. S \in SUBSET Users
  BY <1>3
<1>6. k \in Jobs /\ Same(j, k)
  BY <1>2, <1>4, <1>5, WithReaders
<1>7. Proceed(q, "delete", k)
  BY <1>1, <1>3, <1>4 DEF Readers
<1>8. JobOK("delete", j)
  BY <1>2 DEF JobOK, Inside
<1>9. JobOK("delete", k)
  BY <1>6, <1>8, JobLike
<1>10. "delete" \in Labels
  BY DEF Labels, Statements
<1> QED
  BY <1>7, <1>9, <1>10, ReadingStep DEF Readers

\* The end of cancel.
LEMMA DeleteStep ==
  ASSUME Types, NEW q \in Requests, Delete(q)
  PROVE  Types'
<1>1. PICK j : j = job[q]
  OBVIOUS
<1>2. JobOK("delete", j) /\ j \in Jobs
  BY <1>1 DEF Delete, Types, JobsAreKnown, JobOK
<1>3. j.event \in Events /\ event[j.event] # None /\ j.readers \in SUBSET Users
  BY <1>2 DEF JobOK, Jobs
<1>4. cancelled' \subseteq cancelled \cup {j.event}
  BY <1>1 DEF Delete
<1>5. notices' \subseteq Notices
  BY <1>1, <1>3, TellTyped DEF Delete, Types, TypeOK
<1>6. cancelled' \subseteq {e \in Events : event[e] # None}
  BY <1>3, <1>4 DEF Types, TypeOK
<1>7. Data' /\ RowsStay /\ upsets' = upsets
  BY <1>5, <1>6 DEF Delete, Data, RowsStay, world, invites, Types, TypeOK, UnmadeAreUnused
<1> QED
  BY <1>7, WritingStep DEF Delete

\* A new invite.
LEMMA InsertStep ==
  ASSUME Types, NEW q \in Requests, Insert(q)
  PROVE  Types'
<1>1. PICK j : j = job[q]
  OBVIOUS
<1>2. JobOK("insert", j) /\ j \in Jobs
  BY <1>1 DEF Insert, Types, JobsAreKnown, JobOK
<1>3. j.event \in Events /\ event[j.event] # None /\ j.who \in Users \cup {None}
      /\ j.limit \in Limits \cup {None}
  BY <1>2 DEF JobOK, Jobs
<1>4. PICK row : row = [event |-> j.event, target |-> j.who, limit |-> j.limit]
  OBVIOUS
<1>5. row \in InviteRows /\ row # None /\ row.event = j.event
  BY <1>3, <1>4 DEF InviteRows
<1>6. PICK i \in Invites : invite[i] = None /\ invite' = [invite EXCEPT ![i] = row]
  BY <1>1, <1>4 DEF Insert
<1>7. notices' \subseteq Notices
  <2>1. CASE j.who = None
    BY <1>1, <2>1 DEF Insert, Types, TypeOK
  <2>2. CASE j.who # None
    <3>1. Tell({j.who}, "INVITE", j.event) \subseteq Notices
      BY <1>3, <2>2, TellOne
    <3> QED
      BY <1>1, <2>2, <3>1 DEF Insert
  <2> QED
    BY <2>1, <2>2
<1>8. RowsStay
  BY <1>5, <1>6 DEF RowsStay, Insert, events, Types, TypeOK
<1>9. UNCHANGED <<members, upsets, event, cancelled, entry, uses, expired, revoked>>
  BY DEF Insert, events, world
<1>10. /\ invite' \in [Invites -> InviteRows \cup {None}]
       /\ invite'[i] = row /\ \A x \in Invites : x # i => invite'[x] = invite[x]
  BY <1>5, <1>6 DEF Types, TypeOK
<1>11. /\ \A x \in Invites : invite'[x] # None => event[invite'[x].event] # None
       /\ \A x \in Invites : invite'[x] = None => invite[x] = None
  BY <1>3, <1>5, <1>6, <1>10 DEF Types, TypeOK
<1>12. Data' /\ upsets' = upsets
  BY <1>7, <1>9, <1>10, <1>11 DEF Data, Types, TypeOK, UnmadeAreUnused
<1> QED
  BY <1>8, <1>12, WritingStep DEF Insert

\* The count of a redemption.
LEMMA CountStep ==
  ASSUME Types, NEW q \in Requests, Count(q)
  PROVE  Types'
<1>1. PICK j : j = job[q]
  OBVIOUS
<1>2. JobOK("count", j) /\ j \in Jobs
  BY <1>1 DEF Count, Types, JobsAreKnown, JobOK
<1>3. PICK k : k = [j EXCEPT !.mine = OrganizersOf(j.by)]
  OBVIOUS
<1>4. k \in Jobs /\ Same(j, k)
  BY <1>2, <1>3, OrganizersTyped, WithMine
<1>5. JobOK("detail", j)
  BY <1>2 DEF JobOK, Inside
<1>6. JobOK("detail", k)
  BY <1>4, <1>5, JobLike
<1>7. Proceed(q, "detail", k)
  BY <1>1, <1>3 DEF Count
<1>8. j.inv \in Invites /\ invite[j.inv] # None
  BY <1>2 DEF JobOK, Jobs
<1>9. uses' = [uses EXCEPT ![j.inv] = @ + 1]
  BY <1>1 DEF Count
<1>10. uses' \in [Invites -> Nat] /\ \A i \in Invites : invite[i] = None => uses'[i] = 0
  BY <1>8, <1>9 DEF Types, TypeOK, UnmadeAreUnused
<1>11. Data' /\ RowsStay /\ upsets' = upsets
  BY <1>10 DEF Count, Data, RowsStay, events, world, Types, TypeOK, UnmadeAreUnused
<1>12. "detail" \in Labels
  BY DEF Labels, Statements
<1> QED
  BY <1>6, <1>7, <1>11, <1>12, WritingStep

\* The statements together.
LEMMA StepStep ==
  ASSUME Types, NEW q \in Requests, Step(q)
  PROVE  Types'
  BY RegisterStep, TestStep, EnterStep, LeaveStep, FindStep, AnswerStep, UpdateStep, ReadersStep,
     DeleteStep, InsertStep, CountStep DEF Step

\* The world around the requests.
LEMMA WorldStep ==
  ASSUME Types, \/ \E c \in Clans, u \in Users : Depart(c, u)
                \/ \E e \in Events : Tick(e)
                \/ \E i \in Invites : Expire(i)
                \/ \E q \in Requests : Abort(q)
  PROVE  Types'
<1>1. upsets' \in 0..MaxUpsets
  BY DEF Depart, Tick, Expire, Abort, Upset, Types, TypeOK
<1>2. overlap' \in BOOLEAN
  <2>1. ASSUME NEW c \in Clans, NEW u \in Users, Depart(c, u) PROVE overlap' \in BOOLEAN
    BY <2>1 DEF Depart, Types, TypeOK, Busy
  <2>2. ASSUME NEW e \in Events, Tick(e) PROVE overlap' \in BOOLEAN
    BY <2>2 DEF Tick, Types, TypeOK, Busy
  <2>3. ASSUME NEW i \in Invites, Expire(i) PROVE overlap' \in BOOLEAN
    BY <2>3 DEF Expire, Types, TypeOK
  <2>4. ASSUME NEW q \in Requests, Abort(q) PROVE overlap' \in BOOLEAN
    BY <2>4 DEF Abort, End, Proceed, Types, TypeOK
  <2> QED
    BY <2>1, <2>2, <2>3, <2>4
<1>3. Counters'
  BY <1>1, <1>2 DEF Depart, Tick, Expire, Abort, End, Proceed, Counters, Types, TypeOK
<1>4. ASSUME NEW c \in Clans, NEW u \in Users, Depart(c, u)
      PROVE  Types'
  <2>1. Data' /\ RowsStay
    BY <1>4 DEF Depart, Types, TypeOK, events, invites, Data, RowsStay, UnmadeAreUnused
  <2>2. pc' = pc /\ job' = job
    BY <1>4 DEF Depart
  <2> QED
    BY <1>3, <2>1, <2>2, Unmoved, TypePartsNext
<1>5. ASSUME NEW e \in Events, Tick(e)
      PROVE  Types'
  <2>1. event[e] \in EventRows
    BY <1>5 DEF Tick, Live, Types, TypeOK
  <2>2. PICK w : w = IF event[e].set.window = "before" THEN "open" ELSE "after"
    OBVIOUS
  <2>3. PICK row : row = [event[e] EXCEPT !.set.window = w]
    OBVIOUS
  <2>7. event[e].set \in SettingsOK /\ w \in {"before", "open", "after"}
    BY <2>1, <2>2 DEF EventRows
  <2>8. PICK s : s = [event[e].set EXCEPT !.window = w]
    OBVIOUS
  <2>9. s \in SettingsOK
    BY <2>7, <2>8 DEF SettingsOK
  <2>10. row = [event[e] EXCEPT !.set = s]
    BY <2>3, <2>8
  <2>4. row \in EventRows /\ row # None /\ row.organizer = event[e].organizer
    BY <2>1, <2>9, <2>10 DEF EventRows
  <2>5. event' = [event EXCEPT ![e] = row]
    BY <1>5, <2>2, <2>3 DEF Tick
  <2>11. event[e] # None
    BY <1>5 DEF Tick, Live
  <2>12. RowsStay
    BY <1>5, <2>4, <2>5 DEF Tick, Types, TypeOK, invites, RowsStay
  <2>13. /\ event' \in [Events -> EventRows \cup {None}]
         /\ \A d \in Events : event'[d] = None <=> event[d] = None
    BY <2>4, <2>5, <2>11 DEF Types, TypeOK
  <2>14. UNCHANGED <<members, cancelled, entry, invite, uses, expired, revoked, notices>>
    BY <1>5 DEF Tick, invites
  <2>15. \A i \in Invites : invite[i] # None => invite[i].event \in Events
    BY DEF Types, TypeOK, InviteRows
  <2>6. Data' /\ RowsStay
    BY <2>12, <2>13, <2>14, <2>15 DEF Types, TypeOK, Data, UnmadeAreUnused
  <2> QED
    BY <1>3, <1>5, <2>6, Unmoved, TypePartsNext DEF Tick
<1>6. ASSUME NEW i \in Invites, Expire(i)
      PROVE  Types'
  <2>1. Data' /\ RowsStay
    BY <1>6 DEF Expire, Types, TypeOK, events, Data, RowsStay, UnmadeAreUnused
  <2> QED
    BY <1>3, <1>6, <2>1, Unmoved, TypePartsNext DEF Expire
<1>7. ASSUME NEW q \in Requests, Abort(q)
      PROVE  Types'
  <2>1. Data' /\ RowsStay
    BY <1>7 DEF Abort, Types, TypeOK, events, invites, Data, RowsStay, UnmadeAreUnused
  <2> QED
    BY <1>3, <1>7, <2>1, Return, TypePartsNext DEF Abort
<1> QED
  BY <1>4, <1>5, <1>6, <1>7

\* Every step keeps the types.
LEMMA TypeStep == Types /\ [Next]_vars => Types'
<1> SUFFICES ASSUME Types, [Next]_vars PROVE Types'
  OBVIOUS
<1>1. CASE UNCHANGED vars
  <2>1. Reading /\ pc' = pc /\ job' = job
    BY <1>1 DEF vars, Reading, world, events, invites
  <2> QED
    BY <2>1, ReadingKeeps, Unmoved, TypePartsNext
<1>2. CASE Next
  BY <1>2, BeginStep, StepStep, WorldStep DEF Next
<1> QED
  BY <1>1, <1>2

\* Rows and locals have their types, whatever requests race: what a request
\* carries from its lookups to its writes fits the rows it will meet.
THEOREM TypesHold == Spec => []Types
<1> QED
  BY TypeInit, TypeStep, PTL DEF Spec

\* The type invariant the run checks.
THEOREM TypeCorrect == Spec => []TypeOK
<1>1. Types => TypeOK
  BY DEF Types
<1> QED
  BY <1>1, TypesHold, PTL

-----------------------------------------------------------------------------
(***************************************************************************)
(* The organizer's business                                                *)
(***************************************************************************)
\* What OthersKeepOut asks of a step: who may change the event e, ...
ChangedByClan(e) ==
    event[e] # None =>
        /\ event'[e] # [event[e] EXCEPT !.set.window = event'[e].set.window] =>
             \E q \in Requests : Steps(q) /\ job[q].op = "update" /\ job[q].clan = event[e].organizer
        /\ e \in cancelled' \ cancelled =>
             \E q \in Requests : Steps(q) /\ job[q].op = "cancel" /\ job[q].clan = event[e].organizer

\* ... and who may change the entry of u.
EnteredByRight(e, u) ==
    entry'[e][u] # entry[e][u] =>
        \E q \in Requests :
          /\ Steps(q) /\ job[q].event = e
          /\ \/ job[q].by = u /\ job[q].op \in {"register", "leave", "redeem"}
             \/ /\ job[q].who = u /\ job[q].op \in {"approve", "reject"}
                /\ job[q].clan = event[e].organizer

\* Only these statements change an event or who takes part in it.
Quiet(q) == Begin(q) \/ Abort(q) \/ Register(q) \/ Present(q) \/ Find(q) \/ Readers(q) \/ Detail(q)
            \/ TargetEntry(q) \/ Duplicate(q) \/ Insert(q) \/ EventOpen(q) \/ Count(q)

\* A row that keeps its value differs from itself in no field.
LEMMA SameRow ==
  ASSUME Types, NEW e \in Events, event[e] # None, event'[e] = event[e]
  PROVE  event'[e] = [event[e] EXCEPT !.set.window = event'[e].set.window]
<1>1. event[e] \in EventRows
  BY DEF Types, TypeOK
<1>2. PICK row : row = event[e]
  OBVIOUS
<1>3. row.set \in SettingsOK
  BY <1>1, <1>2 DEF EventRows
<1>4. [row.set EXCEPT !.window = row.set.window] = row.set
  BY <1>3 DEF SettingsOK
<1>5. [row EXCEPT !.set = row.set] = row
  BY <1>1, <1>2 DEF EventRows
<1> QED
  BY <1>2, <1>4, <1>5

\* The other statements, and the start of requests: the events that are there
\* stay as they are.
LEMMA QuietStep ==
  ASSUME Types, NEW q \in Requests, Quiet(q)
  PROVE  /\ \A e \in Events : event[e] # None => event'[e] = event[e]
         /\ cancelled' = cancelled /\ entry' = entry
<1>1. CASE Begin(q)
  <2>1. /\ cancelled' = cancelled /\ entry' = entry
        /\ \/ event' = event
           \/ \E d, row : d \in Events /\ event[d] = None /\ event' = [event EXCEPT ![d] = row]
    <3>1. ASSUME NEW label, NEW j, Start(q, label, j)
          PROVE  UNCHANGED <<event, cancelled, entry>>
      BY <3>1 DEF Start, events
    <3>2. ASSUME NEW u, NEW o, NEW d \in Events, NEW st, event[d] = None, Persist(u, o, d, st)
          PROVE  /\ cancelled' = cancelled /\ entry' = entry
                 /\ \E row : event' = [event EXCEPT ![d] = row]
      BY <3>2 DEF Persist
    <3>3. ASSUME NEW u, NEW c, NEW i, Revoke(u, c, i)
          PROVE  UNCHANGED <<event, cancelled, entry>>
      BY <3>3 DEF Revoke, events
    <3>4. ASSUME NEW u, NEW c, NEW d, BeginManaging(q, u, c, d)
          PROVE  UNCHANGED <<event, cancelled, entry>>
      BY <3>1, <3>4 DEF BeginManaging, Manage
    <3>5. \/ \E u, o, st : \E d \in Events : event[d] = None /\ Persist(u, o, d, st)
          \/ \E u, c, d : BeginManaging(q, u, c, d)
          \/ \E label, j : Start(q, label, j)
          \/ \E u, c, i : Revoke(u, c, i)
      BY <1>1, Zenon DEF Begin, BeginRedeem, CreateClan, CreateOrg, CreateSystem
    <3> QED
      BY <3>1, <3>2, <3>3, <3>4, <3>5
  <2>2. CASE event' = event
    BY <2>1, <2>2
  <2>3. ASSUME NEW d \in Events, NEW row, event[d] = None, event' = [event EXCEPT ![d] = row]
        PROVE  \A e \in Events : event[e] # None => event'[e] = event[e]
    BY <2>3 DEF Types, TypeOK
  <2> QED
    BY <2>1, <2>2, <2>3
<1>2. CASE ~Begin(q)
  BY <1>2 DEF Quiet, Abort, Register, Present, Find, Readers, Detail, TargetEntry, Duplicate, Insert,
              EventOpen, Count, events
<1> QED
  BY <1>1, <1>2

\* A statement that sets the entry of v in the event d leaves the others.
LEMMA OneEntry ==
  ASSUME Types, NEW d \in Events, NEW v,
         entry' = entry \/ \E st : entry' = [entry EXCEPT ![d][v] = st]
  PROVE  \A e \in Events, u \in Users : entry'[e][u] # entry[e][u] => e = d /\ u = v
<1>1. ASSUME NEW st, entry' = [entry EXCEPT ![d][v] = st], NEW e \in Events, NEW u \in Users, e # d \/ u # v
      PROVE  entry'[e][u] = entry[e][u]
  <2>1. PICK row : row = [entry[d] EXCEPT ![v] = st]
    OBVIOUS
  <2>2. entry' = [entry EXCEPT ![d] = row]
    BY <1>1, <2>1
  <2>3. entry[d] \in [Users -> Statuses \cup {None}]
    BY DEF Types, TypeOK
  <2>4. u # v => row[u] = entry[d][u]
    BY <2>1, <2>3
  <2>5. entry'[e] = IF e = d THEN row ELSE entry[e]
    BY <2>2 DEF Types, TypeOK
  <2> QED
    BY <1>1, <2>4, <2>5
<1> QED
  BY <1>1

\* A statement that changes an entry.
LEMMA EntryStep ==
  ASSUME Types, NEW q \in Requests, Enter(q) \/ Leave(q) \/ Confirm(q) \/ Drop(q)
  PROVE  \A e \in Events, u \in Users : EnteredByRight(e, u)
<1>1. PICK j : j = job[q]
  OBVIOUS
<1>2. JobOK(pc[q], j) /\ j \in Jobs
  BY <1>1 DEF Types, JobsAreKnown, JobOK, Enter, Leave, Confirm, Drop
<1>3. j.event \in Events /\ j.by \in Users
  BY <1>2 DEF JobOK, Jobs
<1>4. ASSUME entry' # entry
      PROVE  Steps(q)
  <2>1. PICK l \in {"idle", "detail", "count"} : pc' = [pc EXCEPT ![q] = l]
    BY <1>4 DEF Enter, Leave, Confirm, Drop, Goto, End, Proceed
  <2>2. pc[q] \in {"enter", "leave", "confirm", "drop"}
    BY DEF Enter, Leave, Confirm, Drop
  <2>3. pc'[q] = l
    BY <2>1 DEF Types, TypeOK
  <2> QED
    BY <2>2, <2>3 DEF Steps
<1>5. CASE Enter(q) \/ Leave(q)
  <2>1. j.op \in {"register", "leave", "redeem"}
    BY <1>2, <1>5 DEF JobOK, Enter, Leave
  <2>2. entry' = entry \/ \E st : entry' = [entry EXCEPT ![j.event][j.by] = st]
    BY <1>1, <1>5 DEF Enter, Leave
  <2>4. PICK d, v : d = j.event /\ v = j.by
    OBVIOUS
  <2>5. entry' = entry \/ \E st : entry' = [entry EXCEPT ![d][v] = st]
    BY <2>2, <2>4
  <2>6. d \in Events
    BY <1>3, <2>4
  <2>7. \A e \in Events, u \in Users : entry'[e][u] # entry[e][u] => e = d /\ u = v
    BY <2>5, <2>6, OneEntry
  <2>3. \A e \in Events, u \in Users : entry'[e][u] # entry[e][u] => e = j.event /\ u = j.by
    BY <2>4, <2>7
  <2> QED
    BY <1>1, <1>4, <2>1, <2>3 DEF EnteredByRight
<1>6. CASE Confirm(q) \/ Drop(q)
  <2>1. j.op \in {"approve", "reject"} /\ event[j.event].organizer = j.clan /\ j.who \in Users
    BY <1>2, <1>6 DEF JobOK, Confirm, Drop, Inside
  <2>2. entry' = entry \/ \E st : entry' = [entry EXCEPT ![j.event][j.who] = st]
    BY <1>1, <1>6 DEF Confirm, Drop
  <2>4. PICK d, v : d = j.event /\ v = j.who
    OBVIOUS
  <2>5. entry' = entry \/ \E st : entry' = [entry EXCEPT ![d][v] = st]
    BY <2>2, <2>4
  <2>6. d \in Events
    BY <1>3, <2>4
  <2>7. \A e \in Events, u \in Users : entry'[e][u] # entry[e][u] => e = d /\ u = v
    BY <2>5, <2>6, OneEntry
  <2>3. \A e \in Events, u \in Users : entry'[e][u] # entry[e][u] => e = j.event /\ u = j.who
    BY <2>4, <2>7
  <2> QED
    BY <1>1, <1>4, <2>1, <2>3 DEF EnteredByRight
<1> QED
  BY <1>5, <1>6

\* The statements that change or cancel an event.
LEMMA EventStep ==
  ASSUME Types, NEW q \in Requests, Update(q) \/ Delete(q)
  PROVE  \A e \in Events : ChangedByClan(e)
<1>1. PICK j : j = job[q]
  OBVIOUS
<1>2. JobOK(pc[q], j) /\ j \in Jobs
  BY <1>1 DEF Types, JobsAreKnown, JobOK, Update, Delete
<1>3. j.event \in Events
  BY <1>2 DEF Jobs
<1>4. CASE Update(q)
  <2>1. cancelled' = cancelled /\ j.op = "update"
    BY <1>2, <1>4 DEF Update, JobOK
  <2>2. CASE event' = event
    BY <2>1, <2>2, SameRow DEF ChangedByClan
  <2>3. CASE event' # event
    <3>1. event[j.event].organizer = j.clan /\ pc' = [pc EXCEPT ![q] = "detail"]
          /\ \E row : event' = [event EXCEPT ![j.event] = row]
      BY <1>1, <1>4, <2>3 DEF Update, Proceed
    <3>2. Steps(q)
      BY <1>4, <3>1 DEF Steps, Update, Types, TypeOK
    <3>3. \A e \in Events : e # j.event => event'[e] = event[e]
      BY <1>3, <3>1 DEF Types, TypeOK
    <3> QED
      BY <1>1, <2>1, <3>1, <3>2, <3>3, SameRow DEF ChangedByClan
  <2> QED
    BY <2>2, <2>3
<1>5. CASE Delete(q)
  <2>1. event' = event /\ j.op = "cancel" /\ event[j.event].organizer = j.clan
    BY <1>2, <1>5 DEF Delete, JobOK, Inside
  <2>2. cancelled' \subseteq cancelled \cup {j.event}
    BY <1>1, <1>5 DEF Delete
  <2>3. Steps(q)
    BY <1>5 DEF Steps, Delete, End, Proceed, Types, TypeOK
  <2> QED
    BY <1>1, <2>1, <2>2, <2>3, SameRow DEF ChangedByClan
<1> QED
  BY <1>4, <1>5

\* The window of an event passes, and nothing else of it changes.
LEMMA TickStep ==
  ASSUME Types, NEW d \in Events, Tick(d)
  PROVE  \A e \in Events : ChangedByClan(e)
<1>1. cancelled' = cancelled
  BY DEF Tick
<1>2. PICK w : w = IF event[d].set.window = "before" THEN "open" ELSE "after"
  OBVIOUS
<1>3. event' = [event EXCEPT ![d].set.window = w]
  BY <1>2 DEF Tick
<1>4. \A e \in Events : e # d => event'[e] = event[e]
  BY <1>3 DEF Types, TypeOK
<1>5. event[d] \in EventRows
  BY DEF Tick, Live, Types, TypeOK
<1>6. event'[d] = [event[d] EXCEPT !.set.window = w]
  BY <1>3 DEF Types, TypeOK
<1>7. event'[d].set.window = w
  BY <1>5, <1>6 DEF EventRows, SettingsOK
<1> QED
  BY <1>1, <1>4, <1>6, <1>7, SameRow DEF ChangedByClan

\* No step goes beyond what OthersKeepOut allows.
LEMMA KeepOutStep ==
  ASSUME Types, [Next]_vars, NEW e \in Events
  PROVE  ChangedByClan(e) /\ \A u \in Users : EnteredByRight(e, u)
<1>1. CASE UNCHANGED vars
  BY <1>1, SameRow DEF vars, ChangedByClan, EnteredByRight
<1>2. ASSUME NEW q \in Requests, Quiet(q)
      PROVE  ChangedByClan(e) /\ \A u \in Users : EnteredByRight(e, u)
  BY <1>2, QuietStep, SameRow DEF ChangedByClan, EnteredByRight
<1>3. ASSUME NEW q \in Requests, Enter(q) \/ Leave(q) \/ Confirm(q) \/ Drop(q)
      PROVE  ChangedByClan(e) /\ \A u \in Users : EnteredByRight(e, u)
  <2>1. event' = event /\ cancelled' = cancelled
    BY <1>3 DEF Enter, Leave, Confirm, Drop, events
  <2> QED
    BY <1>3, <2>1, EntryStep, SameRow DEF ChangedByClan
<1>4. ASSUME NEW q \in Requests, Update(q) \/ Delete(q)
      PROVE  ChangedByClan(e) /\ \A u \in Users : EnteredByRight(e, u)
  BY <1>4, EventStep DEF Update, Delete, EnteredByRight
<1>5. ASSUME NEW c \in Clans, NEW u \in Users, Depart(c, u)
      PROVE  ChangedByClan(e) /\ \A v \in Users : EnteredByRight(e, v)
  BY <1>5, SameRow DEF Depart, events, ChangedByClan, EnteredByRight
<1>6. ASSUME NEW d \in Events, Tick(d)
      PROVE  ChangedByClan(e) /\ \A u \in Users : EnteredByRight(e, u)
  BY <1>6, TickStep DEF Tick, EnteredByRight
<1>7. ASSUME NEW i \in Invites, Expire(i)
      PROVE  ChangedByClan(e) /\ \A u \in Users : EnteredByRight(e, u)
  BY <1>7, SameRow DEF Expire, events, ChangedByClan, EnteredByRight
<1>8. CASE Next
  <2>1. \/ \E q \in Requests : \/ Quiet(q) \/ Update(q) \/ Delete(q)
                               \/ Enter(q) \/ Leave(q) \/ Confirm(q) \/ Drop(q)
        \/ \E c \in Clans, u \in Users : Depart(c, u)
        \/ \E d \in Events : Tick(d)
        \/ \E i \in Invites : Expire(i)
    BY <1>8, Zenon DEF Next, Step, Quiet
  <2> QED
    BY <1>2, <1>3, <1>4, <1>5, <1>6, <1>7, <2>1
<1> QED
  BY <1>1, <1>8

\* The organizer's business: whatever requests race, only a request below the
\* route of the clan that organizes an event changes or cancels it or changes
\* the entry of somebody else.
THEOREM OnlyTheClanManages == Spec => OthersKeepOut
<1>1. Types /\ [Next]_vars => [\A e \in Events :
         /\ event[e] # None =>
              /\ event'[e] # [event[e] EXCEPT !.set.window = event'[e].set.window] =>
                   \E q \in Requests : Steps(q) /\ job[q].op = "update" /\ job[q].clan = event[e].organizer
              /\ e \in cancelled' \ cancelled =>
                   \E q \in Requests : Steps(q) /\ job[q].op = "cancel" /\ job[q].clan = event[e].organizer
         /\ \A u \in Users : entry'[e][u] # entry[e][u] =>
              \E q \in Requests :
                /\ Steps(q) /\ job[q].event = e
                /\ \/ job[q].by = u /\ job[q].op \in {"register", "leave", "redeem"}
                   \/ /\ job[q].who = u /\ job[q].op \in {"approve", "reject"}
                      /\ job[q].clan = event[e].organizer]_vars
  BY KeepOutStep, Zenon DEF ChangedByClan, EnteredByRight
<1>2. Spec => [][Next]_vars
  BY DEF Spec
<1> QED
  BY <1>1, <1>2, TypesHold, PTL DEF OthersKeepOut

-----------------------------------------------------------------------------
(***************************************************************************)
(* Uses                                                                    *)
(***************************************************************************)
\* Between the test of an invite and the count of its use.
Redeems == {"open", "present", "enter", "count"}
Redeeming(i) == {q \in Requests : pc[q] \in Redeems /\ job[q].inv = i}

\* What OverrunIsBounded lets an invite be used too often.
Spare == IF overlap THEN Cardinality(Requests) - 1 ELSE 0

\* Uses count with the redemptions that passed the test and may yet be counted.
UsesAreBounded ==
    \A i \in Invites : invite[i] # None /\ invite[i].limit # None =>
        uses[i] + Cardinality(Redeeming(i)) <= invite[i].limit + Spare

\* Any set of requests can be counted, and smaller ones count less.
LEMMA RequestSets ==
  ASSUME NEW T, T \subseteq Requests
  PROVE  /\ IsFiniteSet(T) /\ Cardinality(T) \in Nat
         /\ Cardinality(T) <= Cardinality(Requests) /\ Cardinality(Requests) \in Nat
         /\ \A S \in SUBSET T : Cardinality(S) <= Cardinality(T)
<1>1. IsFiniteSet(T) /\ Cardinality(T) <= Cardinality(Requests)
  BY FS_Subset
<1>2. \A S \in SUBSET T : Cardinality(S) <= Cardinality(T)
  BY <1>1, FS_Subset
<1> QED
  BY <1>1, <1>2, FS_CardinalityType

\* overlap is latched when a request begins while another one is in flight.
Latched == overlap' = overlap \/ (overlap' = TRUE /\ Requests # {})

\* The spare never shrinks.
LEMMA SpareGrows ==
  ASSUME Latched
  PROVE  /\ Spare \in Int /\ Spare' \in Int /\ Spare <= Spare'
         /\ Requests # {} => Spare' \in Nat
<1>1. Cardinality(Requests) \in Nat
  BY RequestSets
<1>2. Requests # {} => Cardinality(Requests) # 0
  BY FS_EmptySet
<1>3. CASE overlap' = overlap
  BY <1>1, <1>2, <1>3 DEF Spare
<1>4. CASE overlap' = TRUE /\ Requests # {}
  BY <1>1, <1>2, <1>4 DEF Spare
<1> QED
  BY <1>3, <1>4 DEF Latched

\* The limit of an invite is a number, and there is nobody redeeming a code
\* that was not handed out.
LEMMA InviteFacts ==
  ASSUME Types, NEW i \in Invites
  PROVE  /\ uses[i] \in Nat
         /\ invite[i] # None /\ invite[i].limit # None => invite[i].limit \in Nat \ {0}
         /\ invite[i] = None => uses[i] = 0 /\ Redeeming(i) = {}
<1>1. uses[i] \in Nat
  BY DEF Types, TypeOK
<1>2. invite[i] # None /\ invite[i].limit # None => invite[i].limit \in Nat \ {0}
  BY DEF Types, TypeOK, InviteRows
<1>3. ASSUME invite[i] = None, NEW q \in Requests, pc[q] \in Redeems, job[q].inv = i
      PROVE  FALSE
  <2>1. PICK l, j : l = pc[q] /\ j = job[q]
    OBVIOUS
  <2>2. JobOK(l, j)
    BY <1>3, <2>1 DEF Types, JobsAreKnown, JobOK, Redeems
  <2> QED
    BY <1>3, <2>1, <2>2 DEF JobOK
<1>4. invite[i] = None => uses[i] = 0
  BY DEF Types, UnmadeAreUnused
<1> QED
  BY <1>1, <1>2, <1>3, <1>4 DEF Redeeming

\* Steps that begin no redemption and count no use.
Calm ==
    /\ uses' = uses /\ Latched /\ RowsStay
    /\ invite' = invite \/ Requests # {}
    /\ \A i \in Invites : Redeeming(i)' \subseteq Redeeming(i)

\* They keep the bound.
LEMMA CalmStep ==
  ASSUME Types, Types', UsesAreBounded, Calm
  PROVE  UsesAreBounded'
<1> SUFFICES ASSUME NEW i \in Invites, invite'[i] # None, invite'[i].limit # None
             PROVE  uses[i] + Cardinality(Redeeming(i)') <= invite'[i].limit + Spare'
  BY DEF UsesAreBounded, Calm
<1>1. uses[i] \in Nat /\ invite'[i].limit \in Nat
  <2>1. uses[i] \in Nat
    BY InviteFacts
  <2>2. invite'[i] \in InviteRows
    BY DEF Types, TypeOK
  <2> QED
    BY <2>1, <2>2 DEF InviteRows
<1>2. Redeeming(i) \subseteq Requests /\ Redeeming(i)' \subseteq Redeeming(i)
  BY DEF Redeeming, Calm
<1>3. PICK old, new : old = Redeeming(i) /\ new = Redeeming(i)'
  OBVIOUS
<1>4. Cardinality(old) \in Nat /\ Cardinality(new) \in Nat /\ Cardinality(new) <= Cardinality(old)
  BY <1>2, <1>3, RequestSets
<1>5. Spare \in Int /\ Spare' \in Int /\ Spare <= Spare' /\ (Requests # {} => Spare' \in Nat)
  BY SpareGrows DEF Calm
<1>6. CASE invite[i] # None
  <2>1. invite'[i] = invite[i]
    BY <1>6 DEF Calm, RowsStay
  <2>2. uses[i] + Cardinality(old) <= invite'[i].limit + Spare
    BY <1>3, <1>6, <2>1 DEF UsesAreBounded
  <2> QED
    BY <1>1, <1>3, <1>4, <1>5, <2>2
<1>7. CASE invite[i] = None
  <2>1. uses[i] = 0 /\ old = {}
    BY <1>3, <1>7, InviteFacts
  <2>2. Cardinality(old) = 0
    BY <2>1, FS_EmptySet
  <2>3. Spare' \in Nat
    BY <1>5, <1>7 DEF Calm
  <2> QED
    BY <1>1, <1>3, <1>4, <2>1, <2>2, <2>3
<1> QED
  BY <1>6, <1>7

\* A request that goes on without becoming a redemption, or ends.
LEMMA NoMoreRedeem ==
  ASSUME Types, NEW q \in Requests, NEW l, NEW k,
         pc' = [pc EXCEPT ![q] = l], job' = [job EXCEPT ![q] = k],
         l \in Redeems => k.inv \notin Invites \/ (pc[q] \in Redeems /\ k.inv = job[q].inv)
  PROVE  \A i \in Invites : Redeeming(i)' \subseteq Redeeming(i)
  BY DEF Redeeming, Types, TypeOK

\* Statements keep the rows of events and invites.
LEMMA StepKeepsRows ==
  ASSUME Types, NEW q \in Requests, Step(q)
  PROVE  RowsStay
<1>1. PICK j : j = job[q]
  OBVIOUS
<1>2. CASE Update(q) /\ event' # event
  <2>1. JobOK("update", j) /\ j \in Jobs
    BY <1>1, <1>2 DEF Update, Types, JobsAreKnown, JobOK
  <2>2. event' = [event EXCEPT ![j.event].set = j.set] /\ invite' = invite
    BY <1>1, <1>2 DEF Update, invites
  <2>3. j.event \in Events /\ event[j.event] \in EventRows /\ j.set \in SettingsOK
    BY <2>1 DEF JobOK, Jobs, Types, TypeOK
  <2>4. PICK row : row = [event[j.event] EXCEPT !.set = j.set]
    OBVIOUS
  <2>5. row \in EventRows /\ row.organizer = event[j.event].organizer
    BY <2>3, <2>4 DEF EventRows
  <2>6. event' = [event EXCEPT ![j.event] = row]
    BY <2>2, <2>4
  <2>7. row # None
    BY <2>5
  <2>8. event'[j.event] = row /\ \A e \in Events : e # j.event => event'[e] = event[e]
    BY <2>3, <2>6 DEF Types, TypeOK
  <2> QED
    BY <2>2, <2>5, <2>7, <2>8 DEF RowsStay
<1>3. CASE Insert(q)
  BY <1>3 DEF Insert, RowsStay, events, Types, TypeOK
<1>4. CASE event' = event /\ invite' = invite
  BY <1>4 DEF RowsStay
<1>5. (event' = event /\ invite' = invite) \/ Insert(q) \/ (Update(q) /\ event' # event)
  <2>1. CASE Register(q) \/ Present(q) \/ Enter(q) \/ Leave(q) \/ Find(q) \/ Confirm(q) \/ Drop(q)
    BY <2>1 DEF Register, Present, Enter, Leave, Find, Confirm, Drop, events, invites
  <2>2. CASE Readers(q) \/ Delete(q) \/ Detail(q) \/ TargetEntry(q) \/ Duplicate(q) \/ EventOpen(q) \/ Count(q)
    BY <2>2 DEF Readers, Delete, Detail, TargetEntry, Duplicate, EventOpen, Count, events, invites
  <2>3. CASE Update(q)
    BY <2>3 DEF Update, invites
  <2> QED
    BY <2>1, <2>2, <2>3 DEF Step
<1> QED
  BY <1>2, <1>3, <1>4, <1>5

\* Statements other than the count are calm.
LEMMA CalmStatements ==
  ASSUME Types, NEW q \in Requests, Step(q), ~Count(q)
  PROVE  Calm
<1>1. PICK j : j = job[q]
  OBVIOUS
<1>0. pc[q] # "idle"
  BY Zenon DEF Step, Register, Present, Enter, Leave, Find, Confirm, Drop, Update, Readers, Delete, Detail,
         TargetEntry, Duplicate, Insert, EventOpen
<1>2. pc[q] # "idle" /\ JobOK(pc[q], j)
  BY <1>0, <1>1 DEF Types, JobsAreKnown
<1>3. uses' = uses /\ overlap' = overlap
  <2>1. CASE Register(q) \/ Present(q) \/ Find(q) \/ Detail(q) \/ TargetEntry(q) \/ EventOpen(q)
    BY <2>1 DEF Register, Present, Find, Detail, TargetEntry, EventOpen, GotoIf, Goto, End, Proceed, invites
  <2>2. CASE Enter(q) \/ Leave(q) \/ Confirm(q) \/ Drop(q) \/ Duplicate(q)
    BY <2>2 DEF Enter, Leave, Confirm, Drop, Duplicate, GotoIf, Goto, End, Proceed, invites
  <2>3. CASE Update(q) \/ Readers(q) \/ Delete(q) \/ Insert(q)
    BY <2>3 DEF Update, Readers, Delete, Insert, Goto, End, Proceed, invites
  <2> QED
    BY <2>1, <2>2, <2>3 DEF Step
<1>4. RowsStay
  BY StepKeepsRows
<1>5. ASSUME NEW l, NEW k, Proceed(q, l, k),
             l \in Redeems => k.inv \notin Invites \/ (pc[q] \in Redeems /\ k.inv = j.inv)
      PROVE  \A i \in Invites : Redeeming(i)' \subseteq Redeeming(i)
  BY <1>1, <1>5, NoMoreRedeem DEF Proceed
<1>6. \A i \in Invites : Redeeming(i)' \subseteq Redeeming(i)
  <2>0. {"idle", "detail", "delete", "duplicate", "insert", "confirm", "drop", "readers", "targetEntry"}
          \cap Redeems = {}
    BY DEF Redeems
  <2>1. CASE End(q)
    BY <1>5, <2>0, <2>1 DEF End
  <2>2. CASE Register(q) /\ ~End(q)
    <3>1. j.inv = None /\ j \in Jobs
      BY <1>2, <2>2 DEF JobOK, Register
    <3>2. PICK S, st : Proceed(q, "present", [j EXCEPT !.mine = S, !.status = st])
      BY <1>1, <2>2 DEF Register
    <3>3. [j EXCEPT !.mine = S, !.status = st].inv = None
      BY <3>1 DEF Jobs
    <3> QED
      BY <1>5, <3>2, <3>3
  <2>3. CASE (Present(q) \/ Enter(q) \/ EventOpen(q)) /\ ~End(q)
    <3>1. PICK l : Proceed(q, l, j)
      BY <1>1, <2>3 DEF Present, Enter, EventOpen, GotoIf, Goto
    <3>2. pc[q] \in Redeems
      BY <2>3 DEF Present, Enter, EventOpen, Redeems
    <3> QED
      BY <1>5, <3>1, <3>2
  <2>4. CASE (TargetEntry(q) \/ Duplicate(q) \/ Confirm(q) \/ Drop(q)) /\ ~End(q)
    <3>1. Proceed(q, "duplicate", j) \/ Proceed(q, "insert", j) \/ Proceed(q, "detail", j)
      BY <1>1, <2>4 DEF TargetEntry, Duplicate, Confirm, Drop, GotoIf, Goto
    <3> QED
      BY <1>5, <2>0, <3>1
  <2>5. CASE (Update(q) \/ Readers(q)) /\ ~End(q)
    <3>1. \E k : Proceed(q, "detail", k) \/ Proceed(q, "delete", k)
      BY <2>5 DEF Update, Readers
    <3> QED
      BY <1>5, <2>0, <3>1
  <2>6. CASE Find(q) /\ ~End(q)
    <3>1. PICK k : Proceed(q, Following[j.op], k)
      BY <1>1, <2>6 DEF Find
    <3>2. Following[j.op] \notin Redeems
      BY <1>2, <2>6 DEF JobOK, Find, Managing, Following, Redeems
    <3> QED
      BY <1>5, <3>1, <3>2
  <2>7. CASE Leave(q) \/ Delete(q) \/ Detail(q) \/ Insert(q)
    BY <2>1, <2>7 DEF Leave, Delete, Detail, Insert
  <2> QED
    BY <2>1, <2>2, <2>3, <2>4, <2>5, <2>6, <2>7 DEF Step
<1> QED
  BY <1>3, <1>4, <1>6 DEF Calm, Latched

\* So are beginnings other than those of a redemption.
LEMMA CalmBeginnings ==
  ASSUME Types, NEW q \in Requests, Begin(q)
  PROVE  Calm \/ \E u \in Users, i \in Invites : invite[i] # None /\ BeginRedeem(q, u, i)
<1>1. ASSUME NEW label, NEW j, pc[q] = "idle", label \in Redeems => j.inv \notin Invites,
             Start(q, label, j)
      PROVE  Calm
  <2>1. uses' = uses /\ invite' = invite /\ Latched
    BY <1>1 DEF Start, Open, Latched, invites, Types, TypeOK
  <2>2. RowsStay
    BY <1>1 DEF Start, RowsStay, invites, events
  <2>3. \A i \in Invites : Redeeming(i)' \subseteq Redeeming(i)
    BY <1>1, NoMoreRedeem DEF Start
  <2> QED
    BY <2>1, <2>2, <2>3 DEF Calm
<1>2. ASSUME NEW u, NEW o, NEW d \in Events, NEW st, event[d] = None, Persist(u, o, d, st)
      PROVE  Calm
  <2>1. uses' = uses /\ invite' = invite /\ Latched /\ pc' = pc /\ job' = job
    BY <1>2 DEF Persist, Latched, invites, Types, TypeOK, Busy
  <2>2. RowsStay
    BY <1>2, <2>1 DEF Persist, RowsStay, Types, TypeOK
  <2>3. \A i \in Invites : Redeeming(i)' \subseteq Redeeming(i)
    BY <2>1 DEF Redeeming
  <2> QED
    BY <2>1, <2>2, <2>3 DEF Calm
<1>3. ASSUME NEW u, NEW c, NEW i \in Invites, Revoke(u, c, i)
      PROVE  Calm
  <2>1. uses' = uses /\ invite' = invite /\ Latched /\ pc' = pc /\ job' = job
    BY <1>3 DEF Revoke, Open, Latched, Types, TypeOK
  <2>2. RowsStay
    BY <1>3 DEF Revoke, RowsStay, events
  <2>3. \A x \in Invites : Redeeming(x)' \subseteq Redeeming(x)
    BY <2>1 DEF Redeeming
  <2> QED
    BY <2>1, <2>2, <2>3 DEF Calm
<1>4. pc[q] = "idle"
  BY DEF Begin
<1>5. ASSUME NEW u, NEW c, NEW e, BeginManaging(q, u, c, e)
      PROVE  Calm
  BY <1>1, <1>4, <1>5 DEF BeginManaging, Manage, Redeems
<1>6. \/ \E u, o, st : \E d \in Events : event[d] = None /\ Persist(u, o, d, st)
      \/ \E u, c, e : BeginManaging(q, u, c, e)
      \/ \E u, e : Start(q, "register", Job("register", u, e)) \/ Start(q, "leave", Job("leave", u, e))
      \/ \E u, c : \E i \in Invites : Revoke(u, c, i)
      \/ \E u \in Users, i \in Invites : invite[i] # None /\ BeginRedeem(q, u, i)
  BY Zenon DEF Begin, CreateClan, CreateOrg, CreateSystem
<1>7. ASSUME NEW u, NEW e, NEW label \in {"register", "leave"}, NEW j, Start(q, label, j)
      PROVE  Calm
  BY <1>1, <1>4, <1>7 DEF Redeems
<1> QED
  BY <1>2, <1>3, <1>5, <1>6, <1>7

\* An event whose window passes is still there.
LEMMA TickKeeps ==
  ASSUME Types, NEW e \in Events, Tick(e)
  PROVE  event'[e] # None
<1>1. event[e] \in EventRows
  BY DEF Tick, Live, Types, TypeOK
<1>2. PICK w : w = IF event[e].set.window = "before" THEN "open" ELSE "after"
  OBVIOUS
<1>3. PICK t : t = [event[e].set EXCEPT !.window = w]
  OBVIOUS
<1>4. event[e].set \in SettingsOK
  BY <1>1 DEF EventRows
<1>5. t \in SettingsOK
  BY <1>2, <1>3, <1>4 DEF SettingsOK
<1>6. event' = [event EXCEPT ![e].set.window = w]
  BY <1>2 DEF Tick
<1>7. event'[e] = [event[e] EXCEPT !.set = t]
  BY <1>3, <1>6 DEF Types, TypeOK
<1>8. event'[e] \in EventRows
  BY <1>1, <1>5, <1>7 DEF EventRows
<1> QED
  BY <1>8

\* The world around is calm too.
LEMMA CalmWorld ==
  ASSUME Types, \/ \E c \in Clans, u \in Users : Depart(c, u)
                \/ \E e \in Events : Tick(e)
                \/ \E i \in Invites : Expire(i)
                \/ \E q \in Requests : Abort(q)
                \/ UNCHANGED vars
  PROVE  Calm
<1>1. uses' = uses /\ invite' = invite /\ Latched
  <2>1. uses' = uses /\ invite' = invite
    BY DEF Depart, Tick, Expire, Abort, vars, invites
  <2>2. overlap' = overlap \/ overlap' = (overlap \/ Busy)
    BY DEF Depart, Tick, Expire, Abort, vars, End, Proceed
  <2>3. overlap \in BOOLEAN
    BY DEF Types, TypeOK
  <2> QED
    BY <2>1, <2>2, <2>3 DEF Latched, Busy
<1>2. RowsStay
  <2>1. CASE event' = event
    BY <1>1, <2>1 DEF RowsStay
  <2>2. ASSUME NEW e \in Events, Tick(e)
        PROVE  RowsStay
    <3>1. event[e] \in EventRows
      BY <2>2 DEF Tick, Live, Types, TypeOK
    <3>2. PICK w : event' = [event EXCEPT ![e].set.window = w]
      BY <2>2 DEF Tick
    <3>3. event'[e] = [event[e] EXCEPT !.set.window = w] /\ \A d \in Events : d # e => event'[d] = event[d]
      BY <3>2 DEF Types, TypeOK
    <3>5. PICK t : t = [event[e].set EXCEPT !.window = w]
      OBVIOUS
    <3>6. event'[e] = [event[e] EXCEPT !.set = t]
      BY <3>3, <3>5
    <3>7. event'[e].organizer = event[e].organizer
      BY <3>1, <3>6 DEF EventRows
    <3>4. event'[e].organizer = event[e].organizer /\ event'[e] # None
      BY <2>2, <3>7, TickKeeps
    <3> QED
      BY <1>1, <3>3, <3>4 DEF RowsStay
  <2> QED
    BY <2>1, <2>2 DEF Depart, Expire, Abort, vars, events
<1>3. \A i \in Invites : Redeeming(i)' \subseteq Redeeming(i)
  <2>1. CASE pc' = pc /\ job' = job
    BY <2>1 DEF Redeeming
  <2>2. ASSUME NEW q \in Requests, Abort(q)
        PROVE  \A i \in Invites : Redeeming(i)' \subseteq Redeeming(i)
    BY <2>2, NoMoreRedeem DEF Abort, End, Proceed, Redeems
  <2> QED
    BY <2>1, <2>2 DEF Depart, Tick, Expire, vars
<1> QED
  BY <1>1, <1>2, <1>3 DEF Calm

\* A redemption that passes the test and may be counted.
LEMMA RedeemBound ==
  ASSUME Types, Types', UsesAreBounded, NEW q \in Requests, pc[q] = "idle",
         NEW u \in Users, NEW d \in Invites, invite[d] # None, BeginRedeem(q, u, d)
  PROVE  UsesAreBounded'
<1>1. PICK j : /\ j = [Job("redeem", u, invite[d].event) EXCEPT !.inv = d]
               /\ Start(q, "open", j)
  BY DEF BeginRedeem
<1>2. j.inv = d
  BY <1>1 DEF Job
<1>3. /\ pc' = [pc EXCEPT ![q] = "open"] /\ job' = [job EXCEPT ![q] = j]
      /\ overlap' = (overlap \/ Busy) /\ uses' = uses /\ invite' = invite
  BY <1>1 DEF Start, Open, invites
<1> SUFFICES ASSUME NEW i \in Invites, invite[i] # None, invite[i].limit # None
             PROVE  uses[i] + Cardinality(Redeeming(i)') <= invite[i].limit + Spare'
  BY <1>3 DEF UsesAreBounded
<1>4. PICK old, new : old = Redeeming(i) /\ new = Redeeming(i)'
  OBVIOUS
<1>5. uses[i] \in Nat /\ invite[i].limit \in Nat
  BY InviteFacts
<1>6. uses[i] + Cardinality(old) <= invite[i].limit + Spare
  BY <1>4 DEF UsesAreBounded
<1>7. new = IF i = d THEN old \cup {q} ELSE old
  BY <1>2, <1>3, <1>4 DEF Redeeming, Types, TypeOK, Redeems
<1>8. old \subseteq Requests /\ new \subseteq Requests
  BY <1>4 DEF Redeeming
<1>9. /\ Cardinality(old) \in Nat /\ Cardinality(new) \in Nat
      /\ Cardinality(new) <= Cardinality(Requests) /\ Cardinality(Requests) \in Nat
  BY <1>8, RequestSets
<1>10. Latched
  BY <1>3 DEF Latched, Types, TypeOK
<1>11. Spare \in Int /\ Spare' \in Int /\ Spare <= Spare'
  BY <1>10, SpareGrows
<1>12. CASE i # d
  BY <1>4, <1>5, <1>6, <1>7, <1>9, <1>11, <1>12
<1>13. CASE i = d
  <2>1. uses[i] < invite[i].limit
    BY <1>13 DEF BeginRedeem, Redeemable
  <2>2. CASE overlap'
    <3>1. Spare' = Cardinality(Requests) - 1
      BY <2>2 DEF Spare
    <3> QED
      BY <1>4, <1>5, <1>9, <2>1, <3>1
  <2>3. CASE ~overlap'
    <3>1. old = {}
      BY <1>3, <1>4, <2>3 DEF Busy, Redeeming, Redeems
    <3>2. new = {q}
      BY <1>7, <1>13, <3>1
    <3>3. Spare' = 0
      BY <2>3 DEF Spare
    <3>4. Cardinality(new) = 1
      BY <3>2, FS_Singleton
    <3> QED
      BY <1>4, <1>5, <2>1, <3>3, <3>4
  <2> QED
    BY <2>2, <2>3
<1> QED
  BY <1>12, <1>13

\* A use that is counted was in flight before.
LEMMA CountBound ==
  ASSUME Types, UsesAreBounded, NEW q \in Requests, Count(q)
  PROVE  UsesAreBounded'
<1>1. PICK j, k : j = job[q] /\ k = [j EXCEPT !.mine = OrganizersOf(j.by)]
  OBVIOUS
<1>2. /\ pc' = [pc EXCEPT ![q] = "detail"] /\ uses' = [uses EXCEPT ![j.inv] = @ + 1]
      /\ job' = [job EXCEPT ![q] = k] /\ overlap' = overlap /\ invite' = invite
  BY <1>1 DEF Count, Proceed
<1> SUFFICES ASSUME NEW i \in Invites, invite[i] # None, invite[i].limit # None
             PROVE  uses'[i] + Cardinality(Redeeming(i)') <= invite[i].limit + Spare
  BY <1>2 DEF UsesAreBounded, Spare
<1>3. PICK old, new : old = Redeeming(i) /\ new = Redeeming(i)'
  OBVIOUS
<1>4. uses[i] \in Nat /\ invite[i].limit \in Nat
  BY InviteFacts
<1>5. uses[i] + Cardinality(old) <= invite[i].limit + Spare
  BY <1>3 DEF UsesAreBounded
<1>6. new = old \ {q}
  BY <1>2, <1>3 DEF Redeeming, Types, TypeOK, Redeems
<1>7. old \subseteq Requests
  BY <1>3 DEF Redeeming
<1>8. Cardinality(old) \in Nat /\ IsFiniteSet(old)
  BY <1>7, RequestSets
<1>9. Cardinality(new) = IF q \in old THEN Cardinality(old) - 1 ELSE Cardinality(old)
  BY <1>6, <1>8, FS_RemoveElement
<1>10. Latched
  BY <1>2 DEF Latched
<1>11. Spare \in Int
  BY <1>10, SpareGrows
<1>12. CASE j.inv = i
  <2>1. q \in old
    BY <1>1, <1>3, <1>12 DEF Count, Redeeming, Redeems
  <2>2. uses'[i] = uses[i] + 1
    BY <1>2, <1>12 DEF Types, TypeOK
  <2> QED
    BY <1>3, <1>4, <1>5, <1>8, <1>9, <1>11, <2>1, <2>2
<1>13. CASE j.inv # i
  <2>1. q \notin old
    BY <1>1, <1>3, <1>13 DEF Redeeming
  <2>2. uses'[i] = uses[i]
    BY <1>2, <1>13 DEF Types, TypeOK
  <2> QED
    BY <1>3, <1>5, <1>9, <2>1, <2>2
<1> QED
  BY <1>12, <1>13

\* The inductive invariant of the count.
LEMMA UsesStep == Types /\ UsesAreBounded /\ [Next]_vars => UsesAreBounded'
<1> SUFFICES ASSUME Types, UsesAreBounded, [Next]_vars PROVE UsesAreBounded'
  OBVIOUS
<1>1. Types'
  BY TypeStep
<1>2. CASE Calm
  BY <1>1, <1>2, CalmStep
<1>3. ASSUME NEW q \in Requests, Begin(q)
      PROVE  UsesAreBounded'
  BY <1>1, <1>2, <1>3, CalmBeginnings, RedeemBound DEF Begin
<1>4. ASSUME NEW q \in Requests, Step(q)
      PROVE  UsesAreBounded'
  BY <1>2, <1>4, CalmStatements, CountBound
<1> QED
  BY <1>2, <1>3, <1>4, CalmWorld DEF Next

\* However many redemptions race between the test of an invite and its count,
\* it is used at most once more per further request in flight, and not at all
\* too often while no two requests overlap.
THEOREM OverrunBound == Spec => []OverrunIsBounded
<1>1. Init => UsesAreBounded
  BY DEF Init, UsesAreBounded
<1>2. Types /\ UsesAreBounded => OverrunIsBounded
  <2> SUFFICES ASSUME Types, UsesAreBounded, NEW i \in Invites, invite[i] # None, invite[i].limit # None
               PROVE  uses[i] <= invite[i].limit + Spare
    BY DEF OverrunIsBounded, Spare
  <2>1. PICK old : old = Redeeming(i)
    OBVIOUS
  <2>2. Cardinality(old) \in Nat
    BY <2>1, RequestSets DEF Redeeming
  <2>3. uses[i] + Cardinality(old) <= invite[i].limit + Spare
    BY <2>1 DEF UsesAreBounded
  <2>4. Latched => Spare \in Int
    BY SpareGrows
  <2>5. Spare \in Int
    BY RequestSets DEF Spare
  <2> QED
    BY <2>2, <2>3, <2>5, InviteFacts
<1>3. Spec => []Types
  BY TypesHold
<1>4. Types /\ UsesAreBounded /\ [Next]_vars => UsesAreBounded'
  BY UsesStep
<1> QED
  BY <1>1, <1>2, <1>3, <1>4, PTL DEF Spec

-----------------------------------------------------------------------------
(***************************************************************************)
(* One request at a time                                                   *)
(***************************************************************************)
\* While no two requests overlap there is at most one, ...
Alone == ~overlap => \A p, q \in Requests : pc[p] # "idle" /\ pc[q] # "idle" => p = q

\* ... nobody is missing in the clan he owns, ...
OwnersAreMembers == \A c \in Clans : Owner[c] \in members[c]

\* The invite that a redemption holds is good for its user.
GoodFor(j) ==
    /\ j.inv \notin revoked
    /\ invite[j.inv].target \in {None, j.by}
    /\ invite[j.inv].limit # None => uses[j.inv] < invite[j.inv].limit

\* The sender may enter the event, as he applied or was invited.
Admissible(j) ==
    /\ j.event \in Live
    /\ j.inv # None => event[j.event].set.policy # "CLOSED" /\ GoodFor(j)
    /\ j.inv = None =>
         /\ Visible(j.by, OrganizersOf(j.by), j.event)
         /\ event[j.event].set.policy = "OPEN" /\ event[j.event].set.window = "open"
         /\ event[j.event].set.approval <=> j.status = "PENDING"

\* Who manages is a member of the clan or an admin.
MayManage(j) == j.clan \in Clans /\ (j.by \in Admins \/ j.by \in members[j.clan])

\* The last statement will find the event.
WillSee(j) ==
    \/ j.event \in Live /\ Visible(j.by, j.mine, j.event)
    \/ j.by \in Admins /\ j.clan # None /\ j.clan \notin j.mine

\* What the statements before label have found.
Found(label, j) ==
    /\ label \in {"find", "update"} \cup Inside => MayManage(j)
    /\ label \in Inside => j.mine = OrganizersOf(j.by) /\ j.event \in Live
    /\ label = "delete" /\ j.clan \in j.mine => \A u \in Users : entry[j.event][u] # None => u \in j.readers
    /\ label = "open" => GoodFor(j)
    /\ label \in {"present", "enter"} => Admissible(j)
    /\ label = "count" => j.event \in Live /\ entry[j.event][j.by] # None
    /\ label = "detail" => WillSee(j)

\* ... and what its statements have found still is so.
FoundStill == ~overlap => \A q \in Requests : pc[q] # "idle" => Found(pc[q], job[q])

Undisturbed == Alone /\ OwnersAreMembers /\ FoundStill

\* Nothing that a request looks for is changed.
Untouched == UNCHANGED <<members, event, cancelled, entry, invite, uses, revoked>>

\* Then what was found stays so.
LEMMA FoundSame ==
  ASSUME Untouched, NEW label, NEW j, Found(label, j)
  PROVE  Found(label, j)'
  BY DEF Untouched, Found, MayManage, GoodFor, Admissible, WillSee, Visible, OrganizersOf, Live

\* The one request in flight goes on with what it has found, or ends.
LEMMA OneMoves ==
  ASSUME Types, Undisturbed, NEW q \in Requests, pc[q] # "idle", NEW l, NEW k, Proceed(q, l, k),
         members' = members, ~overlap => l = "idle" \/ Found(l, k)'
  PROVE  Undisturbed'
<1>1. /\ overlap' = overlap
      /\ pc' = [pc EXCEPT ![q] = l] /\ job' = [job EXCEPT ![q] = k]
  BY DEF Proceed
<1>2. Alone'
  BY <1>1 DEF Types, TypeOK, Alone, Undisturbed
<1>3. OwnersAreMembers'
  BY DEF OwnersAreMembers, Undisturbed
<1>4. ASSUME ~overlap, NEW p \in Requests, NEW m, NEW i, m = pc'[p], i = job'[p], m # "idle"
      PROVE  Found(m, i)'
  <2>1. CASE p = q
    BY <1>1, <1>4, <2>1 DEF Types, TypeOK
  <2>2. CASE p # q
    BY <1>1, <1>4, <2>2 DEF Types, TypeOK, Alone, Undisturbed
  <2> QED
    BY <2>1, <2>2
<1>5. FoundStill'
  BY <1>1, <1>4 DEF FoundStill, Found
<1> QED
  BY <1>2, <1>3, <1>5 DEF Undisturbed

\* A request starts, and is alone if none overlaps it.
LEMMA OneStarts ==
  ASSUME Types, Undisturbed, NEW q \in Requests, NEW l, NEW k, Start(q, l, k),
         Found(l, k)
  PROVE  Undisturbed'
<1>1. /\ overlap' = (overlap \/ Busy)
      /\ pc' = [pc EXCEPT ![q] = l] /\ job' = [job EXCEPT ![q] = k]
      /\ Untouched
  BY DEF Start, Open, Untouched, world, events, invites
<1>2. ~overlap' => \A p \in Requests : pc[p] = "idle"
  BY <1>1 DEF Busy, Types, TypeOK
<1>3. Alone'
  BY <1>1, <1>2 DEF Types, TypeOK, Alone
<1>4. OwnersAreMembers'
  BY <1>1 DEF OwnersAreMembers, Undisturbed, Untouched
<1>5. Found(l, k)'
  BY <1>1, FoundSame
<1>6. ASSUME ~overlap', NEW p \in Requests, NEW m, NEW i, m = pc'[p], i = job'[p], m # "idle"
      PROVE  Found(m, i)'
  BY <1>1, <1>2, <1>5, <1>6 DEF Types, TypeOK
<1>7. FoundStill'
  BY <1>6 DEF FoundStill, Found
<1> QED
  BY <1>3, <1>4, <1>7 DEF Undisturbed

\* A change of the world beside the requests: if it overlaps none, there is
\* nobody whose findings it could spoil.
LEMMA NobodyMoves ==
  ASSUME Types, Undisturbed, pc' = pc, job' = job, OwnersAreMembers',
         overlap' = (overlap \/ Busy) \/ (overlap' = overlap /\ Untouched)
  PROVE  Undisturbed'
<1>1. CASE overlap' = (overlap \/ Busy)
  <2>1. ~overlap' => \A p \in Requests : pc'[p] = "idle"
    BY <1>1 DEF Busy, Types, TypeOK
  <2> QED
    BY <2>1 DEF Undisturbed, Alone, FoundStill
<1>2. CASE overlap' = overlap /\ Untouched
  <2>1. ASSUME ~overlap, NEW p \in Requests, NEW m, NEW i, m = pc[p], i = job[p], m # "idle"
        PROVE  Found(m, i)'
    <3>1. Found(m, i)
      BY <2>1 DEF Undisturbed, FoundStill
    <3> QED
      BY <1>2, <3>1, FoundSame
  <2>2. FoundStill'
    BY <1>2, <2>1 DEF FoundStill, Found
  <2> QED
    BY <1>2, <2>2 DEF Undisturbed, Alone
<1> QED
  BY <1>1, <1>2

\* Who passes the guards of a clan's routes may manage.
LEMMA CanManageIt ==
  ASSUME Types, OwnersAreMembers, NEW c \in Clans, NEW u, NEW right, Can(u, c, right)
  PROVE  u \in Admins \/ u \in members[c]
  BY DEF Can, OwnersAreMembers

\* Below a clan, a request starts with the guard's finding.
LEMMA ManagingFinds ==
  ASSUME Types, Undisturbed, NEW q \in Requests, NEW u \in Users, NEW c \in Clans,
         NEW e \in Events, BeginManaging(q, u, c, e)
  PROVE  Undisturbed'
<1>1. ASSUME NEW l \in {"find", "update"}, NEW right, NEW j, j.by = u, j.clan = c,
             Manage(q, l, right, j)
      PROVE  Undisturbed'
  <2>1. MayManage(j)
    BY <1>1, CanManageIt DEF MayManage, Manage, Undisturbed
  <2>2. Found(l, j)
    BY <1>1, <2>1 DEF Found, Inside
  <2> QED
    BY <1>1, <2>2, OneStarts DEF Manage
<1> DEFINE J(op) == [Job(op, u, e) EXCEPT !.clan = c]
<1>2. /\ \A op : J(op).by = u /\ J(op).clan = c
      /\ \A op, t : [J(op) EXCEPT !.who = t].by = u /\ [J(op) EXCEPT !.who = t].clan = c
      /\ \A op, n : [J(op) EXCEPT !.limit = n].by = u /\ [J(op) EXCEPT !.limit = n].clan = c
      /\ \A op, s : [J(op) EXCEPT !.set = s].by = u /\ [J(op) EXCEPT !.set = s].clan = c
  BY DEF Job
<1> HIDE DEF J
<1>3. ASSUME NEW op, NEW t, NEW right, Manage(q, "find", right, [J(op) EXCEPT !.who = t])
      PROVE  Undisturbed'
  <2>1. PICK j : j = [J(op) EXCEPT !.who = t]
    OBVIOUS
  <2> QED
    BY <1>1, <1>2, <1>3, <2>1
<1>4. ASSUME NEW n, NEW right, Manage(q, "find", right, [J("link") EXCEPT !.limit = n])
      PROVE  Undisturbed'
  <2>1. PICK j : j = [J("link") EXCEPT !.limit = n]
    OBVIOUS
  <2> QED
    BY <1>1, <1>2, <1>4, <2>1
<1>5. ASSUME NEW s, NEW right, Manage(q, "update", right, [J("update") EXCEPT !.set = s])
      PROVE  Undisturbed'
  <2>1. PICK j : j = [J("update") EXCEPT !.set = s]
    OBVIOUS
  <2> QED
    BY <1>1, <1>2, <1>5, <2>1
<1>6. ASSUME NEW right, Manage(q, "find", right, J("cancel"))
      PROVE  Undisturbed'
  BY <1>1, <1>2, <1>6
<1> QED
  BY <1>3, <1>4, <1>5, <1>6, Zenon DEF BeginManaging, J

\* All other beginnings.
LEMMA BeginFinds ==
  ASSUME Types, Undisturbed, NEW q \in Requests, Begin(q)
  PROVE  Undisturbed'
<1>1. ASSUME NEW u, NEW o, NEW e, NEW s, Persist(u, o, e, s)
      PROVE  Undisturbed'
  BY <1>1, NobodyMoves DEF Persist, world, OwnersAreMembers, Undisturbed
<1>2. ASSUME NEW u, NEW c, NEW i, Revoke(u, c, i)
      PROVE  Undisturbed'
  BY <1>2, NobodyMoves DEF Revoke, Open, world, OwnersAreMembers, Undisturbed
<1>3. ASSUME NEW l \in {"register", "leave"}, NEW j, Start(q, l, j)
      PROVE  Undisturbed'
  <2>1. Found(l, j)
    BY DEF Found, Inside
  <2> QED
    BY <1>3, <2>1, OneStarts
<1>4. ASSUME NEW u \in Users, NEW i \in Invites, invite[i] # None, BeginRedeem(q, u, i)
      PROVE  Undisturbed'
  <2>1. PICK j : /\ j = [Job("redeem", u, invite[i].event) EXCEPT !.inv = i]
                 /\ Start(q, "open", j)
    BY <1>4 DEF BeginRedeem
  <2>2. j.inv = i /\ j.by = u
    BY <2>1 DEF Job
  <2>3. Found("open", j)
    BY <1>4, <2>2 DEF Found, Inside, GoodFor, BeginRedeem, Redeemable
  <2> QED
    BY <2>1, <2>3, OneStarts
<1>5. \/ \E u, o, e, s : Persist(u, o, e, s)
      \/ \E u \in Users, c \in Clans, e \in Events : BeginManaging(q, u, c, e)
      \/ \E u, e : Start(q, "register", Job("register", u, e)) \/ Start(q, "leave", Job("leave", u, e))
      \/ \E u, c, i : Revoke(u, c, i)
      \/ \E u \in Users, i \in Invites : invite[i] # None /\ BeginRedeem(q, u, i)
  BY Zenon DEF Begin, CreateClan, CreateOrg, CreateSystem
<1> QED
  BY <1>1, <1>2, <1>3, <1>4, <1>5, ManagingFinds

\* The locals of a request that is alone.
LEMMA Knows ==
  ASSUME Types, Undisturbed, NEW q \in Requests, NEW l, NEW j, l = pc[q], j = job[q], l # "idle"
  PROVE  /\ JobOK(l, j) /\ j \in Jobs /\ j.event \in Events /\ j.by \in Users
         /\ ~overlap => Found(l, j)
<1>1. JobOK(l, j)
  BY DEF Types, JobsAreKnown, JobOK
<1>2. j \in Jobs /\ j.event \in Events /\ j.by \in Users
  BY <1>1 DEF JobOK, Jobs
<1>3. ~overlap => Found(l, j)
  BY DEF Undisturbed, FoundStill
<1> QED
  BY <1>1, <1>2, <1>3

\* Statements that only read go on with what they have found.
LEMMA ReadingFinds ==
  ASSUME Types, Undisturbed, NEW q \in Requests, pc[q] # "idle",
         UNCHANGED <<world, events, entry, invites, notices>>,
         \/ End(q)
         \/ \E l, k : Proceed(q, l, k) /\ (~overlap => Found(l, k))
  PROVE  Undisturbed'
<1>1. Untouched /\ members' = members
  BY DEF Untouched, world, events, invites
<1>2. CASE End(q)
  BY <1>1, <1>2, OneMoves DEF End
<1>3. ASSUME NEW l, NEW k, Proceed(q, l, k), ~overlap => Found(l, k)
      PROVE  Undisturbed'
  BY <1>1, <1>3, FoundSame, OneMoves
<1> QED
  BY <1>2, <1>3

\* register finds an event that its user may enter.
LEMMA RegisterFinds ==
  ASSUME Types, Undisturbed, NEW q \in Requests, Register(q)
  PROVE  Undisturbed'
<1>1. PICK j : j = job[q]
  OBVIOUS
<1>2. JobOK("register", j) /\ j \in Jobs
  BY <1>1, Knows DEF Register
<1>3. PICK S, st : S = OrganizersOf(j.by) /\ st = IF event[j.event].set.approval THEN "PENDING" ELSE "CONFIRMED"
  OBVIOUS
<1>4. PICK k : k = [j EXCEPT !.mine = S, !.status = st]
  OBVIOUS
<1>5. CASE End(q)
  BY <1>5, ReadingFinds DEF Register
<1>6. CASE ~End(q)
  <2>1. /\ Proceed(q, "present", k)
        /\ j.event \in Live /\ Visible(j.by, S, j.event)
        /\ event[j.event].set.policy = "OPEN" /\ event[j.event].set.window = "open"
    BY <1>1, <1>3, <1>4, <1>6 DEF Register
  <2>2. k.by = j.by /\ k.event = j.event /\ k.inv = None /\ k.status = st
    BY <1>2, <1>4 DEF Jobs, JobOK
  <2>3. event[k.event].set.approval <=> k.status = "PENDING"
    BY <1>3, <2>2
  <2>4. Admissible(k)
    BY <1>3, <2>1, <2>2, <2>3 DEF Admissible
  <2>5. Found("present", k)
    BY <2>4 DEF Found, Inside
  <2> QED
    BY <2>1, <2>5, ReadingFinds DEF Register
<1> QED
  BY <1>5, <1>6

\* The lookup finds an event of the clan.
LEMMA FindFinds ==
  ASSUME Types, Undisturbed, NEW q \in Requests, Find(q)
  PROVE  Undisturbed'
<1>1. PICK j : j = job[q]
  OBVIOUS
<1>2. JobOK("find", j) /\ j \in Jobs /\ (~overlap => Found("find", j))
  BY <1>1, Knows DEF Find
<1>3. PICK k : k = [j EXCEPT !.mine = OrganizersOf(j.by)]
  OBVIOUS
<1>4. CASE End(q)
  BY <1>4, ReadingFinds DEF Find
<1>5. CASE ~End(q)
  <2>1. PICK l : l = Following[j.op] /\ Proceed(q, l, k) /\ j.event \in Live
    BY <1>1, <1>3, <1>5 DEF Find
  <2>2. l \in {"confirm", "drop", "readers", "targetEntry", "insert"}
    BY <1>2, <2>1 DEF JobOK, Managing, Following
  <2>3. k.by = j.by /\ k.event = j.event /\ k.clan = j.clan /\ k.mine = OrganizersOf(j.by)
    BY <1>2, <1>3 DEF Jobs
  <2>4. ~overlap => MayManage(k)
    BY <1>2, <2>3 DEF Found, MayManage
  <2>5. ~overlap => Found(l, k)
    BY <2>1, <2>2, <2>3, <2>4 DEF Found, Inside
  <2> QED
    BY <2>1, <2>5, ReadingFinds DEF Find
<1> QED
  BY <1>4, <1>5

\* Tests that pass leave the findings as they are; the last one looks at the
\* event that the invite opens.
LEMMA TestFinds ==
  ASSUME Types, Undisturbed, NEW q \in Requests,
         Present(q) \/ Detail(q) \/ TargetEntry(q) \/ Duplicate(q) \/ EventOpen(q)
  PROVE  Undisturbed'
<1>1. PICK l, j : l = pc[q] /\ j = job[q]
  OBVIOUS
<1>2. l # "idle" /\ l \in {"present", "detail", "targetEntry", "duplicate", "open"}
  BY <1>1 DEF Present, Detail, TargetEntry, Duplicate, EventOpen
<1>3. JobOK(l, j) /\ j \in Jobs /\ (~overlap => Found(l, j))
  BY <1>1, <1>2, Knows
<1>4. UNCHANGED <<world, events, entry, invites, notices>>
  BY DEF Present, Detail, TargetEntry, Duplicate, EventOpen
<1>5. CASE End(q)
  BY <1>1, <1>2, <1>4, <1>5, ReadingFinds
<1>6. CASE ~End(q)
  <2>1. CASE Present(q)
    <3>1. Proceed(q, "enter", j) /\ l = "present"
      BY <1>1, <1>6, <2>1 DEF Present, GotoIf, Goto
    <3>2. ~overlap => Found("enter", j)
      BY <1>3, <3>1 DEF Found, Inside
    <3> QED
      BY <1>1, <1>2, <1>4, <3>1, <3>2, ReadingFinds
  <2>2. CASE TargetEntry(q) \/ Duplicate(q)
    <3>1. PICK m \in {"duplicate", "insert"} : Proceed(q, m, j) /\ l \in {"targetEntry", "duplicate"}
      BY <1>1, <1>6, <2>2 DEF TargetEntry, Duplicate, GotoIf, Goto
    <3>2. ~overlap => Found(m, j)
      BY <1>3, <3>1 DEF Found, Inside
    <3> QED
      BY <1>1, <1>2, <1>4, <3>1, <3>2, ReadingFinds
  <2>3. CASE EventOpen(q)
    <3>1. /\ Proceed(q, "present", j) /\ l = "open"
          /\ j.event \in Live /\ event[j.event].set.policy # "CLOSED"
      BY <1>1, <1>6, <2>3 DEF EventOpen, GotoIf, Goto
    <3>2. j.inv # None
      BY <1>3, <3>1 DEF JobOK
    <3>3. ~overlap => Found("present", j)
      BY <1>3, <3>1, <3>2 DEF Found, Inside, Admissible
    <3> QED
      BY <1>1, <1>2, <1>4, <3>1, <3>3, ReadingFinds
  <2> QED
    BY <1>6, <2>1, <2>2, <2>3 DEF Detail
<1> QED
  BY <1>5, <1>6

\* A member of the clan, or an admin, sees the clan's event to the end.
LEMMA ManagersSee ==
  ASSUME Types, NEW label \in Inside, NEW j, JobOK(label, j), Found(label, j)
  PROVE  /\ j.event \in Live /\ MayManage(j)
         /\ event[j.event].organizer = j.clan
         /\ j.mine = OrganizersOf(j.by)
         /\ j.clan \in j.mine \/ (j.by \in Admins /\ j.clan # None /\ j.clan \notin j.mine)
<1>1. /\ j.event \in Live /\ MayManage(j) /\ event[j.event].organizer = j.clan
      /\ j.mine = OrganizersOf(j.by)
  BY DEF Found, JobOK
<1>2. j.clan # None
  BY <1>1 DEF MayManage, Organizers
<1>3. j.by \in members[j.clan] => j.clan \in OrganizersOf(j.by)
  BY <1>1 DEF MayManage, OrganizersOf
<1> QED
  BY <1>1, <1>2, <1>3 DEF MayManage

\* The entry is made.
LEMMA EnterFinds ==
  ASSUME Types, Undisturbed, NEW q \in Requests, Enter(q)
  PROVE  Undisturbed'
<1>1. PICK j : j = job[q]
  OBVIOUS
<1>2. JobOK("enter", j) /\ j \in Jobs /\ (~overlap => Found("enter", j)) /\ j.event \in Events /\ j.by \in Users
  BY <1>1, Knows DEF Enter
<1>3. members' = members /\ event' = event /\ cancelled' = cancelled
  BY DEF Enter, world, events
<1>4. CASE End(q)
  BY <1>3, <1>4, OneMoves DEF End, Enter
<1>5. CASE ~End(q)
  <2>1. PICK l : /\ l = IF j.inv = None THEN "detail" ELSE "count"
                 /\ Proceed(q, l, j)
                 /\ entry' = [entry EXCEPT ![j.event][j.by] = j.status]
    BY <1>1, <1>5 DEF Enter, Goto
  <2>2. j.status # None
    BY <1>2 DEF Jobs
  <2>3. entry'[j.event][j.by] # None
    BY <1>2, <2>1, <2>2 DEF Types, TypeOK
  <2>4. ~overlap => j.event \in Live
    BY <1>2 DEF Found, Admissible
  <2>5. ~overlap => Found(l, j)'
    BY <1>3, <2>1, <2>3, <2>4 DEF Found, Inside, Live, WillSee, Visible
  <2> QED
    BY <1>3, <2>1, <2>5, OneMoves DEF Enter
<1> QED
  BY <1>4, <1>5

\* What organizers write.
LEMMA WritingFinds ==
  ASSUME Types, Undisturbed, NEW q \in Requests, Confirm(q) \/ Drop(q) \/ Update(q)
  PROVE  Undisturbed'
<1>1. PICK l, j : l = pc[q] /\ j = job[q]
  OBVIOUS
<1>2. l # "idle" /\ l \in {"confirm", "drop", "update"}
  BY <1>1 DEF Confirm, Drop, Update
<1>3. JobOK(l, j) /\ j \in Jobs /\ (~overlap => Found(l, j)) /\ j.event \in Events
  BY <1>1, <1>2, Knows
<1>4. members' = members /\ cancelled' = cancelled
  BY DEF Confirm, Drop, Update, world, events
<1>5. CASE End(q)
  BY <1>1, <1>2, <1>4, <1>5, OneMoves DEF End
<1>6. CASE ~End(q) /\ (Confirm(q) \/ Drop(q))
  <2>1. Proceed(q, "detail", j) /\ l \in {"confirm", "drop"} /\ event' = event
    BY <1>1, <1>6 DEF Confirm, Drop, Goto, events
  <2>2. ~overlap => /\ j.event \in Live
                    /\ event[j.event].organizer \in j.mine \/ (j.by \in Admins /\ j.clan # None /\ j.clan \notin j.mine)
    BY <1>3, <2>1, ManagersSee DEF Inside
  <2>3. ~overlap => Found("detail", j)'
    BY <1>4, <2>1, <2>2 DEF Found, Inside, Live, WillSee, Visible
  <2> QED
    BY <1>1, <1>2, <1>4, <2>1, <2>3, OneMoves
<1>7. CASE ~End(q) /\ Update(q)
  <2>1. PICK k : k = [j EXCEPT !.mine = OrganizersOf(j.by)]
    OBVIOUS
  <2>2. Proceed(q, "detail", k) /\ l = "update" /\ j.event \in Live /\ event[j.event].organizer = j.clan
    BY <1>1, <1>7, <2>1 DEF Update
  <2>3. k.by = j.by /\ k.event = j.event /\ k.clan = j.clan /\ k.mine = OrganizersOf(j.by)
    BY <1>3, <2>1 DEF Jobs
  <2>4. event'[j.event] # None /\ event'[j.event].organizer = j.clan
    <3>1. Step(q)
      BY <1>7 DEF Step
    <3> QED
      BY <1>3, <2>2, <3>1, StepKeepsRows DEF RowsStay, JobOK
  <2>5. ~overlap => MayManage(j)
    BY <1>3, <2>2 DEF Found
  <2>6. ~overlap => j.clan \in OrganizersOf(j.by) \/ (j.by \in Admins /\ j.clan # None)
    BY <2>5 DEF MayManage, OrganizersOf, Organizers
  <2>7. j.event \in Live'
    BY <1>4, <2>2, <2>4 DEF Live
  <2>8. ~overlap => Found("detail", k)'
    BY <2>3, <2>4, <2>6, <2>7 DEF Found, Inside, WillSee, Visible
  <2> QED
    BY <1>1, <1>2, <1>4, <2>2, <2>8, OneMoves
<1> QED
  BY <1>5, <1>6, <1>7

\* cancel reads who takes part: a member of the clan sees them all.
LEMMA ReadersFinds ==
  ASSUME Types, Undisturbed, NEW q \in Requests, Readers(q)
  PROVE  Undisturbed'
<1>1. PICK j : j = job[q]
  OBVIOUS
<1>2. JobOK("readers", j) /\ j \in Jobs /\ (~overlap => Found("readers", j))
  BY <1>1, Knows DEF Readers
<1>3. PICK S : S = {u \in Users : entry[j.event][u] # None /\ EntryVisible(q, u)}
  OBVIOUS
<1>4. PICK k : k = [j EXCEPT !.readers = S]
  OBVIOUS
<1>5. Proceed(q, "delete", k)
  BY <1>1, <1>3, <1>4 DEF Readers
<1>6. /\ k.by = j.by /\ k.event = j.event /\ k.clan = j.clan /\ k.mine = j.mine
      /\ k.readers = S
  BY <1>2, <1>4 DEF Jobs
<1>7. event[j.event].organizer = j.clan
  BY <1>2 DEF JobOK, Inside
<1>8. \A u \in Users : j.clan \in j.mine /\ entry[j.event][u] # None => u \in S
  BY <1>1, <1>3, <1>7 DEF EntryVisible
<1>9. ~overlap => MayManage(k)
  BY <1>2, <1>6 DEF Found, MayManage, Inside
<1>10. ~overlap => Found("delete", k)
  BY <1>2, <1>6, <1>8, <1>9 DEF Found, Inside
<1> QED
  BY <1>5, <1>10, ReadingFinds DEF Readers

\* The count of a redemption, whose user sees the event as he takes part.
LEMMA CountFinds ==
  ASSUME Types, Undisturbed, NEW q \in Requests, Count(q)
  PROVE  Undisturbed'
<1>1. PICK j : j = job[q]
  OBVIOUS
<1>2. JobOK("count", j) /\ j \in Jobs /\ (~overlap => Found("count", j))
  BY <1>1, Knows DEF Count
<1>3. PICK k : k = [j EXCEPT !.mine = OrganizersOf(j.by)]
  OBVIOUS
<1>4. k.by = j.by /\ k.event = j.event
  BY <1>2, <1>3 DEF Jobs
<1>5. /\ members' = members /\ event' = event /\ cancelled' = cancelled /\ entry' = entry
      /\ Proceed(q, "detail", k)
  BY <1>1, <1>3 DEF Count, world, events
<1>6. ~overlap => Found("detail", k)'
  BY <1>2, <1>4, <1>5 DEF Found, Inside, WillSee, Visible, Live
<1> QED
  BY <1>5, <1>6, OneMoves DEF Count

\* Every step keeps what the one request in flight has found.
LEMMA UndisturbedStep == Types /\ Undisturbed /\ [Next]_vars => Undisturbed'
<1> SUFFICES ASSUME Types, Undisturbed, [Next]_vars PROVE Undisturbed'
  OBVIOUS
<1>1. CASE UNCHANGED vars
  BY <1>1, NobodyMoves DEF vars, Untouched, OwnersAreMembers, Undisturbed
<1>2. ASSUME NEW q \in Requests, Step(q)
      PROVE  Undisturbed'
  <2>1. CASE Leave(q) \/ Delete(q) \/ Insert(q)
    <3>1. End(q) /\ members' = members /\ pc[q] # "idle"
      BY <2>1 DEF Leave, Delete, Insert, world
    <3> QED
      BY <3>1, OneMoves DEF End
  <2> QED
    BY <1>2, <2>1, RegisterFinds, FindFinds, TestFinds, EnterFinds, WritingFinds, ReadersFinds,
       CountFinds DEF Step
<1>3. ASSUME NEW q \in Requests, Abort(q)
      PROVE  Undisturbed'
  BY <1>3, OneMoves DEF Abort, End
<1>4. ASSUME NEW c \in Clans, NEW u \in Users, Depart(c, u)
      PROVE  Undisturbed'
  <2>1. OwnersAreMembers'
    BY <1>4 DEF Depart, Undisturbed, OwnersAreMembers, Types, TypeOK
  <2> QED
    BY <1>4, <2>1, NobodyMoves DEF Depart
<1>5. ASSUME NEW e \in Events, Tick(e)
      PROVE  Undisturbed'
  BY <1>5, NobodyMoves DEF Tick, OwnersAreMembers, Undisturbed
<1>6. ASSUME NEW i \in Invites, Expire(i)
      PROVE  Undisturbed'
  BY <1>6, NobodyMoves DEF Expire, events, Untouched, OwnersAreMembers, Undisturbed
<1> QED
  BY <1>1, <1>2, <1>3, <1>4, <1>5, <1>6, BeginFinds DEF Next

\* So it holds throughout.
THEOREM NobodyIsDisturbed == Spec => []Undisturbed
<1>1. Init => Undisturbed
  BY DEF Init, Undisturbed, Alone, OwnersAreMembers, FoundStill
<1>2. Spec => []Types
  BY TypesHold
<1> QED
  BY <1>1, <1>2, UndisturbedStep, PTL DEF Spec

\* While no two requests overlap, who has changed an event or an entry gets to
\* see the result: detail does not answer 404 after the change is committed.
THEOREM ChangesShown == Spec => []ChangesAreShown
<1>1. Undisturbed => ChangesAreShown
  BY DEF Undisturbed, FoundStill, ChangesAreShown, Found, WillSee
<1> QED
  BY <1>1, NobodyIsDisturbed, PTL

\* What EntriesAreWarranted asks of a step.
Warranted(e, u) ==
    ~overlap /\ ~overlap' /\ entry[e][u] = None /\ entry'[e][u] # None
         => /\ e \in Live
            /\ event[e].set.policy # "CLOSED"
            /\ \/ /\ Visible(u, OrganizersOf(u), e)
                  /\ event[e].set.policy = "OPEN" /\ event[e].set.window = "open"
                  /\ event[e].set.approval <=> entry'[e][u] = "PENDING"
               \/ \E i \in Invites \ revoked :
                    /\ invite[i] # None /\ invite[i].event = e
                    /\ invite[i].target \in {None, u}
                    /\ invite[i].limit # None => uses[i] < invite[i].limit

\* An entry is made by Enter, on what register or redeem has found.
LEMMA EnterWarranted ==
  ASSUME Types, Undisturbed, NEW q \in Requests, Enter(q), NEW e \in Events, NEW u \in Users
  PROVE  Warranted(e, u)
<1> SUFFICES ASSUME ~overlap, entry[e][u] = None, entry'[e][u] # None
             PROVE  Warranted(e, u)
  BY DEF Warranted
<1>1. PICK j : j = job[q]
  OBVIOUS
<1>2. JobOK("enter", j) /\ j \in Jobs /\ Found("enter", j) /\ j.event \in Events /\ j.by \in Users
  BY <1>1, Knows DEF Enter
<1>3. entry' = [entry EXCEPT ![j.event][j.by] = j.status]
  BY <1>1 DEF Enter
<1>4. PICK d, v, st : d = j.event /\ v = j.by /\ st = j.status
  OBVIOUS
<1>5. e = d /\ u = v
  BY <1>2, <1>3, <1>4, OneEntry
<1>6. entry'[e][u] = j.status
  BY <1>2, <1>3, <1>4, <1>5 DEF Types, TypeOK
<1>7. Admissible(j) /\ j.event = e /\ j.by = u
  BY <1>2, <1>4, <1>5 DEF Found
<1>8. CASE j.inv = None
  BY <1>6, <1>7, <1>8 DEF Warranted, Admissible
<1>9. CASE j.inv # None
  <2>1. j.inv \in Invites /\ invite[j.inv] # None /\ invite[j.inv].event = e
    BY <1>2, <1>7, <1>9 DEF JobOK, Jobs
  <2> QED
    BY <1>7, <1>9, <2>1 DEF Warranted, Admissible, GoodFor
<1> QED
  BY <1>8, <1>9

\* While no two requests overlap, whoever gets in is allowed to when he gets
\* in: he sees an open event, or he has an invite that is good for him.
THEOREM EntriesWarranted == Spec => EntriesAreWarranted
<1>1. ASSUME Types, Undisturbed, [Next]_vars, NEW e \in Events, NEW u \in Users
      PROVE  Warranted(e, u)
  <2>1. CASE entry' = entry
    BY <2>1 DEF Warranted
  <2>2. ASSUME NEW q \in Requests, Enter(q)
        PROVE  Warranted(e, u)
    BY <1>1, <2>2, EnterWarranted
  <2>3. ASSUME NEW q \in Requests, Leave(q) \/ Confirm(q) \/ Drop(q)
        PROVE  Warranted(e, u)
    <3>1. PICK l, j : l = pc[q] /\ j = job[q]
      OBVIOUS
    <3>2. JobOK(l, j) /\ j.event \in Events
      BY <1>1, <2>3, <3>1, Knows DEF Leave, Confirm, Drop
    <3>0. PICK d \in Events : \E v, st :
            /\ entry' = entry \/ entry' = [entry EXCEPT ![d][v] = st]
            /\ st = None \/ entry[d][v] = "PENDING"
      BY <2>3, <3>1, <3>2 DEF Leave, Confirm, Drop
    <3>3. PICK v, st :
            /\ entry' = entry \/ entry' = [entry EXCEPT ![d][v] = st]
            /\ st = None \/ entry[d][v] = "PENDING"
      BY <3>0
    <3>4. entry' = entry \/ \E x : entry' = [entry EXCEPT ![d][v] = x]
      BY <3>3
    <3>5. \A x \in Events, y \in Users : entry'[x][y] # entry[x][y] => x = d /\ y = v
      BY <1>1, <3>4, OneEntry
    <3>6. entry' # entry => entry'[d][v] = st \/ v \notin Users
      BY <1>1, <3>3 DEF Types, TypeOK
    <3> QED
      BY <3>3, <3>5, <3>6 DEF Warranted, Statuses
  <2>4. ASSUME NEW q \in Requests, Quiet(q) \/ Update(q) \/ Delete(q)
        PROVE  Warranted(e, u)
    BY <1>1, <2>1, <2>4, QuietStep DEF Update, Delete
  <2>5. CASE \/ \E c \in Clans, v \in Users : Depart(c, v)
             \/ \E d \in Events : Tick(d)
             \/ \E i \in Invites : Expire(i)
             \/ UNCHANGED vars
    BY <2>1, <2>5 DEF Depart, Tick, Expire, vars
  <2>6. CASE Next
    <3>1. \/ \E q \in Requests : \/ Quiet(q) \/ Update(q) \/ Delete(q)
                                 \/ Enter(q) \/ Leave(q) \/ Confirm(q) \/ Drop(q)
          \/ \E c \in Clans, v \in Users : Depart(c, v)
          \/ \E d \in Events : Tick(d)
          \/ \E i \in Invites : Expire(i)
      BY <2>6, Zenon DEF Next, Step, Quiet
    <3> QED
      BY <2>2, <2>3, <2>4, <2>5, <3>1
  <2> QED
    BY <1>1, <2>5, <2>6
<1>2. Types /\ Undisturbed /\ [Next]_vars => [\A e \in Events, u \in Users :
         /\ ~overlap /\ ~overlap'
         /\ entry[e][u] = None /\ entry'[e][u] # None
         => /\ e \in Live
            /\ event[e].set.policy # "CLOSED"
            /\ \/ /\ Visible(u, OrganizersOf(u), e)
                  /\ event[e].set.policy = "OPEN" /\ event[e].set.window = "open"
                  /\ event[e].set.approval <=> entry'[e][u] = "PENDING"
               \/ \E i \in Invites \ revoked :
                    /\ invite[i] # None /\ invite[i].event = e
                    /\ invite[i].target \in {None, u}
                    /\ invite[i].limit # None => uses[i] < invite[i].limit]_vars
  BY <1>1, Zenon DEF Warranted
<1>3. Spec => [][Next]_vars
  BY DEF Spec
<1> QED
  BY <1>2, <1>3, TypesHold, NobodyIsDisturbed, PTL DEF EntriesAreWarranted

\* Whom cancel tells: all who take part, if its sender is a member of the clan.
LEMMA DeleteTells ==
  ASSUME Types, Undisturbed, ~overlap, NEW q \in Requests, Delete(q),
         NEW e \in cancelled' \ cancelled, NEW u \in Users, entry[e][u] # None
  PROVE  \/ [to |-> u, type |-> "CANCELLED", event |-> e] \in notices'
         \/ Steps(q) /\ job[q].by \in Admins /\ job[q].clan \notin job[q].mine
<1>1. PICK j : j = job[q]
  OBVIOUS
<1>2. JobOK("delete", j) /\ j \in Jobs /\ Found("delete", j)
  BY <1>1, Knows DEF Delete
<1>3. e = j.event
  BY <1>1 DEF Delete
<1>4. notices' = Tell(j.readers, "CANCELLED", e)
  BY <1>1, <1>3 DEF Delete
<1>5. Steps(q)
  BY DEF Steps, Delete, End, Proceed, Types, TypeOK
<1>6. j.clan \in j.mine \/ (j.by \in Admins /\ j.clan \notin j.mine)
  BY <1>2, ManagersSee DEF Inside
<1>7. CASE j.clan \in j.mine
  <2>1. u \in j.readers
    BY <1>2, <1>3, <1>7 DEF Found
  <2> QED
    BY <1>4, <2>1 DEF Tell
<1> QED
  BY <1>1, <1>5, <1>6, <1>7

\* While no two requests overlap, everybody who takes part in an event or has
\* applied is told when a member of its clan cancels it.
THEOREM CancellationsTold == Spec => CancellationsReachEveryone
<1>1. ASSUME Types, Undisturbed, [Next]_vars, ~overlap,
             NEW e \in cancelled' \ cancelled, NEW u \in Users, entry[e][u] # None
      PROVE  \/ [to |-> u, type |-> "CANCELLED", event |-> e] \in notices'
             \/ \E q \in Requests : Steps(q) /\ job[q].by \in Admins /\ job[q].clan \notin job[q].mine
  <2>1. cancelled' # cancelled
    BY <1>1
  <2>2. ASSUME NEW q \in Requests, Delete(q)
        PROVE  \/ [to |-> u, type |-> "CANCELLED", event |-> e] \in notices'
               \/ \E p \in Requests : Steps(p) /\ job[p].by \in Admins /\ job[p].clan \notin job[p].mine
    BY <1>1, <2>2, DeleteTells
  <2>3. ASSUME NEW q \in Requests, Update(q) \/ Enter(q) \/ Leave(q) \/ Confirm(q) \/ Drop(q)
        PROVE  FALSE
    BY <2>1, <2>3 DEF Update, Enter, Leave, Confirm, Drop, events
  <2>4. ASSUME NEW q \in Requests, Quiet(q)
        PROVE  FALSE
    BY <1>1, <2>1, <2>4, QuietStep
  <2>5. CASE \/ \E c \in Clans, v \in Users : Depart(c, v)
             \/ \E d \in Events : Tick(d)
             \/ \E i \in Invites : Expire(i)
             \/ UNCHANGED vars
    BY <2>1, <2>5 DEF Depart, Tick, Expire, vars, events
  <2>6. CASE Next
    <3>1. \/ \E q \in Requests : \/ Quiet(q) \/ Update(q) \/ Delete(q)
                                 \/ Enter(q) \/ Leave(q) \/ Confirm(q) \/ Drop(q)
          \/ \E c \in Clans, v \in Users : Depart(c, v)
          \/ \E d \in Events : Tick(d)
          \/ \E i \in Invites : Expire(i)
      BY <2>6, Zenon DEF Next, Step, Quiet
    <3> QED
      BY <2>2, <2>3, <2>4, <2>5, <3>1
  <2> QED
    BY <1>1, <2>5, <2>6
<1>2. Types /\ Undisturbed /\ [Next]_vars =>
        [\A e \in cancelled' \ cancelled, u \in Users : ~overlap /\ entry[e][u] # None =>
         \/ [to |-> u, type |-> "CANCELLED", event |-> e] \in notices'
         \/ \E q \in Requests : Steps(q) /\ job[q].by \in Admins /\ job[q].clan \notin job[q].mine]_vars
  BY <1>1, Zenon
<1>3. Spec => [][Next]_vars
  BY DEF Spec
<1> QED
  BY <1>2, <1>3, TypesHold, NobodyIsDisturbed, PTL DEF CancellationsReachEveryone

-----------------------------------------------------------------------------
(***************************************************************************)
(* What the pages offer                                                    *)
(***************************************************************************)
\* Whose pages have the tools of a manager: who passes every guard of the
\* clan, or has created the event.
LEMMA ManagersCan ==
  ASSUME NEW u, NEW e, CanManage(u, e), NEW right
  PROVE  Can(u, event[e].organizer, right) \/ AuthorOnly(u, e)
  BY DEF CanManage, Can, AuthorOnly

\* What OffersAreAccepted asks of every state.
OffersPassGuards ==
    \A u \in Users :
      /\ \A e \in Live, tool \in DOMAIN Behind :
           tool \in Tools(u, e) =>
               \/ \A right \in Behind[tool] : Can(u, event[e].organizer, right)
               \/ AuthorOnly(u, e)
      /\ \A i \in Invites : OffersRevoke(u, i) =>
           \/ Can(u, event[invite[i].event].organizer, <<"event_participation", "DELETE">>)
           \/ AuthorOnly(u, invite[i].event)
      /\ \A c \in EligibleClans(u) : Can(u, c, <<"event", "CREATE">>) /\ c \in OrganizersOf(u)

\* It holds in every state.
LEMMA GuardsLetIn == OffersPassGuards
<1> SUFFICES ASSUME NEW u \in Users
             PROVE  /\ \A e \in Live, tool \in DOMAIN Behind :
                         tool \in Tools(u, e) =>
                             \/ \A right \in Behind[tool] : Can(u, event[e].organizer, right)
                             \/ AuthorOnly(u, e)
                    /\ \A i \in Invites : OffersRevoke(u, i) =>
                         \/ Can(u, event[invite[i].event].organizer, <<"event_participation", "DELETE">>)
                         \/ AuthorOnly(u, invite[i].event)
                    /\ \A c \in EligibleClans(u) : Can(u, c, <<"event", "CREATE">>) /\ c \in OrganizersOf(u)
  BY DEF OffersPassGuards
<1>1. \A e, tool : tool \in Tools(u, e) => CanManage(u, e)
  BY DEF Tools
<1>2. \A e \in Live, tool \in DOMAIN Behind :
        tool \in Tools(u, e) =>
            \/ \A right \in Behind[tool] : Can(u, event[e].organizer, right)
            \/ AuthorOnly(u, e)
  BY <1>1, ManagersCan
<1>3. \A i \in Invites : OffersRevoke(u, i) =>
        \/ Can(u, event[invite[i].event].organizer, <<"event_participation", "DELETE">>)
        \/ AuthorOnly(u, invite[i].event)
  BY <1>1, ManagersCan DEF OffersRevoke, OffersInvites
<1>4. \A c \in EligibleClans(u) : Can(u, c, <<"event", "CREATE">>) /\ c \in OrganizersOf(u)
  BY DEF EligibleClans, Can, OrganizersOf
<1> QED
  BY <1>2, <1>3, <1>4

\* What the page of an applicant shows to a manager, his request sees too.
LEMMA ApplicantsAreVisible ==
  ASSUME Types, NEW q \in Requests, NEW j, j = job[q], j.mine = OrganizersOf(j.by),
         j.event \in Live, j.who \in Applicants(j.by, j.event)
  PROVE  entry[j.event][j.who] = "PENDING" /\ EntryVisible(q, j.who)
  BY DEF Applicants, Participants, EntryVisible, Live

\* Each statement is taken at its label.
LEMMA AtLabel ==
  ASSUME NEW q
  PROVE  /\ Register(q) => pc[q] = "register"
         /\ Present(q) => pc[q] = "present"
         /\ Enter(q) => pc[q] = "enter"
         /\ Leave(q) => pc[q] = "leave"
         /\ Find(q) => pc[q] = "find"
         /\ Confirm(q) => pc[q] = "confirm"
         /\ Drop(q) => pc[q] = "drop"
         /\ Update(q) => pc[q] = "update"
         /\ Readers(q) => pc[q] = "readers"
         /\ Delete(q) => pc[q] = "delete"
         /\ Detail(q) => pc[q] = "detail"
         /\ TargetEntry(q) => pc[q] = "targetEntry"
         /\ Duplicate(q) => pc[q] = "duplicate"
         /\ Insert(q) => pc[q] = "insert"
         /\ EventOpen(q) => pc[q] = "open"
         /\ Count(q) => pc[q] = "count"
  BY DEF Register, Present, Enter, Leave, Find, Confirm, Drop, Update, Readers, Delete, Detail,
         TargetEntry, Duplicate, Insert, EventOpen, Count

\* A statement that refuses what is offered does so for one of the reasons the
\* page does not know.
LEMMA RefusedInVain ==
  ASSUME Types, Undisturbed, ~overlap, NEW q \in Requests, Step(q), Refuses(q),
         job[q].clan \in {None, event[job[q].event].organizer}, Offered(job[q])
  PROVE  InVain(job[q])
<1>1. PICK l, j : l = pc[q] /\ j = job[q]
  OBVIOUS
<1>2. l \in {"register", "find", "update", "confirm", "drop", "targetEntry", "duplicate",
             "open", "present", "enter"}
  BY <1>1 DEF Refuses
<1>3. JobOK(l, j) /\ j \in Jobs /\ Found(l, j) /\ j.event \in Events /\ j.by \in Users
  BY <1>1, <1>2, Knows
<1>4. ASSUME NEW m, NEW k, Proceed(q, m, k)
      PROVE  m = "idle"
  BY <1>4 DEF Proceed, Refuses, Types, TypeOK
<1>5. Offered(j)
  BY <1>1
<1>6. l \in {"find", "update", "confirm", "drop"} => j.clan = event[j.event].organizer
  <2>1. l \in {"find", "update", "confirm", "drop"} => MayManage(j)
    BY <1>3 DEF Found, Inside
  <2> QED
    BY <1>1, <2>1 DEF MayManage, Organizers
<1>7. j.op \in Managing => \E tool : tool \in Tools(j.by, j.event)
  BY <1>5 DEF Offered, Applicants, OffersInvites, Managing
<1>8. j.op \in Managing => j.event \in Live /\ Visible(j.by, OrganizersOf(j.by), j.event)
  BY <1>7 DEF Tools, Shown
<1>9. j.op = "register" => /\ j.event \in Live /\ Visible(j.by, OrganizersOf(j.by), j.event)
                           /\ event[j.event].set.policy = "OPEN"
                           /\ entry[j.event][j.by] = None
  <2>1. j.op = "register" => Shown(j.by, j.event) /\ Action(j.by, j.event) = "register"
    BY <1>5 DEF Offered
  <2>2. None # "register"
    BY DEF Operations
  <2>3. j.op = "register" => MyStatus(j.by, j.event) = None /\ event[j.event].set.policy = "OPEN"
    BY <2>1, <2>2 DEF Action
  <2>4. MyStatus(j.by, j.event) = None => entry[j.event][j.by] = None
    BY <1>3 DEF MyStatus, Participants
  <2> QED
    BY <2>1, <2>3, <2>4 DEF Shown
<1>10. CASE l = "register"
  <2>1. Register(q) /\ j.op = "register"
    BY <1>1, <1>3, <1>10, AtLabel DEF JobOK, Step
  <2>2. event[j.event].set.window # "open"
    BY <1>1, <1>4, <1>9, <2>1 DEF Register
  <2> QED
    BY <1>1, <2>1, <2>2 DEF InVain
<1>11. CASE l = "find"
  <2>1. Find(q) /\ j.op \in Managing
    BY <1>1, <1>3, <1>11, AtLabel DEF JobOK, Step
  <2>2. Following[j.op] = "idle"
    BY <1>1, <1>4, <1>6, <1>8, <1>11, <2>1 DEF Find
  <2> QED
    BY <1>3, <1>11, <2>2 DEF Following, JobOK, Managing
<1>12. CASE l = "update"
  <2>1. Update(q) /\ j.op \in Managing
    BY <1>1, <1>3, <1>12, AtLabel DEF JobOK, Step, Managing
  <2> QED
    BY <1>1, <1>4, <1>6, <1>8, <1>12, <2>1 DEF Update
<1>13. CASE l \in {"confirm", "drop"}
  <2>1. (Confirm(q) \/ Drop(q)) /\ j.op \in {"approve", "reject"}
    BY <1>1, <1>3, <1>13, AtLabel DEF JobOK, Step
  <2>2. j.who \in Applicants(j.by, j.event)
    BY <1>5, <2>1 DEF Offered
  <2>3. j.event \in Live /\ j.mine = OrganizersOf(j.by)
    BY <1>3, <1>13 DEF Found, Inside
  <2>4. entry[j.event][j.who] = "PENDING" /\ EntryVisible(q, j.who)
    BY <1>1, <2>2, <2>3, ApplicantsAreVisible
  <2>5. None # "PENDING"
    BY DEF Statuses
  <2> QED
    BY <1>1, <1>4, <2>1, <2>4, <2>5 DEF Confirm, Drop, Goto
<1>14. CASE l = "targetEntry"
  <2>1. TargetEntry(q) /\ j.op = "invite"
    BY <1>1, <1>3, <1>14, AtLabel DEF JobOK, Step
  <2>2. entry[j.event][j.who] # None
    BY <1>1, <1>4, <2>1 DEF TargetEntry, GotoIf, Goto
  <2> QED
    BY <1>1, <2>1, <2>2 DEF InVain
<1>15. CASE l = "duplicate"
  <2>1. Duplicate(q) /\ j.op = "invite"
    BY <1>1, <1>3, <1>15, AtLabel DEF JobOK, Step
  <2>2. OpenFor(q) # {}
    BY <1>1, <1>4, <2>1 DEF Duplicate, GotoIf, Goto
  <2> QED
    BY <1>1, <2>1, <2>2 DEF InVain, OpenFor
<1>16. CASE l = "open"
  <2>1. EventOpen(q) /\ j.op = "redeem"
    BY <1>1, <1>3, <1>16, AtLabel DEF JobOK, Step
  <2>2. invite[j.inv].event \in Live
    BY <1>5, <2>1 DEF Offered, OffersJoin, Preview
  <2>3. j.event \in Live
    BY <1>3, <2>1, <2>2 DEF JobOK
  <2>4. event[j.event].set.policy = "CLOSED"
    BY <1>1, <1>4, <2>1, <2>3 DEF EventOpen, GotoIf, Goto
  <2> QED
    BY <1>1, <2>1, <2>4 DEF InVain
<1>17. CASE l \in {"present", "enter"}
  <2>1. (Present(q) \/ Enter(q)) /\ j.op \in {"register", "redeem"}
    BY <1>1, <1>3, <1>17, AtLabel DEF JobOK, Step
  <2>2. entry[j.event][j.by] # None
    BY <1>1, <1>4, <2>1 DEF Present, Enter, GotoIf, Goto
  <2> QED
    BY <1>1, <1>9, <2>1, <2>2 DEF InVain
<1> QED
  BY <1>2, <1>10, <1>11, <1>12, <1>13, <1>14, <1>15, <1>16, <1>17

\* Whatever the pages offer on current data is carried out, but for what they
\* cannot know, while no two requests overlap.
THEOREM OffersAccepted == Spec => OffersAreAccepted
<1>1. ASSUME Types, Undisturbed, [Next]_vars, ~overlap, NEW q \in Requests, Refuses(q),
             job[q].clan \in {None, event[job[q].event].organizer}, Offered(job[q])
      PROVE  InVain(job[q])
  <2>1. CASE Step(q)
    BY <1>1, <2>1, RefusedInVain
  <2>2. CASE ~Step(q)
    <3>1. pc[q] # "idle" /\ pc'[q] = "idle" /\ upsets' = upsets
      BY <1>1 DEF Refuses
    <3>2. ASSUME NEW p \in Requests, Step(p)
          PROVE  FALSE
      <4>1. pc[p] # "idle"
        BY <3>2, AtLabel DEF Step
      <4>2. p = q
        BY <1>1, <3>1, <4>1 DEF Undisturbed, Alone
      <4> QED
        BY <2>2, <3>2, <4>2
    <3>3. ASSUME NEW p \in Requests, Abort(p)
          PROVE  FALSE
      BY <1>1, <3>1, <3>3 DEF Abort, Upset, Types, TypeOK
    <3>4. ASSUME NEW p \in Requests, Begin(p)
          PROVE  FALSE
      <4>1. pc[p] = "idle"
        BY <3>4 DEF Begin
      <4>2. \/ \E u, o, e, s : Persist(u, o, e, s)
            \/ \E l, j : Start(p, l, j)
            \/ \E u, c, i : Revoke(u, c, i)
        <5>1. ASSUME NEW u, NEW c, NEW e, BeginManaging(p, u, c, e)
              PROVE  \E l, j : Start(p, l, j)
          BY <5>1, Zenon DEF BeginManaging, Manage
        <5>2. \/ \E u, o, e, s : Persist(u, o, e, s)
              \/ \E u, c, e : BeginManaging(p, u, c, e)
              \/ \E l, j : Start(p, l, j)
              \/ \E u, c, i : Revoke(u, c, i)
          BY <3>4, Zenon DEF Begin, BeginRedeem, CreateClan, CreateOrg, CreateSystem
        <5> QED
          BY <5>1, <5>2
      <4>3. pc' = pc \/ \E l : pc' = [pc EXCEPT ![p] = l]
        BY <4>2 DEF Persist, Start, Revoke
      <4> QED
        BY <1>1, <3>1, <4>1, <4>3 DEF Types, TypeOK
    <3>5. pc' # pc
      BY <3>1
    <3> QED
      BY <1>1, <3>2, <3>3, <3>4, <3>5 DEF Next, Depart, Tick, Expire, vars
  <2> QED
    BY <2>1, <2>2
<1>2. Types /\ Undisturbed /\ [Next]_vars =>
        [~overlap =>
           /\ ~Busy => \A u \in Users :
                /\ \A e \in Live, tool \in DOMAIN Behind :
                     tool \in Tools(u, e) =>
                         \/ \A right \in Behind[tool] : Can(u, event[e].organizer, right)
                         \/ AuthorOnly(u, e)
                /\ \A i \in Invites : OffersRevoke(u, i) =>
                     \/ Can(u, event[invite[i].event].organizer, <<"event_participation", "DELETE">>)
                     \/ AuthorOnly(u, invite[i].event)
                /\ \A c \in EligibleClans(u) : Can(u, c, <<"event", "CREATE">>) /\ c \in OrganizersOf(u)
           /\ \A q \in Requests :
                /\ Refuses(q)
                /\ job[q].clan \in {None, event[job[q].event].organizer}
                /\ Offered(job[q])
                => InVain(job[q])]_vars
  BY <1>1, GuardsLetIn, Zenon DEF OffersPassGuards
<1>3. Spec => [][Next]_vars
  BY DEF Spec
<1> QED
  BY <1>2, <1>3, TypesHold, NobodyIsDisturbed, PTL DEF OffersAreAccepted
=============================================================================
