----------------------------- MODULE ClanInvites -----------------------------
(***************************************************************************)
(* How users get into a clan: join, and the invites of InviteService, which *)
(* check an invite, admit the user and count the use in statements of      *)
(* their own.  What admission does to roles is the matter of ClanRoles.    *)
(*                                                                         *)
(* An invite stands for its row and its code.  A user is anybody but the   *)
(* owner, who is a member from the start and cannot leave.                 *)
(***************************************************************************)
EXTENDS Null, Integers, FiniteSets

CONSTANTS
    Users, Invites, Requests,
    Limits,                   \* the values of max_uses that are sent
    MaxUpsets                 \* bound: members that go and requests that die

ASSUME InvitesAssumption ==
    /\ Limits \subseteq Nat \ {0}
    /\ None \notin Users \cup Invites \cup Nat
    /\ IsFiniteSet(Requests)
ASSUME MaxUpsetsAssumption == MaxUpsets \in Nat

VARIABLES
    made,     \* rows of ClanInvite
    target,   \* target_user_id
    limit,    \* max_uses
    uses,
    expired,  \* rows whose expires_at has passed
    revoked,  \* rows with revoked_at
    status,   \* ClanMember: no row, left_at null, left_at set
    policy,   \* Clan.join_policy
    deleted,  \* Clan.deleted_at is set
    pc, job,
    entered,  \* history: how many users each invite has brought in
    overlap,  \* history: two requests have been in flight at once
    departures, aborts

invites == <<made, target, limit, uses, expired, revoked>>
clan == <<status, policy, deleted>>
counters == <<entered, departures, aborts>>
vars == <<made, target, limit, uses, expired, revoked, status, policy,
          deleted, pc, job, entered, overlap, departures, aborts>>

Policies == {"OPEN", "INVITE_ONLY", "CLOSED"}
Jobs == [who : Users \cup {None}, inv : Invites \cup {None},
         limit : Limits \cup {None}]
Admitting == {"clan", "member", "newRow", "reactivate", "count"}
Creating == {"targetMember", "duplicate", "insert"}

TypeOK ==
    /\ made \subseteq Invites
    /\ target \in [Invites -> Users \cup {None}]
    /\ limit \in [Invites -> Limits \cup {None}]
    /\ uses \in [Invites -> Nat]
    /\ expired \subseteq {i \in made : target[i] = None}
    /\ revoked \subseteq made
    /\ status \in [Users -> {"none", "active", "left"}]
    /\ policy \in Policies
    /\ deleted \in BOOLEAN
    /\ pc \in [Requests -> {"idle"} \cup Admitting \cup Creating]
    /\ job \in [Requests -> Jobs]
    /\ entered \in [Invites -> Nat]
    /\ overlap \in BOOLEAN
    /\ departures \in 0..MaxUpsets
    /\ aborts \in 0..MaxUpsets

NoJob == [who |-> None, inv |-> None, limit |-> None]

Init ==
    /\ made = {}
    /\ target = [i \in Invites |-> None]
    /\ limit = [i \in Invites |-> None]
    /\ uses = [i \in Invites |-> 0]
    /\ expired = {}
    /\ revoked = {}
    /\ status = [u \in Users |-> "none"]
    /\ policy = "OPEN"
    /\ deleted = FALSE
    /\ pc = [q \in Requests |-> "idle"]
    /\ job = [q \in Requests |-> NoJob]
    /\ entered = [i \in Invites |-> 0]
    /\ overlap = FALSE
    /\ departures = 0
    /\ aborts = 0

Busy == \E p \in Requests : pc[p] # "idle"

Start(q, label, j) ==
    /\ pc[q] = "idle"
    /\ pc' = [pc EXCEPT ![q] = label]
    /\ job' = [job EXCEPT ![q] = j]
    /\ overlap' = (overlap \/ Busy)

\* A request of one statement.
AtOnce(q) ==
    /\ pc[q] = "idle"
    /\ overlap' = (overlap \/ Busy)
    /\ UNCHANGED <<pc, job>>

Goto(q, label) == pc' = [pc EXCEPT ![q] = label] /\ UNCHANGED <<job, overlap>>

End(q) ==
    /\ pc' = [pc EXCEPT ![q] = "idle"]
    /\ job' = [job EXCEPT ![q] = NoJob]
    /\ UNCHANGED overlap

\* Go on at label if ok; otherwise the request is answered with an error.
GotoIf(q, ok, label) == IF ok THEN Goto(q, label) ELSE End(q)

(***************************************************************************)
(* Creation and revocation, by members with the grant                      *)
(***************************************************************************)
\* Bound: every creation in flight finds an id.
Room == Cardinality({q \in Requests : pc[q] \in Creating}) < Cardinality(Invites \ made)

CreateLink(q, n) ==
    /\ ~deleted
    /\ Room
    /\ Start(q, "insert", [who |-> None, inv |-> None, limit |-> n])
    /\ UNCHANGED <<invites, clan, counters>>

CreateTargeted(q, u) ==
    /\ ~deleted
    /\ Room
    /\ Start(q, "targetMember", [who |-> u, inv |-> None, limit |-> None])
    /\ UNCHANGED <<invites, clan, counters>>

TargetMember(q) ==
    /\ pc[q] = "targetMember"
    /\ GotoIf(q, status[job[q].who] # "active", "duplicate")
    /\ UNCHANGED <<invites, clan, counters>>

\* The invites that are open for u by name.
OpenFor(u) == {i \in made \ revoked : target[i] = u}

\* Mutant: no look for an open invite.
DuplicateUnchecked(q) ==
    /\ pc[q] = "duplicate"
    /\ Goto(q, "insert")
    /\ UNCHANGED <<invites, clan, counters>>

\* findFirst returns any of them.
Duplicate(q) ==
    /\ pc[q] = "duplicate"
    /\ \/ OpenFor(job[q].who) = {} /\ Goto(q, "insert")
       \/ \E i \in OpenFor(job[q].who) : GotoIf(q, i \in expired, "insert")
    /\ UNCHANGED <<invites, clan, counters>>

Insert(q) ==
    /\ pc[q] = "insert"
    /\ \E i \in Invites \ made :
         /\ made' = made \cup {i}
         /\ target' = [target EXCEPT ![i] = job[q].who]
         /\ limit' = [limit EXCEPT ![i] = job[q].limit]
    /\ End(q)
    /\ UNCHANGED <<uses, expired, revoked, clan, counters>>

\* Of revoke and of the operations on the clan further down the one statement
\* that counts here is kept, together with the guard before it; nothing takes
\* back a revocation.
Revoke(q, i) ==
    /\ AtOnce(q)
    /\ ~deleted
    /\ i \in made \ revoked
    /\ revoked' = revoked \cup {i}
    /\ UNCHANGED <<made, target, limit, uses, expired, clan, counters>>

(***************************************************************************)
(* redeem and join                                                         *)
(***************************************************************************)
\* requireRedeemable
Redeemable(i) ==
    /\ i \in made \ (revoked \cup expired)
    /\ limit[i] # None => uses[i] < limit[i]

\* Mutant: whoever has the code may use it.
RedeemByAnyone(q, u, i) ==
    /\ Redeemable(i)
    /\ Start(q, "clan", [who |-> u, inv |-> i, limit |-> None])
    /\ UNCHANGED <<invites, clan, counters>>

Redeem(q, u, i) ==
    /\ Redeemable(i)
    /\ target[i] \in {None, u}
    /\ Start(q, "clan", [who |-> u, inv |-> i, limit |-> None])
    /\ UNCHANGED <<invites, clan, counters>>

Join(q, u) ==
    /\ Start(q, "clan", [who |-> u, inv |-> None, limit |-> None])
    /\ UNCHANGED <<invites, clan, counters>>

\* The clan is read: an invite opens all but closed clans, join open ones.
Clan(q) ==
    /\ pc[q] = "clan"
    /\ GotoIf(q, ~deleted /\ policy \in (IF job[q].inv = None THEN {"OPEN"} ELSE {"OPEN", "INVITE_ONLY"}),
              "member")
    /\ UNCHANGED <<invites, clan, counters>>

\* admit
Member(q) ==
    /\ pc[q] = "member"
    /\ LET found == status[job[q].who]
       IN GotoIf(q, found # "active", IF found = "none" THEN "newRow" ELSE "reactivate")
    /\ UNCHANGED <<invites, clan, counters>>

\* The user is in; with an invite its use is counted next.
Enter(q) ==
    /\ status' = [status EXCEPT ![job[q].who] = "active"]
    /\ entered' = [i \in Invites |->
                     IF i = job[q].inv /\ status[job[q].who] # "active" THEN entered[i] + 1 ELSE entered[i]]
    /\ GotoIf(q, job[q].inv # None, "count")
    /\ UNCHANGED <<invites, policy, deleted, departures, aborts>>

\* createMember: refused if a concurrent request has made the row.
NewRow(q) ==
    /\ pc[q] = "newRow"
    /\ IF status[job[q].who] = "none"
       THEN Enter(q)
       ELSE End(q) /\ UNCHANGED <<invites, clan, counters>>

\* reactivateMember, whether or not a concurrent request has done it.
Reactivate(q) ==
    /\ pc[q] = "reactivate"
    /\ Enter(q)

\* Mutant: counted here and in the admission.
CountTwice(q) ==
    /\ pc[q] = "count"
    /\ uses' = [uses EXCEPT ![job[q].inv] = @ + 2]
    /\ End(q)
    /\ UNCHANGED <<made, target, limit, expired, revoked, clan, counters>>

\* Mutant: the sum is computed by the process, a concurrent one is overwritten.
CountLost(q) ==
    /\ pc[q] = "count"
    /\ uses' = [uses EXCEPT ![job[q].inv] =
                  IF \E p \in Requests \ {q} : pc[p] = "count" /\ job[p].inv = job[q].inv
                  THEN @ ELSE @ + 1]
    /\ End(q)
    /\ UNCHANGED <<made, target, limit, expired, revoked, clan, counters>>

\* uses: { increment: 1 }
Count(q) ==
    /\ pc[q] = "count"
    /\ uses' = [uses EXCEPT ![job[q].inv] = @ + 1]
    /\ End(q)
    /\ UNCHANGED <<made, target, limit, expired, revoked, clan, counters>>

(***************************************************************************)
(* The clan around it                                                      *)
(***************************************************************************)
SetPolicy(q, p) ==
    /\ AtOnce(q)
    /\ ~deleted
    /\ policy' = p
    /\ UNCHANGED <<invites, status, deleted, counters>>

SoftDelete(q) ==
    /\ AtOnce(q)
    /\ ~deleted
    /\ deleted' = TRUE
    /\ UNCHANGED <<invites, status, policy, counters>>

\* leave and kick
Depart(q, u) ==
    /\ AtOnce(q)
    /\ ~deleted
    /\ status[u] = "active"
    /\ departures + aborts < MaxUpsets
    /\ status' = [status EXCEPT ![u] = "left"]
    /\ departures' = departures + 1
    /\ UNCHANGED <<invites, policy, deleted, entered, aborts>>

\* Of links only: an invite by name has no expires_at.  Whether a link has one
\* is left open until it passes.
Expire(i) ==
    /\ i \in made \ expired
    /\ target[i] = None
    /\ expired' = expired \cup {i}
    /\ UNCHANGED <<made, target, limit, uses, revoked, clan, pc, job, overlap, counters>>

\* The process dies, or the database refuses a statement.
Abort(q) ==
    /\ pc[q] # "idle"
    /\ departures + aborts < MaxUpsets
    /\ aborts' = aborts + 1
    /\ End(q)
    /\ UNCHANGED <<invites, clan, entered, departures>>

Begin(q) ==
    \/ \E n \in Limits \cup {None} : CreateLink(q, n)
    \/ \E u \in Users : CreateTargeted(q, u) \/ Join(q, u) \/ Depart(q, u)
    \/ \E u \in Users, i \in Invites : Redeem(q, u, i)
    \/ \E i \in Invites : Revoke(q, i)
    \/ \E p \in Policies : SetPolicy(q, p)
    \/ SoftDelete(q)

Step(q) ==
    \/ TargetMember(q) \/ Duplicate(q) \/ Insert(q)
    \/ Clan(q) \/ Member(q) \/ NewRow(q) \/ Reactivate(q) \/ Count(q)

Next ==
    \/ \E q \in Requests : Begin(q) \/ Step(q) \/ Abort(q)
    \/ \E i \in Invites : Expire(i)

Spec == Init /\ [][Next]_vars

-----------------------------------------------------------------------------
(***************************************************************************)
(* Properties                                                              *)
(***************************************************************************)
\* An invite refuses users once it "hat ihr Nutzungslimit erreicht" (has reached
\* its limit of uses, invite.errors.ts:7).  However many redemptions race between
\* that test (105) and the count (94), it is used at most once more per further
\* request in flight, and not at all too often while no two requests overlap.
OverrunIsBounded ==
    \A i \in made : limit[i] # None =>
        uses[i] <= limit[i] + (IF overlap THEN Cardinality(Requests) - 1 ELSE 0)

\* The redemptions that have admitted their user and not yet counted the use.
Counting(i) == {q \in Requests : pc[q] = "count" /\ job[q].inv = i}

\* Nobody gets in for free: unless a request died in between, every user an
\* invite brought in is counted or about to be, also when several redeem it
\* at once (93-94); and what is counted is an entry, while no two overlap.
EntriesAreCounted ==
    /\ aborts = 0 => \A i \in made : entered[i] <= uses[i] + Cardinality(Counting(i))
    /\ ~overlap => \A i \in made : uses[i] <= entered[i]

\* While no two requests overlap, at most one open invite by name per user
\* (createTargeted 36-39).
OneOpenInvitePerUser == ~overlap => \A u \in Users : Cardinality(OpenFor(u)) <= 1

\* While no two requests overlap, whoever gets in was allowed to when he got
\* in, not only when the first statement of his request looked: the clan is
\* there and not closed; it is open, or he has an invite that is not revoked,
\* not used up, and for everybody or for him.
EntriesAreWarranted ==
    [][\A q \in Requests, u \in Users :
         /\ ~overlap
         /\ pc[q] \in {"newRow", "reactivate"} /\ pc'[q] # pc[q]
         /\ status[u] # "active" /\ status'[u] = "active"
         => /\ ~deleted
            /\ policy # "CLOSED"
            /\ \/ policy = "OPEN" /\ job[q].inv = None
               \/ \E i \in made \ revoked :
                    /\ i = job[q].inv
                    /\ target[i] \in {None, u}
                    /\ limit[i] # None => uses[i] < limit[i]]_vars
=============================================================================
