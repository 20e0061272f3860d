-------------------------------- MODULE Events --------------------------------
(***************************************************************************)
(* Events and who takes part in them: EventsService and EventInviteService *)
(* statement by statement, behind the guards of their routes and under the *)
(* row filters of the RLS extension.  Every statement commits on its own.  *)
(*                                                                         *)
(* A clan's roles are the matter of ClanRoles, the context its guard reads *)
(* that of ClanContextCache; here the rights of a member are given.  Texts *)
(* and the game of an event are left out, and of its dates all but the     *)
(* registration window.  Nothing sets participant_type: it is SOLO.        *)
(***************************************************************************)
EXTENDS Null, Integers, FiniteSets

CONSTANTS
    Users, Admins,            \* User.is_platform_admin
    Clans, Owner, Crew,       \* Clan.owner_id and the members to begin with
    Granted,                  \* rights a member has through his roles
    Orgs, OrgOwner,           \* Organization.owner_id
    Events, Invites, Requests,
    Settings, Changes,        \* what the forms to create and to edit send
    Limits,                   \* the values of max_uses that are sent
    MaxRequests,              \* bound: requests after the creation of events
    MaxUpsets,                \* bound: departures, dates that pass, deaths
    System

SettingsOK == [public : BOOLEAN, policy : {"OPEN", "INVITE_ONLY", "CLOSED"},
               approval : BOOLEAN, window : {"before", "open", "after"}]
Organizers == Clans \cup Orgs \cup {System}

ASSUME PeopleAssumption ==
    /\ Admins \subseteq Users
    /\ Owner \in [Clans -> Users]
    /\ OrgOwner \in [Orgs -> Users]
    /\ Crew \in [Clans -> SUBSET Users]
    /\ \A c \in Clans : Owner[c] \in Crew[c]
    /\ Granted \in [Clans -> [Users -> SUBSET (STRING \X STRING)]]
ASSUME IdsAssumption ==
    /\ Clans \cap Orgs = {} /\ System \notin Clans \cup Orgs
    /\ None \notin Users \cup Events \cup Invites \cup Organizers \cup Nat
    /\ IsFiniteSet(Requests)
ASSUME FormsAssumption == Settings \cup Changes \subseteq SettingsOK /\ Limits \subseteq Nat \ {0}
ASSUME BoundsAssumption == {MaxRequests, MaxUpsets} \subseteq Nat

VARIABLES
    members,    \* rows of ClanMember with left_at null
    event,      \* rows of Event: organizer, creator and settings
    cancelled,  \* events with deleted_at
    entry,      \* rows of EventParticipation: their status
    invite,     \* rows of EventInvite: event, target_user_id, max_uses
    uses, expired, revoked,
    notices,    \* what was handed to NotificationService.emit
    pc, job,
    overlap,    \* history: two requests have been in flight at once
    begun, upsets

world == <<members, upsets>>
events == <<event, cancelled>>
invites == <<invite, uses, expired, revoked>>
vars == <<members, event, cancelled, entry, invite, uses, expired, revoked,
          notices, pc, job, overlap, begun, upsets>>

EventRows == [organizer : Organizers, creator : Users, set : SettingsOK]
InviteRows == [event : Events, target : Users \cup {None}, limit : Limits \cup {None}]
Statuses == {"PENDING", "CONFIRMED"}
Notices == [to : Users, type : {"JOIN_REQUEST", "ACCEPTED", "DECLINED", "CANCELLED", "INVITE"},
            event : Events]
Managing == {"approve", "reject", "update", "cancel", "link", "invite"}
Operations == Managing \cup {"register", "leave", "redeem"}
Statements == {"find", "confirm", "drop", "readers", "delete", "targetEntry", "duplicate",
               "insert", "open", "present", "enter", "count", "detail"}
Jobs == [op : Operations, by : Users, clan : Clans \cup {None}, event : Events,
         who : Users \cup {None}, inv : Invites \cup {None}, limit : Limits \cup {None},
         set : Changes \cup {None}, status : Statuses, mine : SUBSET Organizers,
         readers : SUBSET Users]

ASSUME NoneAssumption ==
    None \notin EventRows \cup InviteRows \cup Jobs \cup Changes \cup Statuses \cup Operations

TypeOK ==
    /\ members \in [Clans -> SUBSET Users]
    /\ event \in [Events -> EventRows \cup {None}]
    /\ cancelled \subseteq {e \in Events : event[e] # None}
    /\ entry \in [Events -> [Users -> Statuses \cup {None}]]
    /\ \A e \in Events, u \in Users : entry[e][u] # None => event[e] # None
    /\ invite \in [Invites -> InviteRows \cup {None}]
    /\ \A i \in Invites : invite[i] # None => event[invite[i].event] # None
    /\ uses \in [Invites -> Nat]
    /\ expired \cup revoked \subseteq {i \in Invites : invite[i] # None}
    /\ notices \subseteq Notices
    /\ pc \in [Requests -> {"idle"} \cup Operations \cup Statements]
    /\ job \in [Requests -> Jobs \cup {None}]
    /\ overlap \in BOOLEAN
    /\ begun \in 0..MaxRequests
    /\ upsets \in 0..MaxUpsets

Init ==
    /\ members = Crew
    /\ event = [e \in Events |-> None]
    /\ cancelled = {}
    /\ entry = [e \in Events |-> [u \in Users |-> None]]
    /\ invite = [i \in Invites |-> None]
    /\ uses = [i \in Invites |-> 0]
    /\ expired = {}
    /\ revoked = {}
    /\ notices = {}
    /\ pc = [q \in Requests |-> "idle"]
    /\ job = [q \in Requests |-> None]
    /\ overlap = FALSE
    /\ begun = 0
    /\ upsets = 0

(***************************************************************************)
(* Guards and row filters                                                  *)
(***************************************************************************)
\* ClanContextGuard and PermissionGuard.
Can(u, c, right) ==
    \/ u = Owner[c]
    \/ u \in Admins
    \/ u \in members[c] /\ right \in Granted[c][u]

\* clanIds and ownedOrgIds, kept in the request's store once they were read.
OrganizersOf(u) == {c \in Clans : u \in members[c]} \cup {o \in Orgs : OrgOwner[o] = u}

\* Mutant: without the rule `registered`.
VisibleUnregistered(u, mine, e) == event[e].set.public \/ event[e].organizer \in mine

\* Event: publicVisible, registered, myOrganizer.
Visible(u, mine, e) ==
    \/ event[e].set.public
    \/ entry[e][u] # None
    \/ event[e].organizer \in mine

\* EventParticipation: selfRow, confirmedPublic, myOrganizer('event').
EntryVisible(q, u) ==
    LET e == job[q].event
    IN \/ u = job[q].by
       \/ entry[e][u] = "CONFIRMED" /\ event[e].set.public /\ e \notin cancelled
       \/ event[e].organizer \in job[q].mine

Live == {e \in Events : event[e] # None} \ cancelled

(***************************************************************************)
(* Requests                                                                *)
(***************************************************************************)
Busy == \E p \in Requests : pc[p] # "idle"

Open ==
    /\ begun' = begun + 1
    /\ overlap' = (overlap \/ Busy)

Start(q, label, j) ==
    /\ Open
    /\ pc' = [pc EXCEPT ![q] = label]
    /\ job' = [job EXCEPT ![q] = j]
    /\ UNCHANGED <<world, events, entry, invites, notices>>

Proceed(q, label, j) ==
    /\ pc' = [pc EXCEPT ![q] = label]
    /\ job' = [job EXCEPT ![q] = j]
    /\ UNCHANGED <<overlap, begun>>

Goto(q, label) == Proceed(q, label, job[q])
End(q) == Proceed(q, "idle", None)

\* Go on at label if ok; otherwise the request is answered with an error.
GotoIf(q, ok, label) == IF ok THEN Goto(q, label) ELSE End(q)

Job(op, u, e) ==
    [op |-> op, by |-> u, clan |-> None, event |-> e, who |-> None, inv |-> None,
     limit |-> None, set |-> None, status |-> "CONFIRMED", mine |-> {}, readers |-> {}]

Tell(S, type, e) == notices \cup {[to |-> u, type |-> type, event |-> e] : u \in S}

(***************************************************************************)
(* Creation of events: persist, and what its callers and organizerCreate   *)
(* ask for                                                                 *)
(***************************************************************************)
Persist(u, o, e, s) ==
    /\ overlap' = (overlap \/ Busy)
    /\ event' = [event EXCEPT ![e] = [organizer |-> o, creator |-> u, set |-> s]]
    /\ UNCHANGED <<world, cancelled, entry, invites, notices, pc, job, begun>>

CreateClan(u, c, e, s) ==
    /\ Can(u, c, <<"event", "CREATE">>)
    /\ c \in OrganizersOf(u)
    /\ Persist(u, c, e, s)

\* An admin who does not own the organization passes createOrg's own test and
\* fails the one of organizerCreate.
CreateOrg(u, o, e, s) == o \in OrganizersOf(u) /\ Persist(u, o, e, s)

CreateSystem(u, e, s) == u \in Admins /\ Persist(u, System, e, s)

(***************************************************************************)
(* Routes                                                                  *)
(***************************************************************************)
Manage(q, label, right, j) == Can(j.by, j.clan, right) /\ Start(q, label, j)

\* Below /clans/:clanId/events/:eventId, any event id may be sent.
BeginManaging(q, u, c, e) ==
    LET J(op) == [Job(op, u, e) EXCEPT !.clan = c]
    IN \/ \E t \in Users :
            \/ Manage(q, "find", <<"event_participation", "UPDATE">>, [J("approve") EXCEPT !.who = t])
            \/ Manage(q, "find", <<"event_participation", "DELETE">>, [J("reject") EXCEPT !.who = t])
            \/ Manage(q, "find", <<"event_participation", "CREATE">>, [J("invite") EXCEPT !.who = t])
       \/ \E n \in Limits \cup {None} :
            Manage(q, "find", <<"event_participation", "CREATE">>, [J("link") EXCEPT !.limit = n])
       \/ \E s \in Changes : Manage(q, "update", <<"event", "UPDATE">>, [J("update") EXCEPT !.set = s])
       \/ Manage(q, "find", <<"event", "DELETE">>, J("cancel"))

(***************************************************************************)
(* register and leave                                                      *)
(***************************************************************************)
\* Mutant: CLOSED is not tested.
RegisterUnlessInviteOnly(q) ==
    /\ pc[q] = "register"
    /\ LET e == job[q].event
           mine == OrganizersOf(job[q].by)
       IN IF /\ e \in Live /\ Visible(job[q].by, mine, e)
             /\ event[e].set.policy # "INVITE_ONLY" /\ event[e].set.window = "open"
          THEN Proceed(q, "present", [job[q] EXCEPT !.mine = mine, !.status =
                                        IF event[e].set.approval THEN "PENDING" ELSE "CONFIRMED"])
          ELSE End(q)
    /\ UNCHANGED <<world, events, entry, invites, notices>>

Register(q) ==
    /\ pc[q] = "register"
    /\ LET e == job[q].event
           mine == OrganizersOf(job[q].by)
       IN IF /\ e \in Live /\ Visible(job[q].by, mine, e)
             /\ event[e].set.policy = "OPEN" /\ event[e].set.window = "open"
          THEN Proceed(q, "present", [job[q] EXCEPT !.mine = mine, !.status =
                                        IF event[e].set.approval THEN "PENDING" ELSE "CONFIRMED"])
          ELSE End(q)
    /\ UNCHANGED <<world, events, entry, invites, notices>>

\* alreadyRegistered, also of redeem.
Present(q) ==
    /\ pc[q] = "present"
    /\ GotoIf(q, entry[job[q].event][job[q].by] = None, "enter")
    /\ UNCHANGED <<world, events, entry, invites, notices>>

\* The row is made, with the status that the event asked for when it was read;
\* a second row of the same user violates a unique index.  Applications are
\* announced to whoever created the event.
Enter(q) ==
    /\ pc[q] = "enter"
    /\ LET e == job[q].event
           u == job[q].by
       IN IF entry[e][u] = None
          THEN /\ entry' = [entry EXCEPT ![e][u] = job[q].status]
               /\ notices' = IF job[q].status = "PENDING"
                             THEN Tell({event[e].creator}, "JOIN_REQUEST", e) ELSE notices
               /\ Goto(q, IF job[q].inv = None THEN "detail" ELSE "count")
          ELSE End(q) /\ UNCHANGED <<entry, notices>>
    /\ UNCHANGED <<world, events, invites>>

\* deleteMany of one's own row, whatever has become of the event.
Leave(q) ==
    /\ pc[q] = "leave"
    /\ entry' = [entry EXCEPT ![job[q].event][job[q].by] = None]
    /\ End(q)
    /\ UNCHANGED <<world, events, invites, notices>>

(***************************************************************************)
(* What organizers do                                                      *)
(***************************************************************************)
Following == [approve |-> "confirm", reject |-> "drop", cancel |-> "readers",
              invite |-> "targetEntry", link |-> "insert"]

\* Mutant: the event is looked up by its id alone.
FindAny(q) ==
    /\ pc[q] = "find"
    /\ LET e == job[q].event
           mine == OrganizersOf(job[q].by)
       IN IF e \in Live /\ Visible(job[q].by, mine, e)
          THEN Proceed(q, Following[job[q].op], [job[q] EXCEPT !.mine = mine])
          ELSE End(q)
    /\ UNCHANGED <<world, events, entry, invites, notices>>

\* The event of the route's clan, first statement of these handlers.
Find(q) ==
    /\ pc[q] = "find"
    /\ LET e == job[q].event
           mine == OrganizersOf(job[q].by)
       IN IF e \in Live /\ Visible(job[q].by, mine, e) /\ event[e].organizer = job[q].clan
          THEN Proceed(q, Following[job[q].op], [job[q] EXCEPT !.mine = mine])
          ELSE End(q)
    /\ UNCHANGED <<world, events, entry, invites, notices>>

Confirm(q) ==
    /\ pc[q] = "confirm"
    /\ LET e == job[q].event
           u == job[q].who
       IN IF entry[e][u] = "PENDING" /\ EntryVisible(q, u)
          THEN /\ entry' = [entry EXCEPT ![e][u] = "CONFIRMED"]
               /\ notices' = Tell({u}, "ACCEPTED", e)
               /\ Goto(q, "detail")
          ELSE End(q) /\ UNCHANGED <<entry, notices>>
    /\ UNCHANGED <<world, events, invites>>

\* Of an application or of an entry that was confirmed long ago.
Drop(q) ==
    /\ pc[q] = "drop"
    /\ LET e == job[q].event
           u == job[q].who
       IN IF entry[e][u] # None /\ EntryVisible(q, u)
          THEN /\ entry' = [entry EXCEPT ![e][u] = None]
               /\ notices' = Tell({u}, "DECLINED", e)
               /\ Goto(q, "detail")
          ELSE End(q) /\ UNCHANGED <<entry, notices>>
    /\ UNCHANGED <<world, events, invites>>

Update(q) ==
    /\ pc[q] = "update"
    /\ LET e == job[q].event
           mine == OrganizersOf(job[q].by)
       IN IF e \in Live /\ Visible(job[q].by, mine, e) /\ event[e].organizer = job[q].clan
          THEN /\ event' = [event EXCEPT ![e].set = job[q].set]
               /\ Proceed(q, "detail", [job[q] EXCEPT !.mine = mine])
          ELSE End(q) /\ UNCHANGED event
    /\ UNCHANGED <<world, cancelled, entry, invites, notices>>

\* Mutant: only those whose entry is confirmed.
ReadersConfirmed(q) ==
    /\ pc[q] = "readers"
    /\ Proceed(q, "delete", [job[q] EXCEPT !.readers =
                               {u \in Users : entry[job[q].event][u] = "CONFIRMED" /\ EntryVisible(q, u)}])
    /\ UNCHANGED <<world, events, entry, invites, notices>>

\* cancel: first the participants who will be told are read ...
Readers(q) ==
    /\ pc[q] = "readers"
    /\ Proceed(q, "delete", [job[q] EXCEPT !.readers =
                               {u \in Users : entry[job[q].event][u] # None /\ EntryVisible(q, u)}])
    /\ UNCHANGED <<world, events, entry, invites, notices>>

\* ... then the event goes, and they are told, even if it was gone already or
\* has become invisible to its manager.
Delete(q) ==
    /\ pc[q] = "delete"
    /\ LET e == job[q].event
       IN /\ cancelled' = IF Visible(job[q].by, job[q].mine, e) THEN cancelled \cup {e} ELSE cancelled
          /\ notices' = Tell(job[q].readers, "CANCELLED", e)
    /\ End(q)
    /\ UNCHANGED <<world, event, entry, invites>>

\* The answer of most requests: the event as its sender sees it, or 404.
Detail(q) ==
    /\ pc[q] = "detail"
    /\ End(q)
    /\ UNCHANGED <<world, events, entry, invites, notices>>

(***************************************************************************)
(* Invites                                                                 *)
(***************************************************************************)
TargetEntry(q) ==
    /\ pc[q] = "targetEntry"
    /\ GotoIf(q, entry[job[q].event][job[q].who] = None \/ ~EntryVisible(q, job[q].who), "duplicate")
    /\ UNCHANGED <<world, events, entry, invites, notices>>

\* EventInvite: myOrganizer('event').  findFirst returns any of them.
OpenFor(q) ==
    {i \in Invites \ revoked :
        /\ invite[i] # None
        /\ invite[i].event = job[q].event /\ invite[i].target = job[q].who
        /\ event[job[q].event].organizer \in job[q].mine}

Duplicate(q) ==
    /\ pc[q] = "duplicate"
    /\ \/ OpenFor(q) = {} /\ Goto(q, "insert")
       \/ \E i \in OpenFor(q) : GotoIf(q, i \in expired, "insert")
    /\ UNCHANGED <<world, events, entry, invites, notices>>

\* Bound: an id is left; a request that finds none stays without an answer.
Insert(q) ==
    /\ pc[q] = "insert"
    /\ \E i \in Invites :
         /\ invite[i] = None
         /\ invite' = [invite EXCEPT ![i] = [event |-> job[q].event, target |-> job[q].who,
                                             limit |-> job[q].limit]]
    /\ notices' = IF job[q].who = None THEN notices ELSE Tell({job[q].who}, "INVITE", job[q].event)
    /\ End(q)
    /\ UNCHANGED <<world, events, entry, uses, expired, revoked>>

\* The statement that counts, with all that is looked up before it.
Revoke(u, c, i) ==
    /\ Open
    /\ Can(u, c, <<"event_participation", "DELETE">>)
    /\ invite[i] # None /\ i \notin revoked
    /\ LET e == invite[i].event
       IN e \in Live /\ event[e].organizer = c /\ c \in OrganizersOf(u)
    /\ revoked' = revoked \cup {i}
    /\ UNCHANGED <<world, events, entry, invite, uses, expired, notices, pc, job>>

\* requireRedeemable
Redeemable(i) ==
    /\ invite[i] # None
    /\ i \notin revoked \cup expired
    /\ invite[i].limit # None => uses[i] < invite[i].limit

BeginRedeem(q, u, i) ==
    /\ Redeemable(i)
    /\ invite[i].target \in {None, u}
    /\ Start(q, "open", [Job("redeem", u, invite[i].event) EXCEPT !.inv = i])

\* An invite opens all but closed events, whatever their window and without
\* approval.
EventOpen(q) ==
    /\ pc[q] = "open"
    /\ GotoIf(q, job[q].event \in Live /\ event[job[q].event].set.policy # "CLOSED", "present")
    /\ UNCHANGED <<world, events, entry, invites, notices>>

\* uses: { increment: 1 }; the filter applies from here on.
Count(q) ==
    /\ pc[q] = "count"
    /\ uses' = [uses EXCEPT ![job[q].inv] = @ + 1]
    /\ Proceed(q, "detail", [job[q] EXCEPT !.mine = OrganizersOf(job[q].by)])
    /\ UNCHANGED <<world, events, entry, invite, expired, revoked, notices>>

(***************************************************************************)
(* The world around                                                        *)
(***************************************************************************)
Upset == upsets < MaxUpsets /\ upsets' = upsets + 1

\* leave and kick of the clan
Depart(c, u) ==
    /\ Upset
    /\ u \in members[c] \ {Owner[c]}
    /\ members' = [members EXCEPT ![c] = @ \ {u}]
    /\ overlap' = (overlap \/ Busy)
    /\ UNCHANGED <<events, entry, invites, notices, pc, job, begun>>

\* The registration window opens, or closes.
Tick(e) ==
    /\ Upset
    /\ e \in Live
    /\ event[e].set.window # "after"
    /\ event' = [event EXCEPT ![e].set.window = IF @ = "before" THEN "open" ELSE "after"]
    /\ overlap' = (overlap \/ Busy)
    /\ UNCHANGED <<members, cancelled, entry, invites, notices, pc, job, begun>>

\* Of links only: an invite by name has no expires_at.
Expire(i) ==
    /\ Upset
    /\ invite[i] # None /\ i \notin expired
    /\ invite[i].target = None
    /\ expired' = expired \cup {i}
    /\ UNCHANGED <<members, events, entry, invite, uses, revoked, notices, pc, job, overlap, begun>>

\* The process dies, or the database refuses a statement.
Abort(q) ==
    /\ Upset
    /\ pc[q] # "idle"
    /\ End(q)
    /\ UNCHANGED <<members, events, entry, invites, notices>>

Begin(q) ==
    /\ pc[q] = "idle"
    /\ \E u \in Users, e \in Events :
         IF event[e] = None
         THEN \E s \in Settings :
                \/ \E c \in Clans : CreateClan(u, c, e, s)
                \/ \E o \in Orgs : CreateOrg(u, o, e, s)
                \/ CreateSystem(u, e, s)
         ELSE /\ begun < MaxRequests
              /\ \/ \E c \in Clans : BeginManaging(q, u, c, e)
                 \/ Start(q, "register", Job("register", u, e))
                 \/ entry[e][u] # None /\ Start(q, "leave", Job("leave", u, e))
                 \/ \E i \in Invites :
                      /\ invite[i] # None /\ invite[i].event = e
                      /\ BeginRedeem(q, u, i) \/ \E c \in Clans : Revoke(u, c, i)

Step(q) ==
    \/ Register(q) \/ Present(q) \/ Enter(q) \/ Leave(q)
    \/ Find(q) \/ Confirm(q) \/ Drop(q) \/ Update(q) \/ Readers(q) \/ Delete(q) \/ Detail(q)
    \/ TargetEntry(q) \/ Duplicate(q) \/ Insert(q) \/ EventOpen(q) \/ Count(q)

Next ==
    \/ \E q \in Requests : Begin(q) \/ Step(q) \/ Abort(q)
    \/ \E c \in Clans, u \in Users : Depart(c, u)
    \/ \E e \in Events : Tick(e)
    \/ \E i \in Invites : Expire(i)

Spec == Init /\ [][Next]_vars

-----------------------------------------------------------------------------
(***************************************************************************)
(* Properties                                                              *)
(***************************************************************************)
\* q takes its next step.
Steps(q) == pc[q] # "idle" /\ pc'[q] # pc[q]

\* The organizer's business: only a request below the route of the clan that
\* organizes an event changes the event (its window passes by itself), cancels
\* it or changes the entry of somebody else, though public events are visible
\* to the managers of all clans, and whatever races (the clan_id of the
\* lookups, events.service.ts 99, 111, 133 and 139).
OthersKeepOut ==
    [][\A e \in Events :
         /\ event[e] # None =>
              /\ event'[e] # [event[e] EXCEPT !.set.window = event'[e].set.window] =>
                   \E q \in Requests : Steps(q) /\ job[q].op = "update" /\ job[q].clan = event[e].organizer
              /\ e \in cancelled' \ cancelled =>
                   \E q \in Requests : Steps(q) /\ job[q].op = "cancel" /\ job[q].clan = event[e].organizer
         /\ \A u \in Users : entry'[e][u] # entry[e][u] =>
              \E q \in Requests :
                /\ Steps(q) /\ job[q].event = e
                /\ \/ job[q].by = u /\ job[q].op \in {"register", "leave", "redeem"}
                   \/ /\ job[q].who = u /\ job[q].op \in {"approve", "reject"}
                      /\ job[q].clan = event[e].organizer]_vars

\* However many redemptions race between the test (event-invite.service.ts 95)
\* and the count (78), an invite is used at most once more per further request
\* in flight, and not at all too often while no two requests overlap.
OverrunIsBounded ==
    \A i \in Invites : invite[i] # None /\ invite[i].limit # None =>
        uses[i] <= invite[i].limit + (IF overlap THEN Cardinality(Requests) - 1 ELSE 0)

\* While no two requests overlap, whoever gets in is allowed to when he gets
\* in, not only when the first statement of his request looked: the event is
\* there and not closed; he sees it, registration is open and nobody has to
\* approve, or he applies; or he has an invite that is good for him.
EntriesAreWarranted ==
    [][\A e \in Events, u \in Users :
         /\ ~overlap /\ ~overlap'
         /\ entry[e][u] = None /\ entry'[e][u] # None
         => /\ e \in Live
            /\ event[e].set.policy # "CLOSED"
            /\ \/ /\ Visible(u, OrganizersOf(u), e)
                  /\ event[e].set.policy = "OPEN" /\ event[e].set.window = "open"
                  /\ event[e].set.approval <=> entry'[e][u] = "PENDING"
               \/ \E i \in Invites \ revoked :
                    /\ invite[i] # None /\ invite[i].event = e
                    /\ invite[i].target \in {None, u}
                    /\ invite[i].limit # None => uses[i] < invite[i].limit]_vars

\* While no two requests overlap, everybody who takes part in an event or has
\* applied is told when a member of its clan cancels it.  An admin from outside
\* does not see all of them (conditional.ts 24-30), and does not tell them.
CancellationsReachEveryone ==
    [][\A e \in cancelled' \ cancelled, u \in Users : ~overlap /\ entry[e][u] # None =>
         \/ [to |-> u, type |-> "CANCELLED", event |-> e] \in notices'
         \/ \E q \in Requests : Steps(q) /\ job[q].by \in Admins /\ job[q].clan \notin job[q].mine]_vars

\* While no two requests overlap, who has changed an event or an entry gets to
\* see the result: detail does not answer 404 after the change is committed.
\* Left out is the admin who hides the event of a clan he does not belong to,
\* or a rejected guest of a clan who may reject himself.
ChangesAreShown ==
    ~overlap => \A q \in Requests : pc[q] = "detail" =>
        \/ job[q].event \in Live /\ Visible(job[q].by, job[q].mine, job[q].event)
        \/ job[q].by \in Admins /\ job[q].clan # None /\ job[q].clan \notin job[q].mine
=============================================================================
