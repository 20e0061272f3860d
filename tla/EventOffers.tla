----------------------------- MODULE EventOffers -----------------------------
(***************************************************************************)
(* What the web client offers a user on the pages of events and of invites *)
(* to events, by the views the API sends, beside what the API answers when *)
(* he accepts.  The views are taken as just fetched: what happens to older *)
(* ones is the subject of Screens.                                         *)
(***************************************************************************)
EXTENDS Events

(***************************************************************************)
(* The views of the API, for a request of u                                *)
(***************************************************************************)
\* detail: otherwise the page says that there is no such event.
Shown(u, e) == e \in Live /\ Visible(u, OrganizersOf(u), e)

\* toParticipant of the rows the filter leaves; myStatus is found among them.
Participants(u, e) ==
    {v \in Users :
        /\ entry[e][v] # None
        /\ \/ v = u
           \/ entry[e][v] = "CONFIRMED" /\ event[e].set.public
           \/ event[e].organizer \in OrganizersOf(u)}
MyStatus(u, e) == IF u \in Participants(u, e) THEN entry[e][u] ELSE None

\* Mutant: every member of the clan.
MembersManage(u, e) ==
    /\ event[e].organizer \in Clans
    /\ u \in members[event[e].organizer] \cup Admins

\* toView: canManage, and canInvite, which is the same.
CanManage(u, e) ==
    /\ event[e].organizer \in Clans
    /\ u \in {Owner[event[e].organizer], event[e].creator} \cup Admins

\* The list of the event's invites, expired and used up ones with the others.
InviteList(u, e) ==
    {i \in Invites \ revoked :
        /\ invite[i] # None /\ invite[i].event = e
        /\ event[e].organizer \in OrganizersOf(u)}

\* preview
Preview(i) == Redeemable(i) /\ invite[i].event \in Live

(***************************************************************************)
(* The pages                                                               *)
(***************************************************************************)
\* EventsPage and the form: the clans a new event can be given to.
EligibleClans(u) ==
    {c \in Clans : u \in members[c] /\ (u = Owner[c] \/ <<"event", "CREATE">> \in Granted[c][u])}

\* Header: the one action beside the title.
Action(u, e) ==
    CASE MyStatus(u, e) # None -> "leave"
      [] MyStatus(u, e) = None /\ event[e].set.policy = "OPEN" -> "register"
      [] OTHER -> None

\* Header: the buttons below it, by the rights their routes ask for.
Behind ==
    [edit |-> {<<"event", "UPDATE">>},
     cancel |-> {<<"event", "DELETE">>},
     decide |-> {"event_participation"} \X {"UPDATE", "DELETE"},
     invites |-> {"event_participation"} \X {"READ", "CREATE", "DELETE"}]
Tools(u, e) == IF Shown(u, e) /\ CanManage(u, e) THEN DOMAIN Behind ELSE {}

\* Participants: who can be approved or rejected.
Applicants(u, e) ==
    {v \in Participants(u, e) : "decide" \in Tools(u, e) /\ entry[e][v] = "PENDING"}

\* EventInviteManagerModal: a link, an invite for whoever is named, and a
\* button beside each invite of the list.
OffersInvites(u, e) == "invites" \in Tools(u, e)
OffersRevoke(u, i) ==
    invite[i] # None /\ OffersInvites(u, invite[i].event) /\ i \in InviteList(u, invite[i].event)

\* EventInvitePage: anybody signed in who has the code.
OffersJoin(i) == Preview(i)

\* The request of a job, as far as its user was offered it.
Offered(j) ==
    \/ j.op \in {"register", "leave"} /\ Shown(j.by, j.event) /\ Action(j.by, j.event) = j.op
    \/ j.op \in {"approve", "reject"} /\ j.who \in Applicants(j.by, j.event)
    \/ j.op = "update" /\ "edit" \in Tools(j.by, j.event)
    \/ j.op = "cancel" /\ "cancel" \in Tools(j.by, j.event)
    \/ j.op \in {"link", "invite"} /\ OffersInvites(j.by, j.event)
    \/ j.op = "redeem" /\ OffersJoin(j.inv)

-----------------------------------------------------------------------------
(***************************************************************************)
(* Properties                                                              *)
(***************************************************************************)
\* The author of an event stays its manager to the client whatever becomes of
\* his rights, also when he has left the clan (events.service.ts:175).
AuthorOnly(u, e) == u = event[e].creator /\ u # Owner[event[e].organizer] /\ u \notin Admins

\* Offers the client makes although the API refuses them: registration before
\* or after its window; an invite for somebody who takes part or has an open
\* one; a link to an event that is closed or was entered already.  The page of
\* an invite by name asks everybody to join who has its code.
InVain(j) ==
    \/ j.op = "register" /\ event[j.event].set.window # "open"
    \/ j.op = "invite" /\ (entry[j.event][j.who] # None \/ \E i \in Invites :
                             invite[i] # None /\ invite[i].target = j.who /\ i \notin revoked)
    \/ j.op = "redeem" /\ (event[j.event].set.policy = "CLOSED" \/ entry[j.event][j.by] # None)

\* A step that answers with an error.
Refuses(q) ==
    /\ pc[q] \in {"register", "find", "update", "confirm", "drop", "targetEntry", "duplicate",
                  "open", "present", "enter"}
    /\ pc'[q] = "idle"
    /\ upsets' = upsets

\* Whatever the pages offer on current data is carried out, but for the offers
\* above, while no two requests overlap: the guard of its route lets the user
\* in, and no statement of its handler refuses him, at the clan of the event,
\* which is where the page sends it.
OffersAreAccepted ==
    [][~overlap =>
         /\ ~Busy => \A u \in Users :
              /\ \A e \in Live, tool \in DOMAIN Behind :
                   tool \in Tools(u, e) =>
                       \/ \A right \in Behind[tool] : Can(u, event[e].organizer, right)
                       \/ AuthorOnly(u, e)
              /\ \A i \in Invites : OffersRevoke(u, i) =>
                   \/ Can(u, event[invite[i].event].organizer, <<"event_participation", "DELETE">>)
                   \/ AuthorOnly(u, invite[i].event)
              /\ \A c \in EligibleClans(u) : Can(u, c, <<"event", "CREATE">>) /\ c \in OrganizersOf(u)
         /\ \A q \in Requests :
              /\ Refuses(q)
              /\ job[q].clan \in {None, event[job[q].event].organizer}
              /\ Offered(job[q])
              => InVain(job[q])]_vars
=============================================================================
