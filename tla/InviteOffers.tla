----------------------------- MODULE InviteOffers -----------------------------
(***************************************************************************)
(* What the web client offers about the invites of a clan: the window in   *)
(* which members make, copy and revoke them, the notification that carries *)
(* an invite by name, and the page behind the code of an invite; beside    *)
(* what the API answers.  The views are taken as just fetched.             *)
(***************************************************************************)
EXTENDS ClanInvites

\* list: expired invites and those used up are in it.
List == IF deleted THEN {} ELSE made \ revoked

\* Mutant: the clan of the invite is read without deleted_at.
PreviewOfAnyClan(i) == Redeemable(i)

\* preview
Preview(i) == Redeemable(i) /\ ~deleted

\* InviteRow: the link of an invite for everybody can be copied.
OffersCopy(i) == i \in List /\ target[i] = None

\* createTargeted: who is sent the code of an invite by name.
SentTo(i) == {target[i]} \ {None}

\* InvitePage: to whoever has opened the address with the code; it knows that
\* an invite is for somebody, not whether for the user.
OffersJoin(i) == Preview(i)

\* InviteManagerModal, TargetedInvite: a link without a limit, or an invite for
\* whoever is named.
OffersCreation == ~deleted

\* The request of q, as far as its user was offered it.
Offered(q) ==
    \/ pc[q] \in Creating /\ OffersCreation
    \/ pc[q] \in Admitting /\ job[q].inv # None /\ OffersJoin(job[q].inv)

\* A step that answers with an error, rather than because the request died.
Refuses(q) ==
    /\ pc[q] \in {"targetMember", "duplicate", "clan", "member", "newRow"}
    /\ pc'[q] = "idle"
    /\ <<status, aborts>>' = <<status, aborts>>

\* Refusals of what the client offers: a page for a closed clan, or for a
\* member; an invite for a member, or for somebody who has one that will do.
InVain(q) ==
    IF pc[q] \in Creating
    THEN \/ status[job[q].who] = "active"
         \/ \E i \in OpenFor(job[q].who) : OffersJoin(i)
    ELSE policy = "CLOSED" \/ status[job[q].who] = "active"

-----------------------------------------------------------------------------
\* While no two requests overlap, what the client offers works, but for the
\* cases above; in particular nobody is told that a user has an invite already
\* (invite.service.ts:39) unless that invite lets him in.  Behind every link
\* that can be copied there is a page to join by until the link expires or is
\* used up, and behind an invite by name for as long as it is not revoked,
\* also if its user came in by it, left and comes again.
OffersAreAccepted ==
    [][~overlap =>
         /\ \A q \in Requests : Offered(q) /\ Refuses(q) => InVain(q)
         /\ \A i \in Invites : OffersCopy(i) =>
              OffersJoin(i) \/ i \in expired \/ uses[i] = limit[i]
         /\ \A i \in List : SentTo(i) # {} => OffersJoin(i)]_vars
=============================================================================
