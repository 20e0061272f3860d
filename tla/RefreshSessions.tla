-------------------------- MODULE RefreshSessions --------------------------
(***************************************************************************)
(* The refresh-token sessions of the API: login, refresh with rotation and *)
(* replay detection, logout and password reset (AuthService), interleaved  *)
(* at the granularity of their SQL statements.  The tables are those of    *)
(* schema.prisma; a transaction runs at PostgreSQL's READ COMMITTED, the   *)
(* level Prisma uses when none is named: what a transaction wrote becomes  *)
(* visible when it commits, and an UPDATE picks its rows in a snapshot     *)
(* taken when the statement starts, then waits for the rows another        *)
(* transaction has locked.                                                 *)
(*                                                                         *)
(* A token stands for its row, its hash and the string the client holds.   *)
(***************************************************************************)
EXTENDS Null, Naturals

CONSTANTS
    Users,      \* accounts that exist, verified and not deleted
    Tokens,     \* refresh tokens
    Links,      \* password reset links
    Passwords,
    Requests,   \* slots for HTTP requests in flight
    MaxAborts   \* bound: requests that may die half way

ASSUME NoneAssumption == None \notin Users \cup Tokens \cup Links \cup Passwords
ASSUME MaxAbortsAssumption == MaxAborts \in Nat

VARIABLES
    owner,      \* RefreshToken.user_id; None: the row does not exist (yet)
    revoked,    \* rows with revoked_at set
    replacedBy, \* RefreshToken.replaced_by_id
    expired,    \* rows whose expires_at has passed
    password,   \* User.password_hash
    linkUser,   \* PasswordResetToken.user_id; None: no such row
    linkUsed,   \* rows with used_at set
    linkExpired,
    pc,         \* what each request does next
    who,        \* the user a request acts for
    tok,        \* the token a refresh was called with
    next,       \* the token a request has generated and not stored yet
    snap,       \* the rows the revoke-all UPDATE of a request selected
    link, newPw,\* the arguments of a password reset
    aborts,
    overlap,    \* history: two requests have been in flight at once
    family      \* history: the token of the login a token descends from

table == <<owner, revoked, replacedBy, expired>>
account == <<password, linkUser, linkUsed, linkExpired>>
request == <<pc, who, tok, next, snap, link, newPw, overlap>>
vars == <<owner, revoked, replacedBy, expired, password, linkUser, linkUsed,
          linkExpired, pc, who, tok, next, snap, link, newPw, aborts, overlap, family>>

Idle == "idle"
PCs == {Idle, "issue", "expire", "claim", "commit", "revokeAll", "revoking",
        "reset", "resetting"}

Exists(t) == owner[t] # None
Active(t) == Exists(t) /\ t \notin revoked
\* The token of a login, not of a rotation.
IsLogin(t) == Exists(t) /\ family[t] = t
Fresh(t) == ~Exists(t) /\ \A r \in Requests : next[r] # t

\* A rotation holds the row lock of the token it claimed until it commits.
Locked(t) == \E r \in Requests : pc[r] = "commit" /\ tok[r] = t

\* The transaction of a password reset holds the lock of the user row.
UserLocked(u) == \E r \in Requests : pc[r] = "resetting" /\ who[r] = u

TypeOK ==
    /\ owner \in [Tokens -> Users \cup {None}]
    /\ revoked \in SUBSET Tokens
    /\ replacedBy \in [Tokens -> Tokens \cup {None}]
    /\ expired \in SUBSET Tokens
    /\ password \in [Users -> Passwords]
    /\ linkUser \in [Links -> Users \cup {None}]
    /\ linkUsed \in SUBSET Links
    /\ linkExpired \in SUBSET Links
    /\ pc \in [Requests -> PCs]
    /\ who \in [Requests -> Users \cup {None}]
    /\ tok \in [Requests -> Tokens \cup {None}]
    /\ next \in [Requests -> Tokens \cup {None}]
    /\ snap \in [Requests -> SUBSET Tokens]
    /\ link \in [Requests -> Links \cup {None}]
    /\ newPw \in [Requests -> Passwords \cup {None}]
    /\ aborts \in 0..MaxAborts
    /\ overlap \in BOOLEAN
    /\ family \in [Tokens -> Tokens \cup {None}]

Init ==
    /\ owner = [t \in Tokens |-> None]
    /\ revoked = {}
    /\ replacedBy = [t \in Tokens |-> None]
    /\ expired = {}
    /\ password \in [Users -> Passwords]
    /\ linkUser = [l \in Links |-> None]
    /\ linkUsed = {}
    /\ linkExpired = {}
    /\ pc = [r \in Requests |-> Idle]
    /\ who = [r \in Requests |-> None]
    /\ tok = [r \in Requests |-> None]
    /\ next = [r \in Requests |-> None]
    /\ snap = [r \in Requests |-> {}]
    /\ link = [r \in Requests |-> None]
    /\ newPw = [r \in Requests |-> None]
    /\ aborts = 0
    /\ overlap = FALSE
    /\ family = [t \in Tokens |-> None]

(***************************************************************************)
(* A request in flight is the record of its local variables.               *)
(***************************************************************************)
Begin(r, label) ==
    /\ pc[r] = Idle
    /\ pc' = [pc EXCEPT ![r] = label]
    /\ overlap' = (overlap \/ \E q \in Requests : pc[q] # Idle)

Goto(r, label) == pc' = [pc EXCEPT ![r] = label] /\ UNCHANGED overlap

\* The request answers, with a result or an error: its locals are gone.
Answer(r) ==
    /\ Goto(r, Idle)
    /\ who' = [who EXCEPT ![r] = None]
    /\ tok' = [tok EXCEPT ![r] = None]
    /\ next' = [next EXCEPT ![r] = None]
    /\ snap' = [snap EXCEPT ![r] = {}]
    /\ link' = [link EXCEPT ![r] = None]
    /\ newPw' = [newPw EXCEPT ![r] = None]

\* INSERT of a row for the token the request generated.
Store(r, root) ==
    /\ owner' = [owner EXCEPT ![next[r]] = who[r]]
    /\ family' = [family EXCEPT ![next[r]] = root]

\* updateMany({ user_id, revoked_at: null }): the rows its snapshot selects.
ActiveOf(u) == {t \in Tokens : owner[t] = u /\ t \notin revoked}

(***************************************************************************)
(* login: the user row with its hash is read and the password compared;    *)
(* the token row is inserted afterwards (issueTokens).  A wrong password   *)
(* changes nothing.                                                        *)
(***************************************************************************)
LoginVerify(r, u, p, n) ==
    /\ p = password[u]
    /\ Fresh(n)
    /\ Begin(r, "issue")
    /\ who' = [who EXCEPT ![r] = u]
    /\ next' = [next EXCEPT ![r] = n]
    /\ UNCHANGED <<table, account, tok, snap, link, newPw, aborts, family>>

IssueTokens(r) ==
    /\ pc[r] = "issue"
    /\ Store(r, next[r])
    /\ Answer(r)
    /\ UNCHANGED <<revoked, replacedBy, expired, account, aborts>>

(***************************************************************************)
(* refresh: the row of the presented token is read, and the verdict on     *)
(* that snapshot decides the path.                                         *)
(***************************************************************************)
RefreshReplayed(r, t) ==
    /\ Exists(t)
    /\ t \in revoked \/ replacedBy[t] # None
    /\ Begin(r, "revokeAll")
    /\ who' = [who EXCEPT ![r] = owner[t]]
    /\ tok' = [tok EXCEPT ![r] = t]
    /\ UNCHANGED <<table, account, next, snap, link, newPw, aborts, family>>

RefreshExpired(r, t) ==
    /\ Active(t)
    /\ replacedBy[t] = None
    /\ t \in expired
    /\ Begin(r, "expire")
    /\ who' = [who EXCEPT ![r] = owner[t]]
    /\ tok' = [tok EXCEPT ![r] = t]
    /\ UNCHANGED <<table, account, next, snap, link, newPw, aborts, family>>

RefreshAccepted(r, t, n) ==
    /\ Active(t)
    /\ replacedBy[t] = None
    /\ t \notin expired
    /\ Fresh(n)
    /\ Begin(r, "claim")
    /\ who' = [who EXCEPT ![r] = owner[t]]
    /\ tok' = [tok EXCEPT ![r] = t]
    /\ next' = [next EXCEPT ![r] = n]
    /\ UNCHANGED <<table, account, snap, link, newPw, aborts, family>>

\* The expired token is revoked by id, whatever happened to it meanwhile.
RevokeExpired(r) ==
    /\ pc[r] = "expire"
    /\ ~Locked(tok[r])
    /\ revoked' = revoked \cup {tok[r]}
    /\ Answer(r)
    /\ UNCHANGED <<owner, replacedBy, expired, account, aborts, family>>

(***************************************************************************)
(* rotate: one interactive transaction.  The claim locks the row when it   *)
(* is still active; otherwise its count is 0 and the transaction ends with *)
(* the "kollidiert" error.  The INSERT and the link to the successor stay  *)
(* invisible until the commit.                                             *)
(***************************************************************************)
\* Mutant: the claim trusts the read and tests nothing.
ClaimableAlways(t) == TRUE

\* Mutant: the claim tests replaced_by_id only.
ClaimableUnlessReplaced(t) == replacedBy[t] = None

Claimable(t) == t \notin revoked /\ replacedBy[t] = None

RotateClaim(r) ==
    /\ pc[r] = "claim"
    /\ ~Locked(tok[r])
    /\ Claimable(tok[r])
    /\ Goto(r, "commit")
    /\ UNCHANGED <<table, account, who, tok, next, snap, link, newPw, aborts,
                   family>>

RotateCollide(r) ==
    /\ pc[r] = "claim"
    /\ ~Locked(tok[r])
    /\ ~Claimable(tok[r])
    /\ Answer(r)
    /\ UNCHANGED <<table, account, aborts, family>>

\* Mutant: the transaction links the successor and forgets revoked_at.
RotateWithoutRevoking(r) ==
    /\ pc[r] = "commit"
    /\ Store(r, family[tok[r]])
    /\ replacedBy' = [replacedBy EXCEPT ![tok[r]] = next[r]]
    /\ Answer(r)
    /\ UNCHANGED <<revoked, expired, account, aborts>>

RotateCommit(r) ==
    /\ pc[r] = "commit"
    /\ Store(r, family[tok[r]])
    /\ revoked' = revoked \cup {tok[r]}
    /\ replacedBy' = [replacedBy EXCEPT ![tok[r]] = next[r]]
    /\ Answer(r)
    /\ UNCHANGED <<expired, account, aborts>>

(***************************************************************************)
(* revokeAllForUser: one UPDATE, seen from its snapshot to its end.        *)
(***************************************************************************)
RevokeAllStart(r) ==
    /\ pc[r] = "revokeAll"
    /\ snap' = [snap EXCEPT ![r] = ActiveOf(who[r])]
    /\ Goto(r, "revoking")
    /\ UNCHANGED <<table, account, who, tok, next, link, newPw, aborts, family>>

RevokeAllEnd(r) ==
    /\ pc[r] = "revoking"
    /\ \A t \in snap[r] : ~Locked(t)
    /\ revoked' = revoked \cup snap[r]
    /\ Answer(r)
    /\ UNCHANGED <<owner, replacedBy, expired, account, aborts, family>>

\* logout: one UPDATE of the presented token; it waits for a rotation.
Logout(t) ==
    /\ Exists(t)
    /\ ~Locked(t)
    /\ revoked' = revoked \cup {t}
    /\ UNCHANGED <<owner, replacedBy, expired, account, request, aborts, family>>

(***************************************************************************)
(* forgotPassword and resetPassword.  The link is checked in a read; the   *)
(* batch transaction then writes the password, used_at and revokes the     *)
(* user's tokens, without looking at the link again.                       *)
(***************************************************************************)
ForgotPassword(u, l) ==
    /\ linkUser[l] = None
    /\ linkUser' = [linkUser EXCEPT ![l] = u]
    /\ UNCHANGED <<table, password, linkUsed, linkExpired, request, aborts, family>>

ResetPassword(r, l, p) ==
    /\ linkUser[l] # None
    /\ l \notin linkUsed
    /\ l \notin linkExpired
    /\ Begin(r, "reset")
    /\ who' = [who EXCEPT ![r] = linkUser[l]]
    /\ link' = [link EXCEPT ![r] = l]
    /\ newPw' = [newPw EXCEPT ![r] = p]
    /\ UNCHANGED <<table, account, tok, next, snap, aborts, family>>

\* Its first UPDATE locks the user row, its third one takes the snapshot.
ResetStart(r) ==
    /\ pc[r] = "reset"
    /\ ~UserLocked(who[r])
    /\ snap' = [snap EXCEPT ![r] = ActiveOf(who[r])]
    /\ Goto(r, "resetting")
    /\ UNCHANGED <<table, account, who, tok, next, link, newPw, aborts, family>>

\* Mutant: the reset leaves the sessions alone.
ResetKeepsSessions(r) ==
    /\ pc[r] = "resetting"
    /\ password' = [password EXCEPT ![who[r]] = newPw[r]]
    /\ linkUsed' = linkUsed \cup {link[r]}
    /\ Answer(r)
    /\ UNCHANGED <<table, linkUser, linkExpired, aborts, family>>

ResetCommit(r) ==
    /\ pc[r] = "resetting"
    /\ \A t \in snap[r] : ~Locked(t)
    /\ password' = [password EXCEPT ![who[r]] = newPw[r]]
    /\ linkUsed' = linkUsed \cup {link[r]}
    /\ revoked' = revoked \cup snap[r]
    /\ Answer(r)
    /\ UNCHANGED <<owner, replacedBy, expired, linkUser, linkExpired, aborts, family>>

(***************************************************************************)
(* The environment: time passes, and a process dies with a request in it   *)
(* (an open transaction is rolled back, its locks are released).           *)
(***************************************************************************)
Expire(t) ==
    /\ Exists(t)
    /\ expired' = expired \cup {t}
    /\ UNCHANGED <<owner, revoked, replacedBy, account, request, aborts, family>>

ExpireLink(l) ==
    /\ linkUser[l] # None
    /\ linkExpired' = linkExpired \cup {l}
    /\ UNCHANGED <<table, password, linkUser, linkUsed, request, aborts, family>>

Abort(r) ==
    /\ pc[r] # Idle
    /\ aborts < MaxAborts
    /\ aborts' = aborts + 1
    /\ Answer(r)
    /\ UNCHANGED <<table, account, family>>

Login(r) == \E u \in Users, p \in Passwords, n \in Tokens : LoginVerify(r, u, p, n)
Refresh(r) ==
    \E t \in Tokens :
        \/ RefreshReplayed(r, t)
        \/ RefreshExpired(r, t)
        \/ \E n \in Tokens : RefreshAccepted(r, t, n)
Reset(r) == \E l \in Links, p \in Passwords : ResetPassword(r, l, p)

\* What a request in flight does by itself.
Step(r) ==
    \/ IssueTokens(r)
    \/ RevokeExpired(r)
    \/ RotateClaim(r)
    \/ RotateCollide(r)
    \/ RotateCommit(r)
    \/ RevokeAllStart(r)
    \/ RevokeAllEnd(r)
    \/ ResetStart(r)
    \/ ResetCommit(r)

Next ==
    \/ \E r \in Requests : Login(r) \/ Refresh(r) \/ Reset(r) \/ Step(r) \/ Abort(r)
    \/ \E t \in Tokens : Logout(t) \/ Expire(t)
    \/ \E u \in Users, l \in Links : ForgotPassword(u, l)
    \/ \E l \in Links : ExpireLink(l)

Spec == Init /\ [][Next]_vars

-----------------------------------------------------------------------------
(***************************************************************************)
(* Properties                                                              *)
(***************************************************************************)

\* One login yields one session: of the tokens that descend from a login by
\* rotation, at most one can still be used, however the refreshes of several
\* tabs, a logout and a reset interleave (rotate, lines 147-161).
OneUsableTokenPerLogin ==
    \A s, t \in Tokens :
        Active(s) /\ Active(t) /\ family[s] = family[t] => s = t

\* Replay detection rests on the link to the successor: a token that was
\* rotated is never usable again, and no two tokens claim the same successor
\* or descend from a row that does not exist (rotate writes all or nothing).
RotationIsAllOrNothing ==
    \A t \in Tokens :
        /\ replacedBy[t] # None =>
             /\ t \in revoked
             /\ Exists(replacedBy[t])
             /\ owner[replacedBy[t]] = owner[t]
             /\ family[replacedBy[t]] = family[t]
        /\ \A s \in Tokens :
             replacedBy[s] = replacedBy[t] /\ replacedBy[s] # None => s = t
        /\ Exists(t) /\ family[t] # t => \E s \in Tokens : replacedBy[s] = t

\* The 401 of a replayed token says "alle Sitzungen beendet" (line 66): when
\* revokeAllForUser is done, no login that was open when it started is open.
AllSessionsEnded ==
    [][\A r \in Requests : RevokeAllEnd(r) =>
        \A t \in Tokens :
            Exists(t)' /\ t \notin revoked' =>
                \A s \in snap[r] : family'[t] # family[s]]_vars

\* While no two requests overlap, a request that ends all sessions of a user
\* leaves him no usable token when it is done, be it for a replay
\* (revokeAllForUser 171-176) or for a reset; and a reset link sets one password: at
\* the commit, which does not look at used_at, the link is as the read left it, and
\* it is used up from there on (resetPassword 110-120).
EndingIsFinal ==
    [][\A r \in Requests : (RevokeAllEnd(r) \/ ResetCommit(r)) /\ ~overlap =>
        /\ \A t \in Tokens : owner'[t] = who[r] => t \in revoked'
        /\ ResetCommit(r) => link[r] \notin linkUsed /\ link[r] \in linkUsed']_vars
-----------------------------------------------------------------------------
(***************************************************************************)
(* The inductive invariant behind the safety properties.                   *)
(***************************************************************************)

\* What holds a generated token that is not in the table yet.
Reserving == {"issue", "claim", "commit"}
\* What was called with a token.
Presenting == {"expire", "claim", "commit", "revokeAll", "revoking"}

\* A token outside the table is in no other relation to it.
RowsExist ==
    \A t \in Tokens : ~Exists(t) =>
        /\ t \notin revoked
        /\ replacedBy[t] = None
        /\ family[t] = None

\* The login of a token exists, is its own login and has the same owner.
FamiliesAreRooted ==
    \A t \in Tokens : Exists(t) =>
        family[t] \in Tokens /\ IsLogin(family[t]) /\ owner[family[t]] = owner[t]

\* Generated tokens are new and in the hands of one request.
ReservedAreFresh ==
    \A r \in Requests :
        /\ pc[r] \in Reserving <=> next[r] # None
        /\ next[r] # None => who[r] # None /\ ~Exists(next[r])
        /\ \A q \in Requests : next[q] = next[r] /\ next[r] # None => q = r

\* A request acts for the owner of the token it was called with, on rows of
\* that owner.
RequestsActForOwner ==
    \A r \in Requests :
        /\ pc[r] \in Presenting => tok[r] # None /\ Exists(tok[r]) /\ who[r] = owner[tok[r]]
        /\ pc[r] \notin {"revoking", "resetting"} => snap[r] = {}
        /\ \A t \in snap[r] : Exists(t) /\ owner[t] = who[r]
        /\ pc[r] \in {"reset", "resetting"} => link[r] # None /\ newPw[r] # None /\ who[r] # None

\* The row a rotation has claimed stays as the claim found it.
ClaimsHold ==
    \A r \in Requests : pc[r] = "commit" =>
        /\ Active(tok[r])
        /\ replacedBy[tok[r]] = None
        /\ \A q \in Requests : pc[q] = "commit" /\ tok[q] = tok[r] => q = r

IInv ==
    /\ TypeOK
    /\ RowsExist
    /\ FamiliesAreRooted
    /\ ReservedAreFresh
    /\ RequestsActForOwner
    /\ ClaimsHold
    /\ OneUsableTokenPerLogin
    /\ RotationIsAllOrNothing

-----------------------------------------------------------------------------
(***************************************************************************)
(* The sessions that the contract talks about: a session is named by the   *)
(* token of its login, and is open while one token of that login is        *)
(* usable.  (Expiry is not an end: a refresh accepted in time may commit   *)
(* after it.)                                                              *)
(***************************************************************************)
StatusOf(s) ==
    IF ~IsLogin(s) THEN "none"
    ELSE IF \E t \in Tokens : Active(t) /\ family[t] = s THEN "open" ELSE "ended"

HolderOf(s) == IF IsLogin(s) THEN owner[s] ELSE None

Contract == INSTANCE SessionContract WITH
    Sessions <- Tokens,
    status <- [s \in Tokens |-> StatusOf(s)],
    holder <- [s \in Tokens |-> HolderOf(s)]

\* The statement-level behaviour implements the contract: rotation neither
\* opens nor ends a session, an ended session stays ended, and a request ends
\* sessions of one account only.
ImplementsContract == Contract!Spec
=============================================================================
