------------------------------- MODULE Accounts -------------------------------
(***************************************************************************)
(* Accounts and profiles: registration and e-mail verification             *)
(* (AuthService), and what a user does with his profile (UsersService),    *)
(* statement by statement, with the avatars in object storage beside the   *)
(* database.  A handler under AuthGuard works on the row as the guard has  *)
(* read it.  A user stands for his e-mail address; sessions and passwords  *)
(* are in RefreshSessions.                                                 *)
(***************************************************************************)
EXTENDS Null, Integers, FiniteSets

CONSTANTS
    Users,
    Names,        \* user names
    Displays,     \* display names
    MaxTag,       \* 9999, the largest discriminator
    Keys,         \* keys of uploads
    Attempts,     \* DISCRIMINATOR_ATTEMPTS
    Migrated,     \* users from before there were user names
    Requests,
    MaxRequests, MaxAborts  \* bounds: requests, and those that die half way

ASSUME UsersAssumption == Migrated \subseteq Users
ASSUME NumbersAssumption ==
    MaxTag \in Nat \ {0} /\ Attempts \in Nat \ {0} /\ {MaxRequests, MaxAborts} \subseteq Nat
ASSUME NoneAssumption == None \notin Users \cup Names \cup Displays \cup Keys \cup (1..MaxTag)

Tags == 1..MaxTag

VARIABLES
    registered, name, display, tag,  \* rows of User
    resting,    \* users whose username_changed_at is less than 30 days ago
    pending,    \* users with 'username' in pending_fields
    verified,   \* email_verified
    links,      \* number of rows of EmailVerificationToken
    avatar,     \* avatar_url
    keyOf,      \* the user in a key, of a presigned upload or made up by a client
    presigned,  \* keys with a presigned upload
    uploaded,   \* those the browser has uploaded to
    stored,     \* objects in the bucket
    pc, job,
    crowded,    \* history: users two of whose requests are, or were last, in flight at once
    sent, again,\* history: keys that were confirmed, and those more than once
    begun, aborts

row == <<registered, name, display, tag, resting, pending, verified, links, avatar>>
objects == <<keyOf, presigned, uploaded, stored>>
history == <<crowded, sent, again, begun, aborts>>
vars == <<registered, name, display, tag, resting, pending, verified, links, avatar,
          keyOf, presigned, uploaded, stored, pc, job, crowded, sent, again, begun, aborts>>

Operations == {"register", "resend", "verify", "profile", "username", "confirm", "remove"}
Statements == {"dropLinks", "insertLink", "commit", "freeTag", "writeProfile", "dropObject"}

Selves == [name : Names \cup {None}, display : Displays \cup {None}, resting : BOOLEAN,
           pending : BOOLEAN, avatar : Keys \cup {None}]
Jobs == [op : Operations, by : Users, me : Selves, name : Names \cup {None},
         display : Displays \cup {None}, tag : Tags \cup {None},
         key : Keys \cup {None}, tries : Nat]

\* The unique indexes of User.
NamesAreUnique == \A u, v \in registered : u # v => name[u] # name[v]
TagsAreUnique ==
    \A u, v \in registered : u # v => display[u] # display[v] \/ tag[u] # tag[v]

TypeOK ==
    /\ registered \subseteq Users
    /\ name \in [Users -> Names \cup {None}]
    /\ display \in [Users -> Displays \cup {None}]
    /\ tag \in [Users -> Tags \cup {None}]
    /\ {resting, pending, verified} \subseteq SUBSET registered
    /\ links \in [Users -> Nat]
    /\ avatar \in [Users -> Keys \cup {None}]
    /\ keyOf \in [Keys -> Users \cup {None}]
    /\ presigned \subseteq Keys /\ uploaded \subseteq Keys /\ stored \subseteq Keys
    /\ pc \in [Requests -> {"idle"} \cup Operations \cup Statements]
    /\ job \in [Requests -> Jobs \cup {None}]
    /\ \A q \in Requests : pc[q] # "idle" => job[q] \in Jobs
    /\ crowded \subseteq Users
    /\ sent \subseteq Keys /\ again \subseteq Keys
    /\ begun \in 0..MaxRequests /\ aborts \in 0..MaxAborts
    /\ NamesAreUnique /\ TagsAreUnique

\* After the migration that made up a user name for everybody there was, which
\* some have replaced since.
Init ==
    /\ registered = Migrated
    /\ name \in [Users -> Names \cup {None}]
    /\ display \in [Users -> Displays \cup {None}]
    /\ tag \in [Users -> Tags \cup {None}]
    /\ \A u \in Users : u \in Migrated <=> name[u] # None
    /\ \A u \in Users : u \in Migrated <=> display[u] # None
    /\ \A u \in Users : u \in Migrated <=> tag[u] # None
    /\ NamesAreUnique /\ TagsAreUnique
    /\ resting = {}
    /\ pending \in SUBSET Migrated
    /\ verified \in SUBSET Migrated
    /\ links = [u \in Users |-> 0]
    /\ avatar = [u \in Users |-> None]
    /\ keyOf = [k \in Keys |-> None]
    /\ presigned = {} /\ uploaded = {} /\ stored = {}
    /\ pc = [q \in Requests |-> "idle"]
    /\ job = [q \in Requests |-> None]
    /\ crowded = {}
    /\ sent = {} /\ again = {}
    /\ begun = 0 /\ aborts = 0

(***************************************************************************)
(* Requests                                                                *)
(***************************************************************************)
\* The row AuthGuard attaches to the request.
Me(u) == [name |-> name[u], display |-> display[u], resting |-> u \in resting,
          pending |-> u \in pending, avatar |-> avatar[u]]
Nobody == [name |-> None, display |-> None, resting |-> FALSE, pending |-> FALSE, avatar |-> None]

Job(op, u, me) ==
    [op |-> op, by |-> u, me |-> me, name |-> None, display |-> None, tag |-> None,
     key |-> None, tries |-> 0]

Goto(q, label) == pc' = [pc EXCEPT ![q] = label] /\ UNCHANGED job
End(q) == pc' = [pc EXCEPT ![q] = "idle"] /\ job' = [job EXCEPT ![q] = None]

Start(q, j) ==
    /\ pc[q] = "idle"
    /\ begun < MaxRequests
    /\ begun' = begun + 1
    /\ pc' = [pc EXCEPT ![q] = j.op]
    /\ job' = [job EXCEPT ![q] = j]
    /\ crowded' = IF \E p \in Requests : pc[p] # "idle" /\ job[p].by = j.by
                  THEN crowded \cup {j.by} ELSE crowded \ {j.by}
    /\ UNCHANGED <<row, presigned, uploaded, stored, aborts>>

\* AuthGuard and, but for the user name, PendingFieldsGuard.
Guarded(u, allowPending) == u \in verified /\ (allowPending \/ u \notin pending)

BeginRegister(q, u, n, d) ==
    Start(q, [Job("register", u, Nobody) EXCEPT !.name = n, !.display = d]) /\ UNCHANGED <<keyOf, sent, again>>
BeginResend(q, u) == Start(q, Job("resend", u, Nobody)) /\ UNCHANGED <<keyOf, sent, again>>
BeginVerify(q, u) == Start(q, Job("verify", u, Nobody)) /\ UNCHANGED <<keyOf, sent, again>>

BeginProfile(q, u, d) ==
    /\ Guarded(u, FALSE)
    /\ Start(q, [Job("profile", u, Me(u)) EXCEPT !.display = d])
    /\ UNCHANGED <<keyOf, sent, again>>

BeginUsername(q, u, n) ==
    /\ Guarded(u, TRUE)
    /\ Start(q, [Job("username", u, Me(u)) EXCEPT !.name = n])
    /\ UNCHANGED <<keyOf, sent, again>>

\* Any string with his id in the prefix.  useUploadAvatar confirms the key it has
\* uploaded to, once; the server takes it as often as it comes, before the upload,
\* without one, and without a presigned upload.
BeginConfirm(q, u, k) ==
    /\ Guarded(u, FALSE)
    /\ keyOf[k] \in {None, u}
    /\ keyOf' = [keyOf EXCEPT ![k] = u]
    /\ Start(q, [Job("confirm", u, Me(u)) EXCEPT !.key = k])
    /\ sent' = sent \cup {k}
    /\ again' = again \cup ({k} \cap sent)

BeginRemove(q, u) ==
    Guarded(u, FALSE) /\ Start(q, Job("remove", u, Me(u))) /\ UNCHANGED <<keyOf, sent, again>>

Begin(q) ==
    \E u \in Users :
        \/ \E n \in Names, d \in Displays : BeginRegister(q, u, n, d)
        \/ BeginResend(q, u) \/ BeginVerify(q, u) \/ BeginRemove(q, u)
        \/ \E d \in Displays : BeginProfile(q, u, d)
        \/ \E n \in Names : BeginUsername(q, u, n)
        \/ \E k \in Keys : BeginConfirm(q, u, k)

(***************************************************************************)
(* register, resendVerification, verifyEmail                               *)
(***************************************************************************)
NameTaken(u, n) == \E v \in registered \ {u} : name[v] = n
TagsTaken(u, d) == {tag[v] : v \in {w \in registered \ {u} : display[w] = d}}

\* createUser: the index that is violated decides what the client is told.
Register(q) ==
    /\ pc[q] = "register"
    /\ LET j == job[q]
           u == j.by
       IN \/ (u \in registered \/ NameTaken(u, j.name)) /\ End(q) /\ UNCHANGED row
          \/ \E t \in Tags :
               \/ /\ t \in TagsTaken(u, j.display)
                  /\ IF j.tries + 1 < Attempts
                     THEN job' = [job EXCEPT ![q].tries = @ + 1] /\ UNCHANGED pc
                     ELSE End(q)
                  /\ UNCHANGED row
               \/ /\ u \notin registered /\ ~NameTaken(u, j.name)
                  /\ t \notin TagsTaken(u, j.display)
                  /\ registered' = registered \cup {u}
                  /\ name' = [name EXCEPT ![u] = j.name]
                  /\ display' = [display EXCEPT ![u] = j.display]
                  /\ tag' = [tag EXCEPT ![u] = t]
                  /\ Goto(q, "dropLinks")
                  /\ UNCHANGED <<resting, pending, verified, links, avatar>>
    /\ UNCHANGED <<objects, history>>

Resend(q) ==
    /\ pc[q] = "resend"
    /\ IF job[q].by \in registered \ verified THEN Goto(q, "dropLinks") ELSE End(q)
    /\ UNCHANGED <<row, objects, history>>

\* dispatchVerification
DropLinks(q) ==
    /\ pc[q] = "dropLinks"
    /\ links' = [links EXCEPT ![job[q].by] = 0]
    /\ Goto(q, "insertLink")
    /\ UNCHANGED <<registered, name, display, tag, resting, pending, verified, avatar, objects, history>>

InsertLink(q) ==
    /\ pc[q] = "insertLink"
    /\ links' = [links EXCEPT ![job[q].by] = @ + 1]
    /\ End(q)
    /\ UNCHANGED <<registered, name, display, tag, resting, pending, verified, avatar, objects, history>>

\* A link that is there may have expired.
Verify(q) ==
    /\ pc[q] = "verify"
    /\ End(q) \/ (links[job[q].by] > 0 /\ job[q].by \in registered /\ Goto(q, "commit"))
    /\ UNCHANGED <<row, objects, history>>

Commit(q) ==
    /\ pc[q] = "commit"
    /\ verified' = verified \cup {job[q].by}
    /\ links' = [links EXCEPT ![job[q].by] = 0]
    /\ End(q)
    /\ UNCHANGED <<registered, name, display, tag, resting, pending, avatar, objects, history>>

(***************************************************************************)
(* updateProfile, updateUsername                                           *)
(***************************************************************************)
Profile(q) ==
    /\ pc[q] = "profile"
    /\ Goto(q, IF job[q].display # job[q].me.display THEN "freeTag" ELSE "writeProfile")
    /\ UNCHANGED <<row, objects, history>>

\* freeDiscriminator
FreeTag(q) ==
    /\ pc[q] = "freeTag"
    /\ LET taken == TagsTaken(job[q].by, job[q].display)
       IN IF Tags \subseteq taken
          THEN End(q)
          ELSE /\ \E t \in Tags \ taken : job' = [job EXCEPT ![q].tag = t]
               /\ pc' = [pc EXCEPT ![q] = "writeProfile"]
    /\ UNCHANGED <<row, objects, history>>

\* applyProfile: without a new discriminator the row keeps the one it has.
WriteProfile(q) ==
    /\ pc[q] = "writeProfile"
    /\ LET j == job[q]
           t == IF j.tag = None THEN tag[j.by] ELSE j.tag
       IN IF t \notin TagsTaken(j.by, j.display)
          THEN /\ display' = [display EXCEPT ![j.by] = j.display]
               /\ tag' = [tag EXCEPT ![j.by] = t]
               /\ End(q)
          ELSE /\ IF j.tag # None /\ j.tries + 1 < Attempts
                  THEN /\ pc' = [pc EXCEPT ![q] = "freeTag"]
                       /\ job' = [job EXCEPT ![q].tries = @ + 1]
                  ELSE End(q)
               /\ UNCHANGED <<display, tag>>
    /\ UNCHANGED <<registered, name, resting, pending, verified, links, avatar, objects, history>>

\* Mutant: the cooldown is not asked for.
UsernameAtOnce(q) ==
    /\ pc[q] = "username"
    /\ LET j == job[q]
       IN IF ~NameTaken(j.by, j.name)
          THEN /\ name' = [name EXCEPT ![j.by] = j.name]
               /\ resting' = resting \cup {j.by}
               /\ pending' = IF j.me.pending THEN pending \ {j.by} ELSE pending
          ELSE UNCHANGED <<name, resting, pending>>
    /\ End(q)
    /\ UNCHANGED <<registered, display, tag, verified, links, avatar, objects, history>>

\* updateUsername: the cooldown and the old name are those the guard has read.
Username(q) ==
    /\ pc[q] = "username"
    /\ LET j == job[q]
       IN IF /\ j.me.pending \/ ~j.me.resting
             /\ j.name # j.me.name
             /\ ~NameTaken(j.by, j.name)
          THEN /\ name' = [name EXCEPT ![j.by] = j.name]
               /\ resting' = resting \cup {j.by}
               /\ pending' = IF j.me.pending THEN pending \ {j.by} ELSE pending
          ELSE UNCHANGED <<name, resting, pending>>
    /\ End(q)
    /\ UNCHANGED <<registered, display, tag, verified, links, avatar, objects, history>>

\* 30 days later.
Rested(u) ==
    /\ u \in resting
    /\ resting' = resting \ {u}
    /\ UNCHANGED <<registered, name, display, tag, pending, verified, links, avatar, objects,
                   pc, job, history>>

(***************************************************************************)
(* Avatars                                                                 *)
(***************************************************************************)
\* presignAvatar: a key of its own.
Presign(u, k) ==
    /\ Guarded(u, FALSE)
    /\ keyOf[k] = None
    /\ keyOf' = [keyOf EXCEPT ![k] = u]
    /\ presigned' = presigned \cup {k}
    /\ UNCHANGED <<row, uploaded, stored, pc, job, history>>

\* uploadToS3: from the browser to the bucket, if it gets there at all.
Upload(k) ==
    /\ k \in presigned \ uploaded
    /\ uploaded' = uploaded \cup {k}
    /\ stored' = stored \cup {k}
    /\ UNCHANGED <<row, keyOf, presigned, pc, job, history>>

\* Mutant: the old object is deleted before the row is changed.
ConfirmDropFirst(q) ==
    /\ pc[q] = "confirm"
    /\ LET j == job[q]
       IN IF j.me.avatar \in stored \ {j.key}
          THEN stored' = stored \ {j.me.avatar} /\ UNCHANGED <<avatar, pc, job>>
          ELSE avatar' = [avatar EXCEPT ![j.by] = j.key] /\ End(q) /\ UNCHANGED stored
    /\ UNCHANGED <<registered, name, display, tag, resting, pending, verified, links, keyOf, presigned, uploaded,
                   history>>

Confirm(q) ==
    /\ pc[q] = "confirm"
    /\ avatar' = [avatar EXCEPT ![job[q].by] = job[q].key]
    /\ IF job[q].me.avatar \notin {None, job[q].key} THEN Goto(q, "dropObject") ELSE End(q)
    /\ UNCHANGED <<registered, name, display, tag, resting, pending, verified, links, objects, history>>

Remove(q) ==
    /\ pc[q] = "remove"
    /\ IF job[q].me.avatar = None
       THEN End(q) /\ UNCHANGED avatar
       ELSE avatar' = [avatar EXCEPT ![job[q].by] = None] /\ Goto(q, "dropObject")
    /\ UNCHANGED <<registered, name, display, tag, resting, pending, verified, links, objects, history>>

\* The object of the avatar the guard has read; an error is ignored.
DropObject(q) ==
    /\ pc[q] = "dropObject"
    /\ stored' \in {stored, stored \ {job[q].me.avatar}}
    /\ End(q)
    /\ UNCHANGED <<row, keyOf, presigned, uploaded, history>>

(***************************************************************************)
(* Composition                                                             *)
(***************************************************************************)
\* The process dies, or the database refuses a statement.
Abort(q) ==
    /\ pc[q] # "idle"
    /\ aborts < MaxAborts
    /\ aborts' = aborts + 1
    /\ End(q)
    /\ UNCHANGED <<row, objects, crowded, sent, again, begun>>

Step(q) ==
    \/ Register(q) \/ Resend(q) \/ DropLinks(q) \/ InsertLink(q) \/ Verify(q) \/ Commit(q)
    \/ Profile(q) \/ FreeTag(q) \/ WriteProfile(q) \/ Username(q)
    \/ Confirm(q) \/ Remove(q) \/ DropObject(q)

Next ==
    \/ \E q \in Requests : Begin(q) \/ Step(q) \/ Abort(q)
    \/ \E u \in Users : Rested(u) \/ \E k \in Keys : Presign(u, k)
    \/ \E k \in Keys : Upload(k)

Spec == Init /\ [][Next]_vars

-----------------------------------------------------------------------------
(***************************************************************************)
(* Properties                                                              *)
(***************************************************************************)
\* Nobody deletes the object that a row refers to: whatever presigned uploads,
\* confirmations and removals run at once, and wherever they die, an avatar that was
\* uploaded is in the bucket (confirmAvatar 71-72, removeAvatar 79-80, each with the
\* key the guard has read).  Two things are left out, as nothing looks at the bucket:
\* a key that is confirmed a second time, whose object may be gone, and one that
\* nobody has uploaded to, which the server confirms as well (67-71).
AvatarsAreStored ==
    \A u \in Users : avatar[u] \in uploaded => avatar[u] \in stored \cup again

\* A user name stays for 30 days, unless it was made up by the migration or two
\* requests of its user were in flight at once: both pass the test on the row
\* their guards have read (updateUsername 45-51).
UsernamesRest ==
    [][\A u \in registered :
         name'[u] # name[u] => u \notin resting \/ u \in pending \/ u \in crowded]_vars
=============================================================================
