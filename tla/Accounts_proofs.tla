--------------------------- MODULE Accounts_proofs ---------------------------
(***************************************************************************)
(* Proofs about Accounts, for any number of users, keys and requests, and  *)
(* about the forms of the client, Editors, for any values and saves.       *)
(***************************************************************************)
EXTENDS Accounts, Editors, TLAPS

USE UsersAssumption, NumbersAssumption, NoneAssumption

\* Requests that go on to write to a row have found it.
RowsAreThere ==
    \A q \in Requests : pc[q] \in {"commit", "username"} => job[q].by \in registered

\* Keys belong to the user whose row or request holds them.
KeysAreOwned ==
    /\ \A u \in Users : avatar[u] # None => keyOf[avatar[u]] = u
    /\ \A q \in Requests : pc[q] # "idle" /\ job[q].me.avatar # None =>
           keyOf[job[q].me.avatar] = job[q].by
    /\ \A q \in Requests : pc[q] = "confirm" =>
           /\ job[q].key \in sent
           /\ keyOf[job[q].key] = job[q].by

\* A key that is confirmed by two requests at once has been sent twice.
ConfirmedOnce ==
    \A p, q \in Requests :
        pc[p] = "confirm" /\ pc[q] = "confirm" /\ p # q /\ job[p].key = job[q].key =>
            job[q].key \in again

\* Keys that no row has held yet.
Fresh(k) == k \notin sent \/ \E q \in Requests : pc[q] = "confirm" /\ job[q].key = k

\* They are in the bucket once uploaded, and no request has seen them in a row.
FreshAreSafe ==
    \A k \in Keys \ again : Fresh(k) =>
        /\ k \in uploaded => k \in stored
        /\ \A u \in Users : avatar[u] # k
        /\ \A q \in Requests : pc[q] # "idle" => job[q].me.avatar # k

\* What is about to be deleted is no longer in a row.
DroppedAreUnused ==
    \A q \in Requests : pc[q] = "dropObject" =>
        /\ job[q].me.avatar # None
        /\ job[q].me.avatar \notin again => \A u \in Users : avatar[u] # job[q].me.avatar

\* Requests of one user in flight at once make him crowded.
Solo ==
    \A p, q \in Requests :
        pc[p] # "idle" /\ pc[q] # "idle" /\ p # q /\ job[p].by = job[q].by =>
            job[q].by \in crowded

\* Unless he is, what a change of name has read still holds.
SelvesAreCurrent ==
    \A q \in Requests : pc[q] = "username" /\ job[q].by \notin crowded =>
        /\ ~job[q].me.resting => job[q].by \notin resting
        /\ job[q].me.pending => job[q].by \in pending

Types == TypeOK /\ RowsAreThere
\* AvatarsAreStored is not inductive: it takes what is still on its way into
\* a row, and what is on its way out of the bucket.
AvatarInv ==
    /\ KeysAreOwned
    /\ ConfirmedOnce
    /\ FreshAreSafe
    /\ DroppedAreUnused
    /\ \A u \in Users : avatar[u] \in uploaded => avatar[u] \in stored \cup again
NameInv == Solo /\ SelvesAreCurrent

-----------------------------------------------------------------------------
(***************************************************************************)
(* Types and unique indexes                                                *)
(***************************************************************************)
LEMMA TypeInit == Init => Types
<1> SUFFICES ASSUME Init PROVE Types
  OBVIOUS
<1>1. 0 \in 0..MaxRequests /\ 0 \in 0..MaxAborts
  OBVIOUS
<1>2. TypeOK
  BY <1>1 DEF Init, TypeOK
<1>3. RowsAreThere
  BY DEF Init, RowsAreThere
<1> QED
  BY <1>2, <1>3 DEF Types

\* A new request knows who it is from.
LEMMA StartStep ==
  ASSUME Types, NEW q \in Requests, NEW j \in Jobs, Start(q, j),
         keyOf' \in [Keys -> Users \cup {None}], sent' \subseteq Keys, again' \subseteq Keys,
         j.op = "username" => j.by \in registered
  PROVE  Types'
<1>1. j.by \in Users /\ j.op \in Operations
  BY DEF Jobs
<1>2. UNCHANGED <<row, presigned, uploaded, stored, aborts>> /\ begun' \in 0..MaxRequests
  BY DEF Start, Types, TypeOK
<1>3. NamesAreUnique' /\ TagsAreUnique'
  BY <1>2 DEF Types, TypeOK, row, NamesAreUnique, TagsAreUnique
<1>4. TypeOK'
  BY <1>1, <1>2, <1>3 DEF Types, TypeOK, Start, row
<1>5. RowsAreThere'
  BY DEF Types, TypeOK, RowsAreThere, Start, row, Jobs, Operations
<1> QED
  BY <1>4, <1>5 DEF Types

\* What AuthGuard attaches has its type.
LEMMA MeType ==
  ASSUME TypeOK, NEW u \in Users
  PROVE  Me(u) \in Selves
BY DEF TypeOK, Me, Selves

LEMMA JobType ==
  ASSUME NEW op \in Operations, NEW u \in Users, NEW me \in Selves
  PROVE  Job(op, u, me) \in Jobs
BY DEF Job, Jobs

\* Beginning a request keeps the types.
LEMMA BeginStep ==
  ASSUME Types, NEW q \in Requests, Begin(q)
  PROVE  Types'
<1> USE DEF Operations
<1>0. Nobody \in Selves
  BY DEF Nobody, Selves
<1>1. PICK u \in Users :
        \/ \E n \in Names, d \in Displays : BeginRegister(q, u, n, d)
        \/ BeginResend(q, u) \/ BeginVerify(q, u) \/ BeginRemove(q, u)
        \/ \E d \in Displays : BeginProfile(q, u, d)
        \/ \E n \in Names : BeginUsername(q, u, n)
        \/ \E k \in Keys : BeginConfirm(q, u, k)
  BY DEF Begin
<1>2. /\ TypeOK /\ verified \subseteq registered
      /\ keyOf \in [Keys -> Users \cup {None}] /\ sent \subseteq Keys /\ again \subseteq Keys
  BY DEF Types, TypeOK
<1>3. Me(u) \in Selves
  BY <1>2, MeType
<1>4. ASSUME NEW n \in Names, NEW d \in Displays, BeginRegister(q, u, n, d)
      PROVE  Types'
  <2>1. PICK j : j = [Job("register", u, Nobody) EXCEPT !.name = n, !.display = d]
    OBVIOUS
  <2>2. j \in Jobs /\ j.op = "register"
    BY <1>0, <2>1 DEF Job, Jobs
  <2>3. Start(q, j) /\ UNCHANGED <<keyOf, sent, again>>
    BY <1>4, <2>1 DEF BeginRegister
  <2> QED
    BY <1>2, <2>2, <2>3, StartStep
<1>5. ASSUME NEW op \in {"resend", "verify"}, Start(q, Job(op, u, Nobody)), UNCHANGED <<keyOf, sent, again>>
      PROVE  Types'
  <2>1. PICK j : j = Job(op, u, Nobody)
    OBVIOUS
  <2>2. j \in Jobs /\ j.op = op
    BY <1>0, <2>1 DEF Job, Jobs
  <2> QED
    BY <1>2, <1>5, <2>1, <2>2, StartStep
<1>6. CASE BeginRemove(q, u)
  <2>1. PICK j : j = Job("remove", u, Me(u))
    OBVIOUS
  <2>2. j \in Jobs /\ j.op = "remove"
    BY <1>3, <2>1 DEF Job, Jobs
  <2> QED
    BY <1>2, <1>6, <2>1, <2>2, StartStep DEF BeginRemove
<1>7. ASSUME NEW d \in Displays, BeginProfile(q, u, d)
      PROVE  Types'
  <2>1. PICK j : j = [Job("profile", u, Me(u)) EXCEPT !.display = d]
    OBVIOUS
  <2>2. j \in Jobs /\ j.op = "profile"
    BY <1>3, <2>1 DEF Job, Jobs
  <2> QED
    BY <1>2, <1>7, <2>1, <2>2, StartStep DEF BeginProfile
<1>8. ASSUME NEW n \in Names, BeginUsername(q, u, n)
      PROVE  Types'
  <2>1. PICK j : j = [Job("username", u, Me(u)) EXCEPT !.name = n]
    OBVIOUS
  <2>2. j \in Jobs /\ j.by = u
    BY <1>3, <2>1 DEF Job, Jobs
  <2>3. u \in registered
    BY <1>2, <1>8 DEF BeginUsername, Guarded
  <2> QED
    BY <1>2, <1>8, <2>1, <2>2, <2>3, StartStep DEF BeginUsername
<1>9. ASSUME NEW k \in Keys, BeginConfirm(q, u, k)
      PROVE  Types'
  <2>1. PICK j : j = [Job("confirm", u, Me(u)) EXCEPT !.key = k]
    OBVIOUS
  <2>2. j \in Jobs /\ j.op = "confirm"
    BY <1>3, <2>1 DEF Job, Jobs
  <2>3. keyOf' \in [Keys -> Users \cup {None}] /\ sent' \subseteq Keys /\ again' \subseteq Keys
    BY <1>2, <1>9 DEF BeginConfirm
  <2> QED
    BY <1>9, <2>1, <2>2, <2>3, StartStep DEF BeginConfirm
<1> QED
  BY <1>1, <1>4, <1>5, <1>6, <1>7, <1>8, <1>9 DEF BeginResend, BeginVerify

\* A statement that changes no row but for a link or the avatar keeps the types.
LEMMA PlainStep ==
  ASSUME Types, NEW q \in Requests,
         \/ Resend(q) \/ DropLinks(q) \/ InsertLink(q) \/ Verify(q) \/ Profile(q) \/ FreeTag(q)
         \/ Confirm(q) \/ Remove(q) \/ DropObject(q) \/ Abort(q)
  PROVE  Types'
<1> USE DEF Types, TypeOK, RowsAreThere, Goto, End, row, objects, history, Operations, Statements
<1>1. pc[q] # "idle" => job[q] \in Jobs
  OBVIOUS
<1>2. PICK j : j = job[q]
  OBVIOUS
<1>3. UNCHANGED <<registered, name, display, tag, resting, pending, verified>>
  BY DEF Resend, DropLinks, InsertLink, Verify, Profile, FreeTag, Confirm, Remove, DropObject, Abort
<1>4. NamesAreUnique' /\ TagsAreUnique'
  BY <1>3 DEF NamesAreUnique, TagsAreUnique
<1>5. CASE Resend(q)
  BY <1>4, <1>5 DEF Resend
<1>6. CASE DropLinks(q)
  BY <1>1, <1>4, <1>6 DEF DropLinks, Jobs
<1>7. CASE InsertLink(q)
  BY <1>1, <1>4, <1>7 DEF InsertLink, Jobs
<1>8. CASE Verify(q)
  BY <1>4, <1>8 DEF Verify
<1>9. CASE Profile(q)
  BY <1>4, <1>9 DEF Profile
<1>10. CASE FreeTag(q)
  <2>1. CASE Tags \subseteq TagsTaken(job[q].by, job[q].display)
    BY <1>4, <1>10, <2>1 DEF FreeTag
  <2>2. CASE ~ Tags \subseteq TagsTaken(job[q].by, job[q].display)
    <3>1. PICK t \in Tags : job' = [job EXCEPT ![q].tag = t]
      BY <1>10, <2>2 DEF FreeTag
    <3>2. [job[q] EXCEPT !.tag = t] \in Jobs
      BY <1>1, <1>10 DEF FreeTag, Jobs
    <3>3. job' \in [Requests -> Jobs \cup {None}] /\ job'[q] \in Jobs
      BY <3>1, <3>2
    <3> QED
      BY <1>4, <1>10, <2>2, <3>1, <3>3 DEF FreeTag
  <2> QED
    BY <2>1, <2>2
<1>11. CASE Confirm(q)
  BY <1>1, <1>4, <1>11 DEF Confirm, Jobs
<1>12. CASE Remove(q)
  BY <1>1, <1>4, <1>12 DEF Remove, Jobs
<1>13. CASE DropObject(q)
  BY <1>4, <1>13 DEF DropObject
<1>14. CASE Abort(q)
  <2>1. aborts + 1 \in 0..MaxAborts
    BY <1>14 DEF Abort
  <2> QED
    BY <1>4, <1>14, <2>1 DEF Abort
<1> QED
  BY <1>5, <1>6, <1>7, <1>8, <1>9, <1>10, <1>11, <1>12, <1>13, <1>14

\* createUser gives nobody a user name or a tag that is taken.
LEMMA RegisterStep ==
  ASSUME Types, NEW q \in Requests, Register(q)
  PROVE  Types'
<1> USE DEF Types, TypeOK, RowsAreThere, Operations, Statements, Goto, End, objects, history, row
<1>1. PICK j \in Jobs : j = job[q]
  BY DEF Register
<1>2. PICK u \in Users : u = j.by
  BY <1>1 DEF Jobs
<1>3. pc[q] = "register" /\ UNCHANGED <<objects, history>>
  BY DEF Register
<1>4. CASE UNCHANGED row /\ End(q)
  BY <1>3, <1>4 DEF NamesAreUnique, TagsAreUnique
<1>5. CASE UNCHANGED row /\ UNCHANGED pc /\ job' = [job EXCEPT ![q].tries = @ + 1]
  <2>1. [j EXCEPT !.tries = @ + 1] \in Jobs
    BY DEF Jobs
  <2> HIDE DEF Types, TypeOK, RowsAreThere
  <2>2. job' = [job EXCEPT ![q] = [j EXCEPT !.tries = @ + 1]]
    BY <1>1, <1>5
  <2>3. job' \in [Requests -> Jobs \cup {None}] /\ \A p \in Requests : p # q => job'[p] = job[p]
    BY <2>1, <2>2 DEF Types, TypeOK
  <2>4. job'[q] \in Jobs
    BY <2>1, <2>2 DEF Types, TypeOK
  <2>5. TypeOK'
    BY <1>3, <1>5, <2>3, <2>4 DEF Types, TypeOK, NamesAreUnique, TagsAreUnique
  <2>6. RowsAreThere'
    BY <1>3, <1>5, <2>3 DEF Types, RowsAreThere
  <2> QED
    BY <2>5, <2>6 DEF Types
<1>6. ASSUME NEW t \in Tags,
             u \notin registered, ~NameTaken(u, j.name), t \notin TagsTaken(u, j.display),
             registered' = registered \cup {u},
             name' = [name EXCEPT ![u] = j.name],
             display' = [display EXCEPT ![u] = j.display],
             tag' = [tag EXCEPT ![u] = t],
             Goto(q, "dropLinks"),
             UNCHANGED <<resting, pending, verified, links, avatar>>
      PROVE  Types'
  <2>1. \A v \in registered : name[v] # j.name
    BY <1>6 DEF NameTaken
  <2>2. \A v \in registered : display[v] = j.display => tag[v] # t
    BY <1>6 DEF TagsTaken
  <2>3. NamesAreUnique'
    BY <1>6, <2>1 DEF NamesAreUnique
  <2>4. TagsAreUnique'
    BY <1>6, <2>2 DEF TagsAreUnique
  <2>5. j.name \in Names \cup {None} /\ j.display \in Displays \cup {None}
    BY DEF Jobs
  <2>6. TypeOK'
    BY <1>1, <1>3, <1>6, <2>3, <2>4, <2>5
  <2>7. RowsAreThere'
    BY <1>3, <1>6
  <2> QED
    BY <2>6, <2>7
<1> HIDE DEF Types, TypeOK, RowsAreThere
<1> QED
  BY <1>1, <1>2, <1>3, <1>4, <1>5, <1>6 DEF Register

\* A verified user is a registered one.
LEMMA CommitStep ==
  ASSUME Types, NEW q \in Requests, Commit(q)
  PROVE  Types'
<1> USE DEF Types, TypeOK, RowsAreThere, Commit, End, objects, history
<1>1. PICK u \in Users : u = job[q].by
  BY DEF Jobs
<1>2. u \in registered
  BY <1>1
<1>3. NamesAreUnique' /\ TagsAreUnique'
  BY DEF NamesAreUnique, TagsAreUnique
<1> QED
  BY <1>1, <1>2, <1>3

\* applyProfile writes what the index allows.
LEMMA ProfileStep ==
  ASSUME Types, NEW q \in Requests, WriteProfile(q)
  PROVE  Types'
<1> USE DEF Types, TypeOK, RowsAreThere, Operations, Statements, End, objects, history
<1>1. PICK j \in Jobs : j = job[q]
  BY DEF WriteProfile
<1>2. PICK u \in Users : u = j.by
  BY <1>1 DEF Jobs
<1>3. pc[q] = "writeProfile" /\ UNCHANGED <<registered, name, resting, pending, verified, links, avatar, objects, history>>
  BY DEF WriteProfile
<1>4. NamesAreUnique'
  BY <1>3 DEF NamesAreUnique
<1>5. CASE UNCHANGED <<display, tag>> /\ End(q)
  BY <1>3, <1>4, <1>5 DEF TagsAreUnique
<1>6. CASE /\ UNCHANGED <<display, tag>>
           /\ pc' = [pc EXCEPT ![q] = "freeTag"]
           /\ job' = [job EXCEPT ![q].tries = @ + 1]
  <2>1. [j EXCEPT !.tries = @ + 1] \in Jobs
    BY DEF Jobs
  <2>2. job' = [job EXCEPT ![q] = [j EXCEPT !.tries = @ + 1]]
    BY <1>1, <1>6
  <2>3. job'[q] \in Jobs /\ job' \in [Requests -> Jobs \cup {None}]
    BY <2>1, <2>2
  <2> QED
    BY <1>3, <1>4, <1>6, <2>2, <2>3 DEF TagsAreUnique
<1>7. ASSUME NEW t \in Tags \cup {None}, t \notin TagsTaken(u, j.display),
             display' = [display EXCEPT ![u] = j.display],
             tag' = [tag EXCEPT ![u] = t],
             End(q)
      PROVE  Types'
  <2>1. \A v \in registered : v # u /\ display[v] = j.display => tag[v] # t
    BY <1>7 DEF TagsTaken
  <2>2. TagsAreUnique'
    BY <1>3, <1>7, <2>1 DEF TagsAreUnique
  <2>3. j.display \in Displays \cup {None}
    BY DEF Jobs
  <2> QED
    BY <1>3, <1>4, <1>7, <2>2, <2>3
<1>8. PICK t \in Tags \cup {None} : t = IF j.tag = None THEN tag[u] ELSE j.tag
  BY DEF Jobs
<1> HIDE DEF Types, TypeOK, RowsAreThere
<1> QED
  BY <1>1, <1>2, <1>3, <1>5, <1>6, <1>7, <1>8 DEF WriteProfile

\* updateUsername writes what the index allows.
LEMMA UsernameStep ==
  ASSUME Types, NEW q \in Requests, Username(q)
  PROVE  Types'
<1> USE DEF Types, TypeOK, RowsAreThere, End, objects, history
<1>1. PICK j \in Jobs : j = job[q]
  BY DEF Username
<1>2. PICK u \in Users : u = j.by
  BY <1>1 DEF Jobs
<1>3. u \in registered /\ j.name \in Names \cup {None}
  BY <1>1, <1>2 DEF Username, Jobs
<1>4. TagsAreUnique' /\ UNCHANGED registered
  BY DEF Username, TagsAreUnique
<1>5. NamesAreUnique'
  <2>1. CASE UNCHANGED name
    BY <1>4, <2>1 DEF NamesAreUnique
  <2>2. CASE ~NameTaken(u, j.name) /\ name' = [name EXCEPT ![u] = j.name]
    BY <1>4, <2>2 DEF NamesAreUnique, NameTaken
  <2> QED
    BY <1>1, <1>2, <2>1, <2>2 DEF Username
<1>6. {resting', pending', verified'} \subseteq SUBSET registered'
  BY <1>1, <1>2, <1>3 DEF Username
<1>7. name' \in [Users -> Names \cup {None}]
  BY <1>1, <1>2, <1>3 DEF Username
<1> QED
  BY <1>4, <1>5, <1>6, <1>7 DEF Username

LEMMA TypeStep == Types /\ [Next]_vars => Types'
<1> SUFFICES ASSUME Types, [Next]_vars PROVE Types'
  OBVIOUS
<1>1. ASSUME NEW q \in Requests, Begin(q) PROVE Types'
  BY <1>1, BeginStep
<1>2. ASSUME NEW q \in Requests, Step(q) PROVE Types'
  BY <1>2, PlainStep, RegisterStep, CommitStep, ProfileStep, UsernameStep DEF Step
<1>3. ASSUME NEW q \in Requests, Abort(q) PROVE Types'
  BY <1>3, PlainStep
<1>4. ASSUME NEW u \in Users, Rested(u) PROVE Types'
  BY <1>4 DEF Rested, Types, TypeOK, RowsAreThere, NamesAreUnique, TagsAreUnique, objects, history
<1>5. ASSUME NEW u \in Users, NEW k \in Keys, Presign(u, k) PROVE Types'
  <2>1. keyOf' \in [Keys -> Users \cup {None}] /\ presigned' \subseteq Keys
    BY <1>5 DEF Presign, Types, TypeOK
  <2> QED
    BY <1>5, <2>1 DEF Presign, Types, TypeOK, RowsAreThere, NamesAreUnique, TagsAreUnique, row, history
<1>7. ASSUME NEW k \in Keys, Upload(k) PROVE Types'
  BY <1>7 DEF Upload, Types, TypeOK, RowsAreThere, NamesAreUnique, TagsAreUnique, row, history
<1>6. CASE UNCHANGED vars
  BY <1>6 DEF vars, Types, TypeOK, RowsAreThere, NamesAreUnique, TagsAreUnique
<1> QED
  BY <1>1, <1>2, <1>3, <1>4, <1>5, <1>6, <1>7 DEF Next

\* Types, and the unique indexes on user names and on display names with their
\* discriminators: no two users share one, whatever requests run at once.
THEOREM TypeCorrect == Spec => []TypeOK
<1>1. Init => Types
  BY TypeInit
<1>2. Types /\ [Next]_vars => Types'
  BY TypeStep
<1>3. Types => TypeOK
  BY DEF Types
<1> QED
  BY <1>1, <1>2, <1>3, PTL DEF Spec

-----------------------------------------------------------------------------
(***************************************************************************)
(* Avatars                                                                 *)
(***************************************************************************)
\* Nothing of what AvatarInv is about changes but that q goes on or ends.
Quiet(q) ==
    /\ UNCHANGED <<avatar, keyOf, uploaded, stored, sent, again>>
    /\ \A p \in Requests \ {q} : pc'[p] = pc[p] /\ job'[p] = job[p]
    /\ pc'[q] \notin {"confirm", "dropObject"}
    /\ pc'[q] # "idle" => pc[q] # "idle" /\ job'[q].me = job[q].me /\ job'[q].by = job[q].by

LEMMA QuietStep ==
  ASSUME AvatarInv, NEW q \in Requests, Quiet(q)
  PROVE  AvatarInv'
<1> USE DEF AvatarInv, Quiet
<1>1. KeysAreOwned'
  BY DEF KeysAreOwned
<1>2. ConfirmedOnce'
  BY DEF ConfirmedOnce
<1>3. FreshAreSafe'
  <2>1. \A k \in Keys : Fresh(k)' => Fresh(k)
    BY DEF Fresh
  <2> QED
    BY <2>1 DEF FreshAreSafe
<1>4. DroppedAreUnused'
  BY DEF DroppedAreUnused
<1> QED
  BY <1>1, <1>2, <1>3, <1>4

\* Every statement but those of the avatars is one of these.
LEMMA MostAreQuiet ==
  ASSUME Types, NEW q \in Requests,
         \/ Register(q) \/ Resend(q) \/ DropLinks(q) \/ InsertLink(q) \/ Verify(q) \/ Commit(q)
         \/ Profile(q) \/ FreeTag(q) \/ WriteProfile(q) \/ Username(q) \/ Abort(q)
  PROVE  Quiet(q)
<1> USE DEF Types, TypeOK, Quiet, Goto, End, row, objects, history
<1>1. CASE Register(q)
  BY <1>1 DEF Register, Jobs
<1>2. CASE Resend(q) \/ DropLinks(q) \/ InsertLink(q) \/ Verify(q) \/ Commit(q)
  BY <1>2 DEF Resend, DropLinks, InsertLink, Verify, Commit
<1>3. CASE Profile(q)
  BY <1>3 DEF Profile
<1>4. CASE FreeTag(q)
  BY <1>4 DEF FreeTag, Jobs
<1>5. CASE WriteProfile(q)
  BY <1>5 DEF WriteProfile, Jobs
<1>6. CASE Username(q) \/ Abort(q)
  BY <1>6 DEF Username, Abort
<1> QED
  BY <1>1, <1>2, <1>3, <1>4, <1>5, <1>6

\* A new request holds the avatar of its user, and no key but one of his own.
LEMMA AvatarStart ==
  ASSUME Types, AvatarInv, NEW q \in Requests, NEW j \in Jobs, Start(q, j),
         j.me.avatar \in {None, avatar[j.by]},
         j.op # "confirm" /\ UNCHANGED <<keyOf, sent, again>>
  PROVE  AvatarInv'
<1>1. j.by \in Users /\ j.op \in Operations
  BY DEF Jobs
<1>2. /\ pc[q] = "idle"
      /\ UNCHANGED <<avatar, keyOf, uploaded, stored, sent, again>>
      /\ pc'[q] = j.op /\ job'[q] = j
      /\ \A p \in Requests \ {q} : pc'[p] = pc[p] /\ job'[p] = job[p]
  BY DEF Start, Types, TypeOK, row
<1>3. pc'[q] \notin {"confirm", "dropObject"}
  BY <1>1, <1>2 DEF Operations
<1>4. KeysAreOwned'
  BY <1>1, <1>2, <1>3 DEF AvatarInv, KeysAreOwned
<1>5. ConfirmedOnce'
  BY <1>2, <1>3 DEF AvatarInv, ConfirmedOnce
<1>6. \A k \in Keys : Fresh(k)' => Fresh(k)
  BY <1>2, <1>3 DEF Fresh
<1>7. FreshAreSafe'
  <2>1. \A k \in Keys \ again : Fresh(k) => j.me.avatar # k
    BY <1>1 DEF AvatarInv, FreshAreSafe
  <2> QED
    BY <1>2, <1>6, <2>1 DEF AvatarInv, FreshAreSafe
<1>8. DroppedAreUnused'
  BY <1>2, <1>3 DEF AvatarInv, DroppedAreUnused
<1>9. (\A u \in Users : avatar[u] \in uploaded => avatar[u] \in stored \cup again)'
  BY <1>2 DEF AvatarInv
<1> QED
  BY <1>4, <1>5, <1>7, <1>8, <1>9 DEF AvatarInv

\* A key that gets an owner had none, and so nothing referred to it.
LEMMA OwnersStay ==
  ASSUME Types, AvatarInv, UNCHANGED <<avatar, pc, job, sent>>,
         \A k \in Keys : keyOf[k] # None => keyOf'[k] = keyOf[k]
  PROVE  KeysAreOwned'
<1>1. \A u \in Users : avatar[u] \in Keys \cup {None}
  BY DEF Types, TypeOK
<1>2. \A q \in Requests : pc[q] # "idle" => job[q].by \in Users /\ job[q].me.avatar \in Keys \cup {None}
  BY DEF Types, TypeOK, Jobs, Selves
<1>3. \A q \in Requests : pc[q] = "confirm" => job[q].key \in Keys
  BY DEF AvatarInv, KeysAreOwned, Types, TypeOK
<1> QED
  BY <1>1, <1>2, <1>3 DEF AvatarInv, KeysAreOwned

\* A key that is confirmed while it is, or after it was, is no longer fresh.
LEMMA ConfirmStart ==
  ASSUME Types, AvatarInv, NEW q \in Requests, NEW u \in Users, NEW k \in Keys,
         BeginConfirm(q, u, k)
  PROVE  AvatarInv'
<1>1. PICK j : j = [Job("confirm", u, Me(u)) EXCEPT !.key = k]
  OBVIOUS
<1>2. j.by = u /\ j.op = "confirm" /\ j.key = k /\ j.me.avatar = avatar[u]
  BY <1>1 DEF Job, Me
<1>3. /\ pc[q] = "idle"
      /\ keyOf[k] \in {None, u} /\ keyOf' = [keyOf EXCEPT ![k] = u]
      /\ UNCHANGED <<avatar, uploaded, stored>>
      /\ sent' = sent \cup {k} /\ again' = again \cup ({k} \cap sent)
      /\ pc'[q] = "confirm" /\ job'[q] = j
      /\ \A p \in Requests \ {q} : pc'[p] = pc[p] /\ job'[p] = job[p]
  BY <1>1, <1>2 DEF BeginConfirm, Start, Types, TypeOK, row
<1>4. KeysAreOwned'
  <2>1. \A v \in Users : avatar[v] \in Keys \cup {None}
    BY DEF Types, TypeOK
  <2>2. \A p \in Requests : pc[p] # "idle" => job[p].by \in Users /\ job[p].me.avatar \in Keys \cup {None}
    BY DEF Types, TypeOK, Jobs, Selves
  <2>3. \A p \in Requests : pc[p] = "confirm" => job[p].key \in Keys
    BY DEF AvatarInv, KeysAreOwned, Types, TypeOK
  <2>4. keyOf'[k] = u /\ \A l \in Keys : keyOf[l] # None => keyOf'[l] = keyOf[l]
    BY <1>3 DEF Types, TypeOK
  <2> QED
    BY <1>2, <1>3, <2>1, <2>2, <2>3, <2>4 DEF AvatarInv, KeysAreOwned
<1>5. ConfirmedOnce'
  <2>1. \A p \in Requests : pc[p] = "confirm" => job[p].key \in sent
    BY DEF AvatarInv, KeysAreOwned
  <2> QED
    BY <1>2, <1>3, <2>1 DEF AvatarInv, ConfirmedOnce
<1>6. \A l \in Keys \ again' : Fresh(l)' => Fresh(l)
  BY <1>2, <1>3 DEF Fresh
<1>7. FreshAreSafe'
  <2>1. \A l \in Keys \ again : Fresh(l) => avatar[u] # l
    BY DEF AvatarInv, FreshAreSafe
  <2> QED
    BY <1>2, <1>3, <1>6, <2>1 DEF AvatarInv, FreshAreSafe
<1>8. DroppedAreUnused'
  BY <1>3 DEF AvatarInv, DroppedAreUnused
<1>9. (\A v \in Users : avatar[v] \in uploaded => avatar[v] \in stored \cup again)'
  BY <1>3 DEF AvatarInv
<1> QED
  BY <1>4, <1>5, <1>7, <1>8, <1>9 DEF AvatarInv

\* A new request keeps AvatarInv.
LEMMA AvatarBegin ==
  ASSUME Types, AvatarInv, NEW q \in Requests, Begin(q)
  PROVE  AvatarInv'
<1> USE DEF Operations
<1>0. Nobody \in Selves /\ Nobody.avatar = None
  BY DEF Nobody, Selves
<1>1. PICK u \in Users :
        \/ \E n \in Names, d \in Displays : BeginRegister(q, u, n, d)
        \/ BeginResend(q, u) \/ BeginVerify(q, u) \/ BeginRemove(q, u)
        \/ \E d \in Displays : BeginProfile(q, u, d)
        \/ \E n \in Names : BeginUsername(q, u, n)
        \/ \E k \in Keys : BeginConfirm(q, u, k)
  BY DEF Begin
<1>2. Me(u) \in Selves /\ Me(u).avatar = avatar[u]
  BY MeType DEF Types, Me
<1>3. ASSUME NEW j \in Jobs, j.by = u, j.op # "confirm", j.me \in {Nobody, Me(u)},
             Start(q, j), UNCHANGED <<keyOf, sent, again>>
      PROVE  AvatarInv'
  <2>1. j.me.avatar \in {None, avatar[j.by]}
    BY <1>0, <1>2, <1>3
  <2> QED
    BY <1>3, <2>1, AvatarStart
<1>4. ASSUME NEW n \in Names, NEW d \in Displays, BeginRegister(q, u, n, d)
      PROVE  AvatarInv'
  <2>1. PICK j : j = [Job("register", u, Nobody) EXCEPT !.name = n, !.display = d]
    OBVIOUS
  <2>2. j \in Jobs /\ j.by = u /\ j.op = "register" /\ j.me = Nobody
    BY <1>0, <2>1 DEF Job, Jobs
  <2> QED
    BY <1>3, <1>4, <2>1, <2>2 DEF BeginRegister
<1>5. ASSUME NEW op \in Operations \ {"confirm"}, NEW me \in {Nobody, Me(u)},
             Start(q, Job(op, u, me)), UNCHANGED <<keyOf, sent, again>>
      PROVE  AvatarInv'
  <2>1. PICK j : j = Job(op, u, me)
    OBVIOUS
  <2>2. j \in Jobs /\ j.by = u /\ j.op = op /\ j.me = me
    BY <1>0, <1>2, <2>1 DEF Job, Jobs
  <2> QED
    BY <1>3, <1>5, <2>1, <2>2
<1>6. CASE BeginResend(q, u) \/ BeginVerify(q, u) \/ BeginRemove(q, u)
  BY <1>5, <1>6 DEF BeginResend, BeginVerify, BeginRemove
<1>7. ASSUME NEW d \in Displays, BeginProfile(q, u, d)
      PROVE  AvatarInv'
  <2>1. PICK j : j = [Job("profile", u, Me(u)) EXCEPT !.display = d]
    OBVIOUS
  <2>2. j \in Jobs /\ j.by = u /\ j.op = "profile" /\ j.me = Me(u)
    BY <1>2, <2>1 DEF Job, Jobs
  <2> QED
    BY <1>3, <1>7, <2>1, <2>2 DEF BeginProfile
<1>8. ASSUME NEW n \in Names, BeginUsername(q, u, n)
      PROVE  AvatarInv'
  <2>1. PICK j : j = [Job("username", u, Me(u)) EXCEPT !.name = n]
    OBVIOUS
  <2>2. j \in Jobs /\ j.by = u /\ j.op = "username" /\ j.me = Me(u)
    BY <1>2, <2>1 DEF Job, Jobs
  <2> QED
    BY <1>3, <1>8, <2>1, <2>2 DEF BeginUsername
<1> QED
  BY <1>1, <1>4, <1>6, <1>7, <1>8, ConfirmStart

\* The object a row comes to refer to is there, unless the key is an old one.
LEMMA ConfirmAvatar ==
  ASSUME Types, AvatarInv, NEW q \in Requests, Confirm(q)
  PROVE  AvatarInv'
<1>1. PICK j \in Jobs : j = job[q]
  BY DEF Confirm, Types, TypeOK
<1>2. PICK u \in Users : u = j.by
  BY <1>1 DEF Jobs
<1>3. PICK k \in Keys : k = j.key
  <2>1. j.key \in Keys \cup {None} /\ keyOf \in [Keys -> Users \cup {None}]
    BY DEF Jobs, Types, TypeOK
  <2>2. j.key \in sent /\ sent \subseteq Keys
    BY <1>1 DEF Confirm, AvatarInv, KeysAreOwned, Types, TypeOK
  <2> QED
    BY <2>1, <2>2
<1>4. keyOf[k] = u /\ k \in sent
  BY <1>1, <1>2, <1>3 DEF Confirm, AvatarInv, KeysAreOwned
<1>5. /\ pc[q] = "confirm"
      /\ avatar' = [avatar EXCEPT ![u] = k]
      /\ UNCHANGED <<keyOf, uploaded, stored, sent, again>>
      /\ \A p \in Requests \ {q} : pc'[p] = pc[p] /\ job'[p] = job[p]
      /\ pc'[q] \in {"idle", "dropObject"}
      /\ pc'[q] = "dropObject" => job'[q] = j /\ j.me.avatar \notin {None, k}
  BY <1>1, <1>2, <1>3 DEF Confirm, Goto, End, objects, history, Types, TypeOK
<1>6. avatar'[u] = k /\ \A v \in Users \ {u} : avatar'[v] = avatar[v]
  BY <1>5 DEF Types, TypeOK
<1>7. KeysAreOwned'
  BY <1>1, <1>2, <1>4, <1>5, <1>6 DEF AvatarInv, KeysAreOwned
<1>8. ConfirmedOnce'
  BY <1>5 DEF AvatarInv, ConfirmedOnce
<1>9. \A l \in Keys : Fresh(l)' => Fresh(l)
  BY <1>5 DEF Fresh
<1>10. k \notin again => ~Fresh(k)'
  BY <1>1, <1>3, <1>4, <1>5 DEF Fresh, AvatarInv, ConfirmedOnce
<1>11. Fresh(k)
  BY <1>1, <1>3, <1>5 DEF Fresh
<1>12. FreshAreSafe'
  BY <1>1, <1>5, <1>6, <1>9, <1>10 DEF AvatarInv, FreshAreSafe
<1>13. DroppedAreUnused'
  <2>1. ASSUME NEW p \in Requests \ {q}, pc[p] = "dropObject", job[p].me.avatar \notin again
        PROVE  \A v \in Users : avatar'[v] # job[p].me.avatar
    <3>1. job[p].me.avatar # k
      BY <1>3, <1>4, <1>11, <2>1 DEF AvatarInv, FreshAreSafe
    <3> QED
      BY <1>6, <2>1, <3>1 DEF AvatarInv, DroppedAreUnused
  <2>2. ASSUME pc'[q] = "dropObject"
        PROVE  \A v \in Users : avatar'[v] # j.me.avatar
    <3>1. keyOf[j.me.avatar] = u
      BY <1>1, <1>2, <1>5, <2>2 DEF AvatarInv, KeysAreOwned
    <3>2. \A v \in Users \ {u} : avatar[v] = j.me.avatar => keyOf[j.me.avatar] = v
      BY <1>5, <2>2 DEF AvatarInv, KeysAreOwned
    <3> QED
      BY <1>5, <1>6, <2>2, <3>1, <3>2
  <2> QED
    BY <1>5, <2>1, <2>2 DEF AvatarInv, DroppedAreUnused
<1>14. (\A v \in Users : avatar[v] \in uploaded => avatar[v] \in stored \cup again)'
  <2>1. k \in uploaded => k \in stored \cup again
    BY <1>4, <1>11 DEF AvatarInv, FreshAreSafe
  <2> QED
    BY <1>5, <1>6, <2>1 DEF AvatarInv
<1> QED
  BY <1>7, <1>8, <1>12, <1>13, <1>14 DEF AvatarInv

\* What the guard has read is deleted only after the row was emptied.
LEMMA RemoveAvatar ==
  ASSUME Types, AvatarInv, NEW q \in Requests, Remove(q)
  PROVE  AvatarInv'
<1>1. PICK j \in Jobs : j = job[q]
  BY DEF Remove, Types, TypeOK
<1>2. PICK u \in Users : u = j.by
  BY <1>1 DEF Jobs
<1>3. CASE j.me.avatar = None
  <2>1. Quiet(q)
    BY <1>1, <1>3 DEF Remove, Quiet, End, objects, history, Types, TypeOK
  <2> QED
    BY <2>1, QuietStep
<1>4. CASE j.me.avatar # None
  <2>1. /\ pc[q] = "remove"
        /\ avatar' = [avatar EXCEPT ![u] = None]
        /\ UNCHANGED <<keyOf, uploaded, stored, sent, again, job>>
        /\ pc' = [pc EXCEPT ![q] = "dropObject"]
    BY <1>1, <1>2, <1>4 DEF Remove, Goto, objects, history
  <2>2. avatar'[u] = None /\ \A v \in Users \ {u} : avatar'[v] = avatar[v]
    BY <2>1 DEF Types, TypeOK
  <2>3. pc'[q] = "dropObject" /\ \A p \in Requests \ {q} : pc'[p] = pc[p]
    BY <2>1 DEF Types, TypeOK
  <2>4. KeysAreOwned'
    BY <2>1, <2>2, <2>3 DEF AvatarInv, KeysAreOwned
  <2>5. ConfirmedOnce'
    BY <2>1, <2>3 DEF AvatarInv, ConfirmedOnce
  <2>6. \A k \in Keys : Fresh(k)' => Fresh(k)
    BY <2>1, <2>3 DEF Fresh
  <2>7. FreshAreSafe'
    BY <2>1, <2>2, <2>3, <2>6 DEF AvatarInv, FreshAreSafe
  <2>8. \A v \in Users : avatar'[v] # j.me.avatar
    <3>1. keyOf[j.me.avatar] = u
      BY <1>1, <1>2, <1>4, <2>1 DEF AvatarInv, KeysAreOwned
    <3>2. \A v \in Users \ {u} : avatar[v] = j.me.avatar => keyOf[j.me.avatar] = v
      BY <1>4 DEF AvatarInv, KeysAreOwned
    <3> QED
      BY <1>4, <2>2, <3>1, <3>2
  <2>9. DroppedAreUnused'
    BY <1>1, <1>4, <2>1, <2>2, <2>3, <2>8 DEF AvatarInv, DroppedAreUnused
  <2>10. (\A v \in Users : avatar[v] \in uploaded => avatar[v] \in stored \cup again)'
    BY <2>1, <2>2 DEF AvatarInv, Types, TypeOK
  <2> QED
    BY <2>4, <2>5, <2>7, <2>9, <2>10 DEF AvatarInv
<1> QED
  BY <1>3, <1>4

\* The object that goes is in no row.
LEMMA DropAvatar ==
  ASSUME Types, AvatarInv, NEW q \in Requests, DropObject(q)
  PROVE  AvatarInv'
<1>1. PICK k : k = job[q].me.avatar
  OBVIOUS
<1>2. /\ pc[q] = "dropObject"
      /\ stored' \in {stored, stored \ {k}}
      /\ UNCHANGED <<avatar, keyOf, uploaded, sent, again>>
      /\ pc'[q] = "idle"
      /\ \A p \in Requests \ {q} : pc'[p] = pc[p] /\ job'[p] = job[p]
  BY <1>1 DEF DropObject, End, row, history, Types, TypeOK
<1>3. KeysAreOwned' /\ ConfirmedOnce' /\ DroppedAreUnused'
  BY <1>2 DEF AvatarInv, KeysAreOwned, ConfirmedOnce, DroppedAreUnused
<1>4. \A l \in Keys : Fresh(l)' => Fresh(l)
  BY <1>2 DEF Fresh
<1>5. FreshAreSafe'
  BY <1>1, <1>2, <1>4 DEF AvatarInv, FreshAreSafe
<1>6. (\A v \in Users : avatar[v] \in uploaded => avatar[v] \in stored \cup again)'
  BY <1>1, <1>2 DEF AvatarInv, DroppedAreUnused
<1> QED
  BY <1>3, <1>5, <1>6 DEF AvatarInv

\* A presigned upload gives its user a key that nobody has seen.
LEMMA PresignAvatar ==
  ASSUME Types, AvatarInv, NEW u \in Users, NEW k \in Keys, Presign(u, k)
  PROVE  AvatarInv'
<1>1. /\ keyOf[k] = None /\ keyOf' = [keyOf EXCEPT ![k] = u]
      /\ UNCHANGED <<avatar, uploaded, stored, pc, job, sent, again>>
  BY DEF Presign, row, history
<1>2. KeysAreOwned'
  <2>1. \A l \in Keys : keyOf[l] # None => keyOf'[l] = keyOf[l]
    BY <1>1 DEF Types, TypeOK
  <2> QED
    BY <1>1, <2>1, OwnersStay
<1>3. ConfirmedOnce' /\ DroppedAreUnused'
  BY <1>1 DEF AvatarInv, ConfirmedOnce, DroppedAreUnused
<1>4. FreshAreSafe'
  BY <1>1 DEF AvatarInv, FreshAreSafe, Fresh
<1> QED
  BY <1>1, <1>2, <1>3, <1>4 DEF AvatarInv

\* An upload only adds to the bucket.
LEMMA UploadAvatar ==
  ASSUME Types, AvatarInv, NEW k \in Keys, Upload(k)
  PROVE  AvatarInv'
<1>1. /\ uploaded' = uploaded \cup {k} /\ stored' = stored \cup {k}
      /\ UNCHANGED <<avatar, keyOf, pc, job, sent, again>>
  BY DEF Upload, row, history
<1>2. KeysAreOwned' /\ ConfirmedOnce' /\ DroppedAreUnused'
  BY <1>1 DEF AvatarInv, KeysAreOwned, ConfirmedOnce, DroppedAreUnused
<1>3. FreshAreSafe'
  BY <1>1 DEF AvatarInv, FreshAreSafe, Fresh
<1> QED
  BY <1>1, <1>2, <1>3 DEF AvatarInv

\* Whatever presigned uploads, confirmations and removals interleave, and wherever
\* requests die: an avatar that was uploaded is in the bucket, unless its key was
\* confirmed more than once.
THEOREM AvatarsStored == Spec => []AvatarsAreStored
<1>1. Init => Types /\ AvatarInv
  <2> SUFFICES ASSUME Init PROVE AvatarInv
    BY TypeInit
  <2>1. \A u \in Users : avatar[u] = None
    BY DEF Init
  <2>2. \A q \in Requests : pc[q] = "idle"
    BY DEF Init
  <2>3. uploaded = {}
    BY DEF Init
  <2> QED
    BY <2>1, <2>2, <2>3 DEF AvatarInv, KeysAreOwned, ConfirmedOnce, FreshAreSafe, DroppedAreUnused
<1>2. Types /\ AvatarInv /\ [Next]_vars => Types' /\ AvatarInv'
  <2> SUFFICES ASSUME Types, AvatarInv, [Next]_vars PROVE AvatarInv'
    BY TypeStep
  <2>1. ASSUME NEW q \in Requests, Begin(q) PROVE AvatarInv'
    BY <2>1, AvatarBegin
  <2>2. ASSUME NEW q \in Requests, Step(q) \/ Abort(q) PROVE AvatarInv'
    BY <2>2, MostAreQuiet, QuietStep, ConfirmAvatar, RemoveAvatar, DropAvatar DEF Step
  <2>3. ASSUME NEW u \in Users, NEW k \in Keys, Presign(u, k) PROVE AvatarInv'
    BY <2>3, PresignAvatar
  <2>5. ASSUME NEW k \in Keys, Upload(k) PROVE AvatarInv'
    BY <2>5, UploadAvatar
  <2>4. CASE UNCHANGED <<avatar, keyOf, uploaded, stored, pc, job, sent, again>>
    BY <2>4 DEF AvatarInv, KeysAreOwned, ConfirmedOnce, FreshAreSafe, Fresh, DroppedAreUnused
  <2> QED
    BY <2>1, <2>2, <2>3, <2>4, <2>5 DEF Next, Rested, objects, history, vars
<1>3. AvatarInv => AvatarsAreStored
  BY DEF AvatarInv, AvatarsAreStored
<1> QED
  BY <1>1, <1>2, <1>3, PTL DEF Spec

-----------------------------------------------------------------------------
(***************************************************************************)
(* User names                                                              *)
(***************************************************************************)
\* A new request of a user who has others in flight makes him crowded; one of
\* a user who has none has just read his row.
LEMMA NameStart ==
  ASSUME Types, NameInv, NEW q \in Requests, NEW j \in Jobs, Start(q, j),
         j.op = "username" => j.me = Me(j.by)
  PROVE  NameInv'
<1>1. j.by \in Users /\ j.op \in Operations
  BY DEF Jobs
<1>2. /\ pc[q] = "idle"
      /\ UNCHANGED <<resting, pending>>
      /\ pc'[q] = j.op /\ job'[q] = j
      /\ \A p \in Requests \ {q} : pc'[p] = pc[p] /\ job'[p] = job[p]
      /\ crowded' = IF \E p \in Requests : pc[p] # "idle" /\ job[p].by = j.by
                    THEN crowded \cup {j.by} ELSE crowded \ {j.by}
  BY DEF Start, Types, TypeOK, row
<1>3. Solo'
  BY <1>1, <1>2 DEF NameInv, Solo
<1>4. j.op = "username" => /\ ~j.me.resting => j.by \notin resting
                           /\ j.me.pending => j.by \in pending
  <2>1. (Me(j.by).resting <=> j.by \in resting) /\ (Me(j.by).pending <=> j.by \in pending)
    BY DEF Me
  <2> QED
    BY <2>1, Zenon
<1>5. SelvesAreCurrent'
  <2>1. ASSUME NEW p \in Requests \ {q}, pc[p] = "username", job[p].by \notin crowded'
        PROVE  /\ job[p].by \notin crowded
               /\ job[p].by # j.by
    BY <1>2, <2>1
  <2>2. ASSUME NEW p \in Requests \ {q}, pc[p] = "username", job[p].by \notin crowded'
        PROVE  /\ ~job[p].me.resting => job[p].by \notin resting
               /\ job[p].me.pending => job[p].by \in pending
    BY <2>1, <2>2 DEF NameInv, SelvesAreCurrent
  <2> QED
    BY <1>2, <1>4, <2>2 DEF SelvesAreCurrent
<1> QED
  BY <1>3, <1>5 DEF NameInv

LEMMA NameBegin ==
  ASSUME Types, NameInv, NEW q \in Requests, Begin(q)
  PROVE  NameInv'
<1> USE DEF Operations
<1>0. Nobody \in Selves
  BY DEF Nobody, Selves
<1>1. PICK u \in Users :
        \/ \E n \in Names, d \in Displays : BeginRegister(q, u, n, d)
        \/ BeginResend(q, u) \/ BeginVerify(q, u) \/ BeginRemove(q, u)
        \/ \E d \in Displays : BeginProfile(q, u, d)
        \/ \E n \in Names : BeginUsername(q, u, n)
        \/ \E k \in Keys : BeginConfirm(q, u, k)
  BY DEF Begin
<1>2. Me(u) \in Selves
  BY MeType DEF Types
<1>3. ASSUME NEW n \in Names, NEW d \in Displays, BeginRegister(q, u, n, d)
      PROVE  NameInv'
  <2>1. PICK j : j = [Job("register", u, Nobody) EXCEPT !.name = n, !.display = d]
    OBVIOUS
  <2>2. j \in Jobs /\ j.op = "register"
    BY <1>0, <2>1 DEF Job, Jobs
  <2> QED
    BY <1>3, <2>1, <2>2, NameStart DEF BeginRegister
<1>4. ASSUME NEW op \in {"resend", "verify", "remove"}, NEW me \in {Nobody, Me(u)},
             Start(q, Job(op, u, me))
      PROVE  NameInv'
  <2>1. PICK j : j = Job(op, u, me)
    OBVIOUS
  <2>2. j \in Jobs /\ j.op = op
    BY <1>0, <1>2, <2>1 DEF Job, Jobs
  <2> QED
    BY <1>4, <2>1, <2>2, NameStart
<1>5. CASE BeginResend(q, u) \/ BeginVerify(q, u) \/ BeginRemove(q, u)
  BY <1>4, <1>5 DEF BeginResend, BeginVerify, BeginRemove
<1>6. ASSUME NEW d \in Displays, BeginProfile(q, u, d)
      PROVE  NameInv'
  <2>1. PICK j : j = [Job("profile", u, Me(u)) EXCEPT !.display = d]
    OBVIOUS
  <2>2. j \in Jobs /\ j.op = "profile"
    BY <1>2, <2>1 DEF Job, Jobs
  <2> QED
    BY <1>6, <2>1, <2>2, NameStart DEF BeginProfile
<1>7. ASSUME NEW n \in Names, BeginUsername(q, u, n)
      PROVE  NameInv'
  <2>1. PICK j : j = [Job("username", u, Me(u)) EXCEPT !.name = n]
    OBVIOUS
  <2>2. j \in Jobs /\ j.by = u /\ j.me = Me(u)
    BY <1>2, <2>1 DEF Job, Jobs
  <2> QED
    BY <1>7, <2>1, <2>2, NameStart DEF BeginUsername
<1>8. ASSUME NEW k \in Keys, BeginConfirm(q, u, k)
      PROVE  NameInv'
  <2>1. PICK j : j = [Job("confirm", u, Me(u)) EXCEPT !.key = k]
    OBVIOUS
  <2>2. j \in Jobs /\ j.op = "confirm"
    BY <1>2, <2>1 DEF Job, Jobs
  <2> QED
    BY <1>8, <2>1, <2>2, NameStart DEF BeginConfirm
<1> QED
  BY <1>1, <1>3, <1>5, <1>6, <1>7, <1>8

\* Only updateUsername disturbs what such a request has read.
LEMMA NameStatement ==
  ASSUME Types, NameInv, NEW q \in Requests, Step(q) \/ Abort(q)
  PROVE  NameInv'
<1> USE DEF Types, TypeOK, Goto, End, row, objects, history
<1>1. /\ pc[q] # "idle" /\ UNCHANGED crowded
      /\ \A p \in Requests \ {q} : pc'[p] = pc[p] /\ job'[p] = job[p]
      /\ pc'[q] # "username"
  BY DEF Step, Abort, Register, Resend, DropLinks, InsertLink, Verify, Commit, Profile, FreeTag,
         WriteProfile, Username, Confirm, Remove, DropObject
<1>2. pc'[q] # "idle" => job'[q].by = job[q].by
  <2>1. CASE Register(q)
    BY <2>1 DEF Register, Jobs
  <2>2. CASE FreeTag(q)
    BY <2>2 DEF FreeTag, Jobs
  <2>3. CASE WriteProfile(q)
    BY <2>3 DEF WriteProfile, Jobs
  <2>4. CASE ~(Register(q) \/ FreeTag(q) \/ WriteProfile(q))
    BY <2>4 DEF Step, Abort, Resend, DropLinks, InsertLink, Verify, Commit, Profile, Username,
                Confirm, Remove, DropObject
  <2> QED
    BY <2>1, <2>2, <2>3, <2>4
<1>3. Solo'
  BY <1>1, <1>2 DEF NameInv, Solo
<1>4. SelvesAreCurrent'
  <2>1. \A u \in Users : u # job[q].by => (u \in resting' <=> u \in resting) /\ (u \in pending' <=> u \in pending)
    BY DEF Step, Abort, Register, Resend, DropLinks, InsertLink, Verify, Commit, Profile, FreeTag,
           WriteProfile, Username, Confirm, Remove, DropObject
  <2>2. \A p \in Requests : pc[p] # "idle" => job[p].by \in Users
    BY DEF Jobs
  <2> HIDE DEF Types, TypeOK
  <2> QED
    BY <1>1, <2>1, <2>2 DEF NameInv, SelvesAreCurrent, Solo
<1> QED
  BY <1>3, <1>4 DEF NameInv

LEMMA NameStep == Types /\ NameInv /\ [Next]_vars => NameInv'
<1> SUFFICES ASSUME Types, NameInv, [Next]_vars PROVE NameInv'
  OBVIOUS
<1>1. ASSUME NEW q \in Requests, Begin(q) PROVE NameInv'
  BY <1>1, NameBegin
<1>2. ASSUME NEW q \in Requests, Step(q) \/ Abort(q) PROVE NameInv'
  BY <1>2, NameStatement
<1>3. CASE UNCHANGED <<pending, pc, job, crowded>> /\ resting' \subseteq resting
  BY <1>3 DEF NameInv, Solo, SelvesAreCurrent
<1>4. ASSUME NEW u \in Users, Rested(u) PROVE NameInv'
  BY <1>3, <1>4 DEF Rested, history
<1>5. ASSUME NEW k \in Keys, Upload(k) \/ (\E u \in Users : Presign(u, k)) PROVE NameInv'
  BY <1>3, <1>5 DEF Presign, Upload, row, history
<1>6. CASE UNCHANGED vars
  BY <1>3, <1>6 DEF vars
<1> QED
  BY <1>1, <1>2, <1>4, <1>5, <1>6 DEF Next

\* A change of name is one the row as it is allows, unless two requests of the
\* user overlap.
THEOREM UsernamesStay == Spec => UsernamesRest
<1> DEFINE Allowed == \A u \in registered :
             name'[u] # name[u] => u \notin resting \/ u \in pending \/ u \in crowded
<1>1. Init => Types /\ NameInv
  BY TypeInit DEF Init, NameInv, Solo, SelvesAreCurrent
<1>2. Types /\ NameInv /\ [Next]_vars => Types' /\ NameInv'
  BY TypeStep, NameStep
<1>3. Types /\ NameInv /\ [Next]_vars => [Allowed]_vars
  <2> SUFFICES ASSUME Types, NameInv, Next PROVE Allowed
    BY DEF vars
  <2>1. ASSUME NEW q \in Requests, Register(q) PROVE Allowed
    <3>1. job[q].by \in Users
      BY <2>1 DEF Register, Types, TypeOK, Jobs
    <3> QED
      BY <2>1, <3>1 DEF Register, row, Types, TypeOK
  <2>2. ASSUME NEW q \in Requests, Username(q) PROVE Allowed
    <3>1. job[q].by \in Users
      BY <2>2 DEF Username, Types, TypeOK, Jobs
    <3>2. \A u \in Users : name'[u] # name[u] =>
             u = job[q].by /\ (job[q].me.pending \/ ~job[q].me.resting)
      BY <2>2, <3>1 DEF Username, Types, TypeOK
    <3> QED
      BY <2>2, <3>1, <3>2 DEF Username, NameInv, SelvesAreCurrent, Types, TypeOK
  <2>3. CASE UNCHANGED name
    BY <2>3
  <2>4. ASSUME NEW q \in Requests, Begin(q) PROVE UNCHANGED name
    <3>1. PICK j : Start(q, j)
      BY <2>4, Zenon DEF Begin, BeginRegister, BeginResend, BeginVerify, BeginRemove, BeginProfile,
                         BeginUsername, BeginConfirm
    <3> QED
      BY <3>1 DEF Start, row
  <2>5. ASSUME NEW q \in Requests, Step(q) \/ Abort(q), ~Register(q), ~Username(q)
        PROVE  UNCHANGED name
    BY <2>5 DEF Step, Abort, Resend, DropLinks, InsertLink, Verify, Commit, Profile, FreeTag,
                WriteProfile, Confirm, Remove, DropObject, row
  <2>6. ASSUME NEW k \in Keys, Upload(k) \/ (\E u \in Users : Presign(u, k)) PROVE UNCHANGED name
    BY <2>6 DEF Presign, Upload, row
  <2>7. ASSUME NEW u \in Users, Rested(u) PROVE UNCHANGED name
    BY <2>7 DEF Rested
  <2> HIDE DEF Allowed
  <2> QED
    BY <2>1, <2>2, <2>3, <2>4, <2>5, <2>6, <2>7 DEF Next, Step
<1> QED
  BY <1>1, <1>2, <1>3, PTL DEF Spec, UsernamesRest
-----------------------------------------------------------------------------
(***************************************************************************)
(* Editors, for any values, any number of saves in flight and any bounds.  *)
(* It has nothing to do with Accounts but the row of a user, which some of *)
(* the forms edit; what its answers are is left open here.                 *)
(***************************************************************************)
USE ValuesAssumption

\* Only a picture can be missing, and what is always on the screen is there.
FormsAreWhole ==
    /\ Single => open
    /\ form # "avatar" =>
         /\ saved.main # None /\ data.main # None /\ draft.main # None
         /\ fetch # None => fetch.got = None \/ fetch.got.main # None
         /\ \A m \in Mutations : calls[m] # None =>
              /\ calls[m].values.main # None /\ calls[m].before # None
              /\ calls[m].got = None \/ calls[m].got.main # None

EditorTypes == EditTypeOK /\ FormsAreWhole

LEMMA Truth == ASSUME NEW v, NEW S PROVE \E a, b \in BOOLEAN : a = (v \in S) /\ b = (v \notin S)
<1>1. CASE v \in S
  BY <1>1
<1>2. CASE v \notin S
  <2>1. (v \in S) = FALSE /\ (v \notin S) = TRUE
    BY <1>2
  <2> QED
    BY <2>1
<1> QED
  BY <1>1, <1>2

LEMMA EditorInit == EditInit => EditorTypes
<1> SUFFICES ASSUME EditInit PROVE EditorTypes
  OBVIOUS
<1>1. PICK v \in Values : saved = [main |-> v, side |-> v, rest |-> FALSE]
  BY DEF EditInit
<1>2. saved \in Rows /\ saved.main = v /\ data = saved
  BY <1>1 DEF Rows, EditInit
<1>3. draft \in Contents /\ (form # "avatar" => draft.main = v)
  BY <1>1, <1>2 DEF EditInit, Seed, Contents, Fields
<1>4. news \in [used : BOOLEAN, free : BOOLEAN] /\ {open, taken, timer, late, moved, tangled} \subseteq BOOLEAN
  <2>1. news = [used |-> FALSE, free |-> FALSE] /\ ~taken /\ ~timer /\ ~late /\ ~moved /\ ~tangled
    BY DEF EditInit
  <2>2. news \in [used : BOOLEAN, free : BOOLEAN]
    BY <2>1
  <2>3. open \in BOOLEAN
    <3>1. open = (form \in {"profile", "order", "avatar"})
      BY Zenon DEF EditInit, Single
    <3> QED
      BY <3>1, Truth
  <2>4. taken \in BOOLEAN /\ timer \in BOOLEAN /\ late \in BOOLEAN /\ moved \in BOOLEAN /\ tangled \in BOOLEAN
    BY Zenon DEF EditInit
  <2> QED
    BY <2>2, <2>3, <2>4
<1>5. used \subseteq Values
  BY DEF EditInit
<1> QED
  BY <1>1, <1>2, <1>3, <1>4, <1>5 DEF EditInit, EditorTypes, EditTypeOK, FormsAreWhole

-----------------------------------------------------------------------------
\* What an answer does to the cache, the form and the hint.
LEMMA HintedTyped ==
    ASSUME EditorTypes, NEW v, NEW w, Hinted(v, w)
    PROVE  /\ {taken', timer', late'} \subseteq BOOLEAN /\ news' \in [used : BOOLEAN, free : BOOLEAN]
           /\ checks' \in [Mutations -> Questions \cup {None}]
<1> USE DEF EditorTypes, EditTypeOK
<1>1. CASE form = "profile"
  <2>1. taken' \in BOOLEAN /\ timer' \in BOOLEAN /\ late' \in BOOLEAN
    BY <1>1, Zenon DEF Hinted
  <2>2. news' \in [used : BOOLEAN, free : BOOLEAN]
    <3>1. PICK a \in BOOLEAN, b \in BOOLEAN : a = (v \in InUse) /\ b = (v \notin InUse)
      BY Truth
    <3>2. news' = [used |-> a, free |-> b]
      BY <1>1, <3>1, Zenon DEF Hinted
    <3> QED
      BY <3>2
  <2>3. checks' = [m \in Mutations |-> IF checks[m] = None THEN None ELSE [checks[m] EXCEPT !.old = TRUE]]
    BY <1>1 DEF Hinted
  <2>4. ASSUME NEW m \in Mutations PROVE checks'[m] \in Questions \cup {None}
    <3>1. PICK j : j = [checks[m] EXCEPT !.old = TRUE]
      OBVIOUS
    <3>2. checks[m] # None => j \in Questions
      BY <3>1 DEF Questions
    <3>3. checks'[m] = IF checks[m] = None THEN None ELSE j
      BY <2>3, <3>1
    <3> QED
      BY <3>2, <3>3
  <2> QED
    BY <2>1, <2>2, <2>3, <2>4
<1>2. CASE form # "profile"
  BY <1>2 DEF Hinted, hint
<1> QED
  BY <1>1, <1>2

LEMMA PartingTyped ==
    ASSUME EditorTypes, NEW d, NEW c
    PROVE  HiddenBy(d) \in BOOLEAN /\ ContradictedBy(c) \in BOOLEAN /\ OutdatedBy(c) \in BOOLEAN
  BY DEF HiddenBy, ContradictedBy, OutdatedBy, EditorTypes, EditTypeOK

LEMMA LearnTyped ==
    ASSUME EditorTypes, NEW d \in Rows, form # "avatar" => d.main # None, Learn(d)
    PROVE  /\ data' = d /\ draft' \in Contents /\ typed' \subseteq Fields
           /\ form # "avatar" => draft'.main # None
           /\ moved' \in BOOLEAN
           /\ {taken', timer', late'} \subseteq BOOLEAN /\ news' \in [used : BOOLEAN, free : BOOLEAN]
           /\ checks' \in [Mutations -> Questions \cup {None}]
<1> USE DEF EditorTypes, EditTypeOK
<1>1. data' = d /\ draft' = [f \in Fields |-> IF f \in Reset(d) THEN d[f] ELSE draft[f]]
  BY DEF Learn
<1>2. draft' \in Contents
  BY <1>1 DEF Contents, Rows, Fields
<1>3. form # "avatar" => draft'.main # None
  BY <1>1 DEF FormsAreWhole, Fields
<1>4. typed' \subseteq Fields
  BY DEF Learn
<1>5. moved' \in BOOLEAN
  BY Zenon DEF Learn
<1>6. Hinted(d.main, d.main) \/ UNCHANGED hint
  BY Zenon DEF Learn
<1>8. /\ {taken', timer', late'} \subseteq BOOLEAN /\ news' \in [used : BOOLEAN, free : BOOLEAN]
      /\ checks' \in [Mutations -> Questions \cup {None}]
  BY <1>6, HintedTyped DEF hint
<1> QED
  BY <1>1, <1>2, <1>3, <1>4, <1>5, <1>8

LEMMA HeardTyped == Heard => news' \in [used : BOOLEAN, free : BOOLEAN]
  BY DEF Heard

LEMMA SeedTyped ==
    ASSUME EditorTypes
    PROVE  Seed \in Contents /\ (form # "avatar" => Seed.main = data.main)
  BY DEF EditorTypes, EditTypeOK, Seed, Contents, Rows, Fields

LEMMA OrphanedTyped ==
    ASSUME EditorTypes
    PROVE  /\ Orphaned \in [Mutations -> Submissions \cup {None}]
           /\ \A m \in Mutations :
                /\ calls[m] = None => Orphaned[m] = None
                /\ calls[m] # None =>
                     /\ Orphaned[m] \in Submissions /\ ~Orphaned[m].live
                     /\ Orphaned[m].sent = calls[m].sent /\ Orphaned[m].then = calls[m].then
                     /\ Orphaned[m].values = calls[m].values /\ Orphaned[m].got = calls[m].got
                     /\ Orphaned[m].before = calls[m].before
<1>1. ASSUME NEW n \in Mutations
      PROVE  /\ calls[n] = None => Orphaned[n] = None
             /\ calls[n] # None =>
                  /\ Orphaned[n] \in Submissions /\ ~Orphaned[n].live
                  /\ Orphaned[n].sent = calls[n].sent /\ Orphaned[n].then = calls[n].then
                  /\ Orphaned[n].values = calls[n].values /\ Orphaned[n].got = calls[n].got
                  /\ Orphaned[n].before = calls[n].before
  <2>1. PICK j : j = [calls[n] EXCEPT !.live = FALSE]
    OBVIOUS
  <2>2. calls[n] # None => /\ j \in Submissions /\ ~j.live
                           /\ j.sent = calls[n].sent /\ j.then = calls[n].then
                           /\ j.values = calls[n].values /\ j.got = calls[n].got /\ j.before = calls[n].before
    <3>1. PICK c : c = calls[n]
      OBVIOUS
    <3>2. c # None => c \in Submissions
      BY <3>1 DEF EditorTypes, EditTypeOK
    <3>3. c \in Submissions =>
              /\ j \in Submissions /\ ~j.live
              /\ j.sent = c.sent /\ j.then = c.then
              /\ j.values = c.values /\ j.got = c.got /\ j.before = c.before
      BY <2>1, <3>1 DEF Submissions
    <3> QED
      BY <3>1, <3>2, <3>3
  <2>3. Orphaned[n] = IF calls[n] = None THEN None ELSE j
    BY <2>1 DEF Orphaned
  <2> QED
    BY <2>2, <2>3
<1>2. Orphaned = [n \in Mutations |-> Orphaned[n]]
  BY DEF Orphaned
<1> QED
  BY <1>1, <1>2

LEMMA PayloadTyped ==
    ASSUME EditorTypes
    PROVE  /\ Payload[1] \in SUBSET FormFields /\ Payload[2] \in SUBSET FormFields
           /\ FormFields \subseteq Fields
<1>1. FormFields \subseteq Fields
  BY DEF FormFields, Fields
<1> QED
  BY <1>1 DEF Payload, Dirty, EditorTypes, EditTypeOK, Forms, FormFields,
     Two

\* A call keeps what it is about until it is answered.
SameCalls ==
    \A m \in Mutations :
        /\ calls'[m] = None <=> calls[m] = None
        /\ calls[m] # None => /\ calls'[m].then = calls[m].then /\ calls'[m].values = calls[m].values
                              /\ calls'[m].live = calls[m].live /\ calls'[m].before = calls[m].before

LEMMA RequestKept ==
    ASSUME EditorTypes, NEW m \in Mutations, Store(m) \/ Answer(m)
    PROVE  /\ calls' \in [Mutations -> Submissions \cup {None}] /\ SameCalls
           /\ \A n \in Mutations : n # m => calls'[n] = calls[n]
           /\ calls'[m].got \in {calls[m].got, saved} /\ calls[m] # None
<1>1. calls[m] # None /\ calls[m] \in Submissions
  BY DEF Store, Answer, EditorTypes, EditTypeOK
<1>2. PICK j : /\ calls' = [calls EXCEPT ![m] = j] /\ j \in Submissions /\ j.got \in {calls[m].got, saved}
               /\ j.then = calls[m].then /\ j.values = calls[m].values
               /\ j.live = calls[m].live /\ j.before = calls[m].before
  <2>1. CASE Store(m)
    <3>1. PICK j : j = [calls[m] EXCEPT !.stored = TRUE]
      OBVIOUS
    <3>2. calls' = [calls EXCEPT ![m] = j]
      BY <2>1, <3>1 DEF Store
    <3>3. /\ j \in Submissions /\ j.got = calls[m].got /\ j.then = calls[m].then /\ j.values = calls[m].values
          /\ j.live = calls[m].live /\ j.before = calls[m].before
      BY <1>1, <3>1 DEF Submissions
    <3> QED
      BY <3>2, <3>3
  <2>2. CASE Answer(m)
    <3>1. PICK j : j = [calls[m] EXCEPT !.got = saved]
      OBVIOUS
    <3>2. calls' = [calls EXCEPT ![m] = j]
      BY <2>2, <3>1 DEF Answer
    <3>3. /\ j \in Submissions /\ j.got = saved /\ j.then = calls[m].then /\ j.values = calls[m].values
          /\ j.live = calls[m].live /\ j.before = calls[m].before
      BY <1>1, <3>1 DEF Submissions, EditorTypes, EditTypeOK
    <3> QED
      BY <3>2, <3>3
  <2> QED
    BY <2>1, <2>2
<1>3. j # None
  BY <1>2
<1> QED
  BY <1>1, <1>2, <1>3 DEF SameCalls, EditorTypes, EditTypeOK

LEMMA EditorStep == EditorTypes /\ [EditNext]_editVars => EditorTypes'
<1> SUFFICES ASSUME EditorTypes, [EditNext]_editVars PROVE EditorTypes'
  OBVIOUS
<1>0. ASSUME acts' = acts \/ Act, faults' = faults \/ Fault PROVE acts' \in Nat /\ faults' \in Nat
  BY <1>0 DEF Act, Fault, EditorTypes, EditTypeOK
<1> USE DEF server, hint
\* Only the fetch, a check or the other users.
<1>1. CASE Refetch \/ Read \/ FetchFails
  <2>1. fetch' \in [got : Rows \cup {None}] \cup {None} /\ (fetch' = None \/ fetch'.got \in {None, saved})
    BY <1>1 DEF Refetch, Read, FetchFails, EditorTypes, EditTypeOK
  <2>2. UNCHANGED <<form, server, data, open, draft, calls, hint, typed, moved, tangled>>
    BY <1>1 DEF Refetch, Read, FetchFails
  <2>3. acts' \in Nat /\ faults' \in Nat
    BY <1>0, <1>1 DEF Refetch, Read, FetchFails
  <2> QED
    BY <2>1, <2>2, <2>3 DEF EditorTypes, EditTypeOK, FormsAreWhole, Single
<1>2. CASE FetchArrives
  <2>1. PICK d \in Rows : d = fetch.got /\ (form # "avatar" => d.main # None)
    BY <1>2 DEF FetchArrives, EditorTypes, EditTypeOK, FormsAreWhole
  <2>2. Learn(d) /\ UNCHANGED <<form, server, open, calls, acts, faults>> /\ fetch' = None /\ tangled' \in BOOLEAN
    BY <1>2, <2>1, PartingTyped DEF FetchArrives
  <2> QED
    BY <2>1, <2>2, LearnTyped DEF EditorTypes, EditTypeOK, FormsAreWhole, Single
<1>3. CASE Open
  <2>1. draft' = IF form = "clan" THEN [draft EXCEPT !.side = data.side] ELSE Seed
    BY <1>3 DEF Open
  <2>2. draft' \in Contents /\ (form # "avatar" => draft'.main # None)
    BY <2>1, SeedTyped DEF EditorTypes, EditTypeOK, FormsAreWhole, Contents, Rows,
       Fields
  <2>3. /\ UNCHANGED <<form, server, data, fetch, calls, hint, tangled, faults>>
        /\ open' /\ open' = TRUE /\ ~moved' /\ moved' = FALSE
    BY <1>3 DEF Open
  <2>4. typed' \subseteq Fields /\ acts' \in Nat /\ faults' \in Nat
    BY <1>0, <1>3 DEF Open, EditorTypes, EditTypeOK
  <2> QED
    BY <2>2, <2>3, <2>4 DEF EditorTypes, EditTypeOK, FormsAreWhole, Single
<1>4. CASE Close
  <2>1. /\ UNCHANGED <<form, server, data, fetch, draft, hint, typed, moved, tangled>>
        /\ ~Single /\ open' = FALSE
    BY <1>4 DEF Close
  <2>2. calls' = Orphaned \/ calls' = calls
    BY <1>4 DEF Close
  <2>3. /\ calls' \in [Mutations -> Submissions \cup {None}]
        /\ \A m \in Mutations : calls'[m] # None =>
             /\ calls[m] # None /\ calls'[m].values = calls[m].values
             /\ calls'[m].got = calls[m].got /\ calls'[m].before = calls[m].before
    <3>1. CASE calls' = Orphaned
      BY <3>1, OrphanedTyped
    <3>2. CASE calls' = calls
      BY <3>2 DEF EditorTypes, EditTypeOK
    <3> QED
      BY <2>2, <3>1, <3>2
  <2>4. acts' \in Nat /\ faults' \in Nat
    BY <1>0, <1>4 DEF Close
  <2> QED
    BY <2>1, <2>3, <2>4 DEF EditorTypes, EditTypeOK, FormsAreWhole, Single
<1>5. ASSUME NEW f \in Fields, NEW v \in Values, Type(f, v) PROVE EditorTypes'
  <2>1. draft' = [draft EXCEPT ![f] = v] /\ typed' = typed \cup {f} /\ Hinted(v, data.main)
        /\ UNCHANGED <<form, server, data, fetch, open, calls, moved, tangled>>
    BY <1>5 DEF Type
  <2>2. draft' \in Contents /\ (form # "avatar" => draft'.main # None)
    BY <2>1 DEF EditorTypes, EditTypeOK, FormsAreWhole, Contents, Fields
  <2>3. acts' \in Nat /\ faults' \in Nat
    BY <1>0, <1>5 DEF Type
  <2> QED
    BY <2>1, <2>2, <2>3, HintedTyped DEF EditorTypes, EditTypeOK, FormsAreWhole, Single
<1>6. ASSUME NEW f \in Fields, NEW v \in Values, OthersChange(f, v) PROVE EditorTypes'
  <2>1. PICK r : r = [saved EXCEPT ![f] = v]
    OBVIOUS
  <2>2. r \in Rows /\ (r.main = v \/ r.main = saved.main)
    BY <2>1 DEF EditorTypes, EditTypeOK, Rows, Fields
  <2>3. /\ saved' = r /\ Heard
        /\ UNCHANGED <<form, used, data, fetch, open, draft, calls, taken, timer, checks, late, typed, moved, tangled>>
    BY <1>6, <2>1 DEF OthersChange
  <2>4. acts' \in Nat /\ faults' \in Nat
    BY <1>0, <1>6 DEF OthersChange
  <2> QED
    BY <2>2, <2>3, <2>4, HeardTyped DEF EditorTypes, EditTypeOK, FormsAreWhole, Single
<1>7. CASE OthersJoin
  <2>1. PICK r : r = [saved EXCEPT !.rest = ~@]
    OBVIOUS
  <2>2. r \in Rows /\ r.main = saved.main
    BY <2>1 DEF EditorTypes, EditTypeOK, Rows
  <2>3. saved' = r /\ UNCHANGED <<form, used, data, fetch, open, draft, calls, hint, typed, moved, tangled>>
    BY <1>7, <2>1 DEF OthersJoin
  <2>4. acts' \in Nat /\ faults' \in Nat
    BY <1>0, <1>7 DEF OthersJoin
  <2> QED
    BY <2>2, <2>3, <2>4 DEF EditorTypes, EditTypeOK, FormsAreWhole, Single
<1>8. ASSUME NEW v \in Values, OthersRename(v) PROVE EditorTypes'
  <2>1. /\ used' \subseteq Values /\ Heard
        /\ UNCHANGED <<form, saved, data, fetch, open, draft, calls, taken, timer, checks, late, typed, moved, tangled>>
    BY <1>8 DEF OthersRename, EditorTypes, EditTypeOK
  <2>2. acts' \in Nat /\ faults' \in Nat
    BY <1>0, <1>8 DEF OthersRename
  <2> QED
    BY <2>1, <2>2, HeardTyped DEF EditorTypes, EditTypeOK, FormsAreWhole, Single
\* A click.
<1>9. ASSUME NEW m \in Mutations, NEW first \in SUBSET Fields, NEW second \in SUBSET Fields,
             NEW values \in Contents, calls[m] = None, form # "avatar" => values.main # None,
             NEW old, old \in {calls, Orphaned}, calls' = [old EXCEPT ![m] = Call(first, second, values)]
      PROVE  /\ calls' \in [Mutations -> Submissions \cup {None}]
             /\ form # "avatar" => \A n \in Mutations : calls'[n] # None =>
                  /\ calls'[n].values.main # None /\ calls'[n].before # None
                  /\ calls'[n].got = None \/ calls'[n].got.main # None
  <2>1. PICK j : j = Call(first, second, values)
    OBVIOUS
  <2>2. j \in Submissions /\ j.values = values /\ j.got = None /\ j.before = data.main
    BY <2>1 DEF Call, Submissions, EditorTypes, EditTypeOK, Rows
  <2>3. old \in [Mutations -> Submissions \cup {None}]
    BY <1>9, OrphanedTyped DEF EditorTypes, EditTypeOK
  <2>4. \A n \in Mutations : old[n] # None => /\ calls[n] # None /\ old[n].values = calls[n].values
                                              /\ old[n].got = calls[n].got /\ old[n].before = calls[n].before
    BY <1>9, OrphanedTyped
  <2>5. calls' = [old EXCEPT ![m] = j]
    BY <1>9, <2>1
  <2> HIDE DEF Orphaned
  <2> QED
    BY <1>9, <2>2, <2>3, <2>4, <2>5 DEF EditorTypes, FormsAreWhole
<1>10. ASSUME NEW m \in Mutations, Save(m) PROVE EditorTypes'
  <2>1. /\ calls' = [Orphaned EXCEPT ![m] = Call(Payload[1], Payload[2], draft)] /\ calls[m] = None
        /\ UNCHANGED <<form, server, data, fetch, open, draft, hint, typed, moved, tangled>>
    BY <1>10 DEF Save
  <2>2. Payload[1] \in SUBSET Fields /\ Payload[2] \in SUBSET Fields
    BY PayloadTyped
  <2>3. acts' \in Nat /\ faults' \in Nat
    BY <1>0, <1>10 DEF Save
  <2>4. draft \in Contents /\ (form # "avatar" => draft.main # None)
    BY DEF EditorTypes, EditTypeOK, FormsAreWhole
  <2>5. /\ calls' \in [Mutations -> Submissions \cup {None}]
        /\ form # "avatar" => \A n \in Mutations : calls'[n] # None =>
             /\ calls'[n].values.main # None /\ calls'[n].before # None
             /\ calls'[n].got = None \/ calls'[n].got.main # None
    BY <1>9, <2>1, <2>2, <2>4
  <2> QED
    BY <2>1, <2>3, <2>5 DEF EditorTypes, EditTypeOK, FormsAreWhole, Single
<1>11. ASSUME NEW m \in Mutations, NEW v \in Values \cup {None},
              (v \in Values /\ Drag(m, v)) \/ Pick(m, v)
       PROVE  EditorTypes'
  <2>1. PICK e : e = [draft EXCEPT !.main = v]
    OBVIOUS
  <2>2. e \in Contents /\ e.main = v
    BY <2>1 DEF EditorTypes, EditTypeOK, Contents, Fields
  <2>3. /\ calls[m] = None /\ draft' \in {draft, e} /\ {"main"} \in SUBSET Fields /\ {} \in SUBSET Fields
        /\ \/ calls' = [Orphaned EXCEPT ![m] = Call({"main"}, {}, e)]
           \/ calls' = [calls EXCEPT ![m] = Call({"main"}, {}, e)]
        /\ UNCHANGED <<form, server, data, fetch, open, hint, typed, moved>>
        /\ tangled' \in BOOLEAN
    BY <1>11, <2>1 DEF Drag, Pick, Fields, EditorTypes, EditTypeOK
  <2>4. form # "avatar" => e.main # None
    BY <1>11, <2>2 DEF Pick
  <2>5. acts' \in Nat /\ faults' \in Nat
    BY <1>0, <1>11 DEF Drag, Pick
  <2>6. /\ calls' \in [Mutations -> Submissions \cup {None}]
        /\ form # "avatar" => \A n \in Mutations : calls'[n] # None =>
             /\ calls'[n].values.main # None /\ calls'[n].before # None
             /\ calls'[n].got = None \/ calls'[n].got.main # None
    BY <1>9, <2>2, <2>3, <2>4
  <2> QED
    BY <2>2, <2>3, <2>4, <2>5, <2>6 DEF EditorTypes, EditTypeOK, FormsAreWhole, Single
\* A request.
<1>12. ASSUME NEW m \in Mutations, Store(m) PROVE EditorTypes'
  <2>1. /\ calls[m] # None /\ calls[m] \in Submissions
        /\ calls[m].sent \subseteq Fields /\ calls[m].values \in Contents
    BY <1>12 DEF Store, EditorTypes, EditTypeOK, Submissions
  <2>2. saved' = [f \in DOMAIN saved |-> IF f \in calls[m].sent THEN calls[m].values[f] ELSE saved[f]]
    BY <1>12 DEF Store
  <2>3. saved \in Rows /\ DOMAIN saved = {"main", "side", "rest"}
    BY DEF EditorTypes, EditTypeOK, Rows
  <2>4. /\ saved'.main \in {saved.main, calls[m].values.main} /\ saved'.side \in {saved.side, calls[m].values.side}
        /\ saved'.rest = saved.rest
    BY <2>1, <2>2, <2>3 DEF Fields
  <2>5. saved' \in Rows
    BY <2>1, <2>2, <2>3, <2>4 DEF Rows, Contents, Fields
  <2>6. UNCHANGED <<form, used, data, fetch, open, draft, taken, timer, checks, late, typed, moved, tangled, acts, faults>>
        /\ Heard
    BY <1>12 DEF Store
  <2>7. calls' \in [Mutations -> Submissions \cup {None}] /\ SameCalls
        /\ (\A n \in Mutations : n # m => calls'[n] = calls[n]) /\ calls'[m].got = calls[m].got
    <3>1. PICK j : j = [calls[m] EXCEPT !.stored = TRUE]
      OBVIOUS
    <3>2. calls' = [calls EXCEPT ![m] = j] /\ j.got = calls[m].got
      BY <1>12, <2>1, <3>1 DEF Store, Submissions
    <3> QED
      BY <1>12, <3>2, RequestKept DEF EditorTypes, EditTypeOK
  <2> QED
    BY <2>1, <2>4, <2>5, <2>6, <2>7, HeardTyped DEF EditorTypes, EditTypeOK, FormsAreWhole,
       Single, SameCalls
<1>13. ASSUME NEW m \in Mutations, Answer(m) PROVE EditorTypes'
  <2>1. UNCHANGED <<form, server, data, fetch, open, draft, hint, typed, moved, tangled, acts, faults>>
    BY <1>13 DEF Answer
  <2> QED
    BY <1>13, <2>1, RequestKept DEF EditorTypes, EditTypeOK, FormsAreWhole, Single,
       SameCalls
<1>14. ASSUME NEW m \in Mutations, Succeeds(m) PROVE EditorTypes'
  <2>1. calls[m] \in Submissions /\ calls[m] # None /\ calls[m].got # None
    BY <1>14 DEF Succeeds, EditorTypes, EditTypeOK
  <2>2. PICK d \in Rows : d = calls[m].got /\ (form # "avatar" => d.main # None)
    BY <2>1 DEF Submissions, EditorTypes, FormsAreWhole
  <2>3. Learn(d) /\ tangled' \in BOOLEAN
    BY <1>14, <2>2, PartingTyped DEF Succeeds
  <2>4. PICK j : j = [calls[m] EXCEPT !.sent = calls[m].then, !.then = {}, !.stored = FALSE, !.got = None]
    OBVIOUS
  <2>5. j \in Submissions /\ j.values = calls[m].values /\ j.got = None /\ j.before = calls[m].before
    BY <2>1, <2>4 DEF Submissions
  <2>6. calls' = [calls EXCEPT ![m] = IF calls[m].then = {} THEN None ELSE j]
    BY <1>14, <2>4 DEF Succeeds
  <2>7. UNCHANGED <<form, server, fetch, acts, faults>>
    BY <1>14 DEF Succeeds
  <2>8. open' \in BOOLEAN
    BY <1>14, Zenon DEF Succeeds
  <2>9. Single => open'
    BY <1>14 DEF Succeeds, EditorTypes, FormsAreWhole, Single
  <2>10. /\ calls' \in [Mutations -> Submissions \cup {None}]
         /\ form # "avatar" => \A n \in Mutations : calls'[n] # None =>
              /\ calls'[n].values.main # None /\ calls'[n].before # None
              /\ calls'[n].got = None \/ calls'[n].got.main # None
    BY <2>1, <2>5, <2>6 DEF EditorTypes, EditTypeOK, FormsAreWhole
  <2> QED
    BY <2>2, <2>3, <2>7, <2>8, <2>9, <2>10, LearnTyped DEF EditorTypes, EditTypeOK,
       FormsAreWhole, Single
<1>15. ASSUME NEW m \in Mutations, Removed(m) PROVE EditorTypes'
  <2>1. calls[m] \in Submissions /\ calls[m].got \in Rows /\ form = "avatar"
    BY <1>15 DEF Removed, EditorTypes, EditTypeOK, FormsAreWhole, Submissions
  <2>2. draft' = [draft EXCEPT !.main = None] /\ data' = calls[m].got /\ calls' = [calls EXCEPT ![m] = None]
        /\ UNCHANGED <<form, server, fetch, open, hint, typed, moved, acts, faults>> /\ tangled' = FALSE
    BY <1>15 DEF Removed
  <2>3. draft' \in Contents
    BY <2>2 DEF EditorTypes, EditTypeOK, Contents, Fields
  <2> QED
    BY <2>1, <2>2, <2>3 DEF EditorTypes, EditTypeOK, FormsAreWhole, Single
<1>16. ASSUME NEW m \in Mutations, Fails(m) PROVE EditorTypes'
  <2>1. calls[m] \in Submissions /\ draft' = PutBack(calls[m]) /\ calls' = [calls EXCEPT ![m] = None]
        /\ UNCHANGED <<form, server, data, fetch, open, hint, typed, moved, acts>> /\ tangled' \in BOOLEAN
    BY <1>16, PartingTyped DEF Fails, EditorTypes, EditTypeOK
  <2>2. acts' \in Nat /\ faults' \in Nat
    BY <1>0, <1>16 DEF Fails
  <2>3. PutBack(calls[m]) \in {draft, [draft EXCEPT !.main = calls[m].before], [draft EXCEPT !.main = None]}
    BY DEF PutBack
  <2>4. draft' \in Contents
    BY <2>1, <2>3 DEF EditorTypes, EditTypeOK, Contents, Fields, Submissions
  <2>5. form # "avatar" => draft'.main # None
    <3>1. form # "avatar" => /\ PutBack(calls[m]) \in {draft, [draft EXCEPT !.main = calls[m].before]}
                             /\ calls[m].before # None /\ draft.main # None
      BY <1>16 DEF PutBack, Fails, EditorTypes, FormsAreWhole
    <3> QED
      BY <2>1, <3>1 DEF EditorTypes, EditTypeOK, Contents, Fields
  <2>6. \A n \in Mutations : calls'[n] # None => calls'[n] = calls[n]
    BY <2>1 DEF EditorTypes, EditTypeOK
  <2>7. calls' \in [Mutations -> Submissions \cup {None}]
    BY <2>1 DEF EditorTypes, EditTypeOK
  <2> QED
    BY <2>1, <2>2, <2>4, <2>5, <2>6, <2>7 DEF EditorTypes, EditTypeOK, FormsAreWhole, Single
<1>17. ASSUME NEW m \in Mutations,
              Check(m) \/ IsUsernameAvailable(m) \/ CheckArrives(m) \/ CheckFails(m)
       PROVE  EditorTypes'
  <2>1. PICK q : checks' = [checks EXCEPT ![m] = q] /\ q \in Questions \cup {None}
    <3>1. CASE Check(m)
      <4>1. PICK q : q = [name |-> draft.main, got |-> None, old |-> FALSE]
        OBVIOUS
      <4>2. checks' = [checks EXCEPT ![m] = q]
        BY <3>1, <4>1 DEF Check
      <4>3. draft.main \in Values \cup {None}
        BY DEF EditorTypes, EditTypeOK, Contents, Fields
      <4> QED
        <5>1. q \in Questions
          BY <4>1, <4>3 DEF Questions
        <5> QED
          BY <4>2, <5>1
    <3>2. CASE IsUsernameAvailable(m)
      <4>1. PICK b \in BOOLEAN : b = (checks[m].name \in InUse)
        BY Truth
      <4>2. PICK q : q = [checks[m] EXCEPT !.got = [taken |-> b]]
        OBVIOUS
      <4>3. checks' = [checks EXCEPT ![m] = q]
        BY <3>2, <4>1, <4>2 DEF IsUsernameAvailable
      <4>4. checks[m] \in Questions
        BY <3>2 DEF IsUsernameAvailable, EditorTypes, EditTypeOK
      <4>5. q \in Questions
        BY <4>2, <4>4 DEF Questions
      <4> QED
        BY <4>3, <4>5
    <3>3. CASE CheckArrives(m) \/ CheckFails(m)
      BY <3>3 DEF CheckArrives, CheckFails
    <3> QED
      BY <1>17, <3>1, <3>2, <3>3
  <2>2. UNCHANGED <<form, server, data, fetch, open, draft, calls, news, typed, moved, tangled>>
    BY <1>17 DEF Check, IsUsernameAvailable, CheckArrives, CheckFails
  <2>3. timer' \in BOOLEAN
    BY <1>17 DEF Check, IsUsernameAvailable, CheckArrives, CheckFails,
       EditorTypes, EditTypeOK
  <2>4. taken' \in BOOLEAN
    BY <1>17 DEF Check, IsUsernameAvailable, CheckArrives, CheckFails,
       EditorTypes, EditTypeOK, Questions
  <2>5. late' \in BOOLEAN
    <3>1. late' = late \/ late' = (late \/ checks[m].old) \/ late' = TRUE
      BY <1>17, Zenon DEF Check, IsUsernameAvailable, CheckArrives, CheckFails
    <3>2. late \in BOOLEAN
      BY DEF EditorTypes, EditTypeOK
    <3> QED
      BY <3>1, <3>2, Zenon
  <2>6. acts' \in Nat /\ faults' \in Nat
    BY <1>0, <1>17 DEF Check, IsUsernameAvailable, CheckArrives, CheckFails
  <2> QED
    BY <2>1, <2>2, <2>3, <2>4, <2>5, <2>6 DEF EditorTypes, EditTypeOK, FormsAreWhole, Single
<1>18. CASE UNCHANGED editVars
  BY <1>18 DEF editVars, EditorTypes, EditTypeOK, FormsAreWhole, Single
<1> QED
  BY <1>1, <1>2, <1>3, <1>4, <1>5, <1>6, <1>7, <1>8, <1>10, <1>11, <1>12, <1>13, <1>14, <1>15,
     <1>16, <1>17, <1>18 DEF EditNext

-----------------------------------------------------------------------------
\* A field that the user has not touched is as the cache has it.
DraftsAreKnown ==
    form = "clan" \/ open =>
        \A f \in FormFields : \/ f \in typed \/ Ahead \/ draft[f] = data[f]
                              \/ form \in {"role", "game"} /\ moved
                              \/ form = "game" /\ f = "side" /\ draft.side = None

\* A check that is due or under way is about the name shown, and has heard what it
\* has been; the hint says what one of them was told.
HintIsCurrent ==
    form = "profile" /\ ~late =>
        /\ \A m \in Mutations : checks[m] # None /\ ~checks[m].old =>
             /\ checks[m].name = draft.main
             /\ checks[m].got # None => IF checks[m].got.taken THEN news.used ELSE news.free
        /\ timer \/ (\E m \in Mutations : checks[m] # None /\ ~checks[m].old) =>
             IF draft.main \in InUse THEN news.used ELSE news.free
        /\ taken => news.used
        /\ draft.main # data.main =>
             timer \/ taken \/ news.free \/ \E m \in Mutations : checks[m] # None /\ ~checks[m].old

\* The order shown is that of the last drag as long as it is under way, or one
\* the cache has learned since.
OrderIsKnown ==
    form = "order" =>
        /\ \A m \in Pending : calls[m].then = {}
        /\ \A m, n \in Pending : calls[m].live /\ calls[n].live => m = n
        /\ \A m \in Pending : calls[m].live => ~tangled /\ draft.main \in {calls[m].values.main, data.main}
        /\ ~tangled /\ (\A m \in Pending : ~calls[m].live) => draft.main = data.main

\* One change of the picture is under way at a time; a new one is shown.
PictureIsKnown ==
    form = "avatar" =>
        /\ \A m \in Pending : calls[m].then = {}
        /\ \A m, n \in Pending : m = n
        /\ \A m \in Pending : calls[m].values.main # None => draft.main = calls[m].values.main
        /\ ~tangled /\ (\A m \in Pending : calls[m].values.main = None) => draft.main \in {data.main, None}

EditorInv == DraftsAreKnown /\ HintIsCurrent /\ OrderIsKnown /\ PictureIsKnown

LEMMA FieldsOfForms ==
    ASSUME EditorTypes
    PROVE  /\ form \in {"order", "avatar"} <=> Ahead
           /\ form \in {"role", "event", "clan", "game"} => FormFields = {"main", "side"}
           /\ form \in {"profile", "order", "avatar"} => FormFields = {"main"}
           /\ form \in Forms
  BY DEF FormFields, Two, Fields, Ahead, EditorTypes, EditTypeOK, Forms

\* What the cache learns goes into the fields that follow it.
LEMMA FollowsByForm ==
    ASSUME EditorTypes, NEW d \in Rows
    PROVE  /\ Reset(d) \subseteq Fields
           /\ form = "event" /\ open /\ d # data => Reset(d) = Fields
           /\ form = "clan" => /\ d.main # data.main \/ d.side # data.side => "main" \in Reset(d)
                               /\ d.side # data.side => "side" \in Reset(d)
           /\ form \in {"profile", "order"} => ("main" \in Reset(d) <=> d.main # data.main)
           /\ form = "avatar" => "main" \notin Reset(d)
           /\ "main" \in Reset(d) => \E f \in Fields : d[f] # data[f] \/ form = "event"
  BY DEF Reset, Follows, Fields

LEMMA LearnDrafts ==
    ASSUME EditorTypes, DraftsAreKnown, NEW d \in Rows, Learn(d), form' = form, open' => open
    PROVE  DraftsAreKnown'
<1> SUFFICES ASSUME form = "clan" \/ open, NEW f \in FormFields
             PROVE  \/ f \in typed' \/ Ahead \/ draft'[f] = data'[f]
                    \/ form \in {"role", "game"} /\ moved'
                    \/ form = "game" /\ f = "side" /\ draft'.side = None
  BY DEF DraftsAreKnown, FormFields, Two, Ahead
<1>1. CASE Ahead
  BY <1>1
<1>2. CASE ~Ahead
  <2>1. /\ data' = d /\ draft' = [g \in Fields |-> IF g \in Reset(d) THEN d[g] ELSE draft[g]]
        /\ typed' = typed \ Reset(d) /\ f \in Fields /\ f \in {"main", "side"}
    <3>2. f \in {"main", "side"}
      BY FieldsOfForms DEF Forms
    <3>3. data' = d /\ typed' = typed \ Reset(d)
      BY DEF Learn
    <3>4. draft' = [g \in Fields |-> IF g \in Reset(d) THEN d[g] ELSE draft[g]]
      BY DEF Learn
    <3> QED
      BY <3>2, <3>3, <3>4 DEF Fields
  <2>2. draft'[f] = IF f \in Reset(d) THEN d[f] ELSE draft[f]
    BY <2>1
  <2>3. CASE f \in Reset(d)
    BY <2>1, <2>2, <2>3
  <2>4. CASE f \notin Reset(d)
    <3>1. CASE d[f] = data[f]
      <4>1. draft'[f] = draft[f] /\ data'[f] = data[f]
        BY <2>1, <2>2, <2>4, <3>1
      <4>2. f = "side" => draft'.side = draft.side
        BY <4>1
      <4>3. moved => moved'
        BY <1>2 DEF Learn
      <4> QED
        BY <1>2, <2>1, <2>4, <4>1, <4>2, <4>3 DEF DraftsAreKnown
    <3>2. CASE d[f] # data[f]
      <4>1. form \in {"role", "game"}
        BY <1>2, <2>1, <2>4, <3>2, FollowsByForm, FieldsOfForms DEF Forms, Fields
      <4>2. f \in typed \/ moved'
        BY <1>2, <3>2, <4>1 DEF Learn
      <4> QED
        BY <2>1, <2>4, <4>1, <4>2
    <3> QED
      BY <3>1, <3>2
  <2> QED
    BY <2>3, <2>4
<1> QED
  BY <1>1, <1>2

LEMMA QuietDrafts ==
    ASSUME DraftsAreKnown, UNCHANGED <<form, data, draft, typed, moved>>, open' => open
    PROVE  DraftsAreKnown'
  BY DEF DraftsAreKnown, FormFields, Two, Ahead

LEMMA DraftsStep == EditorTypes /\ DraftsAreKnown /\ [EditNext]_editVars => DraftsAreKnown'
<1> SUFFICES ASSUME EditorTypes, DraftsAreKnown, [EditNext]_editVars PROVE DraftsAreKnown'
  OBVIOUS
<1>1. CASE FetchArrives
  <2>1. PICK d \in Rows : Learn(d)
    BY <1>1 DEF FetchArrives, EditorTypes, EditTypeOK
  <2> QED
    BY <1>1, <2>1, LearnDrafts DEF FetchArrives
<1>2. ASSUME NEW m \in Mutations, Succeeds(m) PROVE DraftsAreKnown'
  <2>1. PICK d \in Rows : Learn(d)
    <3>1. calls[m].got \in Rows
      BY <1>2 DEF Succeeds, EditorTypes, EditTypeOK, Submissions
    <3> QED
      BY <1>2, <3>1 DEF Succeeds
  <2>2. form' = form /\ (open' => open)
    BY <1>2 DEF Succeeds
  <2> QED
    BY <2>1, <2>2, LearnDrafts
<1>3. CASE Open
  <2>1. form' = form /\ data' = data /\ draft \in Contents /\ data \in Rows
    BY <1>3 DEF Open, EditorTypes, EditTypeOK
  <2>2. CASE form = "clan"
    <3>1. draft' = [draft EXCEPT !.side = data.side] /\ typed' = typed \ {"side"}
      BY <1>3, <2>2 DEF Open
    <3>2. draft'["main"] = draft["main"] /\ draft'["side"] = data["side"] /\ ("main" \in typed => "main" \in typed')
      BY <2>1, <3>1 DEF Contents, Fields
    <3>3. FormFields = {"main", "side"} /\ FormFields' = FormFields
      BY <2>1, <2>2, FieldsOfForms DEF FormFields, Two
    <3> QED
      BY <2>1, <2>2, <3>2, <3>3 DEF DraftsAreKnown, Ahead
  <2>3. CASE form # "clan"
    <3>1. draft' = Seed
      BY <1>3, <2>3 DEF Open
    <3>2. \A f \in Fields : draft'[f] = data[f] \/ Ahead \/ (form = "game" /\ f = "side" /\ draft'.side = None)
      BY <3>1 DEF Seed, Ahead, Fields
    <3> QED
      BY <2>1, <3>2 DEF DraftsAreKnown, Ahead, FormFields, Two, Fields
  <2> QED
    BY <2>2, <2>3
<1>4. ASSUME NEW f \in Fields, NEW v \in Values, Type(f, v) PROVE DraftsAreKnown'
  BY <1>4 DEF Type, DraftsAreKnown, FormFields, Two, Ahead, EditorTypes,
     EditTypeOK, Contents, Fields
<1>5. ASSUME form \in {"order", "avatar"}, form' = form PROVE DraftsAreKnown'
  BY <1>5 DEF DraftsAreKnown, Ahead
<1>6. ASSUME NEW m \in Mutations, NEW v, Drag(m, v) \/ Pick(m, v) PROVE DraftsAreKnown'
  BY <1>5, <1>6 DEF Drag, Pick
<1>7. ASSUME NEW m \in Mutations, Removed(m) PROVE DraftsAreKnown'
  <2>1. form = "avatar" /\ form' = form
    BY <1>7 DEF Removed, EditorTypes, FormsAreWhole
  <2> QED
    BY <1>5, <2>1
<1>8. ASSUME NEW m \in Mutations, Fails(m) PROVE DraftsAreKnown'
  <2>1. UNCHANGED <<form, data, open, typed, moved>> /\ (draft' = draft \/ form \in {"order", "avatar"})
    BY <1>8 DEF Fails, PutBack
  <2> QED
    BY <1>5, <2>1, QuietDrafts
<1>9. ASSUME NEW m \in Mutations,
              Save(m) \/ Store(m) \/ Answer(m) \/ Check(m) \/ IsUsernameAvailable(m)
              \/ CheckArrives(m) \/ CheckFails(m)
      PROVE  DraftsAreKnown'
  BY <1>9, QuietDrafts DEF Save, Store, Answer, Check,
     IsUsernameAvailable, CheckArrives, CheckFails
<1>10. ASSUME NEW f \in Fields, NEW v \in Values, OthersChange(f, v) PROVE DraftsAreKnown'
  BY <1>10, QuietDrafts DEF OthersChange
<1>11. CASE Refetch \/ Read \/ FetchFails \/ Close \/ OthersJoin \/ UNCHANGED editVars
  BY <1>11, QuietDrafts DEF Refetch, Read, FetchFails, Close, OthersJoin,
     editVars
<1>12. ASSUME NEW v \in Values, OthersRename(v) PROVE DraftsAreKnown'
  BY <1>12, QuietDrafts DEF OthersRename
<1> QED
  BY <1>1, <1>2, <1>3, <1>4, <1>6, <1>7, <1>8, <1>9, <1>10, <1>11, <1>12 DEF EditNext

-----------------------------------------------------------------------------
\* The name in the field is another one: what was asked about the old one is old.
LEMMA HintedCurrent ==
    ASSUME EditorTypes, NEW v, NEW w, form = "profile", Hinted(v, w),
           UNCHANGED <<saved, used>>, draft'.main = v, data'.main = w
    PROVE  HintIsCurrent'
<1>1. ~taken' /\ timer' = (v # w) /\ news' = [used |-> v \in InUse, free |-> v \notin InUse]
  BY DEF Hinted
<1>2. ASSUME NEW m \in Mutations, checks'[m] # None PROVE checks'[m].old
  <2>1. PICK j : j = [checks[m] EXCEPT !.old = TRUE]
    OBVIOUS
  <2>2. checks'[m] = IF checks[m] = None THEN None ELSE j
    BY <2>1 DEF Hinted
  <2>3. checks[m] # None => j.old = TRUE
    BY <2>1 DEF EditorTypes, EditTypeOK, Questions
  <2> QED
    BY <1>2, <2>2, <2>3
<1>3. IF draft'.main \in InUse' THEN news'.used ELSE news'.free
  <2>1. InUse' = InUse
    BY DEF InUse
  <2>2. (v \in InUse => news'.used) /\ (v \notin InUse => news'.free)
    BY <1>1
  <2> QED
    BY <2>1, <2>2
<1>4. draft'.main # data'.main => timer'
  BY <1>1
<1> QED
  BY <1>1, <1>2, <1>3, <1>4 DEF HintIsCurrent

LEMMA HintKept ==
    ASSUME HintIsCurrent, UNCHANGED <<form, draft, taken, timer, checks, late>>, data'.main = data.main,
           UNCHANGED <<saved, used, news>> \/ Heard
    PROVE  HintIsCurrent'
<1> SUFFICES ASSUME form = "profile", ~late PROVE HintIsCurrent'
  BY DEF HintIsCurrent
<1>1. /\ news.used => news'.used
      /\ news.free => news'.free
      /\ (IF draft.main \in InUse THEN news.used ELSE news.free)
           => IF draft'.main \in InUse' THEN news'.used ELSE news'.free
  <2>1. CASE Heard
    <3>1. PICK a, b : a = (news.used \/ draft.main \in InUse') /\ b = (news.free \/ draft.main \notin InUse')
      OBVIOUS
    <3>2. news' = [used |-> a, free |-> b]
      BY <2>1, <3>1, Zenon DEF Heard
    <3>3. news'.used = a /\ news'.free = b
      BY <3>2
    <3>4. (news.used => a) /\ (news.free => b) /\ (draft.main \in InUse' => a) /\ (draft.main \notin InUse' => b)
      BY <3>1, Zenon
    <3> HIDE DEF InUse
    <3> QED
      BY <3>3, <3>4
  <2>2. CASE UNCHANGED <<saved, used, news>>
    BY <2>2 DEF InUse
  <2> QED
    BY <2>1, <2>2
<1> HIDE DEF InUse
<1> QED
  BY <1>1 DEF HintIsCurrent

LEMMA HintLearn ==
    ASSUME EditorTypes, HintIsCurrent, form = "profile", form' = form,
           NEW d \in Rows, Learn(d), UNCHANGED <<saved, used>>
    PROVE  HintIsCurrent'
<1>1. data' = d /\ draft' = [g \in Fields |-> IF g \in Reset(d) THEN d[g] ELSE draft[g]]
  BY DEF Learn
<1>2. "main" \in Reset(d) <=> d.main # data.main
  BY FollowsByForm
<1>3. CASE d.main = data.main
  <2>1. UNCHANGED hint
    BY <1>3 DEF Learn
  <2>2. draft'.main = draft.main
    BY <1>1, <1>2, <1>3 DEF Fields
  <2> QED
    BY <1>1, <1>3, <2>1, <2>2 DEF HintIsCurrent, hint, InUse
<1>4. CASE d.main # data.main
  <2>1. Hinted(d.main, d.main) /\ draft'.main = d.main
    BY <1>1, <1>2, <1>4 DEF Learn, Fields
  <2> QED
    BY <1>1, <2>1, HintedCurrent
<1> QED
  BY <1>3, <1>4

LEMMA HintStep == EditorTypes /\ HintIsCurrent /\ [EditNext]_editVars => HintIsCurrent'
<1> SUFFICES ASSUME EditorTypes, HintIsCurrent, [EditNext]_editVars, form' = "profile", ~late'
             PROVE  HintIsCurrent'
  BY DEF HintIsCurrent
<1>0. form = "profile" /\ form' = form /\ open /\ ~Ahead /\ Single
  <2>1. form' = form
    BY DEF EditNext, editVars, Refetch, Read, FetchArrives, FetchFails,
       Open, Close, Type, OthersChange, Save, Store, Answer,
       Succeeds, Removed, Fails, Check, IsUsernameAvailable,
       CheckArrives, CheckFails, Drag, Pick, OthersJoin,
       OthersRename
  <2> QED
    BY <2>1 DEF EditorTypes, FormsAreWhole, Single, Ahead
<1>1. CASE FetchArrives
  <2>1. PICK d \in Rows : Learn(d) /\ UNCHANGED <<saved, used>>
    BY <1>1 DEF FetchArrives, EditorTypes, EditTypeOK, server
  <2> QED
    BY <1>0, <2>1, HintLearn
<1>2. ASSUME NEW m \in Mutations, Succeeds(m) PROVE HintIsCurrent'
  <2>1. PICK d \in Rows : Learn(d) /\ UNCHANGED <<saved, used>>
    <3>1. calls[m].got \in Rows
      BY <1>2 DEF Succeeds, EditorTypes, EditTypeOK, Submissions
    <3> QED
      BY <1>0, <1>2, <3>1 DEF Succeeds, server
  <2> QED
    BY <1>0, <2>1, HintLearn
<1>3. ASSUME NEW f \in Fields, NEW v \in Values, Type(f, v) PROVE HintIsCurrent'
  <2>1. f = "main"
    BY <1>0, <1>3, FieldsOfForms DEF Type
  <2>2. draft' = [draft EXCEPT !["main"] = v] /\ Hinted(v, data.main) /\ UNCHANGED <<saved, used, data>>
    BY <1>3, <2>1 DEF Type, server
  <2>3. draft'.main = v
    BY <2>2 DEF EditorTypes, EditTypeOK, Contents, Fields
  <2> QED
    BY <1>0, <2>2, <2>3, HintedCurrent
<1>4. ASSUME NEW m \in Mutations, Store(m) PROVE HintIsCurrent'
  BY <1>4, HintKept DEF Store
<1>5. ASSUME NEW f \in Fields, NEW v \in Values, OthersChange(f, v) PROVE HintIsCurrent'
  BY <1>5, HintKept DEF OthersChange
<1>6. ASSUME NEW v \in Values, OthersRename(v) PROVE HintIsCurrent'
  BY <1>6, HintKept DEF OthersRename
<1>7. ASSUME NEW m \in Mutations, Save(m) \/ Answer(m) \/ Fails(m) PROVE HintIsCurrent'
  <2>1. UNCHANGED <<form, server, data, draft, hint>>
    BY <1>0, <1>7 DEF Save, Answer, Fails, PutBack
  <2> QED
    BY <2>1, HintKept DEF server, hint
<1>8. CASE Refetch \/ Read \/ FetchFails \/ UNCHANGED editVars
  <2>1. UNCHANGED <<form, server, data, draft, hint>>
    BY <1>8 DEF Refetch, Read, FetchFails, editVars
  <2> QED
    BY <2>1, HintKept DEF server, hint
<1>9. ASSUME NEW m \in Mutations, NEW v, Removed(m) \/ Drag(m, v) \/ Pick(m, v) PROVE FALSE
  BY <1>0, <1>9 DEF Removed, Drag, Pick, EditorTypes, FormsAreWhole
<1>10. CASE Open \/ Close \/ OthersJoin
  BY <1>0, <1>10 DEF Open, Close, OthersJoin
\* The checks.
<1>11. ASSUME NEW m \in Mutations, Check(m) PROVE HintIsCurrent'
  <2>1. PICK q : q = [name |-> draft.main, got |-> None, old |-> FALSE]
    OBVIOUS
  <2>2. checks' = [checks EXCEPT ![m] = q] /\ timer /\ ~timer'
        /\ UNCHANGED <<saved, used, data, draft, taken, news, late>>
    BY <1>11, <2>1 DEF Check, server
  <2>3. q # None
    <3>1. q \in Questions
      BY <2>1 DEF Questions, EditorTypes, EditTypeOK, Contents, Fields
    <3> QED
      BY <3>1
  <2>4. q.name = draft.main /\ q.got = None /\ ~q.old
    BY <2>1
  <2>5. checks'[m] = q /\ \A n \in Mutations : n # m => checks'[n] = checks[n]
    BY <2>2 DEF EditorTypes, EditTypeOK
  <2> QED
    BY <1>0, <2>2, <2>3, <2>4, <2>5 DEF HintIsCurrent, InUse
<1>12. ASSUME NEW m \in Mutations, IsUsernameAvailable(m) PROVE HintIsCurrent'
  <2>1. PICK a \in BOOLEAN, b \in BOOLEAN : a = (checks[m].name \in InUse) /\ b = (checks[m].name \notin InUse)
    BY Truth
  <2>2. PICK q : q = [checks[m] EXCEPT !.got = [taken |-> a]]
    OBVIOUS
  <2>3. checks' = [checks EXCEPT ![m] = q] /\ checks[m] # None
        /\ UNCHANGED <<saved, used, data, draft, taken, timer, news, late>>
    BY <1>12, <2>1, <2>2 DEF IsUsernameAvailable, server
  <2>4. checks[m] \in Questions
    BY <2>3 DEF EditorTypes, EditTypeOK
  <2>5. q \in Questions /\ q.name = checks[m].name /\ q.old = checks[m].old /\ q.got.taken = a
    BY <2>2, <2>4 DEF Questions
  <2>6. checks'[m] = q /\ \A n \in Mutations : n # m => checks'[n] = checks[n]
    BY <2>3 DEF EditorTypes, EditTypeOK
  <2>7. ~q.old => /\ q.name = draft.main
                  /\ IF q.got.taken THEN news.used ELSE news.free
    BY <1>0, <2>1, <2>3, <2>5 DEF HintIsCurrent
  <2> HIDE DEF InUse
  <2>8. InUse' = InUse
    BY <2>3 DEF InUse
  <2> QED
    BY <1>0, <2>3, <2>5, <2>6, <2>7, <2>8 DEF HintIsCurrent
<1>13. ASSUME NEW m \in Mutations, CheckArrives(m) PROVE HintIsCurrent'
  <2>1. /\ checks[m] # None /\ checks[m].got # None /\ taken' = checks[m].got.taken /\ ~checks[m].old /\ ~late
        /\ checks' = [checks EXCEPT ![m] = None]
        /\ UNCHANGED <<saved, used, data, draft, timer, news>>
    BY <1>13 DEF CheckArrives, server
  <2>2. checks'[m] = None /\ \A n \in Mutations : n # m => checks'[n] = checks[n]
    BY <2>1 DEF EditorTypes, EditTypeOK
  <2>3. InUse' = InUse
    BY <2>1 DEF InUse
  <2> HIDE DEF InUse
  <2>4. IF checks[m].got.taken THEN news.used ELSE news.free
    BY <1>0, <2>1 DEF HintIsCurrent
  <2> QED
    BY <1>0, <2>1, <2>2, <2>3, <2>4 DEF HintIsCurrent
<1>14. ASSUME NEW m \in Mutations, CheckFails(m) PROVE HintIsCurrent'
  BY <1>14 DEF CheckFails
<1> QED
  BY <1>1, <1>2, <1>3, <1>4, <1>5, <1>6, <1>7, <1>8, <1>9, <1>10, <1>11, <1>12, <1>13, <1>14 DEF
     EditNext

-----------------------------------------------------------------------------
\* What is shown ahead, where nothing happens to it.
ShownAhead == OrderIsKnown /\ PictureIsKnown

LEMMA ShownKept ==
    ASSUME ShownAhead, UNCHANGED <<form, data, draft>>, tangled' = tangled, SameCalls
    PROVE  ShownAhead'
<1>1. Pending' = Pending
  BY DEF Pending, SameCalls
<1>2. \A m \in Pending : /\ calls'[m].then = calls[m].then /\ calls'[m].values = calls[m].values
                         /\ calls'[m].live = calls[m].live /\ calls'[m].before = calls[m].before
  BY DEF Pending, SameCalls
<1> HIDE DEF Pending
<1> QED
  BY <1>1, <1>2 DEF ShownAhead, OrderIsKnown, PictureIsKnown

LEMMA ShownSame == calls' = calls => SameCalls
  BY DEF SameCalls

\* A call is over.
LEMMA OneLess ==
    ASSUME EditorTypes, NEW m \in Mutations, calls' = [calls EXCEPT ![m] = None]
    PROVE  Pending' = Pending \ {m} /\ \A n \in Pending' : calls'[n] = calls[n]
  BY DEF Pending, EditorTypes, EditTypeOK

LEMMA LearnAhead ==
    ASSUME EditorTypes, NEW d \in Rows, Learn(d)
    PROVE  /\ data' = d
           /\ form = "order" => draft'.main = IF d.main # data.main THEN d.main ELSE draft.main
           /\ form = "avatar" => draft'.main = draft.main
<1>1. draft' = [g \in Fields |-> IF g \in Reset(d) THEN d[g] ELSE draft[g]] /\ data' = d
  BY DEF Learn
<1>2. draft'.main = IF "main" \in Reset(d) THEN d.main ELSE draft.main
  BY <1>1 DEF Fields
<1> QED
  BY <1>1, <1>2, FollowsByForm

LEMMA OrderStep == EditorTypes /\ ShownAhead /\ [EditNext]_editVars => OrderIsKnown'
<1> SUFFICES ASSUME EditorTypes, ShownAhead, [EditNext]_editVars, form' = "order"
             PROVE  OrderIsKnown'
  BY DEF OrderIsKnown
<1>0. form = "order" /\ form' = form /\ Single /\ Ahead /\ open
  <2>1. form' = form
    BY DEF EditNext, editVars, Refetch, Read, FetchArrives, FetchFails,
       Open, Close, Type, OthersChange, Save, Store, Answer,
       Succeeds, Removed, Fails, Check, IsUsernameAvailable,
       CheckArrives, CheckFails, Drag, Pick, OthersJoin,
       OthersRename
  <2> QED
    BY <2>1 DEF EditorTypes, FormsAreWhole, Single, Ahead
<1>1. CASE FetchArrives
  <2>1. PICK d \in Rows : Learn(d) /\ tangled' = HiddenBy(d) /\ UNCHANGED calls
    BY <1>1 DEF FetchArrives, EditorTypes, EditTypeOK
  <2>2. /\ data' = d /\ draft'.main = IF d.main # data.main THEN d.main ELSE draft.main
        /\ tangled' = IF d.main # data.main THEN FALSE ELSE tangled
    BY <1>0, <2>1, LearnAhead DEF HiddenBy
  <2>3. Pending' = Pending
    BY <2>1 DEF Pending
  <2> HIDE DEF Pending
  <2> QED
    BY <1>0, <2>1, <2>2, <2>3 DEF ShownAhead, OrderIsKnown
<1>2. ASSUME NEW m \in Mutations, Succeeds(m) PROVE OrderIsKnown'
  <2>1. m \in Pending /\ calls[m] # None /\ calls[m].got \in Rows /\ Learn(calls[m].got)
        /\ tangled' = ContradictedBy(calls[m])
    BY <1>2 DEF Succeeds, EditorTypes, EditTypeOK, Submissions, Pending
  <2>2. PICK d \in Rows : d = calls[m].got
    BY <2>1
  <2>3. /\ data' = d /\ draft'.main = IF d.main # data.main THEN d.main ELSE draft.main
        /\ tangled' = (d.main = data.main /\ (tangled \/ (calls[m].live /\ d.main # calls[m].values.main)))
    BY <1>0, <2>1, <2>2, LearnAhead DEF ContradictedBy
  <2>4. calls[m].then = {}
    BY <1>0, <2>1 DEF ShownAhead, OrderIsKnown
  <2>5. calls' = [calls EXCEPT ![m] = None]
    BY <1>2, <2>4 DEF Succeeds
  <2>6. Pending' = Pending \ {m} /\ \A n \in Pending' : calls'[n] = calls[n]
    BY <2>5, OneLess
  <2> HIDE DEF Pending
  <2>7. CASE d.main # data.main
    <3>1. ~tangled' /\ draft'.main = data'.main
      BY <2>3, <2>7
    <3> QED
      BY <1>0, <2>6, <3>1 DEF ShownAhead, OrderIsKnown
  <2>8. CASE d.main = data.main
    <3>1. draft'.main = draft.main /\ data'.main = data.main
      BY <2>3, <2>8
    <3>2. CASE calls[m].live
      <4>1. \A n \in Pending' : ~calls'[n].live
        BY <1>0, <2>1, <2>6, <3>2 DEF ShownAhead, OrderIsKnown
      <4>2. ~tangled' => draft.main = data.main
        BY <1>0, <2>1, <2>3, <2>8, <3>2 DEF ShownAhead, OrderIsKnown
      <4> QED
        BY <1>0, <2>6, <3>1, <4>1, <4>2 DEF ShownAhead, OrderIsKnown
    <3>3. CASE ~calls[m].live
      <4>1. tangled' = tangled
        BY <2>3, <2>8, <3>3 DEF EditorTypes, EditTypeOK
      <4> QED
        BY <1>0, <2>6, <3>1, <3>3, <4>1 DEF ShownAhead, OrderIsKnown
    <3> QED
      BY <3>2, <3>3
  <2> QED
    BY <2>7, <2>8
<1>3. ASSUME NEW m \in Mutations, Fails(m) PROVE OrderIsKnown'
  <2>1. m \in Pending /\ calls' = [calls EXCEPT ![m] = None] /\ data' = data
        /\ tangled' = IF calls[m].live THEN calls[m].before # data.main ELSE tangled
    BY <1>0, <1>3 DEF Fails, Pending, OutdatedBy
  <2>2. Pending' = Pending \ {m} /\ \A n \in Pending' : calls'[n] = calls[n]
    BY <2>1, OneLess
  <2>3. draft' = IF calls[m].live THEN [draft EXCEPT !.main = calls[m].before] ELSE draft
    BY <1>0, <1>3 DEF Fails, PutBack
  <2>4. draft'.main = IF calls[m].live THEN calls[m].before ELSE draft.main
    BY <2>3 DEF EditorTypes, EditTypeOK, Contents, Fields
  <2> HIDE DEF Pending
  <2> QED
    BY <1>0, <2>1, <2>2, <2>4 DEF ShownAhead, OrderIsKnown
<1>4. ASSUME NEW m \in Mutations, NEW v \in Values, Drag(m, v) PROVE OrderIsKnown'
  <2>1. PICK e : e = [draft EXCEPT !.main = v]
    OBVIOUS
  <2>2. e \in Contents /\ e.main = v
    BY <2>1 DEF EditorTypes, EditTypeOK, Contents, Fields
  <2>3. PICK j : j = Call({"main"}, {}, e)
    OBVIOUS
  <2>4. j \in Submissions /\ j.then = {} /\ j.values = e /\ j.live = TRUE /\ j.before = data.main
    BY <2>2, <2>3 DEF Call, Submissions, EditorTypes, EditTypeOK, Rows, Fields
  <2>5. draft' = e /\ data' = data /\ ~tangled' /\ calls[m] = None /\ calls' = [Orphaned EXCEPT ![m] = j]
    BY <1>4, <2>1, <2>3 DEF Drag
  <2>6. \A n \in Mutations : calls'[n] = IF n = m THEN j ELSE Orphaned[n]
    BY <2>5, OrphanedTyped
  <2>7. \A n \in Pending' : n # m => /\ n \in Pending /\ ~calls'[n].live
                                     /\ calls'[n].then = calls[n].then /\ calls'[n].before = calls[n].before
    BY <2>6, OrphanedTyped DEF Pending
  <2>8. m \in Pending' /\ calls'[m] = j
    BY <2>4, <2>6 DEF Pending
  <2> HIDE DEF Pending, Orphaned
  <2> QED
    BY <1>0, <2>2, <2>4, <2>5, <2>7, <2>8 DEF ShownAhead, OrderIsKnown
<1>5. ASSUME NEW m \in Mutations, Store(m) \/ Answer(m) PROVE OrderIsKnown'
  <2>1. UNCHANGED <<form, data, draft, tangled>>
    BY <1>5 DEF Store, Answer
  <2> QED
    BY <1>5, <2>1, RequestKept, ShownKept DEF ShownAhead
<1>6. ASSUME UNCHANGED <<form, data, draft, tangled, calls>> PROVE OrderIsKnown'
  BY <1>6, ShownSame, ShownKept DEF ShownAhead
<1>7. CASE Refetch \/ Read \/ FetchFails \/ UNCHANGED editVars
  BY <1>6, <1>7 DEF Refetch, Read, FetchFails, editVars
<1>8. ASSUME NEW m \in Mutations,
              Check(m) \/ IsUsernameAvailable(m) \/ CheckArrives(m) \/ CheckFails(m)
      PROVE  OrderIsKnown'
  BY <1>6, <1>8 DEF Check, IsUsernameAvailable, CheckArrives, CheckFails
<1>9. ASSUME NEW f \in Fields, NEW v \in Values, OthersChange(f, v) \/ Type(f, v) PROVE OrderIsKnown'
  BY <1>0, <1>6, <1>9 DEF OthersChange, Type
<1>10. CASE Open \/ Close \/ OthersJoin
  BY <1>0, <1>10 DEF Open, Close, OthersJoin
<1>11. ASSUME NEW v \in Values, OthersRename(v) PROVE FALSE
  BY <1>0, <1>11 DEF OthersRename
<1>12. ASSUME NEW m \in Mutations, Removed(m) \/ Save(m) PROVE FALSE
  BY <1>0, <1>12 DEF Removed, Save, EditorTypes, FormsAreWhole
<1>13. ASSUME NEW m \in Mutations, NEW v \in Values \cup {None}, Pick(m, v) PROVE FALSE
  BY <1>0, <1>13 DEF Pick
<1> QED
  BY <1>1, <1>2, <1>3, <1>4, <1>5, <1>7, <1>8, <1>9, <1>10, <1>11, <1>12, <1>13 DEF EditNext

LEMMA PictureStep == EditorTypes /\ ShownAhead /\ [EditNext]_editVars => PictureIsKnown'
<1> SUFFICES ASSUME EditorTypes, ShownAhead, [EditNext]_editVars, form' = "avatar"
             PROVE  PictureIsKnown'
  BY DEF PictureIsKnown
<1>0. form = "avatar" /\ form' = form /\ Single /\ Ahead /\ open
  <2>1. form' = form
    BY DEF EditNext, editVars, Refetch, Read, FetchArrives, FetchFails,
       Open, Close, Type, OthersChange, Save, Store, Answer,
       Succeeds, Removed, Fails, Check, IsUsernameAvailable,
       CheckArrives, CheckFails, Drag, Pick, OthersJoin,
       OthersRename
  <2> QED
    BY <2>1 DEF EditorTypes, FormsAreWhole, Single, Ahead
<1>1. CASE FetchArrives
  <2>1. PICK d \in Rows : Learn(d) /\ tangled' = HiddenBy(d) /\ UNCHANGED calls
    BY <1>1 DEF FetchArrives, EditorTypes, EditTypeOK
  <2>2. /\ data' = d /\ draft'.main = draft.main
        /\ tangled' = IF d.main # data.main THEN draft.main \notin {None, d.main} ELSE tangled
    BY <1>0, <2>1, LearnAhead DEF HiddenBy
  <2>3. Pending' = Pending
    BY <2>1 DEF Pending
  <2> HIDE DEF Pending
  <2> QED
    BY <1>0, <2>1, <2>2, <2>3 DEF ShownAhead, PictureIsKnown
<1>2. ASSUME NEW m \in Mutations, Succeeds(m) PROVE PictureIsKnown'
  <2>1. m \in Pending /\ calls[m] # None /\ calls[m].got \in Rows /\ calls[m].values.main # None
        /\ Learn(calls[m].got) /\ tangled' = (calls[m].got.main # calls[m].values.main)
    BY <1>0, <1>2 DEF Succeeds, EditorTypes, EditTypeOK, Submissions, Pending, ContradictedBy
  <2>2. PICK d \in Rows : d = calls[m].got
    BY <2>1
  <2>3. data' = d /\ draft'.main = draft.main
    BY <1>0, <2>1, <2>2, LearnAhead
  <2>4. calls[m].then = {} /\ draft.main = calls[m].values.main /\ Pending = {m}
    BY <1>0, <2>1 DEF ShownAhead, PictureIsKnown
  <2>5. calls' = [calls EXCEPT ![m] = None]
    BY <1>2, <2>4 DEF Succeeds
  <2>6. Pending' = {}
    BY <2>4, <2>5, OneLess
  <2> HIDE DEF Pending
  <2> QED
    BY <2>1, <2>2, <2>3, <2>4, <2>6 DEF PictureIsKnown
<1>3. ASSUME NEW m \in Mutations, Removed(m) \/ Fails(m) PROVE PictureIsKnown'
  <2>1. m \in Pending /\ calls' = [calls EXCEPT ![m] = None]
    BY <1>3 DEF Removed, Fails, Pending
  <2>2. Pending = {m}
    BY <1>0, <2>1 DEF ShownAhead, PictureIsKnown
  <2>3. Pending' = {}
    BY <2>1, <2>2, OneLess
  <2>4. \/ draft' = [draft EXCEPT !.main = None]
        \/ UNCHANGED <<draft, data, tangled>> /\ calls[m].values.main = None
    BY <1>0, <1>3 DEF Removed, Fails, PutBack, OutdatedBy
  <2>5. ~tangled' => draft'.main \in {data'.main, None}
    <3>1. CASE draft' = [draft EXCEPT !.main = None]
      BY <3>1 DEF EditorTypes, EditTypeOK, Contents, Fields
    <3>2. CASE UNCHANGED <<draft, data, tangled>> /\ calls[m].values.main = None
      BY <1>0, <2>2, <3>2 DEF ShownAhead, PictureIsKnown
    <3> QED
      BY <2>4, <3>1, <3>2
  <2> HIDE DEF Pending
  <2> QED
    BY <2>3, <2>5 DEF PictureIsKnown
<1>4. ASSUME NEW m \in Mutations, NEW v \in Values \cup {None}, Pick(m, v) PROVE PictureIsKnown'
  <2>1. PICK e : e = [draft EXCEPT !.main = v]
    OBVIOUS
  <2>2. e \in Contents /\ e.main = v
    BY <2>1 DEF EditorTypes, EditTypeOK, Contents, Fields
  <2>3. PICK j : j = Call({"main"}, {}, e)
    OBVIOUS
  <2>4. j \in Submissions /\ j.then = {} /\ j.values = e
    BY <2>2, <2>3 DEF Call, Submissions, EditorTypes, EditTypeOK, Rows, Fields
  <2>5. /\ draft' = (IF v = None THEN draft ELSE e) /\ data' = data /\ (v = None /\ ~tangled' => ~tangled)
        /\ Pending = {} /\ calls' = [calls EXCEPT ![m] = j]
    BY <1>4, <2>1, <2>3 DEF Pick
  <2>6. Pending' = {m} /\ calls'[m] = j
    BY <2>4, <2>5 DEF Pending, EditorTypes, EditTypeOK
  <2>7. ~tangled => draft.main \in {data.main, None}
    BY <1>0, <2>5 DEF ShownAhead, PictureIsKnown
  <2> HIDE DEF Pending
  <2> QED
    BY <2>2, <2>4, <2>5, <2>6, <2>7 DEF PictureIsKnown
<1>5. ASSUME NEW m \in Mutations, Store(m) \/ Answer(m) PROVE PictureIsKnown'
  <2>1. UNCHANGED <<form, data, draft, tangled>>
    BY <1>5 DEF Store, Answer
  <2> QED
    BY <1>5, <2>1, RequestKept, ShownKept DEF ShownAhead
<1>6. ASSUME UNCHANGED <<form, data, draft, tangled, calls>> PROVE PictureIsKnown'
  BY <1>6, ShownSame, ShownKept DEF ShownAhead
<1>7. CASE Refetch \/ Read \/ FetchFails \/ UNCHANGED editVars
  BY <1>6, <1>7 DEF Refetch, Read, FetchFails, editVars
<1>8. ASSUME NEW m \in Mutations,
              Check(m) \/ IsUsernameAvailable(m) \/ CheckArrives(m) \/ CheckFails(m)
      PROVE  PictureIsKnown'
  BY <1>6, <1>8 DEF Check, IsUsernameAvailable, CheckArrives, CheckFails
<1>9. ASSUME NEW f \in Fields, NEW v \in Values, OthersChange(f, v) \/ Type(f, v) PROVE PictureIsKnown'
  BY <1>0, <1>6, <1>9 DEF OthersChange, Type
<1>10. CASE Open \/ Close \/ OthersJoin
  BY <1>0, <1>10 DEF Open, Close, OthersJoin
<1>11. ASSUME NEW v \in Values, OthersRename(v) PROVE FALSE
  BY <1>0, <1>11 DEF OthersRename
<1>12. ASSUME NEW m \in Mutations, Save(m) PROVE FALSE
  BY <1>0, <1>12 DEF Save
<1>13. ASSUME NEW m \in Mutations, NEW v \in Values, Drag(m, v) PROVE FALSE
  BY <1>0, <1>13 DEF Drag
<1> QED
  BY <1>1, <1>2, <1>3, <1>4, <1>5, <1>7, <1>8, <1>9, <1>10, <1>11, <1>12, <1>13 DEF EditNext

-----------------------------------------------------------------------------
LEMMA EditorInvInit == EditInit => EditorTypes /\ EditorInv
<1> SUFFICES ASSUME EditInit, EditorTypes PROVE EditorInv
  BY EditorInit
<1>1. Pending = {} /\ typed = {} /\ ~moved /\ ~taken /\ ~timer
  BY DEF EditInit, Pending
<1>2. draft = Seed /\ data = saved /\ \A m \in Mutations : checks[m] = None
  BY DEF EditInit
<1>3. DraftsAreKnown
  <2>1. \A f \in Fields : draft[f] = data[f] \/ Ahead \/ (form = "game" /\ f = "side" /\ draft.side = None)
    BY <1>2 DEF Seed, Ahead, Fields
  <2> QED
    BY <2>1 DEF DraftsAreKnown, FormFields, Fields
<1>4. form # "avatar" => draft.main = data.main
  BY <1>2, SeedTyped
<1>5. form = "avatar" => draft.main = None
  BY <1>2 DEF Seed, Fields
<1> HIDE DEF Pending
<1>6. HintIsCurrent
  BY <1>1, <1>2, <1>4 DEF HintIsCurrent
<1>7. OrderIsKnown /\ PictureIsKnown
  BY <1>1, <1>4, <1>5 DEF OrderIsKnown, PictureIsKnown
<1> QED
  BY <1>3, <1>6, <1>7 DEF EditorInv

\* EditorTypes and EditorInv together are inductive.
LEMMA EditorInvariance == EditSpec => [](EditorTypes /\ EditorInv)
<1>1. EditInit => EditorTypes /\ EditorInv
  BY EditorInvInit
<1>2. EditorTypes /\ EditorInv /\ [EditNext]_editVars => EditorTypes' /\ EditorInv'
  BY EditorStep, DraftsStep, HintStep, OrderStep, PictureStep DEF EditorInv, ShownAhead
<1> QED
  BY <1>1, <1>2, PTL DEF EditSpec

\* The variables of Editors keep their types.
THEOREM EditorTypeCorrect == EditSpec => []EditTypeOK
<1>1. EditorTypes => EditTypeOK
  BY DEF EditorTypes
<1> QED
  BY <1>1, EditorInvariance, PTL

\* PreviewsTellTheTruth: with nothing under way, the dragged order and the
\* picked picture on the screen are those that the browser was told last, but for
\* the three ways to part that Editors names, in particular a drag that fails after
\* an earlier one has succeeded.
THEOREM Previews == EditSpec => []PreviewsTellTheTruth
<1>1. EditorTypes /\ EditorInv => PreviewsTellTheTruth
  BY FieldsOfForms DEF EditorInv, OrderIsKnown, PictureIsKnown, PreviewsTellTheTruth
<1> QED
  BY <1>1, EditorInvariance, PTL

\* HintBelongsToTheName: the hint, which blocks the save of the profile, is
\* about the name in the field, unless an answer about another name came late.
THEOREM Hints == EditSpec => []HintBelongsToTheName
<1>1. EditorInv => HintBelongsToTheName
  BY DEF EditorInv, HintIsCurrent, HintBelongsToTheName
<1> QED
  BY <1>1, EditorInvariance, PTL

\* What a click sends.
LEMMA SaveSends ==
    ASSUME EditorTypes, DraftsAreKnown, NEW m \in Mutations, Save(m),
           NEW f \in calls'[m].sent \cup calls'[m].then
    PROVE  f \in typed' \/ moved \/ calls'[m].values[f] = data[f]
<1>1. /\ calls' = [Orphaned EXCEPT ![m] = Call(Payload[1], Payload[2], draft)]
      /\ open /\ ~Ahead /\ typed' = typed
  BY DEF Save
<1>2. calls'[m] = Call(Payload[1], Payload[2], draft)
  BY <1>1, OrphanedTyped
<1>3. calls'[m].values = draft /\ f \in Payload[1] \cup Payload[2]
  BY <1>2 DEF Call
<1>4. f \in FormFields /\ ~(form = "game" /\ f = "side" /\ draft.side = None)
  <2>1. f \in FormFields
    BY <1>3, PayloadTyped
  <2>2. form = "game" => Payload = <<FormFields \ (IF draft.side = None THEN {"side"} ELSE {}), {}>>
    BY DEF Payload
  <2> QED
    BY <1>3, <2>1, <2>2
<1> QED
  BY <1>1, <1>3, <1>4 DEF DraftsAreKnown

\* SavesUndoNothingKnown: a field that the user has not touched is sent as the
\* cache has it, or not at all; only an editor under which the cache moved sends older ones.
THEOREM Saves == EditSpec => SavesUndoNothingKnown
<1> DEFINE Allowed == \A m \in Mutations : Clicked(m) =>
                        \A f \in calls'[m].sent \cup calls'[m].then :
                            f \in typed' \/ Ahead \/ moved \/ calls'[m].values[f] = data[f]
<1>1. EditorTypes /\ EditorInv /\ [EditNext]_editVars => [Allowed]_editVars
  <2> SUFFICES ASSUME EditorTypes, EditorInv, EditNext, NEW m \in Mutations, calls[m] = None, calls'[m] # None,
                      NEW f \in calls'[m].sent \cup calls'[m].then, ~Ahead
               PROVE  f \in typed' \/ moved \/ calls'[m].values[f] = data[f]
    BY Zenon DEF editVars, Clicked
  <2>1. Save(m)
    <3>1. ASSUME calls' = calls PROVE FALSE
      BY <3>1
    <3>2. ASSUME NEW n \in Mutations, NEW x, calls[n] # None, calls' = [calls EXCEPT ![n] = x] PROVE FALSE
      BY <3>2 DEF EditorTypes, EditTypeOK
    <3>3. CASE Refetch \/ Read \/ FetchArrives \/ FetchFails \/ Open \/ OthersJoin
      BY <3>1, <3>3 DEF Refetch, Read, FetchArrives, FetchFails, Open,
         OthersJoin
    <3>4. CASE Close
      BY <3>1, <3>4, OrphanedTyped DEF Close
    <3>5. ASSUME NEW g \in Fields, NEW v \in Values, Type(g, v) \/ OthersChange(g, v) PROVE FALSE
      BY <3>1, <3>5 DEF Type, OthersChange
    <3>6. ASSUME NEW n \in Mutations,
                 Check(n) \/ IsUsernameAvailable(n) \/ CheckArrives(n) \/ CheckFails(n)
          PROVE  FALSE
      BY <3>1, <3>6 DEF Check, IsUsernameAvailable, CheckArrives, CheckFails
    <3>7. ASSUME NEW n \in Mutations, Succeeds(n) \/ Removed(n) \/ Fails(n) PROVE FALSE
      BY <3>2, <3>7 DEF Succeeds, Removed, Fails
    <3>8. ASSUME NEW n \in Mutations, Store(n) \/ Answer(n) PROVE FALSE
      <4>1. calls[n] # None
        BY <3>8 DEF Store, Answer
      <4>2. n # m
        BY <4>1
      <4> QED
        BY <3>8, <4>2 DEF Store, Answer, EditorTypes, EditTypeOK
    <3>9. ASSUME NEW n \in Mutations, NEW v, Drag(n, v) \/ Pick(n, v) PROVE FALSE
      BY <3>9 DEF Drag, Pick, Ahead
    <3>10. ASSUME NEW n \in Mutations, Save(n) PROVE n = m
      <4> SUFFICES ASSUME n # m PROVE FALSE
        OBVIOUS
      <4>1. calls'[m] = Orphaned[m]
        BY <3>10, OrphanedTyped DEF Save
      <4> QED
        BY <4>1, OrphanedTyped
    <3>11. ASSUME NEW v \in Values, OthersRename(v) PROVE FALSE
      BY <3>1, <3>11 DEF OthersRename
    <3> QED
      BY <3>3, <3>4, <3>5, <3>6, <3>7, <3>8, <3>9, <3>10, <3>11, Zenon DEF EditNext
  <2> QED
    BY <2>1, SaveSends DEF EditorInv
<1> QED
  BY <1>1, EditorInvariance, PTL DEF EditSpec, SavesUndoNothingKnown
=============================================================================
