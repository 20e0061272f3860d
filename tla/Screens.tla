------------------------------ MODULE Screens ------------------------------
(***************************************************************************)
(* One page of the web client in one tab: the answer of the page's list    *)
(* endpoint in the query cache, the fetches that fill it, and the          *)
(* mutations of the page's buttons with what each of them does to the      *)
(* cached answer.  Nothing else tells the tab of a change, and an answer   *)
(* that is written into the cache counts as fresh for a minute: what an    *)
(* overtaken answer leaves on the screen stays there.                      *)
(*                                                                         *)
(* The page is chosen once.  An item is a clan, an event, a role, a member, *)
(* an invite, a game, a participant, a profile field, a notification or a  *)
(* kind of notification; its value is what the page shows of it, reduced   *)
(* to two contents, read and unread for a notification.  The preferences   *)
(* page is modelled with its server side and with the notifications that   *)
(* read it.                                                                *)
(***************************************************************************)
EXTENDS Client, FiniteSets

CONSTANTS
    Ids,        \* ids of items; those never used are given to new items
    Mutations   \* mutations in flight at once

ASSUME NoneAssumption == None \notin BOOLEAN /\ None \notin [Ids -> BOOLEAN \cup {None}]

VARIABLES
    page,    \* the page that is shown
    row,     \* server: the items, None for an id without a row
    used,    \* ids that had a row at some time: cuid() repeats none
    data,    \* the cached answer, None before the first one
    twice,   \* ids the cached answer holds twice
    invalid, \* isInvalidated of the cached answer
    fetch,   \* the running fetch
    mut,     \* the mutations and their requests
    em,      \* one emission of a notification
    inbox,   \* number of notifications of each kind
    calm     \* since the last list was read, nothing overlapped that may not

cache == <<data, twice, invalid, open, fetch>>
vars == <<page, row, used, data, twice, invalid, open, fetch, mut, em, inbox, calm, acts, faults>>

-----------------------------------------------------------------------------
(* The mutations of the pages: what the request does to the rows, what its *)
(* answer is made of, and what onSuccess does with it.                     *)

Hook(op, answer, then) == [op |-> op, answer |-> answer, then |-> then]

\* Mutant: a new role is put on top of the list instead of fetching the list.
RolesHooksPrepend ==
    {Hook("insert", "item", "prepend"), Hook("update", "item", "map"),
     Hook("delete", "list", "set"), Hook("reorder", "list", "set")}

RolesHooks ==
    {Hook("insert", "none", "refetch"), Hook("update", "item", "map"),
     Hook("delete", "list", "set"), Hook("reorder", "list", "set")}
MembersHooks == {Hook("update", "item", "map"), Hook("delete", "none", "refetch")}
InvitesHooks == {Hook("create", "echo", "prepend"), Hook("delete", "none", "filter")}
EventInvitesHooks == {Hook("create", "echo", "prepend"), Hook("delete", "none", "filter")}
GamesHooks ==
    {Hook("create", "none", "refetch"), Hook("update", "echo", "map"), Hook("delete", "none", "filter")}
RegisterHooks == {Hook("create", "list", "set"), Hook("delete", "none", "refetch")}
ManageHooks == {Hook("update", "list", "set"), Hook("delete", "list", "set")}
ProfileHooks == {Hook("update", "list", "set")}
ClansHooks ==
    {Hook("create", "none", "refetch"), Hook("update", "none", "refetch"), Hook("delete", "none", "refetch")}
EventsHooks ==
    {Hook("create", "none", "refetch"), Hook("update", "none", "refetch"), Hook("delete", "none", "refetch")}
(* Of the answer to joining only the membership is taken here.  Its flags  *)
(* are those of runSystem; what follows from them is in ClanOffers.        *)
ClanHooks == {Hook("create", "list", "set"), Hook("update", "list", "set")}
NotificationsHooks == {Hook("read", "none", "refetch"), Hook("readAll", "none", "refetch")}
PreferencesHooks == {Hook("set", "none", "toggle")}

Hooks ==
    [roles |-> RolesHooks, members |-> MembersHooks, invites |-> InvitesHooks,
     eventInvites |-> EventInvitesHooks, games |-> GamesHooks,
     event |-> RegisterHooks \cup ManageHooks, profile |-> ProfileHooks,
     clans |-> ClansHooks, events |-> EventsHooks, clan |-> ClanHooks, notifications |-> NotificationsHooks,
     preferences |-> PreferencesHooks]
Pages == DOMAIN Hooks

Rows == [Ids -> BOOLEAN \cup {None}]
Stages == {"free", "sent", "found", "stored", "ready", "refused"}
Idle == [stage |-> "free", hook |-> None, id |-> None, val |-> None, list |-> None, got |-> None, cut |-> FALSE]
NoFetch == [stage |-> "none", got |-> None]
NoEmission == [stage |-> "none", id |-> None, on |-> FALSE, off |-> FALSE]

FetchStates == [stage : {"none", "sent", "read"}, got : Rows \cup {None}]
MutationStates ==
    [stage : Stages, hook : Hooks[page] \cup {None}, id : Ids \cup {None}, val : BOOLEAN \cup {None},
     list : Rows \cup {None}, got : BOOLEAN \cup {None}, cut : BOOLEAN]
EmissionStates ==
    [stage : {"none", "begun", "allowed"}, id : Ids \cup {None}, on : BOOLEAN, off : BOOLEAN]

TypeOK ==
    /\ page \in Pages
    /\ row \in Rows /\ used \subseteq Ids
    /\ data \in Rows \cup {None} /\ twice \subseteq Ids
    /\ invalid \in BOOLEAN /\ open \in BOOLEAN /\ calm \in BOOLEAN
    /\ fetch \in FetchStates
    /\ mut \in [Mutations -> MutationStates]
    /\ em \in EmissionStates
    /\ inbox \in [Ids -> Nat]
    /\ acts \in 0 .. MaxActs /\ faults \in 0 .. MaxFaults

(* The answer of the list endpoint.  Every kind of notification is listed, *)
(* one without a row is on.                                                *)
View(r) ==
    IF page = "preferences" THEN [i \in Ids |-> r[i] # FALSE] ELSE r

Init ==
    /\ page \in Pages
    /\ \E S \in SUBSET Ids :
          /\ page = "preferences" \/ S # Ids
          /\ row = [i \in Ids |-> IF i \in S THEN page # "notifications" ELSE None]
          /\ used = S
    /\ data = None /\ twice = {} /\ invalid = FALSE /\ open = FALSE /\ fetch = NoFetch
    /\ mut = [m \in Mutations |-> Idle]
    /\ em = NoEmission /\ inbox = [i \in Ids |-> 0]
    /\ calm = TRUE /\ acts = 0 /\ faults = 0

InFlight == {m \in Mutations : mut[m].stage # "free"}

-----------------------------------------------------------------------------
(* The query cache.                                                        *)

Started == [stage |-> "sent", got |-> None]

(* A second fetch of a query joins the running one. *)
Joined == IF fetch.stage = "none" THEN Started ELSE fetch

(* invalidateQueries: a mounted query is fetched again, from the start if  *)
(* it has data; without data the running fetch is joined.                  *)
Invalidate ==
    /\ invalid' = TRUE
    /\ fetch' = IF ~open THEN fetch ELSE IF data' # None THEN Started ELSE Joined

(* setQueryData: an updater that returns undefined changes nothing.        *)
SetQueryData(d) ==
    /\ data' = d
    /\ invalid' = (invalid /\ d = None)
    /\ fetch' = fetch

(* Overlaps after which the page is still right: two answers for different *)
(* items that are mapped or filtered in, and a fetch of loaded data with a *)
(* mutation that fetches again when it is answered.                        *)
ByItem == {"map", "filter"}
Refetching == {"refetch", "toggle"}
MayOverlap(h, i, g, j) ==
    \/ h.then \in Refetching /\ g.then \in Refetching /\ data # None
    \/ h.then \in ByItem /\ g.then \in ByItem /\ i # j
MayRunBesideFetch(h) == h.then \in Refetching /\ data # None

(* The page is mounted: data that is missing, invalidated or a minute old  *)
(* is fetched.                                                             *)
Mount(old) ==
    /\ ~open /\ open' = TRUE
    /\ IF data = None \/ invalid \/ old THEN
          /\ fetch' = Joined
          /\ calm' = (calm /\ \A m \in InFlight : MayRunBesideFetch(mut[m].hook))
       ELSE UNCHANGED <<fetch, calm>>
    /\ UNCHANGED <<page, row, used, data, twice, invalid, mut, em, inbox, acts, faults>>

(* The browser comes back online: data a minute old is fetched. *)
Reconnect ==
    /\ open /\ fetch.stage = "none" /\ Act
    /\ fetch' = Started
    /\ calm' = (calm /\ \A m \in InFlight : MayRunBesideFetch(mut[m].hook))
    /\ UNCHANGED <<page, row, used, data, twice, invalid, open, mut, em, inbox, faults>>

(* A running fetch goes on when the page is left, and is not started anew  *)
(* by a mutation that is answered meanwhile: if it has read too early, its *)
(* answer clears what the mutation has invalidated, and nobody is there to *)
(* fetch again.                                                            *)
Unmount ==
    /\ open /\ Act
    /\ open' = FALSE
    /\ calm' = (calm /\ (fetch.stage = "none" \/ InFlight = {}))
    /\ UNCHANGED <<page, row, used, data, twice, invalid, fetch, mut, em, inbox, faults>>

ReadList ==
    /\ fetch.stage = "sent"
    /\ fetch' = [stage |-> "read", got |-> View(row)]
    /\ calm' = (calm \/ InFlight = {})
    /\ UNCHANGED <<page, row, used, data, twice, invalid, open, mut, em, inbox, acts, faults>>

ListArrives ==
    /\ fetch.stage = "read"
    /\ data' = fetch.got /\ twice' = {} /\ invalid' = FALSE /\ fetch' = NoFetch
    /\ UNCHANGED <<page, row, used, open, mut, em, inbox, calm, acts, faults>>

(* A fetch that failed, its retry included, leaves the data invalidated,   *)
(* until a mutation writes into it.                                        *)
FetchFails ==
    /\ fetch.stage # "none" /\ Fault
    /\ invalid' = TRUE /\ fetch' = NoFetch /\ calm' = FALSE
    /\ UNCHANGED <<page, row, used, data, twice, open, mut, em, inbox, acts>>

-----------------------------------------------------------------------------
(* The mutations, in the browser.                                          *)

Unread(i) == data # None /\ data[i] = FALSE

(* What the user can click: new items at any time, changes of what is shown. *)
Offered(h, i) ==
    CASE h.op \in {"create", "insert"} ->
            /\ i \in Ids \ (used \cup {mut[m].id : m \in InFlight})
            /\ page \in {"event", "clan"} => data # None
      [] h.op = "reorder" -> data # None
      [] h.op = "read" -> Unread(i)
      [] h.op = "readAll" -> TRUE
      [] OTHER -> data # None /\ data[i] # None

(* onMutate of a switch: the running fetch is cancelled, the answer is kept *)
(* for onError and the choice is shown at once.                            *)
Show(h, i, v) ==
    IF h.then = "toggle" THEN
        /\ data' = [data EXCEPT ![i] = v]
        /\ invalid' = FALSE /\ fetch' = NoFetch
    ELSE UNCHANGED <<data, invalid, fetch>>

Send(m, h, i, v) ==
    /\ open /\ mut[m].stage = "free" /\ Offered(h, i) /\ Act
    /\ h.then = "toggle" => v = ~data[i]
    /\ h.op \in {"read", "readAll"} => v = TRUE
    /\ mut' = [mut EXCEPT ![m] = [Idle EXCEPT !.stage = "sent", !.hook = h, !.id = i, !.val = v,
                                  !.list = IF h.op \in {"set", "reorder"} THEN data ELSE None]]
    /\ Show(h, i, v)
    /\ calm' = (/\ calm
                /\ h.then = "prepend" => data # None
                /\ fetch.stage = "none" \/ MayRunBesideFetch(h)
                /\ \A n \in InFlight : MayOverlap(h, i, mut[n].hook, mut[n].id))
    /\ UNCHANGED <<page, row, used, twice, open, em, inbox, faults>>

Done(m) == mut' = [mut EXCEPT ![m] = Idle]

\* Mutant: onError takes the choice back, onSettled is onSuccess.
RestoreOnly(m) ==
    IF mut[m].hook.then = "toggle" THEN SetQueryData(mut[m].list)
    ELSE UNCHANGED <<data, invalid, fetch>>

(* onError and onSettled of a mutation that failed. *)
Restore(m) ==
    IF mut[m].hook.then = "toggle"
    THEN data' = mut[m].list /\ Invalidate
    ELSE UNCHANGED <<data, invalid, fetch>>

(* The connection is lost while the request runs: the browser gives up, the *)
(* server does not.                                                        *)
Cut(m) ==
    /\ mut[m].stage \in {"sent", "found", "stored", "ready"} /\ ~mut[m].cut /\ Fault
    /\ mut' = [mut EXCEPT ![m] = IF @.stage \in {"sent", "found"} THEN [@ EXCEPT !.cut = TRUE] ELSE Idle]
    /\ Restore(m)
    /\ calm' = (calm /\ mut[m].hook.then = "toggle" /\ mut[m].stage \in {"stored", "ready"})
    /\ UNCHANGED <<page, row, used, twice, open, em, inbox, acts>>

Refused(m) ==
    /\ mut[m].stage = "refused" /\ Done(m) /\ Restore(m)
    /\ UNCHANGED <<page, row, used, twice, open, em, inbox, calm, acts, faults>>

(* onSuccess. *)
Answered(m) == mut[m].stage = "ready" /\ Done(m) /\ UNCHANGED <<page, row, used, open, em, inbox, calm, acts, faults>>

RefetchList(m) ==
    /\ Answered(m) /\ mut[m].hook.then \in Refetching
    /\ data' = data /\ Invalidate /\ UNCHANGED twice

WriteItem(m) ==
    /\ Answered(m) /\ mut[m].hook.then = "map"
    /\ SetQueryData(IF data = None \/ data[mut[m].id] = None THEN data ELSE [data EXCEPT ![mut[m].id] = mut[m].got])
    /\ UNCHANGED twice

PrependItem(m) ==
    /\ Answered(m) /\ mut[m].hook.then = "prepend"
    /\ LET shown == IF data = None THEN [i \in Ids |-> None] ELSE data
           i == mut[m].id
       IN  /\ SetQueryData([shown EXCEPT ![i] = mut[m].got])
           /\ twice' = twice \cup {j \in {i} : shown[j] # None}

FilterItem(m) ==
    /\ Answered(m) /\ mut[m].hook.then = "filter"
    /\ SetQueryData(IF data = None THEN data ELSE [data EXCEPT ![mut[m].id] = None])
    /\ twice' = twice \ {mut[m].id}

WriteList(m) ==
    /\ Answered(m) /\ mut[m].hook.then = "set"
    /\ SetQueryData(mut[m].list) /\ twice' = {}

-----------------------------------------------------------------------------
(* The requests, on the server.                                            *)

OnServer == <<page, data, twice, invalid, open, fetch, acts>>

(* A request whose browser gave up ends without an answer. *)
Step(m, stage, got) ==
    mut' = [mut EXCEPT ![m] = IF @.cut /\ stage \in {"stored", "refused"} THEN Idle
                              ELSE [@ EXCEPT !.stage = stage, !.got = got]]

(* What a request finds when it comes to its statement: a reorder names    *)
(* exactly the roles there are, an update or a delete an item that exists. *)
Possible(m) ==
    LET q == mut[m] IN
    CASE q.hook.op \in {"create", "insert"} -> TRUE
      [] q.hook.op = "readAll" -> TRUE
      [] q.hook.op = "reorder" -> \A i \in Ids : q.list[i] = None <=> row[i] = None
      [] OTHER -> row[q.id] # None

(* A new role and a new order move the other roles. *)
Moved == [i \in Ids |-> IF row[i] = None THEN None ELSE ~row[i]]

AllRead == [i \in Ids |-> IF row[i] = None THEN None ELSE TRUE]

(* The statement. *)
Written(q) ==
    CASE q.hook.op \in {"create", "update", "set", "read"} -> [row EXCEPT ![q.id] = q.val]
      [] q.hook.op = "delete" -> [row EXCEPT ![q.id] = None]
      [] q.hook.op = "insert" -> [Moved EXCEPT ![q.id] = q.val]
      [] q.hook.op = "reorder" -> Moved
      [] q.hook.op = "readAll" -> AllRead

Store(m) ==
    /\ mut[m].stage = "sent" /\ mut[m].hook.op # "set" /\ Possible(m)
    /\ row' = Written(mut[m]) /\ used' = used \cup {i \in Ids : row'[i] # None}
    /\ Step(m, "stored", None)
    /\ UNCHANGED <<OnServer, em, inbox, calm, faults>>

(* setPreference: a row that was found is updated, otherwise one is created, *)
(* which the unique index refuses if another request created it meanwhile. *)
FindPreference(m) ==
    /\ mut[m].stage = "sent" /\ mut[m].hook.op = "set"
    /\ Step(m, "found", row[mut[m].id])
    /\ UNCHANGED <<OnServer, row, used, em, inbox, calm, faults>>

Watched(r) ==
    IF em.stage = "none" THEN em
    ELSE [em EXCEPT !.on = @ \/ r[em.id] # FALSE, !.off = @ \/ r[em.id] = FALSE]

StorePreference(m) ==
    /\ mut[m].stage = "found"
    /\ \/ /\ mut[m].got # None \/ row[mut[m].id] = None
          /\ row' = Written(mut[m]) /\ used' = used \cup {mut[m].id}
          /\ em' = Watched(row')
          /\ Step(m, "stored", None)
       \/ /\ mut[m].got = None /\ row[mut[m].id] # None
          /\ Step(m, "refused", None)
          /\ UNCHANGED <<row, used, em>>
    /\ UNCHANGED <<OnServer, inbox, calm, faults>>

(* A request that finds nothing to change is refused; any may fail. *)
Refuse(m) ==
    /\ mut[m].stage \in {"sent", "found"}
    /\ \/ mut[m].hook.op # "set" /\ ~Possible(m) /\ UNCHANGED faults
       \/ Fault
    /\ Step(m, "refused", None)
    /\ UNCHANGED <<OnServer, row, used, em, inbox, calm>>

(* The answer: what the request was sent, the item or the list as they are *)
(* by now, or nothing.  Without the item the request fails.                *)
Answer(m) ==
    /\ mut[m].stage = "stored"
    /\ LET q == mut[m] IN
       CASE q.hook.answer = "none" -> Step(m, "ready", None)
         [] q.hook.answer = "echo" -> Step(m, "ready", q.val)
         [] q.hook.answer = "list" -> mut' = [mut EXCEPT ![m].stage = "ready", ![m].list = row]
         [] q.hook.answer = "item" -> Step(m, IF row[q.id] = None THEN "refused" ELSE "ready", row[q.id])
    /\ UNCHANGED <<OnServer, row, used, em, inbox, calm, faults>>

(* Another user, or another device of this one; a notification is new, or   *)
(* is read.                                                                *)
Others ==
    /\ Act
    /\ \E i \in Ids, v \in BOOLEAN \cup {None} :
          /\ row[i] # v
          /\ CASE page = "preferences" -> v # None
               [] page = "notifications" -> row[i] # TRUE /\ v = (row[i] # None)
               [] OTHER -> row[i] # None \/ i \notin used
          /\ row' = [row EXCEPT ![i] = v]
          /\ used' = used \cup {i}
    /\ em' = Watched(row') /\ calm' = FALSE
    /\ UNCHANGED <<page, data, twice, invalid, open, fetch, mut, inbox, faults>>

(* emit: the preference is read, then the notification is stored, while the *)
(* handler that called it goes on; a failure is only logged.               *)
Emit(i) ==
    /\ page = "preferences" /\ em.stage = "none" /\ Act
    /\ em' = [stage |-> "begun", id |-> i, on |-> View(row)[i], off |-> ~View(row)[i]]
    /\ UNCHANGED <<page, row, used, cache, mut, inbox, calm, faults>>

\* Mutant: "!pref?.enabled", a kind without a row is off.
CheckPreferenceStored ==
    /\ em.stage = "begun"
    /\ em' = IF row[em.id] # TRUE THEN NoEmission ELSE [em EXCEPT !.stage = "allowed"]
    /\ UNCHANGED <<page, row, used, cache, mut, inbox, calm, acts, faults>>

CheckPreference ==
    /\ em.stage = "begun"
    /\ em' = IF row[em.id] = FALSE THEN NoEmission ELSE [em EXCEPT !.stage = "allowed"]
    /\ UNCHANGED <<page, row, used, cache, mut, inbox, calm, acts, faults>>

Notify ==
    /\ em.stage = "allowed"
    /\ inbox' = [inbox EXCEPT ![em.id] = @ + 1] /\ em' = NoEmission
    /\ UNCHANGED <<page, row, used, cache, mut, calm, acts, faults>>

EmitFails ==
    /\ em.stage # "none" /\ Fault /\ em' = NoEmission
    /\ UNCHANGED <<page, row, used, cache, mut, inbox, calm, acts>>

Next ==
    \/ \E old \in BOOLEAN : Mount(old)
    \/ Reconnect \/ Unmount \/ ReadList \/ ListArrives \/ FetchFails
    \/ \E m \in Mutations, h \in Hooks[page], i \in Ids, v \in BOOLEAN : Send(m, h, i, v)
    \/ \E m \in Mutations :
          \/ Cut(m) \/ Refused(m) \/ RefetchList(m) \/ WriteItem(m) \/ PrependItem(m) \/ FilterItem(m)
          \/ WriteList(m) \/ Store(m) \/ FindPreference(m) \/ StorePreference(m) \/ Refuse(m) \/ Answer(m)
    \/ Others
    \/ \E i \in Ids : Emit(i)
    \/ CheckPreference \/ Notify \/ EmitFails

Spec == Init /\ [][Next]_vars

-----------------------------------------------------------------------------

AtRest == data # None /\ ~invalid /\ fetch.stage = "none" /\ InFlight = {}

(* Switches that overlap, whatever order their requests are answered in and *)
(* however many of them fail, leave the settings page at what the server   *)
(* holds: onSettled of useSetPreference fetches again.  Excepted are a     *)
(* request that is stored after the browser gave it up, other devices, and *)
(* a page that is left while a fetch runs beside a switch in flight, whose *)
(* older answer then stays until the list is old (Unmount).                *)
SwitchesTellTheTruth ==
    page = "preferences" /\ AtRest /\ calm => data = View(row)

(* A list at rest shows the server's items, each once: after clicks that   *)
(* were answered one by one, and after overlapping ones when every one     *)
(* fetches again or every one touches another item.                        *)
ListsTellTheTruth ==
    page # "preferences" /\ AtRest /\ calm => data = row /\ twice = {}

(* emit stores a notification only if its kind was on at some time since   *)
(* the emission began, and drops one only if it was off at some time.      *)
EmissionsFollowTheSwitch ==
    [][/\ inbox' # inbox => em.on
       /\ em.stage = "begun" /\ em'.stage = "none" /\ faults' = faults => em.off]_vars
-----------------------------------------------------------------------------
(* The inductive invariant behind the properties.                          *)

(* What a mutation that is under way carries. *)
MutationsComplete ==
    \A m \in Mutations :
        /\ mut[m].stage # "free" =>
              /\ mut[m].hook \in Hooks[page] /\ mut[m].id \in Ids /\ mut[m].val \in BOOLEAN
              /\ mut[m].hook.op = "set" => mut[m].list # None
        /\ mut[m].cut => mut[m].stage \in {"sent", "found"}
        /\ mut[m].stage = "found" => page = "preferences"

FetchComplete == fetch.stage = "read" => fetch.got # None

EmissionWarranted ==
    /\ em.stage # "none" => page = "preferences" /\ em.id \in Ids
    /\ em.stage = "begun" => /\ row[em.id] = FALSE => em.off
                             /\ row[em.id] # FALSE => em.on
    /\ em.stage = "allowed" => em.on

RowsAreUsed == \A i \in Ids : row[i] # None => i \in used

(* The mutations under way have not changed a row. *)
NothingStored == \A m \in InFlight : mut[m].hook.then = "refetch" /\ mut[m].stage \in {"sent", "refused"}

(* While nothing is stored the page shows what there is; a fetch that runs  *)
(* beside mutations belongs to an open page, and an open page that is not  *)
(* right is about to be fetched.                                           *)
PageFollows ==
    /\ \A m \in Mutations : ~mut[m].cut
    /\ NothingStored /\ fetch.stage = "none" /\ ~invalid /\ data # None => data = View(row) /\ twice = {}
    /\ NothingStored /\ fetch.stage = "read" => fetch.got = View(row)
    /\ ~open /\ InFlight # {} => fetch.stage = "none"
    /\ open /\ invalid => fetch.stage # "none"
    /\ data = None /\ fetch.stage # "none" => InFlight = {}
    /\ data = None => \A m, n \in InFlight : m = n

(* A mutation that writes its answer into the cache. *)
Writing(m) == mut[m].stage # "free" /\ mut[m].hook.then \notin Refetching

(* How the item of a writing mutation differs between server and page.     *)
Differs(m) ==
    LET q == mut[m]
        i == mut[m].id
        pending == mut[m].stage \in {"sent", "refused"}
    IN  /\ q.hook.then = "map" =>
              /\ row[i] # None /\ data[i] # None
              /\ pending => data[i] = row[i]
              /\ q.stage = "stored" => row[i] = q.val
              /\ q.stage = "ready" => row[i] = q.got
        /\ q.hook.then = "filter" =>
              /\ pending => data[i] = row[i]
              /\ ~pending => row[i] = None
        /\ q.hook.then = "prepend" =>
              /\ data[i] = None
              /\ pending => row[i] = None
              /\ q.stage = "stored" => row[i] = q.val
              /\ q.stage = "ready" => row[i] = q.got
        /\ q.hook.then = "set" =>
              /\ pending => data = row
              /\ q.stage = "ready" => q.list = row

(* Writing mutations run alone, or touch one item each; no fetch runs      *)
(* beside them, and page and server differ in their items only.            *)
WritesStayApart ==
    /\ \A m, n \in Mutations : m # n /\ Writing(m) /\ mut[n].stage # "free" =>
          Writing(n) /\ mut[m].id # mut[n].id /\ mut[m].hook.then \in ByItem
    /\ \A m \in Mutations : Writing(m) =>
          /\ page # "preferences"
          /\ fetch.stage = "none" /\ ~invalid /\ data # None /\ twice = {}
          /\ Differs(m)
          /\ mut[m].hook.then # "set" =>
                \A i \in Ids : (\A n \in Mutations : Writing(n) => mut[n].id # i) => data[i] = row[i]

CalmPage == calm => PageFollows /\ WritesStayApart

IInv ==
    TypeOK /\ MutationsComplete /\ FetchComplete /\ EmissionWarranted /\ RowsAreUsed /\ CalmPage
=============================================================================
