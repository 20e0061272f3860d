------------------------------ MODULE Editors ------------------------------
(***************************************************************************)
(* What a user is typing, beside what the cache holds and the server has:  *)
(* the forms of the web client, one of them in one tab.                    *)
(*   "role"     RoleEditor; its draft is set when the role is selected     *)
(*   "event"    EventFormModal; set whenever the event is another object   *)
(*   "clan"     ClanSettingsModal; set when the clan's values change       *)
(*   "game"     GameModal; set when it is opened, for a copy of the game   *)
(*   "profile"  display name and user name, one field each, with the hint  *)
(*              that a name is taken                                       *)
(*   "order"    the roles dragged into an order, shown before it is stored *)
(*   "avatar"   the picture, shown before it is stored                     *)
(* A form has one field or two, "main" and "side", which are treated       *)
(* differently where the code does: name and grants of a role, name and    *)
(* join policy of a clan, name and icon of a game.                         *)
(***************************************************************************)
EXTENDS Client, FiniteSets

CONSTANTS
    Values,     \* of a field; None stands for no picture
    Mutations   \* slots for requests in flight

Forms == {"role", "event", "clan", "game", "profile", "order", "avatar"}
Fields == {"main", "side"}

VARIABLES
    form,    \* which one, for good
    saved,   \* server: the fields, and whatever else the answer shows (rest)
    used,    \* server: the user names of others
    data,    \* the row as it is in the cache
    fetch,   \* the fetch that runs
    draft,   \* its contents
    calls,   \* saves in flight
    taken,   \* the hint
    timer,   \* a check of the name is due
    checks,  \* checks in flight
    typed,   \* history: fields that hold what the user typed or picked
    moved,   \* history: the cache has changed under an editor that does not follow
    tangled, \* history: what is shown ahead and what the cache has went separate ways
    news,    \* history: the name shown has been in use, has been free, since it is there
    late     \* history: an answer about a name came when another was shown, or failed

server == <<saved, used>>
hint == <<taken, timer, checks, news, late>>
editVars == <<form, server, data, fetch, open, draft, calls, hint, typed, moved, tangled, acts, faults>>

Ahead == form \in {"order", "avatar"}         \* shown before it is stored
Single == form \in {"profile", "order", "avatar"}  \* always on the screen
Two == form \in {"role", "event", "clan", "game"}
FormFields == IF Two THEN Fields ELSE {"main"}
Seed == [f \in Fields |-> IF form = "avatar" \/ (form = "game" /\ f = "side") THEN None ELSE data[f]]

Contents == [Fields -> Values \cup {None}]
Rows == [main : Values \cup {None}, side : Values \cup {None}, rest : BOOLEAN]

\* What one call sends, then what the next one does; got: the answer; live: its
\* callbacks are called; before: what the cache had at the click.
Submissions ==
    [sent : SUBSET Fields, then : SUBSET Fields, values : Contents, stored : BOOLEAN,
     got : Rows \cup {None}, live : BOOLEAN, before : Values \cup {None}]
\* old: another name is in the field by now.
Questions == [name : Values \cup {None}, got : [taken : BOOLEAN] \cup {None}, old : BOOLEAN]

ASSUME ValuesAssumption == None \notin Values \cup Submissions \cup Questions

EditTypeOK ==
    /\ form \in Forms
    /\ saved \in Rows /\ data \in Rows /\ used \subseteq Values
    /\ fetch \in [got : Rows \cup {None}] \cup {None}
    /\ draft \in Contents /\ typed \subseteq Fields
    /\ calls \in [Mutations -> Submissions \cup {None}]
    /\ checks \in [Mutations -> Questions \cup {None}]
    /\ news \in [used : BOOLEAN, free : BOOLEAN]
    /\ {open, taken, timer, late, moved, tangled} \subseteq BOOLEAN
    /\ acts \in Nat /\ faults \in Nat

EditInit ==
    /\ form \in Forms
    /\ \E v \in Values : saved = [main |-> v, side |-> v, rest |-> FALSE]
    /\ used \in IF form = "profile" THEN SUBSET (Values \ {saved.main}) ELSE {{}}
    /\ data = saved /\ fetch = None
    /\ open = Single
    /\ draft = Seed
    /\ calls = [m \in Mutations |-> None]
    /\ taken = FALSE /\ timer = FALSE /\ checks = [m \in Mutations |-> None]
    /\ typed = {} /\ moved = FALSE /\ tangled = FALSE
    /\ news = [used |-> FALSE, free |-> FALSE] /\ late = FALSE
    /\ acts = 0 /\ faults = 0

InUse == used \cup {saved.main}
Heard == news' = [used |-> news.used \/ draft.main \in InUse', free |-> news.free \/ draft.main \notin InUse']

Pending == {m \in Mutations : calls[m] # None}

-----------------------------------------------------------------------------
(* The cache, and what follows it.                                         *)

\* Mutant: the effect does not begin with setTaken(false).
HintedOnly(v, current) ==
    IF form = "profile"
    THEN /\ taken' = taken /\ timer' = (v # current) /\ late' = FALSE
         /\ news' = [used |-> v \in InUse, free |-> v \notin InUse]
         /\ checks' = [m \in Mutations |-> IF checks[m] = None THEN None ELSE [checks[m] EXCEPT !.old = TRUE]]
    ELSE UNCHANGED hint

(* Another value in the field of the user name: no hint, and a check is due *)
(* in a moment, if it is not the present name.                             *)
Hinted(v, current) ==
    IF form = "profile"
    THEN /\ taken' = FALSE /\ timer' = (v # current) /\ late' = FALSE
         /\ news' = [used |-> v \in InUse, free |-> v \notin InUse]
         /\ checks' = [m \in Mutations |-> IF checks[m] = None THEN None ELSE [checks[m] EXCEPT !.old = TRUE]]
    ELSE UNCHANGED hint

\* Mutant: the effect that fills the event form does not depend on the event.
FollowsClanOnly(f, d) ==
    \/ form = "clan" /\ f = "main" /\ \E g \in Fields : d[g] # data[g]
    \/ form = "clan" /\ f = "side" /\ d.side # data.side
    \/ form \in {"profile", "order"} /\ f = "main" /\ d.main # data.main

(* The fields that are set anew when the cache changes to d: event and clan *)
(* compare the whole, policy, names and order their own value, a role, a    *)
(* game and a picture nothing.                                             *)
Follows(f, d) ==
    \/ form = "event" /\ open /\ d # data
    \/ form = "clan" /\ f = "main" /\ \E g \in Fields : d[g] # data[g]
    \/ form = "clan" /\ f = "side" /\ d.side # data.side
    \/ form \in {"profile", "order"} /\ f = "main" /\ d.main # data.main

Reset(d) == {f \in Fields : Follows(f, d)}

Learn(d) ==
    /\ data' = d
    /\ draft' = [f \in Fields |-> IF f \in Reset(d) THEN d[f] ELSE draft[f]]
    /\ typed' = typed \ Reset(d)
    /\ moved' = (moved \/ \E f \in FormFields \ typed : form \in {"role", "game"} /\ open /\ d[f] # data[f])
    /\ IF d.main = data.main THEN UNCHANGED hint ELSE Hinted(d.main, d.main)

(* What is shown ahead, and what the cache has, part when                  *)
(*   - another picture than the one picked is fetched: it stays hidden;    *)
(*   - the answer is not what was sent, as somebody else came in between,  *)
(*     and, for an order, the cache had it already: nothing follows it;    *)
(*   - the last drag fails, and the order it puts back is older than what  *)
(*     an earlier drag or a fetch has brought.                             *)
HiddenBy(d) == IF d.main = data.main THEN tangled ELSE form = "avatar" /\ draft.main \notin {None, d.main}
ContradictedBy(c) ==
    CASE form = "order" -> c.got.main = data.main /\ (tangled \/ (c.live /\ c.got.main # c.values.main))
      [] form = "avatar" -> c.got.main # c.values.main
      [] OTHER -> FALSE
OutdatedBy(c) ==
    CASE form = "order" /\ c.live -> c.before # data.main
      [] form = "avatar" /\ c.values.main # None -> FALSE
      [] OTHER -> tangled

(* Old, invalidated, or the connection is back. *)
Refetch ==
    /\ fetch = None /\ Act
    /\ fetch' = [got |-> None]
    /\ UNCHANGED <<form, server, data, open, draft, calls, hint, typed, moved, tangled, faults>>

Read ==
    /\ fetch # None /\ fetch.got = None
    /\ fetch' = [got |-> saved]
    /\ UNCHANGED <<form, server, data, open, draft, calls, hint, typed, moved, tangled, acts, faults>>

FetchArrives ==
    /\ fetch # None /\ fetch.got # None
    /\ fetch' = None
    /\ Learn(fetch.got)
    /\ tangled' = HiddenBy(fetch.got)
    /\ UNCHANGED <<form, server, open, calls, acts, faults>>

-----------------------------------------------------------------------------
(* The user.                                                               *)

(* A role is selected, a game is clicked: the component is mounted.  The   *)
(* clan's settings stay mounted; only the policy is set.                   *)
Open ==
    /\ ~open /\ Act
    /\ open' = TRUE
    /\ draft' = IF form = "clan" THEN [draft EXCEPT !.side = data.side] ELSE Seed
    /\ typed' = IF form = "clan" THEN typed \ {"side"} ELSE {}
    /\ moved' = FALSE
    /\ UNCHANGED <<form, server, data, fetch, calls, hint, tangled, faults>>

(* The callbacks of a mutation go with its component, but for those that   *)
(* stay mounted.                                                           *)
Orphaned == [m \in Mutations |-> IF calls[m] = None THEN None ELSE [calls[m] EXCEPT !.live = FALSE]]

Close ==
    /\ open /\ ~Single /\ Act
    /\ open' = FALSE
    /\ calls' = IF form \in {"role", "game"} THEN Orphaned ELSE calls
    /\ UNCHANGED <<form, server, data, fetch, draft, hint, typed, moved, tangled, faults>>

Type(f, v) ==
    /\ open /\ ~Ahead /\ f \in FormFields /\ v # draft[f] /\ Act
    /\ draft' = [draft EXCEPT ![f] = v]
    /\ typed' = typed \cup {f}
    /\ Hinted(v, data.main)
    /\ UNCHANGED <<form, server, data, fetch, open, calls, moved, tangled, faults>>

(* What is sent: a role's changes, its name and colour first; all fields of *)
(* an event or a clan; a game's name, and its icon if one was picked.      *)
Dirty == {f \in FormFields : draft[f] # data[f]}
Payload ==
    CASE form = "role" -> <<Dirty \cap {"main"}, Dirty \cap {"side"}>>
      [] form = "game" -> <<FormFields \ (IF draft.side = None THEN {"side"} ELSE {}), {}>>
      [] form = "profile" -> <<Dirty, {}>>
      [] OTHER -> <<FormFields, {}>>

Call(first, second, values) ==
    [sent |-> IF first = {} THEN second ELSE first, then |-> IF first = {} THEN {} ELSE second,
     values |-> values, stored |-> FALSE, got |-> None, live |-> TRUE, before |-> data.main]

(* A button is disabled while its request is in flight; Enter is not.  The *)
(* callbacks of a click count for the last one only.                       *)
Save(m) ==
    /\ open /\ ~Ahead /\ calls[m] = None /\ Act
    /\ form \in {"role", "profile"} => Dirty # {} /\ \A n \in Pending : ~calls[n].live
    /\ ~taken
    /\ calls' = [Orphaned EXCEPT ![m] = Call(Payload[1], Payload[2], draft)]
    /\ UNCHANGED <<form, server, data, fetch, open, draft, hint, typed, moved, tangled, faults>>

Drag(m, v) ==
    /\ form = "order" /\ calls[m] = None /\ v # draft.main /\ Act
    /\ draft' = [draft EXCEPT !.main = v]
    /\ calls' = [Orphaned EXCEPT ![m] = Call({"main"}, {}, draft')]
    /\ tangled' = FALSE
    /\ UNCHANGED <<form, server, data, fetch, open, hint, typed, moved, faults>>

(* Picked, or removed: then the picture goes when the server has answered. *)
Pick(m, v) ==
    /\ form = "avatar" /\ Pending = {} /\ calls[m] = None /\ Act
    /\ v = None => data.main # None
    /\ draft' = IF v = None THEN draft ELSE [draft EXCEPT !.main = v]
    /\ calls' = [calls EXCEPT ![m] = Call({"main"}, {}, [draft EXCEPT !.main = v])]
    /\ tangled' = (v = None /\ tangled)
    /\ UNCHANGED <<form, server, data, fetch, open, hint, typed, moved, faults>>

-----------------------------------------------------------------------------
(* The requests.                                                           *)

Store(m) ==
    /\ calls[m] # None /\ ~calls[m].stored
    /\ saved' = [f \in DOMAIN saved |-> IF f \in calls[m].sent THEN calls[m].values[f] ELSE saved[f]]
    /\ form = "profile" => saved'.main \notin used
    /\ calls' = [calls EXCEPT ![m].stored = TRUE]
    /\ UNCHANGED <<form, used, data, fetch, open, draft, taken, timer, checks, late, typed, moved, tangled, acts, faults>>
    /\ Heard

Answer(m) ==
    /\ calls[m] # None /\ calls[m].stored /\ calls[m].got = None
    /\ calls' = [calls EXCEPT ![m].got = saved]
    /\ UNCHANGED <<form, server, data, fetch, open, draft, hint, typed, moved, tangled, acts, faults>>

(* The answer is written into the cache.  A role's grants go next; the     *)
(* modals close.                                                           *)
Succeeds(m) ==
    LET c == calls[m] IN
    /\ c # None /\ c.got # None
    /\ c.values.main # None
    /\ Learn(c.got)
    /\ tangled' = ContradictedBy(c)
    /\ calls' = [calls EXCEPT ![m] = IF c.then = {} THEN None
                                     ELSE [c EXCEPT !.sent = c.then, !.then = {}, !.stored = FALSE, !.got = None]]
    /\ open' = (open /\ ~(c.live /\ form \in {"event", "clan", "game"}))
    /\ UNCHANGED <<form, server, fetch, acts, faults>>

Removed(m) ==
    LET c == calls[m] IN
    /\ c # None /\ c.got # None
    /\ c.values.main = None
    /\ data' = c.got
    /\ draft' = [draft EXCEPT !.main = None]
    /\ calls' = [calls EXCEPT ![m] = None]
    /\ tangled' = FALSE
    /\ UNCHANGED <<form, server, fetch, open, hint, typed, moved, acts, faults>>

\* Mutant: the order stays as it was dragged.
KeptOnError(c) == draft

(* onError of the last drag and of an upload. *)
PutBack(c) ==
    CASE form = "order" /\ c.live -> [draft EXCEPT !.main = c.before]
      [] form = "avatar" /\ c.values.main # None -> [draft EXCEPT !.main = None]
      [] OTHER -> draft

(* Refused, or the request or its answer is lost: what is to follow is not *)
(* sent.                                                                   *)
Fails(m) ==
    /\ calls[m] # None
    /\ \/ Fault
       \/ form = "profile" /\ ~calls[m].stored /\ calls[m].values.main \in used /\ UNCHANGED faults
    /\ draft' = PutBack(calls[m])
    /\ calls' = [calls EXCEPT ![m] = None]
    /\ tangled' = OutdatedBy(calls[m])
    /\ UNCHANGED <<form, server, data, fetch, open, hint, typed, moved, acts>>

FetchFails ==
    /\ fetch # None /\ Fault
    /\ fetch' = None
    /\ UNCHANGED <<form, server, data, open, draft, calls, hint, typed, moved, tangled, acts>>

-----------------------------------------------------------------------------
(* The hint.  A check that is under way is not called back when the value  *)
(* changes.                                                                *)

Check(m) ==
    /\ timer /\ checks[m] = None
    /\ timer' = FALSE
    /\ checks' = [checks EXCEPT ![m] = [name |-> draft.main, got |-> None, old |-> FALSE]]
    /\ UNCHANGED <<form, server, data, fetch, open, draft, calls, taken, news, late, typed, moved, tangled, acts, faults>>

IsUsernameAvailable(m) ==
    /\ checks[m] # None /\ checks[m].got = None
    /\ checks' = [checks EXCEPT ![m].got = [taken |-> checks[m].name \in InUse]]
    /\ UNCHANGED <<form, server, data, fetch, open, draft, calls, taken, timer, news, late, typed, moved, tangled, acts, faults>>

CheckArrives(m) ==
    /\ checks[m] # None /\ checks[m].got # None
    /\ taken' = checks[m].got.taken
    /\ late' = (late \/ checks[m].old)
    /\ checks' = [checks EXCEPT ![m] = None]
    /\ UNCHANGED <<form, server, data, fetch, open, draft, calls, timer, news, typed, moved, tangled, acts, faults>>

CheckFails(m) ==
    /\ checks[m] # None /\ Fault
    /\ taken' = FALSE /\ late' = TRUE
    /\ checks' = [checks EXCEPT ![m] = None]
    /\ UNCHANGED <<form, server, data, fetch, open, draft, calls, timer, news, typed, moved, tangled, acts>>

-----------------------------------------------------------------------------
(* Everybody else.                                                         *)

OthersChange(f, v) ==
    /\ f \in FormFields /\ v # saved[f] /\ Act
    /\ form = "profile" => v \notin used
    /\ saved' = [saved EXCEPT ![f] = v]
    /\ UNCHANGED <<form, used, data, fetch, open, draft, calls, taken, timer, checks, late, typed, moved, tangled, faults>>
    /\ Heard

(* Participants come and go; a link to a picture is signed anew. *)
OthersJoin ==
    /\ form = "event" /\ Act
    /\ saved' = [saved EXCEPT !.rest = ~@]
    /\ UNCHANGED <<form, used, data, fetch, open, draft, calls, hint, typed, moved, tangled, faults>>

OthersRename(v) ==
    /\ form = "profile" /\ v # saved.main /\ Act
    /\ used' = IF v \in used THEN used \ {v} ELSE used \cup {v}
    /\ UNCHANGED <<form, saved, data, fetch, open, draft, calls, taken, timer, checks, late, typed, moved, tangled, faults>>
    /\ Heard

EditNext ==
    \/ Refetch \/ Read \/ FetchArrives \/ FetchFails
    \/ Open \/ Close
    \/ \E f \in Fields, v \in Values : Type(f, v) \/ OthersChange(f, v)
    \/ \E m \in Mutations :
         \/ Save(m) \/ Store(m) \/ Answer(m) \/ Succeeds(m) \/ Removed(m) \/ Fails(m)
         \/ Check(m) \/ IsUsernameAvailable(m) \/ CheckArrives(m) \/ CheckFails(m)
         \/ \E v \in Values : Drag(m, v)
         \/ \E v \in Values \cup {None} : Pick(m, v)
    \/ OthersJoin
    \/ \E v \in Values : OthersRename(v)

EditSpec == EditInit /\ [][EditNext]_editVars

-----------------------------------------------------------------------------
Clicked(m) == calls[m] = None /\ calls'[m] # None

(* A save puts nothing back that the browser has been told: a field that   *)
(* the user has not touched is sent as the cache has it, or not at all.    *)
(* Only the editors of roles and games may send an older value, and only   *)
(* if the cache has changed while they were open.                          *)
SavesUndoNothingKnown ==
    [][\A m \in Mutations : Clicked(m) =>
        \A f \in calls'[m].sent \cup calls'[m].then :
            f \in typed' \/ Ahead \/ moved \/ calls'[m].values[f] = data[f]]_editVars

(* What is shown before it is stored is right in the end: with nothing     *)
(* under way the order and the picture on the screen are those that the    *)
(* browser was told last, whatever drags and fetches overlapped and failed, *)
(* but for the three ways to part that are named above: in particular a    *)
(* drag that fails after an earlier one in flight with it succeeded puts   *)
(* back an order from before both (role-manager-modal.tsx 93-96), which    *)
(* stays until the next drag or change.                                    *)
PreviewsTellTheTruth ==
    Ahead /\ Pending = {} /\ ~tangled => draft.main \in {data.main} \cup (IF form = "avatar" THEN {None} ELSE {})

(* The hint, which blocks the save, is about the name shown: a name that   *)
(* is marked as taken has been in use since it was typed, and one that is  *)
(* not has been free, unless the answer about another name came late, or   *)
(* the check failed.                                                       *)
HintBelongsToTheName ==
    form = "profile" /\ ~late =>
        /\ taken => news.used
        /\ ~taken /\ ~timer /\ draft.main # data.main /\ (\A m \in Mutations : checks[m] = None) => news.free
=============================================================================
