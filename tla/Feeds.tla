-------------------------------- MODULE Feeds --------------------------------
(***************************************************************************)
(* The lists that come in pages, with the server's page queries and the    *)
(* client that puts the pages together:                                    *)
(*   "pager"   clans and events, one page on the screen; a page is cached  *)
(*             under the cursor it was asked for                           *)
(*   "log"     the audit log and all notifications, one list that grows by *)
(*             "load more"; its rows stay                                  *)
(*   "unread"  the same with notifications that leave it when they are     *)
(*             read, and their number on the bell                          *)
(* Rows are numbered in the order they are made, which their ids (cuid)    *)
(* follow as well as created_at.  A page is kept as the set of its rows.   *)
(***************************************************************************)
EXTENDS Client, Integers, FiniteSets, FiniteSetsExt, Sequences, SequencesExt

CONSTANTS
    Limit,      \* rows of a page
    MaxRows     \* bound: rows made

ASSUME PagesAssumption == Limit \in Nat \ {0} /\ MaxRows \in Nat

AllRows == 1 .. MaxRows
Keys == 0 .. MaxRows   \* a cursor; 0 for none

VARIABLES
    feed,    \* which list, for good
    made,    \* server: rows made so far
    gone,    \* server: rows deleted, or read
    chain,   \* the pages of an infinite query, put together
    job,     \* the fetch that runs for it
    mark,    \* markRead or markAllRead
    badge,   \* unreadCount, in the cache
    poll,    \* the fetch that runs for it
    stack,   \* cursors of the pages up to the one shown
    cached,  \* pages by cursor
    run,     \* the fetches that run for them
    seen     \* history: rows shown since the pager was opened

server == <<made, gone>>
infinite == <<chain, job>>
bell == <<badge, poll>>
pager == <<stack, cached, run, seen>>
feedVars == <<feed, server, open, infinite, mark, bell, pager, acts, faults>>

Answers == [items : SUBSET AllRows, next : Keys]
Chains == [shown : SUBSET AllRows, next : Keys, pages : Nat, torn : BOOLEAN]

FeedTypeOK ==
    /\ feed \in {"pager", "log", "unread"} /\ open \in BOOLEAN
    /\ made \in 0 .. MaxRows /\ gone \subseteq AllRows
    /\ chain \in Chains \cup {None}
    /\ job \in [more : BOOLEAN, want : Nat, got : Chains] \cup {None}
    /\ mark \in [rows : SUBSET AllRows, stored : BOOLEAN] \cup {None}
    /\ badge \in Nat \cup {None} /\ poll \in [got : Nat \cup {None}] \cup {None}
    /\ stack \in Seq(Keys) /\ seen \subseteq AllRows
    /\ cached \in [Keys -> Answers \cup {None}]
    /\ run \in [Keys -> [got : Answers \cup {None}] \cup {None}]
    /\ acts \in Nat /\ faults \in Nat

FeedInit ==
    /\ feed \in {"pager", "log", "unread"}
    /\ made \in 0 .. MaxRows /\ gone = {}
    /\ open = FALSE
    /\ chain = None /\ job = None /\ mark = None
    /\ badge = None /\ poll = None
    /\ stack = <<0>> /\ seen = {}
    /\ cached = [k \in Keys |-> None]
    /\ run = [k \in Keys |-> None]
    /\ acts = 0 /\ faults = 0

Sent == [got |-> None]

ASSUME SentAssumption == Sent # None

-----------------------------------------------------------------------------
(* The page queries.                                                       *)

Listed == (1 .. made) \ gone

\* Mutant: the next page begins after the row that is one too many.
PageAfterExtra(S) ==
    LET items == {r \in S : Cardinality({q \in S : q > r}) < Limit}
    IN  [items |-> items, next |-> IF items # S THEN Max(S \ items) ELSE 0]

(* limit + 1 rows are taken, the one too many is for hasMore only. *)
Page(S) ==
    LET items == {r \in S : Cardinality({q \in S : q > r}) < Limit}
    IN  [items |-> items, next |-> IF items # S THEN Min(items) ELSE 0]

(* where: id < cursor *)
Below(c) == IF c = 0 THEN Listed ELSE {r \in Listed : r < c}

(* cursor, skip: 1.  The rows from the cursor on, without the first of them, *)
(* which is the row of the cursor if it is still listed.                   *)
After(c) ==
    LET from == {r \in Listed : r <= c}
    IN  IF c = 0 THEN Listed ELSE from \ {r \in from : \A q \in from : q <= r}

-----------------------------------------------------------------------------
(* Infinite queries.  torn: a page was read after a cursor that had left   *)
(* the list.                                                               *)

Blank == [shown |-> {}, next |-> 0, pages |-> 0, torn |-> FALSE]

(* All pages from the first on, as many as there are; one more page. *)
Refetch == [more |-> FALSE, want |-> IF chain = None THEN 1 ELSE chain.pages, got |-> Blank]
FetchMore == [more |-> TRUE, want |-> chain.pages + 1, got |-> chain]

Complete(j) == j.got.pages = j.want \/ (j.got.pages > 0 /\ j.got.next = 0)

JoinedPages == IF job = None THEN Refetch ELSE job

ReadPage ==
    /\ job # None /\ ~Complete(job)
    /\ LET page == Page(After(job.got.next))
           c == job.got.next
       IN  job' = [job EXCEPT !.got =
                     [shown |-> @.shown \cup page.items, next |-> page.next, pages |-> @.pages + 1,
                      torn |-> @.torn \/ (c # 0 /\ c \notin Listed)]]
    /\ UNCHANGED <<feed, server, open, chain, mark, bell, pager, acts, faults>>

PagesArrive ==
    /\ job # None /\ Complete(job)
    /\ chain' = job.got /\ job' = None
    /\ UNCHANGED <<feed, server, open, mark, bell, pager, acts, faults>>

ChainFails ==
    /\ job # None /\ Fault
    /\ job' = None
    /\ UNCHANGED <<feed, server, open, chain, mark, bell, pager, acts>>

(* The button "load more"; a refetch that runs is cancelled for it. *)
FetchNextPage ==
    /\ open /\ chain # None /\ Act
    /\ chain.next # 0
    /\ job # None => ~job.more
    /\ job' = FetchMore
    /\ UNCHANGED <<feed, server, open, chain, mark, bell, pager, faults>>

(* Mounted: fetched if there is nothing, or if it is invalidated or old,   *)
(* which may be at any time.                                               *)
OpenList ==
    /\ ~open /\ feed # "pager"
    /\ open' = TRUE
    /\ \/ job' = JoinedPages
       \/ chain # None /\ UNCHANGED job
    /\ UNCHANGED <<feed, server, chain, mark, bell, pager, acts, faults>>

CloseList ==
    /\ open /\ feed # "pager"
    /\ open' = FALSE
    /\ UNCHANGED <<feed, server, infinite, mark, bell, pager, acts, faults>>

(* The connection is back. *)
ReconnectList ==
    /\ open /\ job = None /\ feed # "pager" /\ Act
    /\ job' = Refetch
    /\ UNCHANGED <<feed, server, open, chain, mark, bell, pager, faults>>

-----------------------------------------------------------------------------
(* Notifications: read marks and the number on the bell.                   *)

(* An entry of the list: it closes the bell. *)
MarkRead(r) ==
    /\ feed = "unread" /\ open /\ mark = None /\ Act
    /\ chain # None /\ r \in chain.shown
    /\ mark' = [rows |-> {r}, stored |-> FALSE]
    /\ open' = FALSE
    /\ UNCHANGED <<feed, server, infinite, bell, pager, faults>>

MarkAllRead ==
    /\ feed = "unread" /\ open /\ mark = None /\ Act
    /\ badge \notin {None, 0}
    /\ mark' = [rows |-> {}, stored |-> FALSE]
    /\ UNCHANGED <<feed, server, open, infinite, bell, pager, faults>>

Marked == IF mark.rows = {} THEN Listed ELSE mark.rows

MarkStored ==
    /\ mark # None /\ ~mark.stored
    /\ gone' = gone \cup Marked
    /\ mark' = [mark EXCEPT !.stored = TRUE]
    /\ UNCHANGED <<feed, made, open, infinite, bell, pager, acts, faults>>

(* onSuccess: the list, if it is mounted, and the number are fetched again. *)
MarkAnswered ==
    /\ mark # None /\ mark.stored
    /\ mark' = None
    /\ job' = IF ~open THEN job ELSE IF chain # None THEN Refetch ELSE JoinedPages
    /\ poll' = IF badge # None \/ poll = None THEN Sent ELSE poll
    /\ UNCHANGED <<feed, server, open, chain, badge, pager, acts, faults>>

(* The request or its answer is lost. *)
MarkFails ==
    /\ mark # None /\ Fault
    /\ mark' = None
    /\ gone' \in {gone, IF mark.stored THEN gone ELSE gone \cup Marked}
    /\ UNCHANGED <<feed, made, open, infinite, bell, pager, acts>>

\* Mutant: the number is fetched when something is marked, only.
PollOnce ==
    /\ feed = "unread" /\ poll = None /\ badge = None
    /\ poll' = Sent
    /\ UNCHANGED <<feed, server, open, infinite, mark, badge, pager, acts, faults>>

(* refetchInterval *)
Poll ==
    /\ feed = "unread" /\ poll = None
    /\ poll' = Sent
    /\ UNCHANGED <<feed, server, open, infinite, mark, badge, pager, acts, faults>>

UnreadCount ==
    /\ poll = Sent
    /\ poll' = [got |-> Cardinality(Listed)]
    /\ UNCHANGED <<feed, server, open, infinite, mark, badge, pager, acts, faults>>

CountArrives ==
    /\ poll \notin {None, Sent}
    /\ badge' = poll.got /\ poll' = None
    /\ UNCHANGED <<feed, server, open, infinite, mark, pager, acts, faults>>

PollFails ==
    /\ poll # None /\ Fault
    /\ poll' = None
    /\ UNCHANGED <<feed, server, open, infinite, mark, badge, pager, acts>>

-----------------------------------------------------------------------------
(* The pager.                                                              *)

Cursor == Last(stack)

(* The page under a cursor is shown, and fetched if it is missing,         *)
(* invalidated or old.                                                     *)
ShowPage(s) ==
    LET k == Last(s) IN
    /\ stack' = s
    /\ seen' = IF cached[k] = None THEN seen ELSE seen \cup cached[k].items
    /\ \/ run' = [run EXCEPT ![k] = IF @ = None THEN Sent ELSE @]
       \/ cached[k] # None /\ UNCHANGED run

OpenPager ==
    /\ ~open /\ feed = "pager"
    /\ open' = TRUE
    /\ ShowPage(<<0>>)
    /\ UNCHANGED <<feed, server, infinite, mark, bell, cached, acts, faults>>

(* The stack is the state of the page component. *)
LeavePager ==
    /\ open /\ feed = "pager" /\ Act
    /\ open' = FALSE /\ stack' = <<0>> /\ seen' = {}
    /\ UNCHANGED <<feed, server, infinite, mark, bell, cached, run, faults>>

goNext ==
    /\ open /\ feed = "pager"
    /\ cached[Cursor] # None /\ cached[Cursor].next # 0
    /\ ShowPage(Append(stack, cached[Cursor].next))
    /\ UNCHANGED <<feed, server, open, infinite, mark, bell, cached, acts, faults>>

goPrev ==
    /\ open /\ Len(stack) > 1 /\ Act
    /\ ShowPage(Front(stack))
    /\ UNCHANGED <<feed, server, open, infinite, mark, bell, cached, faults>>

(* The connection is back, or a mutation has invalidated the lists. *)
RefetchPage ==
    /\ open /\ feed = "pager" /\ run[Cursor] = None /\ Act
    /\ run' = [run EXCEPT ![Cursor] = Sent]
    /\ UNCHANGED <<feed, server, open, infinite, mark, bell, stack, cached, seen, faults>>

List(k) ==
    /\ run[k] = Sent
    /\ run' = [run EXCEPT ![k].got = Page(Below(k))]
    /\ UNCHANGED <<feed, server, open, infinite, mark, bell, stack, cached, seen, acts, faults>>

PageArrives(k) ==
    /\ run[k] \notin {None, Sent}
    /\ cached' = [cached EXCEPT ![k] = run[k].got]
    /\ run' = [run EXCEPT ![k] = None]
    /\ seen' = IF open /\ k = Cursor THEN seen \cup run[k].got.items ELSE seen
    /\ UNCHANGED <<feed, server, open, infinite, mark, bell, stack, acts, faults>>

PageFails(k) ==
    /\ run[k] # None /\ Fault
    /\ run' = [run EXCEPT ![k] = None]
    /\ UNCHANGED <<feed, server, open, infinite, mark, bell, stack, cached, seen, acts>>

-----------------------------------------------------------------------------
(* Everybody else.                                                         *)

(* The order of ids, of created_at and of the commits are one here.  Lists *)
(* of clans and events go by created_at and are cut by id                  *)
(* (clans.service 75-76), so two rows made at once may be apart in these.  *)
RowMade ==
    /\ made < MaxRows /\ Act
    /\ made' = made + 1
    /\ UNCHANGED <<feed, gone, open, infinite, mark, bell, pager, faults>>

(* A clan or an event is deleted, a notification read on another device. *)
RowGoes(r) ==
    /\ feed # "log" /\ r \in Listed /\ Act
    /\ gone' = gone \cup {r}
    /\ UNCHANGED <<feed, made, open, infinite, mark, bell, pager, faults>>

FeedNext ==
    \/ ReadPage \/ PagesArrive \/ ChainFails \/ FetchNextPage
    \/ OpenList \/ CloseList \/ ReconnectList
    \/ \E r \in AllRows : MarkRead(r) \/ RowGoes(r)
    \/ MarkAllRead \/ MarkStored \/ MarkAnswered \/ MarkFails
    \/ Poll \/ UnreadCount \/ CountArrives \/ PollFails
    \/ OpenPager \/ LeavePager \/ goNext \/ goPrev \/ RefetchPage
    \/ \E k \in Keys : List(k) \/ PageArrives(k) \/ PageFails(k)
    \/ RowMade

(* The interval goes on, and requests are answered or fail. *)
Fairness == WF_feedVars(Poll) /\ WF_feedVars(UnreadCount) /\ WF_feedVars(CountArrives)

FeedSpec == FeedInit /\ [][FeedNext]_feedVars /\ Fairness

-----------------------------------------------------------------------------
Seamless(S, low) == \A r \in Listed : r > low /\ (\E s \in S : r < s) => r \in S

(* Nothing is skipped.  "Load more" joins the pages without a seam: from   *)
(* the newest row shown to the last cursor no row is missing, whatever is  *)
(* added, read, fetched again or lost meanwhile, and at the end there is   *)
(* nothing left, unless the row of a cursor had been read when the page    *)
(* after it was.  Whoever pages to a later page has seen every row on the  *)
(* way, though each page is cached for itself and of another age.          *)
NothingIsSkipped ==
    /\ chain # None /\ ~chain.torn => Seamless(chain.shown, IF chain.next = 0 THEN 0 ELSE chain.next - 1)
    /\ feed = "pager" /\ open =>
         /\ Cursor # 0 => Seamless(seen, Cursor - 1)
         /\ cached[Cursor] # None /\ cached[Cursor].next = 0 => Seamless(seen, 0)

(* The number on the bell is right in the end, once nothing is added and   *)
(* marked any more, though requests fail and their answers cross.          *)
BadgeCatchesUp == feed = "unread" => <>[](badge = Cardinality(Listed))
=============================================================================
