-------------------------- MODULE ClanContextCache --------------------------
(***************************************************************************)
(* The authorisation context of one clan: how ClanContextGuard obtains it  *)
(* (Redis entry under a version, loads shared inside a process), how the   *)
(* RLS extension invalidates it (one INCR of the version per request,      *)
(* after its first write), and how long a change can stay unseen.          *)
(*                                                                         *)
(* The tables a context is computed from are abstracted to the number of   *)
(* writes they have seen: a context is the number of writes its query saw, *)
(* so it is stale while that number is below `writes'.                     *)
(***************************************************************************)
EXTENDS Null, Naturals

CONSTANTS
    Users,
    Procs,            \* API processes: each has its own map of running loads
    Requests,         \* slots for requests below /clans/:clanId
    ProcOf, UserOf,   \* where a request runs and for whom
    HandlerWrites,    \* statements a handler may send to the context tables
    SystemWriters,    \* TRUE: join, redeem and the admin mode write too
    MaxWrites,        \* bound: writes to the tables
    MaxFaults,        \* bound: processes that die, INCRs that fail
    NotFound

ASSUME WiringAssumption ==
    /\ ProcOf \in [Requests -> Procs]
    /\ UserOf \in [Requests -> Users]
ASSUME BoundsAssumption ==
    /\ HandlerWrites \in Nat
    /\ SystemWriters \in BOOLEAN
    /\ MaxWrites \in Nat
    /\ MaxFaults \in Nat
ASSUME NoneAssumption ==
    /\ None \notin Requests \cup Nat \cup [ver : Nat, ctx : Nat]
    /\ NotFound \notin Nat \cup {None}

VARIABLES
    writes,   \* writes committed to Clan, ClanMember, ClanRoleDef, ...
    deleted,  \* Clan.deleted_at is set
    version,  \* clan-ctx-ver:<clan>
    covered,  \* history: writes committed when version was last incremented
    missed,   \* history: one since then that no request will bump for
    entry,    \* clan-ctx:<clan>:<user>
    inflight, \* per process and user: the request whose load is running
    pc,
    verSeen,  \* the version a request's MGET returned
    ctx,      \* the context a request has got
    left,     \* statements its handler still has to send
    bumped,   \* store.bumpedClans has the clan
    since,    \* history: covered at the MGET that a request's context rests on
    faults

tables == <<writes, deleted>>
redis == <<version, entry>>
vars == <<writes, deleted, version, covered, missed, entry, inflight, pc, verSeen,
          ctx, left, bumped, since, faults>>

PCs == {"idle", "asked", "query", "store", "finish", "joined", "handle", "bump"}
Contexts == Nat \cup {None, NotFound}

TypeOK ==
    /\ writes \in Nat
    /\ deleted \in BOOLEAN
    /\ version \in Nat
    /\ covered \in Nat
    /\ missed \in BOOLEAN
    /\ entry \in [Users -> [ver : Nat, ctx : Nat] \cup {None}]
    /\ inflight \in [Procs \X Users -> Requests \cup {None}]
    /\ pc \in [Requests -> PCs]
    /\ verSeen \in [Requests -> Nat]
    /\ ctx \in [Requests -> Contexts]
    /\ left \in [Requests -> 0..HandlerWrites]
    /\ bumped \in [Requests -> BOOLEAN]
    /\ since \in [Requests -> Nat]
    /\ faults \in 0..MaxFaults

Init ==
    /\ writes = 0
    /\ deleted = FALSE
    /\ version = 0
    /\ covered = 0
    /\ missed = FALSE
    /\ entry = [u \in Users |-> None]
    /\ inflight = [k \in Procs \X Users |-> None]
    /\ pc = [r \in Requests |-> "idle"]
    /\ verSeen = [r \in Requests |-> 0]
    /\ ctx = [r \in Requests |-> None]
    /\ left = [r \in Requests |-> 0]
    /\ bumped = [r \in Requests |-> FALSE]
    /\ since = [r \in Requests |-> 0]
    /\ faults = 0

KeyOf(r) == <<ProcOf[r], UserOf[r]>>

\* An entry counts only under the version it was loaded for.
Hit(u) == entry[u] # None /\ entry[u].ver = version

\* The requests that wait for the load of r, r included.
Sharing(r) == {r} \cup {q \in Requests : pc[q] = "joined" /\ KeyOf(q) = KeyOf(r)}

\* The requests of S are over; the others keep their locals.
Finished(S) ==
    /\ pc' = [q \in Requests |-> IF q \in S THEN "idle" ELSE pc[q]]
    /\ verSeen' = [q \in Requests |-> IF q \in S THEN 0 ELSE verSeen[q]]
    /\ ctx' = [q \in Requests |-> IF q \in S THEN None ELSE ctx[q]]
    /\ left' = [q \in Requests |-> IF q \in S THEN 0 ELSE left[q]]
    /\ bumped' = [q \in Requests |-> IF q \in S THEN FALSE ELSE bumped[q]]
    /\ since' = [q \in Requests |-> IF q \in S THEN 0 ELSE since[q]]

(***************************************************************************)
(* getClanContext                                                          *)
(***************************************************************************)
\* Redis answers the MGET of the version and the entry.
Ask(r) ==
    /\ pc[r] = "idle"
    /\ pc' = [pc EXCEPT ![r] = "asked"]
    /\ verSeen' = [verSeen EXCEPT ![r] = version]
    /\ ctx' = [ctx EXCEPT ![r] = IF Hit(UserOf[r]) THEN entry[UserOf[r]].ctx ELSE None]
    /\ since' = [since EXCEPT ![r] = covered]
    /\ UNCHANGED <<tables, redis, covered, missed, inflight, left, bumped, faults>>

\* The guard passes; the handler will send n statements to the tables.
Admit(r, n) ==
    /\ pc[r] = "asked"
    /\ ctx[r] # None
    /\ pc' = [pc EXCEPT ![r] = "handle"]
    /\ left' = [left EXCEPT ![r] = n]
    /\ UNCHANGED <<tables, redis, covered, missed, inflight, verSeen, ctx, bumped, since, faults>>

\* A miss without a running load for the user in this process starts one.
StartLoad(r) ==
    /\ pc[r] = "asked"
    /\ ctx[r] = None
    /\ inflight[KeyOf(r)] = None
    /\ inflight' = [inflight EXCEPT ![KeyOf(r)] = r]
    /\ pc' = [pc EXCEPT ![r] = "query"]
    /\ UNCHANGED <<tables, redis, covered, missed, verSeen, ctx, left, bumped, since, faults>>

\* A miss that finds a running load waits for it, whatever version it is for.
JoinLoad(r) ==
    /\ pc[r] = "asked"
    /\ ctx[r] = None
    /\ inflight[KeyOf(r)] # None
    /\ pc' = [pc EXCEPT ![r] = "joined"]
    /\ since' = [since EXCEPT ![r] = since[inflight[KeyOf(r)]]]
    /\ UNCHANGED <<tables, redis, covered, missed, inflight, verSeen, ctx, left, bumped, faults>>

\* loadCtx.  Prisma makes several SELECTs of the nested include; they are taken as one
\* read here, so a context that mixes the tables before and after a write is not seen.
Query(r) ==
    /\ pc[r] = "query"
    /\ ctx' = [ctx EXCEPT ![r] = IF deleted THEN NotFound ELSE writes]
    /\ pc' = [pc EXCEPT ![r] = "store"]
    /\ UNCHANGED <<tables, redis, covered, missed, inflight, verSeen, left, bumped, since, faults>>

\* Mutant: the entry is stamped with the version at the time of the SET.
StoreUnderCurrentVersion(r) ==
    /\ pc[r] = "store"
    /\ pc' = [pc EXCEPT ![r] = "finish"]
    /\ entry' = IF ctx[r] = NotFound THEN entry
                ELSE [entry EXCEPT ![UserOf[r]] = [ver |-> version, ctx |-> ctx[r]]]
    /\ UNCHANGED <<tables, version, covered, missed, inflight, verSeen, ctx, left, bumped, since, faults>>

\* cache.set under the version of the MGET; a clan that is gone is not cached.
Store(r) ==
    /\ pc[r] = "store"
    /\ pc' = [pc EXCEPT ![r] = "finish"]
    /\ entry' = IF ctx[r] = NotFound THEN entry
                ELSE [entry EXCEPT ![UserOf[r]] = [ver |-> verSeen[r], ctx |-> ctx[r]]]
    /\ UNCHANGED <<tables, version, covered, missed, inflight, verSeen, ctx, left, bumped, since, faults>>

\* The load's promise settles: everyone who waits for it goes on with its
\* context, or with a 404.
Finish(r) ==
    /\ pc[r] = "finish"
    /\ inflight' = [inflight EXCEPT ![KeyOf(r)] = None]
    /\ IF ctx[r] = NotFound
       THEN Finished(Sharing(r))
       ELSE /\ pc' = [q \in Requests |-> IF q \in Sharing(r) THEN "asked" ELSE pc[q]]
            /\ ctx' = [q \in Requests |-> IF q \in Sharing(r) THEN ctx[r] ELSE ctx[q]]
            /\ UNCHANGED <<verSeen, left, bumped, since>>
    /\ UNCHANGED <<tables, redis, covered, missed, faults>>

\* The query or the SET fails: everyone who waits gets the error.
LoadFails(r) ==
    /\ pc[r] \in {"query", "store"}
    /\ inflight' = [inflight EXCEPT ![KeyOf(r)] = None]
    /\ Finished(Sharing(r))
    /\ UNCHANGED <<tables, redis, covered, missed, faults>>

\* The guard rejects (no member, no grant).
Reject(r) ==
    /\ pc[r] = "asked"
    /\ ctx[r] # None
    /\ Finished({r})
    /\ UNCHANGED <<tables, redis, covered, missed, inflight, faults>>

(***************************************************************************)
(* The handler: each statement goes through the RLS extension, which bumps *)
(* after the first write of the request and returns only then.             *)
(***************************************************************************)
Commit(del) ==
    /\ writes < MaxWrites
    /\ writes' = writes + 1
    /\ deleted' = (deleted \/ del)

\* Mutant: the version is incremented before the first statement is sent.
WriteAfterBump(r, del) ==
    /\ pc[r] = "handle"
    /\ left[r] > 0
    /\ Commit(del)
    /\ left' = [left EXCEPT ![r] = @ - 1]
    /\ version' = IF bumped[r] THEN version ELSE version + 1
    /\ covered' = IF bumped[r] THEN covered ELSE writes
    /\ missed' = bumped[r]
    /\ bumped' = [bumped EXCEPT ![r] = TRUE]
    /\ UNCHANGED <<entry, inflight, pc, verSeen, ctx, since, faults>>

Write(r, del) ==
    /\ pc[r] = "handle"
    /\ left[r] > 0
    /\ Commit(del)
    /\ left' = [left EXCEPT ![r] = @ - 1]
    /\ pc' = [pc EXCEPT ![r] = IF bumped[r] THEN "handle" ELSE "bump"]
    /\ missed' = (missed \/ bumped[r])
    /\ UNCHANGED <<redis, covered, inflight, verSeen, ctx, bumped, since, faults>>

Bump(r) ==
    /\ pc[r] = "bump"
    /\ version' = version + 1
    /\ covered' = writes
    /\ missed' = FALSE
    /\ bumped' = [bumped EXCEPT ![r] = TRUE]
    /\ pc' = [pc EXCEPT ![r] = "handle"]
    /\ UNCHANGED <<tables, entry, inflight, verSeen, ctx, left, since, faults>>

\* A statement of the handler fails: the error ends the request.
StatementFails(r) ==
    /\ pc[r] = "handle"
    /\ left[r] > 0
    /\ Finished({r})
    /\ UNCHANGED <<tables, redis, covered, missed, inflight, faults>>

\* The INCR fails: the request ends with the error, its write stays.
BumpFails(r) ==
    /\ pc[r] = "bump"
    /\ faults < MaxFaults
    /\ faults' = faults + 1
    /\ missed' = (missed \/ writes > covered)
    /\ Finished({r})
    /\ UNCHANGED <<tables, redis, covered, inflight>>

Answer(r) ==
    /\ pc[r] = "handle"
    /\ left[r] = 0
    /\ Finished({r})
    /\ UNCHANGED <<tables, redis, covered, missed, inflight, faults>>

\* Statements under runSystem, in admin mode or outside a request pass the
\* extension untouched: nothing is bumped.
SystemWrite ==
    /\ SystemWriters
    /\ Commit(FALSE)
    /\ missed' = TRUE
    /\ UNCHANGED <<redis, covered, inflight, pc, verSeen, ctx, left, bumped, since, faults>>

\* Mutant: entries are stored without a time to live.
NeverExpires(u) == FALSE /\ UNCHANGED vars

\* The entry's time to live (CLAN_CTX_TTL) is over.
Expire(u) ==
    /\ entry[u] # None
    /\ entry' = [entry EXCEPT ![u] = None]
    /\ UNCHANGED <<tables, version, covered, missed, inflight, pc, verSeen, ctx, left, bumped, since, faults>>

\* A process dies with its requests and its map of loads.
Crash(p) ==
    /\ faults < MaxFaults
    /\ faults' = faults + 1
    /\ inflight' = [k \in Procs \X Users |-> IF k[1] = p THEN None ELSE inflight[k]]
    /\ missed' = (missed \/ \E r \in Requests : ProcOf[r] = p /\ pc[r] = "bump")
    /\ Finished({r \in Requests : ProcOf[r] = p})
    /\ UNCHANGED <<tables, redis, covered>>

\* What a request in flight does next.
Step(r) ==
    \/ \E n \in 0..HandlerWrites : Admit(r, n)
    \/ StartLoad(r)
    \/ JoinLoad(r)
    \/ Query(r)
    \/ Store(r)
    \/ Finish(r)
    \/ LoadFails(r)
    \/ Reject(r)
    \/ \E del \in BOOLEAN : Write(r, del)
    \/ StatementFails(r)
    \/ Bump(r)
    \/ Answer(r)

Next ==
    \/ \E r \in Requests : Ask(r) \/ Step(r) \/ BumpFails(r)
    \/ SystemWrite
    \/ \E u \in Users : Expire(u)
    \/ \E p \in Procs : Crash(p)

Spec == Init /\ [][Next]_vars

\* Redis, the database and the event loop keep working; entries have a TTL.
FairSpec ==
    /\ Spec
    /\ \A r \in Requests : WF_vars(Step(r))
    /\ \A u \in Users : WF_vars(Expire(u))

-----------------------------------------------------------------------------
(***************************************************************************)
(* Properties                                                              *)
(***************************************************************************)

\* Why the version works: a load takes its version before it queries, so an
\* entry that counts was queried after the INCR it is stamped with, and holds
\* every write committed before that INCR (getClanContext 46-55).
HitsSeeBumpedWrites ==
    \A u \in Users : Hit(u) => entry[u].ctx >= covered

\* The context a handler runs with, be it from an entry, from a load of its
\* own or from one it joined, holds every write that had been bumped when the
\* MGET it rests on was answered.
ContextsSeeBumpedWrites ==
    \A r \in Requests :
        pc[r] \in {"handle", "bump"} => ctx[r] \in Nat /\ ctx[r] >= since[r]

\* One load at a time per process and user, and nobody waits for a load that
\* is not running (the inflight map, lines 20 and 50-57).
LoadsAreShared ==
    \A r \in Requests :
        /\ pc[r] \in {"query", "store", "finish"} => inflight[KeyOf(r)] = r
        /\ pc[r] = "joined" =>
             \E q \in Requests :
                 /\ inflight[KeyOf(r)] = q
                 /\ KeyOf(q) = KeyOf(r)
                 /\ pc[q] \in {"query", "store", "finish"}

\* A committed write that later requests may miss, because no version covers
\* it, is by a request that will bump next, or was missed since the last bump
\* in one of three ways: a further statement of a request that had bumped
\* (bumpCtx 108-115 bumps once), a system write, or a bump that was lost.
UncoveredWritesAreBeingBumped ==
    writes > covered => missed \/ \E r \in Requests : pc[r] = "bump"

\* Whatever was missed, by a handler with several statements, by a system
\* write or by a crash, the time to live heals: after the last write, the
\* entries that count hold all writes, for good.
EntriesBecomeFresh == <>[](\A u \in Users : Hit(u) => entry[u].ctx = writes)
-----------------------------------------------------------------------------
(***************************************************************************)
(* The inductive invariant behind the safety properties.                   *)
(***************************************************************************)
Loading == {"query", "store", "finish"}

\* Nothing is ahead of the tables or of the version.
Monotone ==
    /\ covered <= writes
    /\ \A u \in Users : entry[u] # None => entry[u].ver <= version
    /\ \A r \in Requests : verSeen[r] <= version /\ since[r] <= covered

\* The map of running loads holds running loads of its keys.
InflightIsLoading ==
    \A k \in Procs \X Users : inflight[k] # None =>
        KeyOf(inflight[k]) = k /\ pc[inflight[k]] \in Loading

\* A request that joined a load rests on the MGET of that load.
JoinersFollow ==
    \A r \in Requests : pc[r] = "joined" => since[r] = since[inflight[KeyOf(r)]]

\* What a context holds at each point of its way to the handler.
ContextsAreSound ==
    \A r \in Requests :
        /\ pc[r] = "asked" => ctx[r] = None \/ (ctx[r] \in Nat /\ ctx[r] >= since[r])
        /\ pc[r] \in {"store", "finish"} =>
             \/ ctx[r] = NotFound
             \/ /\ ctx[r] \in Nat
                /\ ctx[r] >= since[r]
                /\ verSeen[r] = version => ctx[r] >= covered

IInv ==
    /\ TypeOK
    /\ Monotone
    /\ HitsSeeBumpedWrites
    /\ InflightIsLoading
    /\ LoadsAreShared
    /\ JoinersFollow
    /\ ContextsAreSound
    /\ ContextsSeeBumpedWrites
=============================================================================
