# Snio: formal models and proofs

TLA+ models of what the Snio API and its web client do with their state, the TLC
configurations that check them on small instances, and TLAPS proofs of the
properties that matter most. Everything here is translated from the source under
`src/`; `PROJECT.json` maps every definition to the lines it stands for.

Snio is a platform for gaming clans: a NestJS API over PostgreSQL (Prisma) and
Redis, and a React client. Nothing in the repository tests the API, and what it
does is concurrent throughout: every handler is a sequence of `await`ed SQL
statements, each of which commits on its own unless the code says `$transaction`
(PostgreSQL's READ COMMITTED then), several API processes may run,
authorisation is decided once at the start of a request from a cached context,
and the client keeps the answers of the API for a minute.

## 1. Inventory

Paths are below `apps/api/src` unless they start with `apps/`.

| Component | State | Operations | Interacts with |
|---|---|---|---|
| Sessions and credentials (`modules/auth`, `common/auth`) | `RefreshToken`, `PasswordResetToken`, `EmailVerificationToken` rows, `User.password_hash`; a stateless access token | register, login, refresh with rotation, logout, verify, resend, forgot, reset | mail; the web client keeps the refresh cookie |
| Clan authorisation context (`common/rls/clan-context.*`) | Redis: a version per clan, an entry per clan and user; per process: the map of running loads | `getClanContext`, `bumpClanContext`, the guard | reads the clan tables; invalidated by the RLS extension |
| RLS extension (`common/rls`) | none; reads the request store | filters every query by the scope of its model, validates creates, bumps | wraps every Prisma call of every service |
| Request context (`common/context`) | one store per request: user, clan, grants, `system`, `adminMode`, `bumpedClans` | `runSystem`, `runAdmin` | guards write it, services and extension read it |
| Clans, roles, memberships (`modules/clans`) | `Clan`, `ClanMember`, `ClanRoleDef` with its position, `ClanRoleGrant`, `ClanMemberRole` | create, update, soft delete, join, leave, kick, assign, remove, create/update/delete/reorder roles, set grants | context (permissions), notifications, audit |
| Clan invites (`modules/clans/invite.*`) | `ClanInvite`: uses, limit, expiry, revocation, target | create link, create targeted, revoke, preview, redeem | `ClansService.admit` |
| Events, event invites (`modules/events`) | `Event`, `EventParticipation`, `EventInvite` | create, update, cancel, register, leave, approve, reject, invite, redeem | notifications, row filters |
| Users (`modules/users`) | `User`: name, discriminator, avatar, pending fields | change user name (cooldown), profile, avatar | storage |
| Notifications (`modules/notifications`) | `Notification`, `NotificationPreference` | emit, list, mark read, set preference | called by clans and events |
| Audit (`modules/audit`) | append-only `AuditLog` | write, page | called at the end of handlers |
| Organizations, games | rows, slugs | create, update, soft delete | admins, events |
| Web client session (`apps/web/src/lib/api.ts`, `features/auth`) | access token in memory, shared refresh promise, bootstrap flag | request, refresh on 401, login, logout | auth endpoints; several tabs share one cookie |
| Web pages (`apps/web/src/features/*/*.hooks.ts`) | the query cache of a tab | queries and mutations | every endpoint |
| Mail, storage, guards, pipes | none | — | outside services |

### What is hard, and what makes each part correct

* **Sessions.** Two tabs refresh with the same cookie; a handler dies between
  claim and insert; a replay is detected while a rotation is under way.
  Correct: per login at most one usable token; a rotation is all or nothing; an
  ended session never comes back; a replay or a reset ends all sessions of the
  account, and only of that account.
* **The client's half of it.** Calls that are refused at once, answers that get
  lost, tabs that come and go on one cookie. Correct: the client gives the
  server no reason to take a token for a stolen one; a logout is final; a live
  session is kept; no tab and no call hangs.
* **Clan context.** Entries are invalidated by a version, loads are shared, the
  version is read before the query and written after it, and it is bumped once
  per request after the first write. Correct: an entry that counts holds
  every write the version covers; a joined load is as fresh as its own MGET;
  what escapes the version is healed by the time to live; nobody waits for a
  load that is gone.
* **Roles.** A hierarchy by position, checked once and written in several
  statements; rights can be copied, assigned, reordered by members who hold only
  some of them. Correct: rights are spread, never made; the owner stays; a
  member acts below himself only; the positions stay a strict order; former
  members hold nothing; deleting a role leaves nobody without one.
* **Invites, participation.** A limit checked before and counted after the
  admission; targeted invites; revocation and cancellation racing redemption;
  events that are looked up by an id any manager may send. Correct: uses stay
  below the limit, who gets in was allowed to, only the organizer's clan changes
  an event, who takes part hears of its cancellation.
* **Accounts.** Unique indexes with retries, a cooldown tested on the row the
  guard has read, objects in a bucket beside rows in a database. Correct: no
  avatar loses its object, no user name changes before its time.
* **Row filters.** Every statement is rewritten by the clan of the request, but a
  relation to one row is followed as it is, and rows that join two others are created
  unchecked. Correct: what a handler is given and what it changes is of its clan.
* **Pages.** Answers of mutations and of fetches that overtake each other, and
  nothing that tells a tab of a change. Correct: a page at rest shows what the
  server holds; notifications follow their switches.
* **Lists in pages.** Pages of different age are joined by cursors to rows that
  may be gone. Correct: nothing is skipped; the number on the bell is right in the end.
* **Forms.** A draft beside a cache that moves. Correct: a save undoes nothing the
  page has learned and the user has not touched; what is shown before it is stored is
  right in the end; a hint is about the name in the field.
* **Offers.** The client decides what to offer from views and from computations of
  its own. Correct: what it offers is what the API accepts.

`PROJECT.json` lists the hazards at their lines, with the properties that cover
them and what the properties leave out.

## 2. Modules

| Module | What it is |
|---|---|
| `Null` | the value `None` that the modules share: null, a NULL column, no row, no call |
| `Client` | what the models of the screens share: what is on the screen, the budgets of acts and failures |
| `SessionContract` | abstract specification: what a user of the auth module may rely on |
| `RefreshSessions`, `RefreshSessions_proofs` | login, refresh, logout, password reset, statement by statement; invariants and the refinement of `SessionContract`; the proofs about `WebSession` |
| `WebSession` | tabs, interceptors, the shared refresh and its cookie, against the sessions of the server |
| `ClanContextCache`, `ClanContextCache_proofs` | the versioned cache in front of the clan tables |
| `ClanRoles`, `ClanRoles_proofs` | the handlers of `ClansService` on roles and memberships |
| `ClanOffers` | extends `ClanRoles`: what the clan's window and the role manager offer |
| `GrantCatalog` | the catalogue of grants, the seeded defaults, the rows of the grant editor |
| `ClanInvites`, `ClanInvites_proofs` | `InviteService` and the ways into a clan |
| `InviteOffers` | extends `ClanInvites`: what the pages of invites offer |
| `Events`, `Events_proofs` | `EventsService` and `EventInviteService` behind their guards and row filters |
| `EventOffers` | extends `Events`: what the pages of events and their invites offer |
| `Rls`, `Rls_proofs` | the Prisma extension under the statements of `ClansService`, for two clans |
| `Accounts`, `Accounts_proofs` | registration, verification, profiles, user names, avatars; the proofs are also about `Editors` |
| `Screens`, `Screens_proofs` | a page of the client with its cached list, mutations and notifications; the proofs are also about `Feeds` |
| `Feeds` | lists that come in pages, read marks, the number on the bell |
| `Editors` | seven forms, their drafts, saves and hints |
| `MC*` | instances for TLC: model values, symmetry, small tables |

The modules meet where the code has an interface of its own: `WebSession` takes a
call to the auth controller as one step, which `RefreshSessions` opens up;
`ClanRoles` runs under contexts of any age, and `ClanContextCache` says how old
they get; `ClanInvites` and `Events` take the rights of a member as given, which
`ClanRoles` moves; `Rls` keeps of the handlers what matters to two clans, the ids
they were given before they write. The `*Offers` modules put the client's
computations over the state of the server they extend.

Three proof modules extend two components each, so that a theorem can name the
properties of either; no theorem combines the two. `WebSession`, `Feeds` and `Editors`
therefore say `WebSpec`, `FeedInit`, `editVars` and the like where the others say
`Spec`, `Init` and `vars`.

### RefreshSessions

`owner`, `revoked`, `replacedBy`, `expired` are the columns of `RefreshToken`; a
token stands for its row, its hash and the client's string. A request is a slot
with a label (`pc`) and its local variables; one action is one SQL statement.
`refresh` reads the row (`RefreshReplayed`, `RefreshExpired`, `RefreshAccepted`
are its three answers), then either revokes by id (`RevokeExpired`), revokes all
rows of the user, or rotates: `RotateClaim` is the conditional `updateMany`
inside the transaction, `RotateCollide` its count of 0, `RotateCommit` the rest of
the transaction and its commit. A claimed row is locked until then (`Locked`).
The revoke-all `UPDATE` picks its rows when it starts (`RevokeAllStart`) and ends
when no row it picked is locked (`RevokeAllEnd`): that is what READ COMMITTED
gives a statement. `ResetStart`/`ResetCommit` are the batch transaction of a
password reset, which holds the user row. `Abort` kills a request anywhere; an
open transaction leaves nothing. `family` and `overlap` are history: the login a token
descends from, and whether two requests of several statements have ever been in
flight at once.

`SessionContract` has one variable per session: not opened, open, ended. The
refinement maps a session to a login; it is open while one token of the login's
family is usable. A rotation is then a stutter, and a session that comes back or
ends for the wrong account would be no step of the contract.

### WebSession

A tab has its access token, `authReady` and the promise of `refreshSession`; the
tabs share `cookie`. A call is sent, served (`Serve`, `ServeRefresh`: one step of
the auth controller or of a handler behind `AuthGuard`) and settled: `Refreshed`,
`RefreshFailed`, `LoggedIn`, `LoggedOut`, `QueryAnswered` with the retry of the
response interceptor, `CallLost`. `Open` is the bootstrap, `Close` a tab that is
closed or reloaded with its calls. `EndSessions` is another browser. Three
variables are history. `disturbed` says for good that calls about the session have
overlapped, got lost or were undercut; `crossed` is narrower, two of them have been in
flight at once since none was, and is forgotten when none is; `out` says that the last
login or logout answered was a logout that was not crossed. `LiveSessionsAreKept` has
two escapes beside the own logout and the end of the session: a refresh that ends
without an answer (the code clears the tab, and the session lives on), and calls
that have crossed. An earlier loss is no excuse.

### ClanContextCache

The tables are abstracted to the number of writes they have seen, a context to
the number its query saw, so "stale" is a comparison of numbers. `Ask` is the
MGET, `StartLoad`/`JoinLoad` the map of running loads, `Query` the read of the tables,
`Store` the SET with the version of the MGET, `Finish` the settling of the shared
promise. `Write` and `Bump` are what the RLS extension makes of a statement on a
context table; `SystemWrite` one that passes it (`runSystem`, admin mode).
`Expire` is the time to live, `BumpFails` and `Crash` are failures. `covered`,
`missed` and `since` are history: the writes committed at the last INCR, whether
one since then will not be bumped for, and `covered` at the MGET that a request's
context rests on.

### ClanRoles

One clan. The five tables are `roles`, `pos`, `grants`, `status`, `held`. `Begin`
is the controller with its guards: the request gets a context (current or, with
`StaleContexts`, the one last loaded for the user), needs the grant of the route
and remembers its arguments. Every further action is one statement of the
handler with the tests before it, named after the method. `Reseat` is the batch
transaction of `reseatOps`. `DropGrants` is shared by `deleteRole` and
`setRoleGrants`, `Base`, `MakeBase` and `Hold` by `admit` and
`ensureMembersHaveRole`; `job[q].op` decides where a request goes on. A right is a
pair of grant and action; `Expand` is the meaning of `MANAGE`. The masks are sets,
as every operation on them is a union, an intersection or a difference. The
position of a context is kept as the set of positions of its roles, so that -1
for no role needs no arithmetic. Names, colours, notifications and audit rows do
not influence what is modelled and are left out. `granted` is history: the rights
that clan creation, the owner or an admin put into some role.

`ClanOffers` adds the views of the API (`Detail`, `Members`, `RoleList`, `Flags`,
`MemberView`, `RoleDetails`) and what the components make of them: `Tools` are the
buttons of the clan's window, `Editable`, `Own`, `Toggles` and `Moved` the role
manager's own arithmetic of ranks, rights and drags. `Flags` has a parameter `joined`:
detail computes the flags from the user's rights, the answer to join and redeem
inside `runSystem`, where every right is granted, and the client keeps that answer as
its clan until it fetches it again (`Answers`). `ClientAgreesWithServer` is about
fetched flags, `OffersAreAccepted` about both. `Offered` says of a request
whether its user had a button for it. The offers that the code makes in vain are
listed by `InVain`. `GrantCatalog` is constant data of three files; its assumptions
say that they fit, and `MCClanRoles` takes its rights from it.

### ClanInvites

The rows of `ClanInvite` for one clan, the state of each user's membership, and
the join policy. `Redeem` is the look at the invite (`Redeemable` is
`requireRedeemable`), `Clan` the look at the clan, `Member` to `Reactivate` the
statements of `admit`, `Count` the increment. `CreateTargeted`, `TargetMember`,
`Duplicate` and `Insert` are the four statements of `createTargeted`; `CreateLink`
goes to `Insert` at once. Operations of one statement that matter here (`Revoke`,
`SetPolicy`, `SoftDelete`, `Depart`) are one step. Whether a link has an
`expires_at` is left open until it passes. Roles are the matter of `ClanRoles`;
the code of an invite is the invite. `entered` and `overlap` are history: the users
each invite has brought in, and whether two requests have ever been in flight at
once. A property that the code gives one request at a time only says `~overlap`;
so one run has both.

### Events

Several clans, organizations and the platform. `Can` is `PermissionGuard` over
`Granted`, `Visible` and `EntryVisible` are the row filters that
`conditional.kit.ts` builds for events and entries, with the organizers kept in the
request's store (`mine`) after the first filtered statement. `CreateClan`, `CreateOrg`
and `CreateSystem` make events; `BeginManaging` are the routes below a clan, with
any event id; `Find` is the lookup their handlers begin with, `Following` what
comes after it. `Register`, `Present` and `Enter` are the statements of
`register`, the last two of `redeem` as well; `Detail` is the answer of most
requests, which reads the event as its sender sees it. `Readers` and `Delete` are
`cancel`. `Tick` moves the registration window, `Depart` the members of a clan.

`EventOffers` and `InviteOffers` are to these modules what `ClanOffers` is to
`ClanRoles`. The page of an event offers nobody the management of events of an
organization or of the platform, its author keeps the offer for good
(`AuthorOnly`), and the registration window is tested by the API alone; the page
behind a code does not know for whom an invite by name is.

### Rls

Two clans or more, and three models: members and roles with an id and a clan, links
as pairs of ids. A request has its store: `ctx` is the clan of `ClanContextGuard`,
`mine` the clans of the user once a statement without a clan has asked for them, `pc`
whether `runSystem` is on. `InScope` is `buildWhere`, `Included` `scopeRelations` with
the relation to one role that it does not filter, `Insert` with its callers
`validateCreate`, which lets a link pass. The where of a statement is any set of ids,
so that the filters carry the property and not the handlers; only what the handlers of
links look up first (`seen`, inside a section `found`) is theirs. `target` is the clan a
section under `runSystem` names itself.

### Accounts

A user is his e-mail address; `registered`, `name`, `display`, `tag` and so on
are the columns of his row, `job[q].me` the row as `AuthGuard` has read it, which the
handlers work on. `Register` is `createUser` with its loop over discriminators
and the order in which violated indexes are told apart, `FreeTag`/`WriteProfile`
the loop of `updateProfile`, `Username` the test and the update of
`updateUsername`, `DropLinks`/`InsertLink` `dispatchVerification`. `Presign` hands out
a key, `Upload` is the browser's use of it, which may come late or never, and `Confirm`,
`Remove` and `DropObject` are the statements around the row. `BeginConfirm` takes any
key below the user's prefix, as the server does: presigned, uploaded or neither. The
bucket is `stored`; `sent`, `again` and `crowded` are history. A discriminator is drawn by
chance in the code and chosen freely here.

### Screens

One page in one tab. `data`, `invalid`, `fetch` are the query of the page's list in
TanStack Query, `open` whether it is shown. `Hooks` is the table of what the pages'
hooks do: the statement of the request (`op`), what its answer is made of
(`answer`), and what `onSuccess` does with it (`then`): fetch the list again,
replace the item, put it on top, filter it out, or replace the whole answer. `Send`,
`Cut`, `Refused` and the actions named after `then` are the browser's side, `Store`,
`FindPreference`/`StorePreference`, `Refuse` and `Answer` the server's, in the order
of the handlers' statements. `Show` and `Restore` are the optimistic update of a
switch. `Emit`, `CheckPreference` and `Notify` are `NotificationService.emit`. `calm`
is history: since a list was last read with nothing under way, nothing has overlapped
that may not. `MayOverlap` and `MayRunBesideFetch` define what may, and are the
precise claim: which concurrent clicks these hooks survive. `Unmount` ends the calm if a
fetch runs beside a mutation (section 5). Of the answer to joining a clan the page takes
the membership; its flags are the matter of `ClanOffers`.

### Feeds

One list, of one of three kinds: a pager with a cache entry per cursor, a list that
grows (`chain`, with the fetch `job` that reads its pages one after the other), and the
same with rows that leave it when they are read. `Page` is `cursorPage`, `Below` and
`After` are the two ways a cursor becomes a condition (`id < cursor`; `cursor` with
`skip: 1`). Rows are numbered in the order of their ids, which is that of
`created_at` as well. A page that is old or invalidated may be fetched again at any
time, which stands for `staleTime`; garbage collection of the cache is left out.
`torn` marks a list of which a page was read after a cursor that had left it.

### Editors

One form of seven. `draft` is its contents, `data` the cache, `saved` the server, `used`
the names of others. `Follows` is the table of effects that set a field anew, `Payload`
what a save sends, `PutBack` what `onError` does, `Hinted` the effect of the user name.
Fields are two: names and grants are treated alike where the code does. `typed`,
`moved`, `tangled`, `news` and `late` are history and define the exceptions of the
properties. `tangled` says that the order or the picture on the screen has parted from
what the browser was told last, in one of three ways: a fetched picture is hidden by the
preview (`HiddenBy`), an answer differs from what was sent while the cache does not move
(`ContradictedBy`), a drag that fails puts back an order older than what the cache has
(`OutdatedBy`). The next drag, or a fetch that moves the cache, ends it.

## 3. Runs

| Run | Instance | What it shows |
|---|---|---|
| `sessions` | 2 accounts, 3 tokens, 1 link, 2 requests, 1 death | one usable token per login, rotation all or nothing, refinement of `SessionContract`; while no two requests overlap, the end of all sessions is final |
| `sessions_replay` (violation) | 2 requests, 3 tokens | a rotation that commits during the revoke-all survives it |
| `clan_context` | 2 requests of one user in one process, 2 writes per handler, 1 fault, system writers, fairness | contexts are as fresh as their version; a write without a bump is one of three named exceptions; the time to live heals |
| `clan_roles` | 3 users (owner, a manager of roles, an admin), 4 role ids, 3 requests one after the other under contexts of any age, 1 death | rights come from the top; hierarchy, order of positions, no role for former members, nobody left without a role; the client computes what the API computes, on a clan it has fetched; what it offers is carried out, with the flags of the answer to joining where the guard lets it pass |
| `clan_invites` | 2 users, 2 invites, 2 requests, 1 departure or death | an invite is overrun by one use at most, and by none without overlap; entries are counted; without overlap one open invite per user, entries are warranted, and what the pages offer works |
| `events` | 3 users (an owner, a member who plans events, an admin who owns the other clan), 2 clans, an organization, 1 event, 1 invite, 3 requests, 2 at a time, 1 upset | only the organizing clan changes an event and others' entries; without overlap, entries are warranted, changes are shown to who made them, cancellations reach everybody, and what the pages offer is carried out |
| `web_session` | 2 tabs, 1 call beside the refreshes, 3 tokens, fairness | reuses of a token have a cause outside the client; a logout nothing crosses is final; a tab drops a live session only for its own logout, a refresh without an answer, or calls that crossed; no tab and no call hangs |
| `accounts` | 2 users, 2 discriminators, 2 keys, 3 requests, all at once if need be, 1 death | an avatar that was uploaded keeps its object unless its key is confirmed a second time; user names rest, but for named cases |
| `screens` | 12 pages, 2 items, 2 mutations, 3 acts, 1 fault | a page at rest shows what the server holds, each item once; notifications follow the switches |
| `feeds` | 3 kinds of list, 2 rows a page, 5 rows, 3 acts, 1 fault, fairness | joined pages have no seam, whoever pages on has seen every row, the number on the bell is right in the end |
| `editors` | 7 forms, 3 values, 2 saves, 6 acts, 1 fault | saves undo nothing known; previews are right in the end but for three named ways to part; the hint is about the name in the field |
| `rls` | 2 clans, 2 users, one an admin, 2 rows of each model, 2 requests | reads and writes stay in the clan of the request |

Every property of a passing run has a mutant in `PROJECT.json`: a small change of
the code's model, next to the definition it changes, that makes TLC find the
property violated under the same configuration.

### Bounds, and why they are enough

* Two requests, calls or mutations at a time: each hazard is between two actors,
  or an actor and a failure. For the invariants of `clan_context`, `clan_invites`,
  `accounts`, `screens`, `web_session` and `editors` the proofs cover any number.
  `accounts` has three: a confirmation, a second one of the same key, and what replaces
  the key between them.
* `clan_context` runs both requests for one user in one process, where loads are
  shared and the only interaction besides versions takes place; other users and
  processes meet in the versions alone, which the proofs cover.
* Three tokens: a login, its rotation, and the rotation of that, or two logins.
  `WebSession` uses a row again when nobody can present it, so three are the
  cookie and the two a call can carry.
* Two invites and two users: a user with two invites, two users with the same
  one. One event in `events`: handlers touch one, and what keeps events apart is the
  lookup `OthersKeepOut` is about, with two clans for it.
* `MaxWrites`, `MaxRequests`, `MaxRoles`, `MaxActs` and the `MaxAborts`, `MaxFaults`,
  `MaxUpsets` of failures bound counters. A chain of three role requests is enough to
  edit a role, assign it and use it; the initial crew saves the requests
  that would build it. `MaxTag` is 2 for 9999, so that discriminators run out.
* Nine rights in `clan_roles`: those the guards of the modelled routes ask for, and
  one (planning events) that two lists of the client compute apart. `MANAGE` of
  one implies others, which is what expansion is about.
* Two rows a page and five in all: a full page, a full second one and a row beyond, so
  that both "exactly limit" and "one more" happen at every seam; the proofs cover pages
  of any size and any number of rows.
* Three values in `editors`: the one in the cache, the one typed, the one of others.
* Symmetry is used on tokens, requests, passwords, mutations and spare ids, in runs
  without liveness properties only.
* Proofs need none of these bounds.

### Deadlock

Runs check for deadlock, with the exception of `events`, `accounts`, `screens`,
`feeds`, `editors` and `rls`, which end when the budget of requests or acts is spent.
`RefreshSessions`, `WebSession`, `ClanContextCache` and `ClanInvites` always have a
step; where `ClanRoles` has spent its requests, `Quiet` says so explicitly.

### Fairness

Only liveness needs it, in `clan_context`, `web_session` and `feeds`: weak fairness of
the next step of a request in flight (the event loop, PostgreSQL and Redis keep
working), of the expiry of an entry (`SET ... EX`), and, in the browser, of the end of
a call, as answered or as failed: a browser reports either. No new request, no user
action, no failure and no answer by the server is fair in `WebSession`. In `Feeds` the
interval of the bell goes on and its requests end; the interval of TanStack Query runs
while the window has the focus, so `BadgeCatchesUp` is about a window that has it.

## 4. Proofs

All theorems hold for every value of the constants that satisfies the named
assumptions (`None` differs from everything else, counters' bounds are numbers,
the seeded roles have the owner's on top, role ids and request slots are finitely
many where they are counted, the rights behind the client's tools are rights).
Where a property holds for one request at a time only, the theorem says so: by
`~overlap` in the property, or, in `ClanRoles`, by the hypothesis `OneAtATime`, that
there is one slot for requests.

* `RefreshSessions_proofs`: `TypeCorrect`, `OneUsable`, `RotationAtomic`,
  `EndedForGood` and `Refinement`. The inductive invariant adds what connects a
  request in flight to the tables: a request at `commit` holds the only lock on the
  token it claimed, a generated token is known to its request only, usable tokens of
  one login are
  excluded by the claim of the other. `EndedForGood` adds `Undisturbed`: as long as no
  two requests have overlapped, nothing has become usable since the UPDATE that ends
  all sessions took its snapshot, and nobody has used the link a reset has read, which
  the commit does not look at again. The refinement proves that every action is
  a step of `SessionContract` or a stutter under the mapping.
  Its last section is about the other end, `WebSession`: for any number of tabs and
  calls, `Reuses`, `Logouts`, `Kept` (`ReusesHaveACause`, `LogoutIsFinal` and
  `LiveSessionsAreKept`) and `BrowserTypeCorrect`, given that `None` is no user, row or
  call (`SessionAssumption`). The
  invariant (`SessionIsKnown`) is about the undisturbed browser: one call about the
  session is in flight at most, what it sends is the cookie, what it brings back is
  live, and the cookie is live unless the answer that replaces it is under way. It is
  needed because a dead cookie by itself is legal, between the answer of the server
  and its arrival; and it needs the waiting calls to be no session calls. `Logouts` and
  `Kept` hold also after losses and rest on less (`Uncrossed`, `NoWayBack`): while
  nothing has crossed, a refresh carries the cookie and is refused only when that is
  dead, as the cookie changes and rows become live in answers of which each is the only
  call; and after a logout every refresh under way carries no cookie.
* `ClanContextCache_proofs`: `TypeCorrect`, `HitsAreSound`,
  `ContextsAreAsFreshAsTheirVersion`, `LoadsAreSingleFlight`, with `IInv`:
  versions and covers only grow, a load holds every covered write if its version
  is still current, the map of running loads points to loads that run, a joiner
  rests on its load's MGET. `WritesAreBumpedOrMissed` is inductive together with
  it.
* `ClanRoles_proofs`: for any number of requests, `TypeCorrect` (with referential
  integrity of `held`), `RightsSound`, `OwnerStays`, `ClientAgrees` and
  `OffersAccepted`; under `OneAtATime`, `NothingIsKept`, `RolesOrdered`,
  `NobodyIsRoleless` and `HierarchyHolds`. A request in flight is outside the tables,
  so the invariant has to say what it carries (`Carries`): the targets of a leave or a
  kick under way exclude the owner, the role being removed or deleted is not the
  owner's, the rights about to be written are granted or will be by that statement,
  the context's rights are. Stale contexts do no harm to the rights since `granted`
  only grows. `OffersAccepted` needs no more than that: a request that the guard and
  the check refuse finds its reason in the tables the client has computed its offer
  from, whatever else is in flight. A role the client lets its user drag keeps the
  locked roles in place as each of them has more roles below it than either end of
  the drag (`Place` counts them, `LowerPlace` compares).
  One request at a time, the invariants say what its earlier statements have found and
  still is so: which roles a member under way may hold (`MembersAreKnown`), how the
  positions stand while a role just inserted waits for its seat (`OrderKept`), that a
  base role is made as there is none, and that everyone the deletion left without a
  role is among those about to be given one (`BaseIsKnown`). For `HierarchyHolds` it is
  `ChecksHold`: the check a handler made at its start still is true at each of its
  statements (`Checked`), and no other role is above the owner's. A reorder or the
  seats of a new role move none of the roles above their user: the locked ones keep
  their seats, so the others share out what is left, by a lemma on injections of a
  finite set into itself (`SeatsAreTaken`). It and `GreatestOfFinite` are proved from
  the library's facts about cardinalities, as induction is not available.
* `ClanInvites_proofs`: every property of `clan_invites`. The bound on uses is
  inductive when the redemptions that have passed the test of the limit are
  counted as uses already, and likewise the entries whose use is to come. For
  `~overlap` the invariant says that one request is in flight and that what its
  statements have found still is so (`Found`). `OffersAccepted` adds that an invite by
  name has no limit (`NamedAreUnlimited`), so that its page lets its user in as long
  as it is not revoked.
* `Events_proofs`: every safety property of `events`. `OnlyTheClanManages` (that
  `OthersKeepOut` holds whatever races) rests on what `Find` leaves behind: a request
  that manages has an event of the clan of its route, and an event never changes its
  organizer. `OverrunBound` counts the redemptions under way as for clans. The others
  are for requests that do not overlap, and rest on `Undisturbed` (`NobodyIsDisturbed`):
  a request is alone, so the event, the entry, the invite and the list of clans that
  its first statements have read are those of the tables until it writes. From it,
  who gets in may get in at that moment (`EntriesWarranted`), who has changed something
  is shown it (`ChangesShown`), everyone in a cancelled event is told
  (`CancellationsTold`) and the pages offer what will be carried out
  (`OffersAccepted`).
* `Accounts_proofs`: `TypeCorrect`, which includes the unique indexes,
  `AvatarsStored` and `UsernamesStay`. An avatar that was uploaded has its object: the
  one a request is about to delete is not in any row unless its key was confirmed again,
  as the request has read the key in the row of its own user, and has overwritten it
  since (`AvatarInv`). Of a key that was never uploaded nothing is claimed. Where no
  request of a user has overlapped another, the row the guard has read is still
  the row (`NameInv`).
  The last section is about the forms of `Editors`: `EditorTypeCorrect`,
  `Saves`, `Previews` and `Hints`, which state `SavesUndoNothingKnown`,
  `PreviewsTellTheTruth` and `HintBelongsToTheName` for any number of values and saves.
  What the user has not touched is as the cache has it (`DraftsAreKnown`). At most
  one drag has callbacks that count, the last one; while it is under way its order is
  shown, or one that the cache has learned since, and afterwards what the cache has,
  until one of the three ways to part is met; one picture is under way at a time
  (`OrderIsKnown`, `PictureIsKnown`). A check
  that is due or under way is about the name shown, and knows what that name has been
  since it was typed (`HintIsCurrent`).
* `Screens_proofs`: `TypeCorrect`, `Switches`, `Lists`, `Emissions`. As long as it
  is calm, either every mutation under way fetches again (`PageFollows`: what is on
  the page and what a fetch has read are the server's list until one of them is
  stored, and a page that is not right is about to be fetched), or each touches an
  item of its own and no fetch runs (`WritesStayApart`: page and server differ in
  those items only, and by what their answers will mend).
  The last section is about `Feeds`: `FeedTypeCorrect` and `Skips`, which states
  `NothingIsSkipped` for pages of any size and any number of rows. It rests on a lemma
  about `cursorPage` (`PageHolds`: a page is the newest rows of its list, and its
  cursor the last of them or none). A list that grows is without a gap down to its
  cursor also while a fetch puts its pages together (`Joins`): the next page begins
  right below a cursor that is still listed, rows that are added are above all of it,
  and rows that go leave no gap. For the pager the invariant says what is true of a
  page however old it is (`Snapshot`: what it lacks lies above it, and on a later
  page beyond its cursor), that what the first page lacks is newer than everything seen
  (`FirstPageIsNewest`, which also needs that a running fetch of it has read later than
  the cached one), and that the history is without a gap down to every cursor on the
  stack (`WayIsSeen`). `NothingIsSkipped` alone is not inductive: it says nothing of
  the pages on the way back, of pages in the cache or of fetches under way.

* `Rls_proofs`: `TypeCorrect`, `ReadsStay` and `WritesStay`. What the extension adds to
  a statement is about the row it starts from only; that what is included or nested
  below it is of the same clan rests on the links: no link joins rows of two clans
  (`LinksStayInside`), and the context a statement runs under is the one its guard has
  stored for this request (`StoresStayInside`).

Type correctness is proved for all of these modules and therefore not among the runs'
invariants.

Only model-checked: liveness, as fairness is out of the prover's reach
(`EntriesBecomeFresh`, `NothingHangs`, `BadgeCatchesUp`). Every other property of a
passing run is stated by a theorem. Only proved,
and in no run: `OwnerKeepsClan` of `ClanRoles`, `HitsSeeBumpedWrites` of
`ClanContextCache` and `OverrunIsBounded` of `Events`. The run `clan_roles` has one
request at a time, under contexts of any age; that its properties about rights, the
owner and the client hold for concurrent requests is what the theorems add.

Many of these hold for one request at a time only. That is a fact of the code, not
of the models: with two requests positions can collide, a former member can keep a
role, a stale context acts under the position it had, an entry is made in an event
that has been cancelled. The hazards say where.

## 5. What the models found

One run expects a violation: `sessions_replay` shows that a replay does not end all
sessions, as `AuthService.refresh` answers (auth.service.ts:66). The revoke-all is one
UPDATE outside of any lock; a rotation that claimed earlier and commits before the
UPDATE ends leaves a session it did not see.

What the properties had to leave out, as the code does not give it:

* **Sessions.** After a reset or a replay elsewhere, the old browser keeps its dead
  cookie and presents it at every page load; each time the server takes it for a
  reuse and ends all sessions of the user again (auth.service.ts:64-67). Two tabs that
  open at once present the same token, and so does a client whose answer got lost
  (api.ts:19): both end all sessions. A logout that overlaps a refresh gets its cookie
  back (auth.hooks.ts:72). A refresh that gets no answer, for a network that is down, say,
  takes the access token of a session that is alive (api.ts:39); the tab shows its
  user logged out until the next load. A login that overlaps the bootstrap refresh is undone by its
  failure. A wrong password is a 401 like any other: the client refreshes and sends it
  again.
* **Roles.** docs/roadmap.md:496 says members assign roles below their own only.
  `deleteRole` lets the system give the lowest remaining role to those who held only
  the deleted one, also when that role is the deleter's own: `HierarchyRespected`
  excepts it.
* **Offers.** Every member can be kicked by the window of members, although the API
  refuses it for equals and betters; a role can be saved with rights its editor neither
  has nor can take away; a member who may not read the clan is offered to join it
  (`InVain` of `ClanOffers`). The answer to joining a clan, by button or by invite, has
  every flag set, as `toDetail` runs inside `runSystem` there (clans.service.ts:137-142
  and 169, invite.service.ts:87 and 93, permission.service.ts:10); the client shows the
  new member all tools, which the API refuses him, until the clan is fetched again a
  minute later (clan.hooks.ts:70, invite.hooks.ts:46). The author of an event is offered its management also
  after he has left the clan (events.service.ts:175).
* **Lists.** A notification read while the list waits at it as its cursor makes
  `skip: 1` drop the next unread one (notification.service.ts:41).
* **Forms.** The editors of roles and games send their older values of untouched
  fields if the page has learned newer ones meanwhile; an event that is fetched again
  takes the text typed into its form along (event-form-modal.tsx:70); a drag that fails
  after an earlier one, in flight with it, has succeeded puts back the order from before
  both, which stays on the screen until the next drag (role-manager-modal.tsx:93-96); a
  picture that was changed elsewhere stays hidden behind the preview of the one picked
  here (avatar-upload.tsx:19); the answer about a
  user name that is no longer in the field still sets the hint (profile-fields.tsx:111).
* **Invites.** `redeem` tests `uses` against `max_uses` (invite.service.ts:105,
  event-invite.service.ts:95) and increments it in a later statement without
  testing again; `OverrunIsBounded` says how far this goes.
* **Events.** Entries of an organization's or the platform's event that are PENDING can
  never be answered: only clans have the routes. An admin passes the guards of every
  clan and fails its row filters, so his changes are committed and answered with 404,
  and his cancellations do not reach the hidden participants
  (docs/tournament-system.md:157-158 has admins manage all events). `updateEventSchema`
  compares only the dates that are in the patch (events.dto.ts:47). The list goes by
  `created_at` and its cursor by `id` (events.service.ts:36-48, likewise for clans).
* **Accounts.** `confirmAvatar` tests the prefix of the key and never looks at the bucket
  (users.service.ts:67-71): a key that nobody has uploaded to becomes an avatar without
  an object, and so does a key that is confirmed again after it was replaced; two renames at once both pass the cooldown (45);
  `dispatchVerification` twice at once leaves two links (auth.service.ts:139).
* **Pages.** An answer that is written into the cache does not stop a fetch that read
  the server before, whose older answer then stays for a minute; answers of two
  changes of one member or role are applied in the order they arrive; an invite that
  is created before the list is loaded is shown alone, or twice. A page that is left while
  a fetch runs beside a mutation in flight keeps the older list: nobody is there to fetch
  again when the mutation is answered, and the fetch then marks the list as current. `deleteRole`, `kick` and
  `leave` leave other cached lists as they were. Two first clicks on a switch at once
  meet the unique index, and the second is answered with an error
  (notification.service.ts:69-71).
* **Audit.** `AuditService.write` returns a Prisma promise from a plain arrow to
  `requestContext.run` (audit.service.ts:27-40). Such a promise starts its query when it is
  awaited, here by the `.catch` outside, and so in the store of the caller; outside of
  `runSystem` the row filters then refuse the insert, which is only logged.

Lines of the documentation that need no run: docs/roadmap.md:479 says system
roles cannot be deleted, `deleteRole` protects the owner's role only
(clans.service.ts:321), and `ClanRoles` deletes the others as the code does.

## 6. Not modelled

About 60 % of the implementation is the React client, and most of that is layout:
components, modals, colour pickers, styles and texts, without state that two actors
share. A model of it would restate it line by line. What the client has of state is
modelled where it meets something that moves: its session in `WebSession`, its query
cache in `Screens` and `Feeds`, its forms in `Editors`, its own copies of the server's
rules in the `*Offers` modules. Left out are queries that no mutation writes to,
garbage collection of the cache, links to pictures that expire and are signed
anew (s3.service.ts:47-51), and buttons that are disabled while they are pending, where
`Screens` lets several mutations of one button overlap.

Of the API: organizations and the catalogue of games are single statements on one
row, with a slug that is retried with the next number while it is taken; which handler
writes which audit row; DTOs, modules and controllers without guards, which are wiring;
the models of the RLS extension that no handler uses. Mail has no state. Access tokens
are stateless and outlive a revocation for their lifetime by design. The tables of
chat, trainings and leagues have no code.

READ COMMITTED is modelled for the statements of the modelled handlers, not as a
general database. `loadCtx` is one read of the clan tables, in `ClanContextCache` and
`ClanRoles`, where Prisma makes several SELECTs of the nested include
(clan-context.cache.ts:23-32): a context that mixes the tables before and after a write
is not modelled. Its version was read before all of them, so the next bump puts it aside
as it does any other. Redis is taken to lose nothing.
