------------------------------ MODULE WebSession ------------------------------
(***************************************************************************)
(* The session of the web client: the tabs of one browser, each with its   *)
(* access token and the axios interceptors of lib/api.ts, the refresh      *)
(* cookie they share, the network between, and the auth controller, which  *)
(* RefreshSessions models statement by statement and which is one step     *)
(* here.                                                                   *)
(*                                                                         *)
(* The access token of a tab is kept as the user it names.  A call stands  *)
(* for its request and, once it is served, for the answer under way.       *)
(***************************************************************************)
EXTENDS Null, Integers, FiniteSets

CONSTANTS
    People,       \* who logs in with this browser: the Users of RefreshSessions
    Tabs,
    Calls,        \* slots for calls in flight, refreshes aside
    MaxTokens     \* bound: rows of a user that somebody may present at a time

ASSUME SlotsAssumption == IsFiniteSet(Calls) /\ IsFiniteSet(Tabs)
ASSUME BoundsAssumption == MaxTokens \in Nat

\* A row of RefreshToken, by its user_id; a dead one nobody holds is used again.
Cookies == People \X (1..MaxTokens)
Owner(k) == k[1]

VARIABLES
    live,       \* rows neither revoked nor replaced that somebody may present
    cookie,     \* the browser's refresh cookie
    opened,     \* tabs
    ready,      \* authReady
    access,     \* accessToken
    stale,      \* tabs whose access token has expired
    refreshing, \* the promise of refreshSession, as calls in flight
    call,       \* login, logout and all other calls of a tab
    disturbed,  \* history: two calls about the session were in flight at once, one
                \* of them, or its answer, got lost, or sessions ended elsewhere
    crossed,    \* history: two of them were in flight at once, since there was none
    out         \* history: the last login or logout answered was a logout nothing crossed

tab == <<opened, ready, access, stale>>
webVars == <<live, cookie, opened, ready, access, stale, refreshing, call,
          disturbed, crossed, out>>

\* token: the cookie sent, then the cookie set; user: who logs in, or the access
\* token sent; ok: the answer is not a 401.
Exchanges == [tab : Tabs, kind : {"login", "wrongLogin", "logout", "query"},
              phase : {"sent", "answered", "waiting"}, token : Cookies \cup {None},
              user : People \cup {None}, retried : BOOLEAN, ok : BOOLEAN]
Refreshes == [n : 1..2, phase : {"sent", "answered"}, token : Cookies \cup {None}]

ASSUME SessionAssumption == None \notin People \cup Cookies \cup Exchanges

WebTypeOK ==
    /\ live \subseteq Cookies
    /\ cookie \in Cookies \cup {None}
    /\ ready \subseteq opened /\ opened \subseteq Tabs
    /\ access \in [Tabs -> People \cup {None}]
    /\ stale \subseteq {t \in opened : access[t] # None}
    /\ refreshing \in [Tabs -> SUBSET Refreshes]
    /\ call \in [Calls -> Exchanges \cup {None}]
    /\ {disturbed, crossed, out} \subseteq BOOLEAN

WebInit ==
    /\ live = {}
    /\ cookie = None
    /\ opened = {}
    /\ ready = {}
    /\ access = [t \in Tabs |-> None]
    /\ stale = {}
    /\ refreshing = [t \in Tabs |-> {}]
    /\ call = [c \in Calls |-> None]
    /\ disturbed = FALSE
    /\ crossed = FALSE
    /\ out = FALSE

InFlight == {c \in Calls : call[c] # None}

\* Calls that read or set the cookie.
SessionCalls == {c \in InFlight : call[c].kind \in {"login", "logout"}}
SessionCallInFlight == SessionCalls # {} \/ \E t \in Tabs : refreshing[t] # {}

\* There is one of them at most.
OneSessionCall ==
    /\ \A c, d \in SessionCalls : c = d
    /\ \A t \in Tabs : refreshing[t] # {} => SessionCalls = {}
    /\ \A s, t \in Tabs : refreshing[s] # {} /\ refreshing[t] # {} => s = t
    /\ \A t \in Tabs : \A q, r \in refreshing[t] : q = r

Watched == crossed' = (SessionCallInFlight' /\ (crossed \/ ~OneSessionCall'))

(***************************************************************************)
(* The server                                                              *)
(***************************************************************************)
Held == {cookie} \cup {call[c].token : c \in InFlight}
                 \cup UNION {{r.token : r \in refreshing[t]} : t \in Tabs}

\* Rows nobody can present any more change nothing from here on.
ForgetUnheld == live' = live \cap Held'

Unused(u) == {k \in {u} \X (1..MaxTokens) : k \notin Held \cup live}

\* A new row, the live ones of left aside.
Issue(u, left) ==
    /\ Unused(u) # {}
    /\ live' = left \cup {CHOOSE k \in Unused(u) : TRUE}

Issued(u) == CHOOSE k \in Unused(u) : TRUE

\* POST /auth/refresh: no cookie, a dead one, a live one.
ServeRefresh(t, r) ==
    /\ r.phase = "sent"
    /\ LET answer(k) == refreshing' = [refreshing EXCEPT ![t] =
                          (@ \ {r}) \cup {[r EXCEPT !.phase = "answered", !.token = k]}] IN
       \/ r.token = None /\ answer(None) /\ UNCHANGED live
       \/ /\ r.token \in Cookies \ live
          /\ live' = {k \in live : Owner(k) # Owner(r.token)}
          /\ answer(None)
       \/ /\ r.token \in live
          /\ Issue(Owner(r.token), live \ {r.token})
          /\ answer(Issued(Owner(r.token)))
    /\ UNCHANGED <<cookie, tab, call, disturbed, crossed, out>>

\* A password reset, or a reuse, in another browser.
EndSessions(u) ==
    /\ {k \in live : Owner(k) = u} # {}
    /\ live' = {k \in live : Owner(k) # u}
    /\ disturbed' = TRUE
    /\ UNCHANGED <<cookie, tab, refreshing, call, crossed, out>>

Reply(c, ok, k) ==
    call' = [call EXCEPT ![c].phase = "answered", ![c].user = None, ![c].ok = ok, ![c].token = k]

\* login and register, logout, and the handlers behind AuthGuard, which also
\* refuse a valid token: of a user not verified, say.
Serve(c) ==
    /\ c \in InFlight /\ call[c].phase = "sent"
    /\ \/ /\ call[c].kind = "login"
          /\ Issue(call[c].user, live)
          /\ Reply(c, TRUE, Issued(call[c].user))
       \/ /\ call[c].kind = "logout"
          /\ live' = live \ {call[c].token}
          /\ Reply(c, TRUE, None)
       \/ /\ call[c].kind \in {"query", "wrongLogin"}
          /\ \E ok \in BOOLEAN :
               /\ ok => call[c].kind = "query" /\ call[c].user # None
               /\ Reply(c, ok, None)
          /\ UNCHANGED live
    /\ UNCHANGED <<cookie, tab, refreshing, disturbed, crossed, out>>

(***************************************************************************)
(* Tabs and their users                                                    *)
(***************************************************************************)
RefreshRequest(n) == [n |-> n, phase |-> "sent", token |-> cookie]

\* Mutant: every 401 sends a refresh of its own.
RefreshSessionAlways(t) ==
    /\ Cardinality(refreshing[t]) < 2
    /\ refreshing' = [refreshing EXCEPT ![t] =
                        @ \cup {RefreshRequest(IF \E r \in @ : r.n = 1 THEN 2 ELSE 1)}]
    /\ disturbed' = (disturbed \/ SessionCalls # {} \/ \E s \in Tabs \ {t} : refreshing[s] # {})

\* refreshing ??= api.post(...)
RefreshSession(t) ==
    IF refreshing[t] = {}
    THEN /\ refreshing' = [refreshing EXCEPT ![t] = {RefreshRequest(1)}]
         /\ disturbed' = (disturbed \/ SessionCallInFlight)
    ELSE UNCHANGED <<refreshing, disturbed>>

\* useAuthBootstrap
Open(t) ==
    /\ t \notin opened
    /\ opened' = opened \cup {t}
    /\ RefreshSession(t)
    /\ UNCHANGED <<live, cookie, ready, access, stale, call, out>>
    /\ Watched

\* Reloaded or closed; its calls are cancelled.
Close(t) ==
    /\ t \in opened
    /\ opened' = opened \ {t}
    /\ ready' = ready \ {t}
    /\ access' = [access EXCEPT ![t] = None]
    /\ stale' = stale \ {t}
    /\ refreshing' = [refreshing EXCEPT ![t] = {}]
    /\ call' = [c \in Calls |-> IF call[c] # None /\ call[c].tab = t THEN None ELSE call[c]]
    /\ disturbed' = (disturbed \/ refreshing[t] # {} \/ \E c \in SessionCalls : call[c].tab = t)
    /\ UNCHANGED <<cookie, out>>
    /\ ForgetUnheld /\ Watched

Send(c, t, kind, k, u) ==
    /\ t \in opened
    /\ call[c] = None
    /\ call' = [call EXCEPT ![c] = [tab |-> t, kind |-> kind, phase |-> "sent", token |-> k,
                                    user |-> u, retried |-> FALSE, ok |-> FALSE]]
    /\ disturbed' = (disturbed \/ (kind \in {"login", "logout"} /\ SessionCallInFlight))
    /\ UNCHANGED <<live, cookie, tab, refreshing, out>>
    /\ Watched

Presented(t) == IF t \in stale THEN None ELSE access[t]

\* The form is there for whoever opens it, logged in or not.
UseLogin(c, t, u) == Send(c, t, "login", None, u)
WrongLogin(c, t) == Send(c, t, "wrongLogin", None, None)
UseLogout(c, t) == access[t] # None /\ Send(c, t, "logout", cookie, None)
Query(c, t) == access[t] # None /\ Send(c, t, "query", None, Presented(t))

AccessExpires(t) ==
    /\ access[t] # None
    /\ stale' = stale \cup {t}
    /\ UNCHANGED <<live, cookie, opened, ready, access, refreshing, call, disturbed, crossed, out>>

SetAccess(t, u) ==
    /\ access' = [access EXCEPT ![t] = u]
    /\ stale' = stale \ {t}

(***************************************************************************)
(* Answers                                                                 *)
(***************************************************************************)
Done(t, r) == refreshing' = [refreshing EXCEPT ![t] = @ \ {r}]

Waits(c, t) == call[c] # None /\ call[c].tab = t /\ call[c].phase = "waiting"

\* The waiting calls are sent again, with the new token.
Refreshed(t, r) ==
    /\ r.phase = "answered" /\ r.token # None
    /\ cookie' = r.token
    /\ SetAccess(t, Owner(r.token))
    /\ ready' = ready \cup {t}
    /\ call' = [c \in Calls |->
                  IF Waits(c, t)
                  THEN [call[c] EXCEPT !.phase = "sent", !.retried = TRUE,
                          !.user = IF call[c].kind = "query" THEN Owner(r.token) ELSE None]
                  ELSE call[c]]
    /\ Done(t, r)
    /\ UNCHANGED <<opened, disturbed, out>>
    /\ ForgetUnheld /\ Watched

\* Refused, or no answer at all: clear(), and the waiting calls fail.
RefreshFailed(t, r) ==
    /\ SetAccess(t, None)
    /\ ready' = ready \cup {t}
    /\ call' = [c \in Calls |-> IF Waits(c, t) THEN None ELSE call[c]]
    /\ Done(t, r)
    /\ UNCHANGED <<cookie, opened, out>>
    /\ ForgetUnheld /\ Watched

Refusal(r) == r.phase = "answered" /\ r.token = None

RefreshRefused(t, r) == Refusal(r) /\ UNCHANGED disturbed /\ RefreshFailed(t, r)
RefreshLost(t, r) == disturbed' = TRUE /\ RefreshFailed(t, r)

Free(c) == call' = [call EXCEPT ![c] = None]

LoggedIn(c) ==
    /\ c \in InFlight /\ call[c].kind = "login" /\ call[c].phase = "answered"
    /\ cookie' = call[c].token
    /\ SetAccess(call[c].tab, Owner(call[c].token))
    /\ out' = FALSE
    /\ Free(c)
    /\ UNCHANGED <<opened, ready, refreshing, disturbed>>
    /\ ForgetUnheld /\ Watched

\* Mutant: the cookie is not cleared.
LoggedOutCookieKept(c) ==
    /\ c \in InFlight /\ call[c].kind = "logout" /\ call[c].phase = "answered"
    /\ SetAccess(call[c].tab, None)
    /\ out' = ~crossed
    /\ Free(c)
    /\ UNCHANGED <<cookie, opened, ready, refreshing, disturbed>>
    /\ ForgetUnheld /\ Watched

LoggedOut(c) ==
    /\ c \in InFlight /\ call[c].kind = "logout" /\ call[c].phase = "answered"
    /\ cookie' = None
    /\ SetAccess(call[c].tab, None)
    /\ out' = ~crossed
    /\ Free(c)
    /\ UNCHANGED <<opened, ready, refreshing, disturbed>>
    /\ ForgetUnheld /\ Watched

\* Mutant: a 401 is sent again however often.
QueryAnsweredRetryAlways(c) ==
    /\ c \in InFlight /\ call[c].kind \in {"query", "wrongLogin"} /\ call[c].phase = "answered"
    /\ IF call[c].ok
       THEN Free(c) /\ UNCHANGED <<refreshing, disturbed>>
       ELSE /\ call' = [call EXCEPT ![c].phase = "waiting"]
            /\ RefreshSession(call[c].tab)
    /\ UNCHANGED <<live, cookie, tab, out>>
    /\ Watched

\* Mutant: a 401 to the second attempt ends the session, too.
QueryAnsweredClear(c) ==
    /\ c \in InFlight /\ call[c].kind \in {"query", "wrongLogin"} /\ call[c].phase = "answered"
    /\ IF call[c].ok \/ call[c].retried
       THEN /\ Free(c)
            /\ IF call[c].ok THEN UNCHANGED <<access, stale>> ELSE SetAccess(call[c].tab, None)
            /\ UNCHANGED <<refreshing, disturbed>>
       ELSE /\ call' = [call EXCEPT ![c].phase = "waiting"]
            /\ RefreshSession(call[c].tab)
            /\ UNCHANGED <<access, stale>>
    /\ UNCHANGED <<live, cookie, opened, ready, out>>
    /\ Watched

\* The response interceptor: the first 401, of a wrong password, too, waits for
\* a refresh; the second one is passed on.
QueryAnswered(c) ==
    /\ c \in InFlight /\ call[c].kind \in {"query", "wrongLogin"} /\ call[c].phase = "answered"
    /\ IF call[c].ok \/ call[c].retried
       THEN Free(c) /\ UNCHANGED <<refreshing, disturbed>>
       ELSE /\ call' = [call EXCEPT ![c].phase = "waiting"]
            /\ RefreshSession(call[c].tab)
    /\ UNCHANGED <<live, cookie, tab, out>>
    /\ Watched

\* No answer: the request or the answer got lost.  onSettled of useLogout
\* clears the tab all the same.
CallLost(c) ==
    /\ c \in InFlight /\ call[c].phase # "waiting"
    /\ IF call[c].kind = "logout" THEN SetAccess(call[c].tab, None) ELSE UNCHANGED <<access, stale>>
    /\ disturbed' = (disturbed \/ c \in SessionCalls)
    /\ Free(c)
    /\ UNCHANGED <<cookie, opened, ready, refreshing, out>>
    /\ ForgetUnheld /\ Watched

Settle(c) == LoggedIn(c) \/ LoggedOut(c) \/ QueryAnswered(c) \/ CallLost(c)
SettleRefresh(t) ==
    \E r \in refreshing[t] : Refreshed(t, r) \/ RefreshRefused(t, r) \/ RefreshLost(t, r)

WebNext ==
    \/ \E t \in Tabs :
         \/ Open(t) \/ Close(t) \/ AccessExpires(t)
         \/ \E c \in Calls :
              \/ UseLogout(c, t) \/ Query(c, t) \/ WrongLogin(c, t)
              \/ \E u \in People : UseLogin(c, t, u)
         \/ \E r \in refreshing[t] : ServeRefresh(t, r)
         \/ SettleRefresh(t)
    \/ \E c \in Calls : Serve(c) \/ Settle(c)
    \/ \E u \in People : EndSessions(u)

\* The browser reports every call as answered or failed in the end.
Fairness ==
    /\ \A t \in Tabs : WF_webVars(SettleRefresh(t))
    /\ \A c \in Calls : WF_webVars(Settle(c))

WebSpec == WebInit /\ [][WebNext]_webVars /\ Fairness

-----------------------------------------------------------------------------
(***************************************************************************)
(* Properties                                                              *)
(***************************************************************************)
\* The server takes a token that is presented twice for a stolen one and ends
\* all sessions of its user (auth.service.ts 64-67).  With an honest browser
\* that never happens, in however many tabs, unless two calls about the session
\* are in flight at once, one of them is lost, or sessions ended elsewhere: within
\* a tab the refreshes of concurrent calls are one (api.ts 20).
ReusesHaveACause ==
    \A t \in Tabs : \A r \in refreshing[t] :
        r.phase = "sent" /\ r.token \in Cookies \ live => disturbed

\* A logout that is answered, and that no other call about the session has
\* crossed, leaves the browser without a way back into the session: no tab finds
\* a cookie before the next login, whatever is lost, crosses or is ended by others
\* from then on, and whatever was before.
LogoutIsFinal == out => cookie = None

\* A tab gives up its access token for its own logout, for a session that has
\* ended, or because its refresh got no answer (api.ts 39): then it may drop a
\* session that is alive and that the next load of the page finds again.  A
\* refusal costs a live session only if the refresh has crossed another call
\* about the session, as the refusal of a token that another tab has used may
\* arrive after a new login.  Nothing else does, whatever was lost before.
LiveSessionsAreKept ==
    [][\A t \in opened \cap opened' : access[t] # None /\ access'[t] = None =>
         \/ cookie \notin live
         \/ crossed
         \/ \E r \in refreshing[t] \ refreshing'[t] : ~Refusal(r)
         \/ \E c \in InFlight : call[c].kind = "logout" /\ call[c].tab = t /\ call'[c] = None]_webVars

\* Every tab leaves the loading screen, whatever becomes of its first refresh
\* (use-auth-bootstrap.ts 8-10), and no call is sent again and again or waits
\* for ever for a refresh, even when the refreshes succeed and the server
\* refuses the call all the same (api.ts 38-50).
NothingHangs ==
    /\ \A t \in Tabs : t \in opened ~> (t \in ready \/ t \notin opened)
    /\ \A c \in Calls : []<>(call[c] = None)
=============================================================================
