--------------------------- MODULE ClientSession ---------------------------
(* The browser's side of a login (contexts/AuthProvider.tsx,               *)
(* services/api.ts, the socket of contexts/NotificationProvider.tsx) with  *)
(* as much of /api/auth as it talks to. All tabs of a browser share        *)
(* localStorage; nothing tells a tab that another one wrote it. Three      *)
(* parts of a tab refresh the access token: the timer of AuthProvider, the *)
(* answer 401 to a request (under the mutex of api.ts), and the socket.    *)
(* A refresh or a request is two steps, the server's and the tab's.        *)
EXTENDS Naturals, Sequences, FiniteSets

CONSTANTS
  Tabs,      \* the tabs of the browser
  Users,     \* the accounts
  Logins,    \* the logins and signups that may happen, each once
  Owner,     \* [Logins -> Users]
  Bound,     \* the logins with a session row on the server (signups have none)
  Limited,   \* the logins whose policy has auto_logout
  Reqs,      \* requests to the API, each made once
  MaxGen,    \* bound: access tokens issued per login
  MaxOwn,    \* bound: calls a tab has under way beside those of Reqs
  MaxSubscribers,  \* 50 in api.ts
  None

Tokens == [login : Logins, gen : 1..MaxGen]

ASSUME OwnerAssumption == Owner \in [Logins -> Users]
ASSUME BoundAssumption == Limited \subseteq Bound /\ Bound \subseteq Logins
ASSUME MaxAssumption == /\ MaxGen \in Nat \ {0} /\ MaxSubscribers \in Nat \ {0}
                        /\ MaxOwn \in Nat
ASSUME NoneAssumption == None \notin Logins \cup Users \cup Tokens
ASSUME NamesAssumption == Reqs \cap {"timer", "boot", "socket"} = {}

VARIABLES
  store,       \* localStorage: access, refresh (its login), user, limit
  issued,      \* [Logins -> number of access tokens issued]
  alive,       \* the session rows still active on the server
  dead,        \* access tokens that have expired or were revoked
  tab,         \* the React state of each tab
  refreshing,  \* isRefreshing of api.ts, per tab
  waiters,     \* refreshSubscribers of api.ts, per tab
  flight,      \* refreshes under way
  profiles,    \* calls under way whose answer is the user's profile
  req          \* the requests

server == <<issued, alive, dead>>
mutex == <<refreshing, waiters>>
vars == <<store, issued, alive, dead, tab, refreshing, waiters, flight,
          profiles, req>>

Empty == [access |-> None, refresh |-> None, user |-> None, limit |-> None]
SignedOut == [user |-> None, expiry |-> FALSE, timer |-> FALSE,
              limit |-> None, loading |-> FALSE]
Idle == [tab |-> None, state |-> "idle", token |-> None, sends |-> 0,
         refused |-> FALSE]

Init ==
  /\ store = Empty
  /\ issued = [l \in Logins |-> 0]
  /\ alive = {} /\ dead = {}
  /\ tab = [t \in Tabs |-> SignedOut]
  /\ refreshing = [t \in Tabs |-> FALSE]
  /\ waiters = [t \in Tabs |-> <<>>]
  /\ flight = {} /\ profiles = {}
  /\ req = [r \in Reqs |-> Idle]

\* The requests in rs have their outcome, whichever it is.
Settled(rs) ==
  [r \in Reqs |-> IF r \in rs THEN [Idle EXCEPT !.state = "done"] ELSE req[r]]

-----------------------------------------------------------------------------
(* The server                                                              *)

SessionValid(l) == l \notin Bound \/ l \in alive

\* get_current_user: neither expired nor revoked, and of a session that lives.
Accepted(token) ==
  token # None /\ token \notin dead /\ SessionValid(token.login)

\* The 30 minutes of an access token pass.
Expire(token) ==
  /\ token.gen <= issued[token.login]
  /\ token \notin dead
  /\ dead' = dead \cup {token}
  /\ UNCHANGED <<store, issued, alive, tab, mutex, flight, profiles, req>>

\* A session limit is reached: check_session_valid fails from now on.
EndSession(l) ==
  /\ l \in Limited \cap alive
  /\ alive' = alive \ {l}
  /\ UNCHANGED <<store, issued, dead, tab, mutex, flight, profiles, req>>

\* POST /refresh: the refresh token stays good for as long as its session.
ServeRefresh(f) ==
  /\ f \in flight /\ f.answer = "none"
  /\ IF SessionValid(f.login)
     THEN /\ issued[f.login] < MaxGen
          /\ issued' = [issued EXCEPT ![f.login] = @ + 1]
          /\ flight' = (flight \ {f}) \cup
               {[f EXCEPT !.answer = "token", !.gen = issued[f.login] + 1]}
     ELSE /\ flight' = (flight \ {f}) \cup {[f EXCEPT !.answer = "refused"]}
          /\ UNCHANGED issued
  /\ UNCHANGED <<store, alive, dead, tab, mutex, profiles, req>>

\* The network fails, or the server answers 429 or 5xx.
FailRefresh(f) ==
  /\ f \in flight /\ f.answer = "none"
  /\ flight' = (flight \ {f}) \cup {[f EXCEPT !.answer = "refused"]}
  /\ UNCHANGED <<store, server, tab, mutex, profiles, req>>

\* Any outcome but a first 401 is final, and handed to the caller: a success,
\* an error, no answer within the 45 seconds of axios, a second 401.
ServeRequest(r) ==
  /\ req[r].state = "sent" /\ ~req[r].refused
  /\ \/ req' = Settled({r})
     \/ /\ req[r].sends = 1
        /\ ~Accepted(req[r].token)
        /\ req' = [req EXCEPT ![r].refused = TRUE]
  /\ UNCHANGED <<store, server, tab, mutex, flight, profiles>>

-----------------------------------------------------------------------------
(* AuthProvider                                                            *)

\* setTokenExpiry and setUser after a login or a refresh: the effect on them
\* schedules the next refresh.
Shown(t, u) == [tab[t] EXCEPT !.user = u, !.expiry = TRUE, !.timer = TRUE,
                               !.loading = FALSE]

\* logout(): the call that revokes the token and ends its session takes the
\* token of localStorage, whoever wrote it, and nobody looks at its outcome:
\* it reaches the server or is lost.
LogOut(t) ==
  /\ store' = Empty
  /\ tab' = [tab EXCEPT ![t] = SignedOut]
  /\ \/ /\ Accepted(store.access)
        /\ dead' = dead \cup {store.access}
        /\ alive' = alive \ {store.access.login}
     \/ UNCHANGED <<dead, alive>>

UserLogsOut(t) ==
  /\ tab[t].user # None
  /\ LogOut(t)
  /\ UNCHANGED <<issued, mutex, flight, profiles, req>>

\* The session limit of the login this tab has in mind runs out.
AutoLogout(t) ==
  /\ tab[t].limit # None /\ tab[t].limit \notin alive
  /\ LogOut(t)
  /\ UNCHANGED <<issued, mutex, flight, profiles, req>>

\* The answer to a login or signup reaches the tab. The one with a policy
\* stores it, the one without leaves an older one where it is.
Login(t, l) ==
  /\ tab[t].user = None /\ ~tab[t].loading
  /\ issued[l] = 0
  /\ issued' = [issued EXCEPT ![l] = 1]
  /\ alive' = alive \cup ({l} \cap Bound)
  /\ LET limit == IF l \in Limited THEN l ELSE None IN
       /\ store' = [access |-> [login |-> l, gen |-> 1], refresh |-> l,
                    user |-> Owner[l],
                    limit |-> IF limit = None THEN store.limit ELSE limit]
       /\ tab' = [tab EXCEPT ![t] =
            [Shown(t, Owner[l]) EXCEPT
               !.limit = IF limit = None THEN @ ELSE limit]]
  /\ UNCHANGED <<dead, mutex, flight, profiles, req>>

Refresh(t, by) == [tab |-> t, by |-> by, login |-> store.refresh,
                   answer |-> "none", gen |-> 0]

\* Fewer than MaxOwn calls of t are under way that are no requests of Reqs.
MayCall(t) ==
  LET refreshes == {f \in flight : f.tab = t /\ f.by \notin Reqs}
      asked == {p \in profiles : p.tab = t} IN
  Cardinality(refreshes) + Cardinality(asked) < MaxOwn

\* A minute before the token expires; a failure schedules nothing.
TimerFires(t) ==
  /\ tab[t].timer /\ MayCall(t)
  /\ tab' = [tab EXCEPT ![t].timer = FALSE]
  /\ flight' = IF store.refresh = None THEN flight
               ELSE flight \cup {Refresh(t, "timer")}
  /\ UNCHANGED <<store, server, mutex, profiles, req>>

\* The page is loaded again: the requests and the state of the tab are gone,
\* the limits are not. A token that is (or soon will be) expired is refreshed
\* before the user is shown.
Reload(t) ==
  /\ \E late \in BOOLEAN :
       LET signedIn == store.user # None /\ store.access # None
           fresh == [SignedOut EXCEPT !.limit = store.limit]
           boot == signedIn /\ (late \/ store.access \in dead) IN
       /\ tab' = [tab EXCEPT ![t] =
            IF boot THEN [fresh EXCEPT !.loading = TRUE]
            ELSE IF signedIn
            THEN [fresh EXCEPT !.user = store.user, !.expiry = TRUE,
                               !.timer = TRUE]
            ELSE fresh]
       /\ flight' = {f \in flight : f.tab # t}
                    \cup (IF boot THEN {Refresh(t, "boot")} ELSE {})
  /\ refreshing' = [refreshing EXCEPT ![t] = FALSE]
  /\ waiters' = [waiters EXCEPT ![t] = <<>>]
  /\ profiles' = {p \in profiles : p.tab # t}
  /\ req' = Settled({r \in Reqs : req[r].tab = t})
  /\ UNCHANGED <<store, server>>

\* acceptTerms, enableEmailMFA, verifyEmailCode and the others that show and
\* store the profile they are answered, whoever is signed in by then.
AskProfile(t) ==
  /\ tab[t].user # None /\ MayCall(t)
  /\ Accepted(store.access)
  /\ profiles' = profiles \cup {[tab |-> t, user |-> Owner[store.access.login]]}
  /\ UNCHANGED <<store, server, tab, mutex, flight, req>>

FinishProfile(p) ==
  /\ p \in profiles
  /\ profiles' = profiles \ {p}
  /\ store' = [store EXCEPT !.user = p.user]
  /\ tab' = [tab EXCEPT ![p.tab].user = p.user,
                        ![p.tab].timer = tab[p.tab].expiry]
  /\ UNCHANGED <<server, mutex, flight, req>>

-----------------------------------------------------------------------------
(* The interceptor and authFetch of api.ts                                 *)

SendRequest(t, r) ==
  /\ tab[t].user # None
  /\ req[r] = Idle
  /\ req' = [req EXCEPT ![r] = [tab |-> t, state |-> "sent", sends |-> 1,
                                token |-> store.access, refused |-> FALSE]]
  /\ UNCHANGED <<store, server, tab, mutex, flight, profiles>>

\* Mutant: the header of the first attempt stays.
ResentMutantOldToken(rs, token) ==
  [r \in Reqs |-> IF r \in rs
                  THEN [req[r] EXCEPT !.state = "sent", !.sends = @ + 1,
                                      !.refused = FALSE]
                  ELSE req[r]]

\* The requests in rs are sent again with the new token.
Resent(rs, token) ==
  [r \in Reqs |-> IF r \in rs
                  THEN [req[r] EXCEPT !.state = "sent", !.token = token,
                                      !.sends = @ + 1, !.refused = FALSE]
                  ELSE req[r]]

\* Mutant: the refresh token is left.
ForceLogoutMutantKeepsRefresh(t) ==
  /\ store' = [Empty EXCEPT !.refresh = store.refresh]
  /\ tab' = [tab EXCEPT ![t] = SignedOut]

\* forceLogout(): storage is cleared before logout() looks for a token, so
\* the server is told nothing.
ForceLogout(t) ==
  /\ store' = Empty
  /\ tab' = [tab EXCEPT ![t] = SignedOut]

Unauthorized(r) ==
  req[r].state = "sent" /\ req[r].refused

\* Mutant: the oldest subscriber is dropped and not called.
SubscribeMutantForgets(r) ==
  /\ Unauthorized(r)
  /\ LET t == req[r].tab
         full == Len(waiters[t]) >= MaxSubscribers IN
     /\ refreshing[t]
     /\ waiters' = [waiters EXCEPT ![t] =
                      Append(IF full THEN Tail(@) ELSE @, r)]
  /\ req' = [req EXCEPT ![r].state = "waiting"]
  /\ UNCHANGED <<store, server, tab, refreshing, flight, profiles>>

\* subscribeToRefresh: the oldest of too many subscribers is let down.
Subscribe(r) ==
  /\ Unauthorized(r)
  /\ LET t == req[r].tab
         full == Len(waiters[t]) >= MaxSubscribers IN
     /\ refreshing[t]
     /\ waiters' = [waiters EXCEPT ![t] =
                      Append(IF full THEN Tail(@) ELSE @, r)]
     /\ req' = [q \in Reqs |->
                  IF q = r THEN [req[r] EXCEPT !.state = "waiting"]
                  ELSE IF full /\ q = Head(waiters[t])
                  THEN [Idle EXCEPT !.state = "done"]
                  ELSE req[q]]
  /\ UNCHANGED <<store, server, tab, refreshing, flight, profiles>>

StartRefresh(r) ==
  /\ Unauthorized(r)
  /\ LET t == req[r].tab IN
     /\ ~refreshing[t]
     /\ store.refresh # None
     /\ refreshing' = [refreshing EXCEPT ![t] = TRUE]
     /\ flight' = flight \cup {Refresh(t, r)}
     /\ req' = [req EXCEPT ![r].state = "refreshing"]
  /\ UNCHANGED <<store, server, tab, waiters, profiles>>

\* Another tab has cleared the storage: there is nothing to refresh with.
NothingToRefresh(r) ==
  /\ Unauthorized(r)
  /\ ~refreshing[req[r].tab]
  /\ store.refresh = None
  /\ ForceLogout(req[r].tab)
  /\ req' = Settled({r})
  /\ UNCHANGED <<server, mutex, flight, profiles>>

\* localStorage after a refresh, which does not touch the limits.
Refreshed(f) ==
  [store EXCEPT !.access = [login |-> f.login, gen |-> f.gen],
                !.refresh = f.login, !.user = Owner[f.login]]

\* Mutant: the flag stays set.
OnRefreshCompleteMutantStaysSet(t) ==
  waiters' = [waiters EXCEPT ![t] = <<>>] /\ UNCHANGED refreshing

\* Mutant: the subscribers are called and kept.
OnRefreshCompleteMutantKeeps(t) ==
  refreshing' = [refreshing EXCEPT ![t] = FALSE] /\ UNCHANGED waiters

\* isRefreshing = false and onRefreshComplete
OnRefreshComplete(t) ==
  /\ refreshing' = [refreshing EXCEPT ![t] = FALSE]
  /\ waiters' = [waiters EXCEPT ![t] = <<>>]

\* The subscribers and the request that refreshed are sent again, or let down.
FinishApiRefresh(f) ==
  LET t == f.tab
      rs == {f.by} \cup {waiters[t][i] : i \in DOMAIN waiters[t]} IN
  /\ f \in flight /\ f.by \in Reqs /\ f.answer # "none"
  /\ flight' = flight \ {f}
  /\ OnRefreshComplete(t)
  /\ IF f.answer = "token"
     THEN /\ store' = Refreshed(f)
          /\ req' = Resent(rs, [login |-> f.login, gen |-> f.gen])
          /\ UNCHANGED tab
     ELSE /\ ForceLogout(t)
          /\ req' = Settled(rs)
  /\ UNCHANGED <<server, profiles>>

\* refreshAccessToken of AuthProvider, for the timer and at load; a failure
\* at load is a logout().
FinishOwnRefresh(f) ==
  /\ f \in flight /\ f.by \in {"timer", "boot"} /\ f.answer # "none"
  /\ flight' = flight \ {f}
  /\ \/ /\ f.answer = "token"
        /\ store' = Refreshed(f)
        /\ tab' = [tab EXCEPT ![f.tab] = Shown(f.tab, Owner[f.login])]
        /\ UNCHANGED <<dead, alive>>
     \/ /\ f.answer = "refused" /\ f.by = "boot"
        /\ LogOut(f.tab)
     \/ /\ f.answer = "refused" /\ f.by = "timer"
        /\ UNCHANGED <<store, tab, dead, alive>>
  /\ UNCHANGED <<issued, mutex, profiles, req>>

-----------------------------------------------------------------------------
(* NotificationProvider.connect: while a user is shown, at mount and after a *)
(* lost connection. Unmounting does not stop a connect() that awaits.        *)

Connect(t) ==
  /\ tab[t].user # None /\ MayCall(t)
  /\ store.access = None \/ store.access \in dead
  /\ store.refresh # None
  /\ flight' = flight \cup {Refresh(t, "socket")}
  /\ UNCHANGED <<store, server, tab, mutex, profiles, req>>

FinishSocketRefresh(f) ==
  /\ f \in flight /\ f.by = "socket" /\ f.answer # "none"
  /\ flight' = flight \ {f}
  /\ store' = IF f.answer = "token" THEN Refreshed(f) ELSE store
  /\ UNCHANGED <<server, tab, mutex, profiles, req>>

-----------------------------------------------------------------------------
Next ==
  \/ \E token \in Tokens : Expire(token)
  \/ \E l \in Logins : EndSession(l)
  \/ \E f \in flight : \/ ServeRefresh(f) \/ FailRefresh(f)
                       \/ FinishApiRefresh(f) \/ FinishOwnRefresh(f)
                       \/ FinishSocketRefresh(f)
  \/ \E p \in profiles : FinishProfile(p)
  \/ \E t \in Tabs : \/ UserLogsOut(t) \/ AutoLogout(t)
                     \/ TimerFires(t) \/ Reload(t) \/ AskProfile(t)
                     \/ Connect(t)
  \/ \E t \in Tabs, l \in Logins : Login(t, l)
  \/ \E t \in Tabs, r \in Reqs : SendRequest(t, r)
  \/ \E r \in Reqs : \/ ServeRequest(r)
                     \/ Subscribe(r) \/ StartRefresh(r) \/ NothingToRefresh(r)

\* Every answer arrives or is given up (axios: 45 s; fetch: when the
\* connection breaks), and the tab's event loop handles it. Nothing is asked
\* of the refreshes outside the mutex.
RefreshStep(t) ==
  \E f \in flight :
    /\ f.tab = t /\ f.by \in Reqs
    /\ ServeRefresh(f) \/ FailRefresh(f) \/ FinishApiRefresh(f)

RequestStep(r) ==
  \/ ServeRequest(r)
  \/ Subscribe(r) \/ StartRefresh(r) \/ NothingToRefresh(r)

Fairness ==
  /\ \A t \in Tabs : WF_vars(RefreshStep(t))
  /\ \A r \in Reqs : WF_vars(RequestStep(r))

Spec == Init /\ [][Next]_vars /\ Fairness

-----------------------------------------------------------------------------
TypeOK ==
  /\ store \in [access : Tokens \cup {None}, refresh : Logins \cup {None},
                user : Users \cup {None}, limit : Limited \cup {None}]
  /\ issued \in [Logins -> 0..MaxGen]
  /\ alive \subseteq Bound
  /\ dead \subseteq Tokens
  /\ tab \in [Tabs -> [user : Users \cup {None}, expiry : BOOLEAN,
                       timer : BOOLEAN, limit : Limited \cup {None},
                       loading : BOOLEAN]]
  /\ refreshing \in [Tabs -> BOOLEAN]
  /\ waiters \in [Tabs -> Seq(Reqs)]
  /\ flight \subseteq [tab : Tabs, by : Reqs \cup {"timer", "boot", "socket"},
                       login : Logins, answer : {"none", "token", "refused"},
                       gen : 0..MaxGen]
  /\ profiles \subseteq [tab : Tabs, user : Users]
  /\ req \in [Reqs -> [tab : Tabs \cup {None},
                       state : {"idle", "sent", "refreshing", "waiting",
                                "done"},
                       token : Tokens \cup {None}, sends : 0..2,
                       refused : BOOLEAN]]

\* The mutex of api.ts: a tab has a request that refreshes exactly while
\* isRefreshing is set, and never two of them.
RefreshMutex ==
  \A t \in Tabs :
    LET holders == {f \in flight : f.tab = t /\ f.by \in Reqs} IN
    /\ refreshing[t] <=> holders # {}
    /\ \A f, g \in holders : f = g

\* A request waits exactly while it is among the subscribers of its tab, once,
\* and only while a refresh is under way that will call them: no request
\* hangs on a refresh that is over.
WaitersHeld ==
  \A t \in Tabs :
    /\ waiters[t] # <<>> => refreshing[t]
    /\ Len(waiters[t]) <= MaxSubscribers
    /\ \A i, j \in DOMAIN waiters[t] : waiters[t][i] = waiters[t][j] => i = j
    /\ \A r \in Reqs :
         (req[r].tab = t /\ req[r].state = "waiting")
           <=> r \in {waiters[t][i] : i \in DOMAIN waiters[t]}

\* Whoever wrote it, whatever was cleared in between: the access token and the
\* refresh token in localStorage are of one login, or there is neither.
TokensOfOneLogin ==
  IF store.access = None THEN store.refresh = None
  ELSE store.refresh = store.access.login

\* A request is sent again at most once, and with a token that is not the one
\* refused, whichever refreshes and logins have passed in between. (It may be an
\* older one: the answer of a refresh may come after that of a later one.)
RetryNewToken ==
  [][\A r \in Reqs :
       req'[r].sends > req[r].sends /\ req[r].sends > 0 =>
         req[r].sends = 1 /\ req'[r].token # req[r].token]_vars

\* Every request gets its outcome: nothing waits for ever behind the mutex.
EveryRequestSettles ==
  \A r \in Reqs : req[r].state = "sent" ~> req[r].state = "done"

\* What the mutex of api.ts is said to give: a tab never has two refreshes
\* under way.
OneRefreshAtATime ==
  \A t \in Tabs, f, g \in flight : f.tab = t /\ g.tab = t => f = g

=============================================================================
