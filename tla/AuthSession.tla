----------------------------- MODULE AuthSession -----------------------------
(***************************************************************************)
(* One member of staff signed in from several browser tabs.  The service    *)
(* issues a short access token and a refresh token together, keeps the      *)
(* refresh tokens in a collection and exchanges each of them once.  The     *)
(* tabs share localStorage; each has its own response interceptor, which    *)
(* answers a 401 by one exchange while the tab's other requests wait.       *)
(*                                                                          *)
(* A token is the second it was signed in: the payload of the refresh token *)
(* is the user and the time in seconds, so two tokens of one second are the *)
(* same string, and tokenHash is unique.                                    *)
(***************************************************************************)
EXTENDS Integers, FiniteSets

CONSTANTS
  Tab,         \* the browser's tabs
  Req,         \* requests of one tab that can be in flight at the same time
  Handler,     \* runs of refreshTokens that can be in flight at the same time
  NoTab,
  AccessTTL,   \* seconds an access token is accepted
  RefreshTTL,  \* seconds a refresh token is accepted
  MaxTime,     \* bound: the last second
  MaxLogins,   \* bound: logins sent
  MaxEvents    \* bound: what the user does beside logging in, calls that fail, replies lost

ASSUME ConstantAssumption ==
  /\ {MaxTime, MaxLogins, MaxEvents} \subseteq Nat
  /\ {AccessTTL, RefreshTTL} \subseteq Nat \ {0}
  /\ NoTab \notin Tab

ASSUME RequestsAssumption == Req # {}

Time == 0..MaxTime
None == -1   \* nothing stored under the key

VARIABLES
  now,
  token,         \* the documents of refresh_tokens, by the second they stand for
  storage,       \* the tokens in localStorage
  page,          \* what each tab shows
  store,         \* tokens.refreshToken of each tab's auth store
  isRefreshing,  \* the flag of each tab's interceptor
  request,       \* each tab's requests
  handler,       \* the runs of refreshTokens
  logins, events,
  signedIn,      \* history: some tab has stored tokens
  excuse         \* history: whether something happened that can cost the session

vars == <<now, token, storage, page, store, isRefreshing, request, handler,
          logins, events, signedIn, excuse>>

\* "cause" is a logout, an expiry, a failure or two tokens of one second; "race" is a token
\* presented again by a second tab, or by the next page, before the first answer is heard
Excuse == {"none", "cause", "race"}

Stored == Time \cup {None}

\* "denied" is a 401 on its way back, "waiting" a place in refreshQueue
Request ==
  [pc : {"idle", "sent", "ok", "failed", "denied", "waiting", "refreshing"},
   op : {"call", "boot", "login", "current", "logout"},
   with : Stored,     \* the access token it was sent with
   retry : BOOLEAN,
   own : Stored]      \* the refresh token in its body, or the one the login before it returned

NoRequest == [pc |-> "idle", op |-> "call", with |-> None, retry |-> FALSE, own |-> None]

Exchange ==
  [pc : {"idle", "find", "revoke", "create", "granted", "refused"},
   by : Tab \cup {NoTab}, old : Stored, new : Stored]

NoExchange == [pc |-> "idle", by |-> NoTab, old |-> None, new |-> None]

TypeOK ==
  /\ now \in Time
  /\ token \in [Time -> {"none", "live", "revoked"}]
  /\ storage \in Stored
  /\ page \in [Tab -> {"loading", "login", "boot", "app"}]
  /\ store \in [Tab -> Stored]
  /\ isRefreshing \in [Tab -> BOOLEAN]
  /\ request \in [Tab -> [Req -> Request]]
  /\ handler \in [Handler -> Exchange]
  /\ {logins, events} \subseteq Nat
  /\ signedIn \in BOOLEAN
  /\ excuse \in Excuse

Init ==
  /\ now = 0
  /\ token = [s \in Time |-> "none"]
  /\ storage = None
  /\ page = [t \in Tab |-> "loading"]
  /\ store = [t \in Tab |-> None]
  /\ isRefreshing = [t \in Tab |-> FALSE]
  /\ request = [t \in Tab |-> [r \in Req |-> NoRequest]]
  /\ handler = [h \in Handler |-> NoExchange]
  /\ logins = 0 /\ events = 0
  /\ signedIn = FALSE
  /\ excuse = "none"

server   == <<token, handler>>
tabs     == <<storage, page, store, isRefreshing, signedIn>>
client   == <<tabs, request>>
counters == <<logins, events>>

Tick ==
  /\ now < MaxTime
  /\ now' = now + 1
  /\ UNCHANGED <<server, client, counters, excuse>>

-----------------------------------------------------------------------------
(* What the tab keeps: tokenStorage and the auth store.                     *)

setTokens(s) == storage' = s /\ signedIn' = (signedIn \/ s # None)

clearTokens == storage' = None /\ UNCHANGED signedIn

setAuth(t, s) == setTokens(s) /\ store' = [store EXCEPT ![t] = s]

clearAuth(t) == clearTokens /\ store' = [store EXCEPT ![t] = None]

Excused == excuse' = IF excuse = "none" THEN "cause" ELSE excuse

Raced(it) == excuse' = IF it THEN "race" ELSE excuse

\* the request interceptor adds the access token stored at that moment
Send(q, stored) == [q EXCEPT !.pc = "sent", !.with = stored]

To(t, r, q) == request' = [request EXCEPT ![t][r] = q]

-----------------------------------------------------------------------------
(* What the user does.                                                      *)

Event ==
  /\ events < MaxEvents
  /\ events' = events + 1
  /\ UNCHANGED logins

New(op, own) == [NoRequest EXCEPT !.op = op, !.own = own]

\* the names of requests and handlers mean nothing: a new one takes the same free name always
FreeRequest(t, r) ==
  /\ request[t][r].pc = "idle"
  /\ r = CHOOSE q \in Req : request[t][q].pc = "idle"

\* a page of the dashboard loads its data
Call(t, r) ==
  /\ page[t] = "app"
  /\ FreeRequest(t, r)
  /\ Event
  /\ To(t, r, Send(New("call", None), storage))
  /\ UNCHANGED <<now, server, tabs, excuse>>

Login(t, r) ==
  /\ page[t] = "login"
  /\ FreeRequest(t, r)
  /\ \A q \in Req : request[t][q].pc # "idle" => request[t][q].op \notin {"login", "current"}
  /\ logins < MaxLogins
  /\ logins' = logins + 1
  /\ To(t, r, Send(New("login", None), storage))
  /\ UNCHANGED <<now, server, tabs, excuse, events>>

\* useAuth().logout sends the refresh token of the store, not the one in localStorage
Logout(t, r) ==
  /\ page[t] = "app"
  /\ FreeRequest(t, r)
  /\ Event
  /\ IF store[t] # None
     THEN /\ To(t, r, Send(New("logout", store[t]), storage))
          /\ UNCHANGED <<storage, signedIn, store, page>>
     ELSE /\ clearAuth(t)
          /\ page' = [page EXCEPT ![t] = "login"]
          /\ UNCHANGED request
  /\ Excused
  /\ UNCHANGED <<now, server, isRefreshing>>

\* the tab's script is gone, and with it the replies it waited for
Unload(t) ==
  /\ request' = [request EXCEPT ![t] = [r \in Req |-> NoRequest]]
  /\ isRefreshing' = [isRefreshing EXCEPT ![t] = FALSE]
  /\ handler' = [h \in Handler |->
       IF handler[h].by # t THEN handler[h]
       ELSE IF handler[h].pc \in {"granted", "refused"} THEN NoExchange
       ELSE [handler[h] EXCEPT !.by = NoTab]]
  /\ page' = [page EXCEPT ![t] = "loading"]

Exchanging(t) == {h \in Handler : handler[h].by = t}

Reload(t) ==
  /\ page[t] # "loading"
  /\ Event
  /\ Unload(t)
  /\ Raced(Exchanging(t) # {})
  /\ store' = [store EXCEPT ![t] = None]
  /\ UNCHANGED <<now, token, storage, signedIn>>

\* AuthProvider: with tokens in localStorage the page fetches the user and the workspace
Load(t) ==
  /\ page[t] = "loading"
  /\ IF storage = None
     THEN page' = [page EXCEPT ![t] = "login"] /\ UNCHANGED request
     ELSE /\ page' = [page EXCEPT ![t] = "boot"]
          /\ request' = [request EXCEPT ![t] = [r \in Req |-> Send(New("boot", None), storage)]]
  /\ UNCHANGED <<now, server, storage, store, isRefreshing, signedIn, counters, excuse>>

-----------------------------------------------------------------------------
(* The service answers.                                                     *)

\* JwtStrategy looks at nothing but the token's own lifetime
Allowed(q) == q.with # None /\ now < q.with + AccessTTL

\* tokenHash is unique: a token signed in a second that already has one is refused
Fresh == token[now] = "none"

\* the login form fetches the workspace before it stores the tokens of the answer
ServeLogin(t, r) ==
  /\ request[t][r].pc = "sent" /\ request[t][r].op = "login"
  /\ IF Fresh
     THEN /\ token' = [token EXCEPT ![now] = "live"]
          /\ To(t, r, Send(New("current", now), storage))
     ELSE To(t, r, NoRequest) /\ UNCHANGED token
  /\ UNCHANGED <<now, handler, tabs, counters, excuse>>

\* mutant: a failure that no callback knows
OutcomeUnknown(q, pc) ==
  IF q.op \in {"call", "login"} THEN NoRequest
  ELSE [q EXCEPT !.pc = IF pc = "ok" THEN "ok" ELSE "error", !.with = None]

\* nothing depends on the outcome of a call or a login that failed
Outcome(q, pc) == IF q.op \in {"call", "login"} THEN NoRequest ELSE [q EXCEPT !.pc = pc, !.with = None]

\* logout revokes the token of the body, every other endpoint leaves the collection alone
Serve(t, r) ==
  LET q == request[t][r] IN
  /\ q.pc = "sent" /\ q.op # "login"
  /\ To(t, r, IF Allowed(q) THEN Outcome(q, "ok") ELSE [q EXCEPT !.pc = "denied", !.with = None])
  /\ token' = IF Allowed(q) /\ q.op = "logout" /\ token[q.own] = "live"
              THEN [token EXCEPT ![q.own] = "revoked"] ELSE token
  /\ UNCHANGED <<now, handler, tabs, counters, excuse>>

Fault == Event /\ Excused

\* the call fails for another reason than its token
ServeFails(t, r) ==
  /\ request[t][r].pc = "sent"
  /\ Fault
  /\ To(t, r, Outcome(request[t][r], "failed"))
  /\ UNCHANGED <<now, server, tabs>>

-----------------------------------------------------------------------------
(* refreshTokens, one await a step.                                         *)

Step(h, e) ==
  /\ handler' = [handler EXCEPT ![h] = e]
  /\ UNCHANGED <<now, client, counters>>

\* nobody is there to hear the reply of an exchange whose tab is gone
Reply(h, pc, new) ==
  Step(h, IF handler[h].by = NoTab THEN NoExchange
          ELSE [handler[h] EXCEPT !.pc = pc, !.new = new])

Expired(s) == now >= s + RefreshTTL

Find(h) ==
  LET s == handler[h].old IN
  /\ handler[h].pc = "find"
  /\ IF token[s] # "live"
     THEN Reply(h, "refused", None) /\ UNCHANGED <<token, excuse>>
     ELSE IF Expired(s)
     THEN /\ token' = [token EXCEPT ![s] = "revoked"]
          /\ Reply(h, "refused", None)
          /\ Excused
     ELSE Step(h, [handler[h] EXCEPT !.pc = "revoke"]) /\ UNCHANGED <<token, excuse>>

\* mutant: the exchanged token is not revoked
RevokeNothing(h) ==
  /\ handler[h].pc = "revoke"
  /\ Step(h, [handler[h] EXCEPT !.pc = "create"])
  /\ UNCHANGED <<token, excuse>>

Revoke(h) ==
  /\ handler[h].pc = "revoke"
  /\ token' = [token EXCEPT ![handler[h].old] = "revoked"]
  /\ Step(h, [handler[h] EXCEPT !.pc = "create"])
  /\ UNCHANGED excuse

\* generateTokens
Create(h) ==
  /\ handler[h].pc = "create"
  /\ IF Fresh
     THEN token' = [token EXCEPT ![now] = "live"] /\ Reply(h, "granted", now) /\ UNCHANGED excuse
     ELSE Reply(h, "refused", None) /\ Excused /\ UNCHANGED token

\* a database call fails, or the reply does not arrive
ExchangeFails(h) ==
  /\ handler[h].pc \in {"find", "revoke", "create", "granted"}
  /\ Fault
  /\ handler' = [handler EXCEPT ![h] =
       IF @.by = NoTab THEN NoExchange ELSE [@ EXCEPT !.pc = "refused", !.new = None]]
  /\ UNCHANGED <<now, token, client>>

-----------------------------------------------------------------------------
(* The response interceptor.                                                *)

FreeHandler(h) ==
  /\ handler[h].pc = "idle"
  /\ h = CHOOSE g \in Handler : handler[g].pc = "idle"

Rejected(t, rejected) ==
  \* the login form stores its own tokens even when the workspace could not be fetched
  LET own == {request[t][r].own : r \in {r \in rejected : request[t][r].op = "current"}} IN
  IF own = {} THEN clearTokens ELSE \E s \in own : setTokens(s)

\* a 401 while an exchange of the tab is under way joins its queue
JoinQueue(t, r) ==
  LET q == request[t][r] IN
  /\ q.pc = "denied" /\ ~q.retry /\ isRefreshing[t]
  /\ To(t, r, [q EXCEPT !.pc = "waiting"])
  /\ UNCHANGED <<now, server, tabs, counters, excuse>>

\* without a refresh token the tab goes to the login page
NoRefreshToken(t, r) ==
  /\ request[t][r].pc = "denied" /\ ~request[t][r].retry /\ ~isRefreshing[t] /\ storage = None
  /\ Rejected(t, {r})
  /\ Unload(t)
  /\ store' = [store EXCEPT ![t] = None]
  /\ UNCHANGED <<now, token, counters, excuse>>

\* mutant: every 401 starts an exchange of its own
StartExchangeEach(t, r) ==
  LET q == request[t][r] IN
  /\ q.pc = "denied" /\ ~q.retry /\ storage # None
  /\ \E h \in Handler :
       /\ FreeHandler(h)
       /\ handler' = [handler EXCEPT ![h] =
            [pc |-> "find", by |-> t, old |-> storage, new |-> None]]
       /\ Raced(\E g \in Handler : handler[g].old = storage /\ handler[g].by \notin {t, NoTab})
  /\ To(t, r, [q EXCEPT !.pc = "refreshing", !.retry = TRUE])
  /\ isRefreshing' = [isRefreshing EXCEPT ![t] = TRUE]
  /\ UNCHANGED <<now, token, storage, page, store, signedIn, counters>>

StartExchange(t, r) ==
  LET q == request[t][r] IN
  /\ q.pc = "denied" /\ ~q.retry /\ ~isRefreshing[t] /\ storage # None
  /\ \E h \in Handler :
       /\ FreeHandler(h)
       /\ handler' = [handler EXCEPT ![h] =
            [pc |-> "find", by |-> t, old |-> storage, new |-> None]]
       /\ Raced(\E g \in Handler : handler[g].old = storage /\ handler[g].by \notin {t, NoTab})
  /\ To(t, r, [q EXCEPT !.pc = "refreshing", !.retry = TRUE])
  /\ isRefreshing' = [isRefreshing EXCEPT ![t] = TRUE]
  /\ UNCHANGED <<now, token, storage, page, store, signedIn, counters>>

Queued(t) == {r \in Req : request[t][r].pc \in {"waiting", "refreshing"}}

\* processQueue and the request itself are sent again with the new token
Resent(t, rs, s) ==
  request' = [request EXCEPT ![t] = [r \in Req |-> IF r \in rs THEN Send(@[r], s) ELSE @[r]]]

\* mutant: the requests in the queue are not released
GrantedAlone(t, h) ==
  /\ handler[h].by = t /\ handler[h].pc = "granted"
  /\ setTokens(handler[h].new)
  /\ Resent(t, {r \in Req : request[t][r].pc = "refreshing"}, handler[h].new)
  /\ isRefreshing' = [isRefreshing EXCEPT ![t] = FALSE]
  /\ handler' = [handler EXCEPT ![h] = NoExchange]
  /\ UNCHANGED <<now, token, page, store, counters, excuse>>

Granted(t, h) ==
  /\ handler[h].by = t /\ handler[h].pc = "granted"
  /\ setTokens(handler[h].new)
  /\ Resent(t, Queued(t), handler[h].new)
  /\ isRefreshing' = [isRefreshing EXCEPT ![t] = FALSE]
  /\ handler' = [handler EXCEPT ![h] = NoExchange]
  /\ UNCHANGED <<now, token, page, store, counters, excuse>>

\* the queue is rejected, the tokens are cleared, the browser goes to /login
Refused(t, h) ==
  /\ handler[h].by = t /\ handler[h].pc = "refused"
  /\ Rejected(t, Queued(t))
  /\ Unload(t)
  /\ store' = [store EXCEPT ![t] = None]
  /\ UNCHANGED <<now, token, counters, excuse>>

-----------------------------------------------------------------------------
(* What the page does with the answer.                                      *)

\* a 401 to a request that was already sent again is an error like any other
Settled(q) == q.pc \in {"ok", "failed"} \/ (q.pc = "denied" /\ q.retry)

Failed(q) == q.pc # "ok"

Noted(q) == IF q.pc = "denied" THEN Excused ELSE UNCHANGED excuse

CallFailed(t, r) ==
  LET q == request[t][r] IN
  /\ Settled(q) /\ q.op = "call"
  /\ To(t, r, NoRequest)
  /\ Noted(q)
  /\ UNCHANGED <<now, server, tabs, counters>>

EnterApp(t, r) ==
  LET q == request[t][r] IN
  /\ Settled(q) /\ q.op = "current"
  /\ setAuth(t, q.own)
  /\ page' = [page EXCEPT ![t] = "app"]
  /\ To(t, r, NoRequest)
  /\ Noted(q)
  /\ UNCHANGED <<now, server, isRefreshing, counters>>

LoggedOut(t, r) ==
  LET q == request[t][r] IN
  /\ Settled(q) /\ q.op = "logout"
  /\ clearAuth(t)
  /\ page' = [page EXCEPT ![t] = "login"]
  /\ To(t, r, NoRequest)
  /\ Noted(q)
  /\ UNCHANGED <<now, server, isRefreshing, counters>>

\* both fetches came back: the store takes over what localStorage holds by then
Booted(t) ==
  /\ \A r \in Req : request[t][r].op = "boot" /\ request[t][r].pc = "ok"
  /\ setAuth(t, storage)
  /\ page' = [page EXCEPT ![t] = "app"]
  /\ request' = [request EXCEPT ![t] = [r \in Req |-> NoRequest]]
  /\ UNCHANGED <<now, server, isRefreshing, counters, excuse>>

\* one fetch failed, whatever the reason: nothing looks at the other any more
BootFailed(t, r) ==
  LET q == request[t][r] IN
  /\ Settled(q) /\ Failed(q) /\ q.op = "boot"
  /\ clearAuth(t)
  /\ page' = [page EXCEPT ![t] = "login"]
  /\ request' = [request EXCEPT ![t] =
       [p \in Req |-> IF p = r THEN NoRequest ELSE [@[p] EXCEPT !.op = "call"]]]
  /\ Noted(q)
  /\ UNCHANGED <<now, server, isRefreshing, counters>>

-----------------------------------------------------------------------------
UserStep ==
  \E t \in Tab : Reload(t) \/ \E r \in Req : Call(t, r) \/ Login(t, r) \/ Logout(t, r)

Answer(t, r) ==
  \/ Serve(t, r) \/ ServeLogin(t, r)
  \/ JoinQueue(t, r) \/ NoRefreshToken(t, r) \/ StartExchange(t, r)
  \/ CallFailed(t, r) \/ EnterApp(t, r) \/ LoggedOut(t, r) \/ BootFailed(t, r)

TabStep(t) ==
  \/ Load(t) \/ Booted(t)
  \/ \E h \in Handler : Granted(t, h) \/ Refused(t, h)

HandlerStep(h) == Find(h) \/ Revoke(h) \/ Create(h)

\* what the service and the browser do by themselves
System ==
  \/ \E t \in Tab : TabStep(t) \/ \E r \in Req : Answer(t, r)
  \/ \E h \in Handler : HandlerStep(h)

Failure ==
  \/ \E t \in Tab, r \in Req : ServeFails(t, r)
  \/ \E h \in Handler : ExchangeFails(h)

Next == Tick \/ UserStep \/ System \/ Failure

Spec == Init /\ [][Next]_vars
=============================================================================
