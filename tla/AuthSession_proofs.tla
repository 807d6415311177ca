-------------------------- MODULE AuthSession_proofs --------------------------
(***************************************************************************)
(* A session is kept, no request waits for nothing and refreshing rotates   *)
(* the tokens, however many tabs, requests and exchanges there are and      *)
(* whatever the lifetimes.                                                  *)
(***************************************************************************)
EXTENDS AuthSessionProps, FiniteSetTheorems, TLAPS

LEMMA TimeFacts == None \notin Time /\ Stored = Time \cup {None} /\ Time \subseteq Int
  BY ConstantAssumption DEF None, Time, Stored

\* groups of variables
USE DEF server, client, tabs, counters

-----------------------------------------------------------------------------
(* Types of the records.                                                    *)

LEMMA RequestRecord ==
  ASSUME NEW q \in Request
  PROVE  /\ \A pc \in {"idle", "sent", "ok", "failed", "denied", "waiting", "refreshing"} :
              [q EXCEPT !.pc = pc] \in Request /\ [q EXCEPT !.pc = pc, !.with = None] \in Request
         /\ [q EXCEPT !.op = "call"] \in Request
         /\ [q EXCEPT !.pc = "refreshing", !.retry = TRUE] \in Request
         /\ \A s \in Stored : Send(q, s) \in Request
  BY TimeFacts DEF Request, Send

LEMMA NoRequestType ==
  /\ NoRequest \in Request /\ NoRequest.pc = "idle"
  /\ \A op \in {"call", "boot", "login", "current", "logout"}, s \in Stored : New(op, s) \in Request
  BY TimeFacts DEF NoRequest, Request, New

LEMMA OutcomeType ==
  ASSUME NEW q \in Request, NEW pc \in {"ok", "failed"}
  PROVE  Outcome(q, pc) \in Request
  BY RequestRecord, NoRequestType DEF Outcome

LEMMA ExchangeType ==
  /\ NoExchange \in Exchange
  /\ \A t \in Tab, s \in Stored : [pc |-> "find", by |-> t, old |-> s, new |-> None] \in Exchange
  /\ \A e \in Exchange :
       /\ \A pc \in {"idle", "find", "revoke", "create", "granted", "refused"} :
            /\ [e EXCEPT !.pc = pc] \in Exchange
            /\ \A s \in Stored : [e EXCEPT !.pc = pc, !.new = s] \in Exchange
       /\ [e EXCEPT !.by = NoTab] \in Exchange
  <1>1. NoExchange \in Exchange
    BY TimeFacts DEF Exchange, NoExchange
  <1>2. ASSUME NEW t \in Tab, NEW s \in Stored
        PROVE  [pc |-> "find", by |-> t, old |-> s, new |-> None] \in Exchange
    BY TimeFacts DEF Exchange
  <1>3. ASSUME NEW e \in Exchange, NEW pc \in {"idle", "find", "revoke", "create", "granted", "refused"}
        PROVE  /\ [e EXCEPT !.pc = pc] \in Exchange
               /\ \A s \in Stored : [e EXCEPT !.pc = pc, !.new = s] \in Exchange
    BY DEF Exchange
  <1>4. ASSUME NEW e \in Exchange
        PROVE  [e EXCEPT !.by = NoTab] \in Exchange
    BY DEF Exchange
  <1> QED BY <1>1, <1>2, <1>3, <1>4

-----------------------------------------------------------------------------
(* What the steps change, request by request and exchange by exchange.      *)

LEMMA OneRequest ==
  ASSUME TypeOK, NEW t \in Tab, NEW r \in Req, NEW q \in Request, To(t, r, q)
  PROVE  /\ request' \in [Tab -> [Req -> Request]]
         /\ request'[t][r] = q
         /\ \A u \in Tab, p \in Req : u # t \/ p # r => request'[u][p] = request[u][p]
  <1> DEFINE row == [request[t] EXCEPT ![r] = q]
  <1>1. request' = [request EXCEPT ![t] = row]
    BY DEF To
  <1>2. row \in [Req -> Request] /\ row[r] = q /\ \A p \in Req : p # r => row[p] = request[t][p]
    BY DEF TypeOK
  <1> HIDE DEF row
  <1> QED BY <1>1, <1>2 DEF TypeOK

LEMMA OneHandler ==
  ASSUME TypeOK, NEW h \in Handler, NEW e \in Exchange, handler' = [handler EXCEPT ![h] = e]
  PROVE  /\ handler' \in [Handler -> Exchange]
         /\ handler'[h] = e
         /\ \A g \in Handler : g # h => handler'[g] = handler[g]
  BY DEF TypeOK

LEMMA ReplyStep ==
  ASSUME TypeOK, NEW h \in Handler, NEW pc \in {"granted", "refused"}, NEW s \in Stored, Reply(h, pc, s)
  PROVE  /\ handler' \in [Handler -> Exchange]
         /\ handler[h].by = NoTab => handler'[h] = NoExchange
         /\ handler[h].by # NoTab => handler'[h] = [handler[h] EXCEPT !.pc = pc, !.new = s]
         /\ \A g \in Handler : g # h => handler'[g] = handler[g]
         /\ UNCHANGED <<now, client, counters>>
  <1> DEFINE e == IF handler[h].by = NoTab THEN NoExchange ELSE [handler[h] EXCEPT !.pc = pc, !.new = s]
  <1>1. e \in Exchange
    BY ExchangeType DEF TypeOK
  <1>2. handler' = [handler EXCEPT ![h] = e] /\ UNCHANGED <<now, client, counters>>
    BY DEF Reply, Step
  <1> HIDE DEF e
  <1>3. handler'[h] = e /\ handler' \in [Handler -> Exchange] /\ \A g \in Handler : g # h => handler'[g] = handler[g]
    BY <1>1, <1>2, OneHandler
  <1> QED BY <1>2, <1>3 DEF e

LEMMA UnloadStep ==
  ASSUME TypeOK, NEW t \in Tab, Unload(t)
  PROVE  /\ request' \in [Tab -> [Req -> Request]]
         /\ \A r \in Req : request'[t][r] = NoRequest
         /\ \A u \in Tab : u # t => request'[u] = request[u]
         /\ isRefreshing' \in [Tab -> BOOLEAN] /\ ~isRefreshing'[t]
         /\ \A u \in Tab : u # t => isRefreshing'[u] = isRefreshing[u] /\ page'[u] = page[u]
         /\ page' \in [Tab -> {"loading", "login", "boot", "app"}]
         /\ handler' \in [Handler -> Exchange]
         /\ \A h \in Handler :
              \/ handler[h].by # t /\ handler'[h] = handler[h]
              \/ handler[h].by = t /\ handler'[h] = NoExchange
              \/ /\ handler[h].by = t /\ handler[h].pc \notin {"granted", "refused"}
                 /\ handler'[h] = [handler[h] EXCEPT !.by = NoTab]
  BY NoRequestType, ExchangeType DEF TypeOK, Unload

-----------------------------------------------------------------------------
(* The flag, its request and its exchange: the three kinds of steps.        *)

Structure == TypeOK /\ HandlerInv /\ RefreshInv /\ OwnInv

\* no page starts being loaded
NoneReloaded == \A u \in Tab : page'[u] = "loading" => page[u] = "loading"

LEMMA QuietRequest ==
  ASSUME Structure, NEW t \in Tab, NEW r \in Req, NEW q \in Request, To(t, r, q),
         UNCHANGED <<handler, isRefreshing>>, NoneReloaded,
         page[t] # "loading" \/ request[t][r].pc # "idle",
         request[t][r].pc \notin {"waiting", "refreshing"},
         q.pc # "refreshing", q.pc = "waiting" => isRefreshing[t],
         q.pc # "idle" /\ q.op \in {"current", "logout"} => q.own \in Time
  PROVE  HandlerInv' /\ RefreshInv' /\ OwnInv'
  <1>1. /\ request' \in [Tab -> [Req -> Request]]
        /\ request'[t][r] = q
        /\ \A u \in Tab, p \in Req : u # t \/ p # r => request'[u][p] = request[u][p]
    BY OneRequest DEF Structure
  <1>2. HandlerInv'
    BY DEF Structure, HandlerInv, Active
  <1>3. OwnInv'
    BY <1>1 DEF Structure, OwnInv
  <1>4. ASSUME NEW u \in Tab PROVE RefreshAt(u)'
    <2>1. RefreshAt(u) /\ RefreshAt(t)
      BY DEF Structure, RefreshInv
    <2>2. \A p \in Req : request'[u][p].pc = "refreshing" <=> request[u][p].pc = "refreshing"
      BY <1>1
    <2>3. \A p \in Req : request'[u][p].pc = "waiting" => request[u][p].pc = "waiting" \/ isRefreshing[u]
      BY <1>1
    <2>4. page'[u] = "loading" => \A p \in Req : request'[u][p].pc = "idle"
      BY <1>1, <2>1 DEF RefreshAt, NoneReloaded
    <2> QED BY <2>1, <2>2, <2>3, <2>4 DEF RefreshAt
  <1> QED BY <1>2, <1>3, <1>4 DEF RefreshInv

LEMMA QuietHandler ==
  ASSUME Structure, NEW h \in Handler, UNCHANGED <<page, request, isRefreshing>>,
         \A g \in Handler : g # h => handler'[g] = handler[g],
         handler'[h].by = handler[h].by,
         handler'[h].pc = "idle" => handler[h].by = NoTab,
         handler'[h].pc # "idle" =>
           handler[h].pc # "idle" /\ handler'[h].old = handler[h].old,
         handler'[h].pc \in {"granted", "refused"} => handler[h].by # NoTab,
         handler'[h].pc = "granted" => handler'[h].new \in Time
  PROVE  HandlerInv' /\ RefreshInv' /\ OwnInv'
  <1>1. HandlerInv'
    BY DEF Structure, HandlerInv, Active
  <1>2. OwnInv'
    BY DEF Structure, OwnInv
  <1>3. \A g \in Handler : handler'[g].by = handler[g].by
    OBVIOUS
  <1>4. ASSUME NEW u \in Tab PROVE RefreshAt(u)'
    BY <1>3 DEF Structure, RefreshInv, RefreshAt
  <1> QED BY <1>1, <1>2, <1>4 DEF RefreshInv

LEMMA UnloadKeeps ==
  ASSUME Structure, NEW t \in Tab, Unload(t), UNCHANGED token
  PROVE  HandlerInv' /\ RefreshInv' /\ OwnInv'
  <1>1. NoTab \notin Tab /\ NoRequest.pc = "idle" /\ NoExchange.pc = "idle" /\ NoExchange.by = NoTab
    BY ConstantAssumption DEF NoRequest, NoExchange
  <1>2. \A h \in Handler : handler[h] \in Exchange
    BY DEF Structure, TypeOK
  <1>3. \A h \in Handler, e \in Exchange :
          handler'[h] = [e EXCEPT !.by = NoTab] =>
            handler'[h].by = NoTab /\ handler'[h].pc = e.pc /\ handler'[h].old = e.old
            /\ handler'[h].new = e.new
    BY DEF Exchange
  <1>4. \A h \in Handler :
          \/ handler[h].by # t /\ handler'[h] = handler[h]
          \/ /\ handler[h].by = t /\ handler'[h].by = NoTab
             /\ \/ handler'[h].pc = "idle"
                \/ /\ handler'[h].pc = handler[h].pc /\ handler'[h].old = handler[h].old
                   /\ handler[h].pc \notin {"granted", "refused"}
    <2>1. TypeOK
      BY DEF Structure
    <2>2. TAKE h \in Handler
    <2>3. CASE handler[h].by # t /\ handler'[h] = handler[h]
      BY <2>3
    <2>4. CASE handler[h].by = t /\ handler'[h] = NoExchange
      BY <2>4, <1>1
    <2>5. CASE /\ handler[h].by = t /\ handler[h].pc \notin {"granted", "refused"}
               /\ handler'[h] = [handler[h] EXCEPT !.by = NoTab]
      BY <2>5, <1>2, <1>3
    <2> QED BY <2>1, <2>3, <2>4, <2>5, UnloadStep
  <1>5. HandlerInv'
    BY <1>1, <1>4 DEF Structure, HandlerInv, Active
  <1>6. /\ \A r \in Req : request'[t][r].pc = "idle"
        /\ \A u \in Tab : u # t =>
             request'[u] = request[u] /\ page'[u] = page[u] /\ isRefreshing'[u] = isRefreshing[u]
        /\ ~isRefreshing'[t]
    BY <1>1, UnloadStep DEF Structure
  <1>7. OwnInv'
    BY <1>6 DEF Structure, OwnInv
  <1>8. ASSUME NEW u \in Tab PROVE RefreshAt(u)'
    <2>1. RefreshAt(u)
      BY DEF Structure, RefreshInv
    <2>2. \A h \in Handler : handler'[h].by = u <=> handler[h].by = u /\ u # t
      BY <1>1, <1>4
    <2>3. CASE u = t
      BY <2>3, <1>6, <2>2 DEF RefreshAt
    <2>4. CASE u # t
      <3>1. request'[u] = request[u] /\ page'[u] = page[u] /\ isRefreshing'[u] = isRefreshing[u]
        BY <2>4, <1>6
      <3>2. \A h \in Handler : handler'[h].by = u <=> handler[h].by = u
        BY <2>2, <2>4
      <3> HIDE <1>4
      <3> QED BY <2>1, <3>1, <3>2 DEF RefreshAt
    <2> QED BY <2>3, <2>4
  <1> QED BY <1>5, <1>7, <1>8 DEF RefreshInv

-----------------------------------------------------------------------------
(* ... and one lemma for each of the actions.                               *)

LEMMA RequestTyped ==
  ASSUME TypeOK, NEW t \in Tab, NEW r \in Req
  PROVE  request[t][r] \in Request
  BY DEF TypeOK

LEMMA TickStructure ==
  ASSUME Structure, Tick
  PROVE  Structure'
  <1>1. now' \in Time
    BY ConstantAssumption DEF Structure, Tick, TypeOK, Time
  <1>2. TypeOK'
    BY <1>1 DEF Structure, Tick, TypeOK
  <1>3. HandlerInv' /\ OwnInv'
    BY DEF Structure, Tick, HandlerInv, Active, OwnInv
  <1>4. RefreshInv'
    BY DEF Structure, Tick, RefreshInv, RefreshAt
  <1> QED BY <1>2, <1>3, <1>4 DEF Structure

LEMMA CallStructure ==
  ASSUME Structure, NEW t \in Tab, NEW r \in Req, Call(t, r)
  PROVE  Structure'
  <1> DEFINE q == Send(New("call", None), storage)
  <1>1. q \in Request
    BY NoRequestType, RequestRecord, TimeFacts DEF Structure, TypeOK
  <1>2. q.pc = "sent" /\ q.op = "call"
    BY DEF Send, New, NoRequest
  <1>3. /\ To(t, r, q) /\ page[t] = "app" /\ request[t][r].pc = "idle" /\ Event
        /\ UNCHANGED <<now, token, handler, storage, page, store, isRefreshing, signedIn, excuse>>
    BY DEF Call, FreeRequest
  <1> HIDE DEF q
  <1>4. TypeOK'
    BY <1>1, <1>3, OneRequest DEF Structure, TypeOK, Event
  <1>5. HandlerInv' /\ RefreshInv' /\ OwnInv'
    BY <1>1, <1>2, <1>3, QuietRequest DEF NoneReloaded
  <1> QED BY <1>4, <1>5 DEF Structure

LEMMA LoginStructure ==
  ASSUME Structure, NEW t \in Tab, NEW r \in Req, Login(t, r)
  PROVE  Structure'
  <1> DEFINE q == Send(New("login", None), storage)
  <1>1. q \in Request
    BY NoRequestType, RequestRecord, TimeFacts DEF Structure, TypeOK
  <1>2. q.pc = "sent" /\ q.op = "login"
    BY DEF Send, New, NoRequest
  <1>3. /\ To(t, r, q) /\ page[t] = "login" /\ request[t][r].pc = "idle" /\ logins' = logins + 1
        /\ UNCHANGED <<now, token, handler, storage, page, store, isRefreshing, signedIn, excuse, events>>
    BY DEF Login, FreeRequest
  <1> HIDE DEF q
  <1>4. TypeOK'
    BY <1>1, <1>3, OneRequest DEF Structure, TypeOK
  <1>5. HandlerInv' /\ RefreshInv' /\ OwnInv'
    BY <1>1, <1>2, <1>3, QuietRequest DEF NoneReloaded
  <1> QED BY <1>4, <1>5 DEF Structure

LEMMA ExcusedFacts ==
  ASSUME TypeOK, Excused
  PROVE  excuse' \in Excuse /\ excuse' # "none"
  BY DEF TypeOK, Excused, Excuse

LEMMA RacedFacts ==
  ASSUME TypeOK, NEW it \in BOOLEAN, Raced(it)
  PROVE  excuse' \in Excuse /\ (excuse' = "none" => ~it /\ excuse = "none")
  BY DEF TypeOK, Raced, Excuse

LEMMA LogoutStructure ==
  ASSUME Structure, NEW t \in Tab, NEW r \in Req, Logout(t, r)
  PROVE  Structure'
  <1>1. /\ page[t] = "app" /\ request[t][r].pc = "idle" /\ Event /\ Excused
        /\ UNCHANGED <<now, token, handler, isRefreshing>>
    BY DEF Logout, FreeRequest
  <1>2. TypeOK /\ storage \in Stored /\ store[t] \in Stored
    BY DEF Structure, TypeOK
  <1>3. CASE store[t] # None
    <2> DEFINE q == Send(New("logout", store[t]), storage)
    <2>1. q \in Request
      BY <1>2, NoRequestType, RequestRecord
    <2>2. q.pc = "sent" /\ q.op = "logout" /\ q.own = store[t]
      BY DEF Send, New, NoRequest
    <2>3. To(t, r, q) /\ UNCHANGED <<storage, signedIn, store, page>>
      BY <1>3 DEF Logout
    <2> HIDE DEF q
    <2>4. TypeOK'
      BY <1>1, <1>2, <2>1, <2>3, OneRequest, ExcusedFacts DEF TypeOK, Event
    <2>5. q.own \in Time
      BY <1>2, <1>3, <2>2, TimeFacts
    <2>6. HandlerInv' /\ RefreshInv' /\ OwnInv'
      BY <1>1, <2>1, <2>2, <2>3, <2>5, QuietRequest DEF NoneReloaded
    <2> QED BY <2>4, <2>6 DEF Structure
  <1>4. CASE store[t] = None
    <2>1. /\ storage' = None /\ signedIn' = signedIn /\ store' = [store EXCEPT ![t] = None]
          /\ page' = [page EXCEPT ![t] = "login"] /\ request' = request
      BY <1>4 DEF Logout, clearAuth, clearTokens
    <2>2. TypeOK'
      BY <1>1, <1>2, <2>1, TimeFacts, ExcusedFacts DEF TypeOK, Event
    <2>3. HandlerInv' /\ OwnInv'
      BY <1>1, <2>1 DEF Structure, HandlerInv, Active, OwnInv
    <2>4. \A u \in Tab : page'[u] = "loading" => page[u] = "loading"
      BY <1>2, <2>1 DEF TypeOK
    <2>5. RefreshInv'
      <3>1. handler' = handler /\ request' = request /\ isRefreshing' = isRefreshing
        BY <1>1, <2>1
      <3>2. ASSUME NEW u \in Tab PROVE RefreshAt(u)'
        BY <2>4, <3>1 DEF Structure, RefreshInv, RefreshAt
      <3> QED BY <3>2 DEF RefreshInv
    <2> QED BY <2>2, <2>3, <2>5 DEF Structure
  <1> QED BY <1>3, <1>4

LEMMA ReloadStructure ==
  ASSUME Structure, NEW t \in Tab, Reload(t)
  PROVE  Structure'
  <1>1. /\ Unload(t) /\ Event /\ Raced(Exchanging(t) # {})
        /\ store' = [store EXCEPT ![t] = None]
        /\ UNCHANGED <<now, token, storage, signedIn>>
    BY DEF Reload
  <1>2. excuse' \in Excuse
    <2> DEFINE it == Exchanging(t) # {}
    <2>1. it \in BOOLEAN /\ Raced(it) /\ TypeOK
      BY <1>1 DEF Structure
    <2> HIDE DEF it
    <2> QED BY <2>1, RacedFacts
  <1>3. TypeOK /\ storage \in Stored
    BY DEF Structure, TypeOK
  <1>4. TypeOK'
    BY <1>1, <1>2, <1>3, UnloadStep, TimeFacts DEF TypeOK, Event
  <1> QED BY <1>1, <1>4, UnloadKeeps DEF Structure

LEMMA LoadStructure ==
  ASSUME Structure, NEW t \in Tab, Load(t)
  PROVE  Structure'
  <1>1. /\ page[t] = "loading"
        /\ UNCHANGED <<now, token, handler, storage, store, isRefreshing, signedIn, logins, events, excuse>>
    BY DEF Load
  <1>2. TypeOK /\ storage \in Stored
    BY DEF Structure, TypeOK
  <1>3. /\ page' \in [Tab -> {"loading", "login", "boot", "app"}]
        /\ page'[t] # "loading" /\ \A u \in Tab : u # t => page'[u] = page[u]
    BY <1>2 DEF Load, TypeOK
  <1> DEFINE q == Send(New("boot", None), storage)
  <1>4. q \in Request /\ q.pc = "sent" /\ q.op = "boot"
    <2>1. q \in Request
      BY <1>2, NoRequestType, RequestRecord, TimeFacts
    <2>2. q.pc = "sent" /\ q.op = "boot"
      BY DEF Send, New, NoRequest
    <2> QED BY <2>1, <2>2
  <1>5. \/ request' = request
        \/ request' = [request EXCEPT ![t] = [r \in Req |-> q]]
    BY DEF Load
  <1> HIDE DEF q
  <1>6. /\ request' \in [Tab -> [Req -> Request]]
        /\ \A u \in Tab, r \in Req :
             request'[u][r] = request[u][r] \/ (u = t /\ request'[u][r] = q)
    BY <1>2, <1>4, <1>5 DEF TypeOK
  <1>7. TypeOK'
    BY <1>1, <1>2, <1>3, <1>6 DEF TypeOK
  <1>8. HandlerInv' /\ OwnInv'
    BY <1>1, <1>4, <1>6 DEF Structure, HandlerInv, Active, OwnInv
  <1>9. ASSUME NEW u \in Tab PROVE RefreshAt(u)'
    <2>1. RefreshAt(u) /\ RefreshAt(t)
      BY DEF Structure, RefreshInv
    <2>2. \A r \in Req : request[t][r].pc = "idle"
      BY <1>1, <2>1 DEF RefreshAt
    <2>3. \A r \in Req :
            /\ request'[u][r].pc = "refreshing" <=> request[u][r].pc = "refreshing"
            /\ request'[u][r].pc = "waiting" <=> request[u][r].pc = "waiting"
      BY <1>4, <1>6, <2>2
    <2>4. page'[u] = "loading" => u # t
      BY <1>3
    <2>5. u # t => page'[u] = page[u] /\ \A r \in Req : request'[u][r] = request[u][r]
      BY <1>3, <1>6
    <2> QED BY <1>1, <2>1, <2>3, <2>4, <2>5 DEF RefreshAt
  <1> QED BY <1>7, <1>8, <1>9 DEF Structure, RefreshInv

LEMMA ServeLoginStructure ==
  ASSUME Structure, NEW t \in Tab, NEW r \in Req, ServeLogin(t, r)
  PROVE  Structure'
  <1>1. /\ request[t][r].pc = "sent"
        /\ UNCHANGED <<now, handler, storage, page, store, isRefreshing, signedIn, logins, events, excuse>>
    BY DEF ServeLogin
  <1>2. TypeOK /\ storage \in Stored /\ now \in Time /\ now \in Stored
    BY TimeFacts DEF Structure, TypeOK
  <1>3. CASE Fresh
    <2> DEFINE q == Send(New("current", now), storage)
    <2>1. q \in Request
      BY <1>2, NoRequestType, RequestRecord
    <2>2. q.pc = "sent" /\ q.own = now
      BY DEF Send, New, NoRequest
    <2>3. To(t, r, q) /\ token' = [token EXCEPT ![now] = "live"]
      BY <1>3 DEF ServeLogin
    <2> HIDE DEF q
    <2>4. TypeOK'
      BY <1>1, <1>2, <2>1, <2>3, OneRequest DEF TypeOK
    <2>5. HandlerInv' /\ RefreshInv' /\ OwnInv'
      BY <1>1, <1>2, <2>1, <2>2, <2>3, QuietRequest DEF NoneReloaded
    <2> QED BY <2>4, <2>5 DEF Structure
  <1>4. CASE ~Fresh
    <2>1. To(t, r, NoRequest) /\ token' = token
      BY <1>4 DEF ServeLogin
    <2>2. TypeOK'
      BY <1>1, <1>2, <2>1, NoRequestType, OneRequest DEF TypeOK
    <2>3. HandlerInv' /\ RefreshInv' /\ OwnInv'
      BY <1>1, <2>1, NoRequestType, QuietRequest DEF NoneReloaded
    <2> QED BY <2>2, <2>3 DEF Structure
  <1> QED BY <1>3, <1>4

\* whatever the outcome, the request carries what it carried
LEMMA OutcomeFacts ==
  ASSUME NEW q \in Request, NEW pc \in {"ok", "failed"}
  PROVE  LET o == Outcome(q, pc) IN
         /\ o.pc \in {"idle", pc}
         /\ o.pc # "idle" => o.op = q.op /\ o.own = q.own
  BY DEF Outcome, Request, NoRequest

LEMMA ServeStructure ==
  ASSUME Structure, NEW t \in Tab, NEW r \in Req, Serve(t, r)
  PROVE  Structure'
  <1> DEFINE o == IF Allowed(request[t][r]) THEN Outcome(request[t][r], "ok")
                  ELSE [request[t][r] EXCEPT !.pc = "denied", !.with = None]
  <1>1. /\ request[t][r].pc = "sent" /\ To(t, r, o)
        /\ token' = token \/ \E s \in {request[t][r].own} :
                               token[s] = "live" /\ token' = [token EXCEPT ![s] = "revoked"]
        /\ UNCHANGED <<now, handler, storage, page, store, isRefreshing, signedIn, logins, events, excuse>>
    BY DEF Serve
  <1>2. TypeOK /\ request[t][r] \in Request
    BY DEF Structure, TypeOK
  <1>3. o \in Request
    BY <1>2, OutcomeType, RequestRecord
  <1>4. o.pc \in {"idle", "ok", "denied"} /\ (o.pc # "idle" => o.op = request[t][r].op /\ o.own = request[t][r].own)
    BY <1>2, OutcomeFacts DEF Request
  <1> HIDE DEF o
  <1>5. token' \in [Time -> {"none", "live", "revoked"}]
    BY <1>1, <1>2 DEF TypeOK
  <1>6. TypeOK'
    BY <1>1, <1>2, <1>3, <1>5, OneRequest DEF TypeOK
  <1>7. o.pc # "idle" /\ o.op \in {"current", "logout"} => o.own \in Time
    BY <1>1, <1>4 DEF Structure, OwnInv
  <1>8. HandlerInv' /\ RefreshInv' /\ OwnInv'
    BY <1>1, <1>3, <1>4, <1>5, <1>7, QuietRequest DEF NoneReloaded
  <1> QED BY <1>6, <1>8 DEF Structure

LEMMA ServeFailsStructure ==
  ASSUME Structure, NEW t \in Tab, NEW r \in Req, ServeFails(t, r)
  PROVE  Structure'
  <1> DEFINE o == Outcome(request[t][r], "failed")
  <1>1. /\ request[t][r].pc = "sent" /\ To(t, r, o) /\ Excused /\ Event
        /\ UNCHANGED <<now, token, handler, storage, page, store, isRefreshing, signedIn>>
    BY DEF ServeFails, Fault
  <1>2. TypeOK /\ request[t][r] \in Request
    BY DEF Structure, TypeOK
  <1>3. o \in Request
    BY <1>2, OutcomeType
  <1>4. o.pc \in {"idle", "failed"} /\ (o.pc # "idle" => o.op = request[t][r].op /\ o.own = request[t][r].own)
    BY <1>2, OutcomeFacts
  <1> HIDE DEF o
  <1>5. TypeOK'
    BY <1>1, <1>2, <1>3, OneRequest, ExcusedFacts DEF TypeOK, Event
  <1>6. o.pc # "idle" /\ o.op \in {"current", "logout"} => o.own \in Time
    BY <1>1, <1>4 DEF Structure, OwnInv
  <1>7. HandlerInv' /\ RefreshInv' /\ OwnInv'
    BY <1>1, <1>3, <1>4, <1>6, QuietRequest DEF NoneReloaded
  <1> QED BY <1>5, <1>7 DEF Structure

LEMMA JoinQueueStructure ==
  ASSUME Structure, NEW t \in Tab, NEW r \in Req, JoinQueue(t, r)
  PROVE  Structure'
  <1> DEFINE q == [request[t][r] EXCEPT !.pc = "waiting"]
  <1>1. /\ request[t][r].pc = "denied" /\ isRefreshing[t] /\ To(t, r, q)
        /\ UNCHANGED <<now, token, handler, storage, page, store, isRefreshing, signedIn, logins, events, excuse>>
    BY DEF JoinQueue
  <1>2. TypeOK /\ request[t][r] \in Request
    BY DEF Structure, TypeOK
  <1>3. q \in Request
    BY <1>2, RequestRecord
  <1>4. q.pc = "waiting" /\ q.op = request[t][r].op /\ q.own = request[t][r].own
    BY <1>2 DEF Request
  <1> HIDE DEF q
  <1>5. TypeOK'
    BY <1>1, <1>2, <1>3, OneRequest DEF TypeOK
  <1>6. q.op \in {"current", "logout"} => q.own \in Time
    BY <1>1, <1>4 DEF Structure, OwnInv
  <1>7. HandlerInv' /\ RefreshInv' /\ OwnInv'
    BY <1>1, <1>3, <1>4, <1>6, QuietRequest DEF NoneReloaded
  <1> QED BY <1>5, <1>7 DEF Structure

LEMMA NotedFacts ==
  ASSUME TypeOK, NEW q, Noted(q)
  PROVE  /\ excuse' \in Excuse
         /\ excuse' = "none" => excuse = "none" /\ q.pc # "denied"
  BY ExcusedFacts DEF TypeOK, Noted

\* a request is over, and the page changes to something else than a page being loaded
LEMMA OverStructure ==
  ASSUME Structure, NEW t \in Tab, NEW r \in Req, To(t, r, NoRequest), Settled(request[t][r]),
         storage' \in Stored, signedIn' \in BOOLEAN, store' \in [Tab -> Stored],
         page' = page \/ \E p \in {"login", "app"} : page' = [page EXCEPT ![t] = p],
         Noted(request[t][r]), UNCHANGED <<now, token, handler, isRefreshing, logins, events>>
  PROVE  Structure'
  <1>1. TypeOK
    BY DEF Structure
  <1>2. page' \in [Tab -> {"loading", "login", "boot", "app"}] /\ NoneReloaded
    BY <1>1 DEF TypeOK, NoneReloaded
  <1>3. TypeOK'
    BY <1>1, <1>2, NoRequestType, OneRequest, NotedFacts DEF TypeOK
  <1>4. request[t][r].pc \notin {"idle", "waiting", "refreshing"}
    BY DEF Settled
  <1>5. HandlerInv' /\ RefreshInv' /\ OwnInv'
    BY <1>2, <1>4, NoRequestType, QuietRequest
  <1> QED BY <1>3, <1>5 DEF Structure

LEMMA CallFailedStructure ==
  ASSUME Structure, NEW t \in Tab, NEW r \in Req, CallFailed(t, r)
  PROVE  Structure'
  BY OverStructure DEF CallFailed, Structure, TypeOK

LEMMA EnterAppStructure ==
  ASSUME Structure, NEW t \in Tab, NEW r \in Req, EnterApp(t, r)
  PROVE  Structure'
  <1>1. /\ Settled(request[t][r]) /\ request[t][r].op = "current"
        /\ To(t, r, NoRequest) /\ Noted(request[t][r])
        /\ storage' = request[t][r].own
        /\ signedIn' = (signedIn \/ request[t][r].own # None)
        /\ store' = [store EXCEPT ![t] = request[t][r].own]
        /\ page' = [page EXCEPT ![t] = "app"]
        /\ UNCHANGED <<now, token, handler, isRefreshing, logins, events>>
    BY DEF EnterApp, setAuth, setTokens
  <1>2. TypeOK /\ request[t][r].own \in Stored
    BY RequestTyped DEF Structure, Request
  <1>3. signedIn' \in BOOLEAN
    BY <1>1, <1>2 DEF TypeOK
  <1>4. store' \in [Tab -> Stored]
    BY <1>1, <1>2 DEF TypeOK
  <1> QED BY <1>1, <1>2, <1>3, <1>4, OverStructure

LEMMA LoggedOutStructure ==
  ASSUME Structure, NEW t \in Tab, NEW r \in Req, LoggedOut(t, r)
  PROVE  Structure'
  <1>1. /\ Settled(request[t][r]) /\ To(t, r, NoRequest) /\ Noted(request[t][r])
        /\ storage' = None /\ signedIn' = signedIn
        /\ store' = [store EXCEPT ![t] = None]
        /\ page' = [page EXCEPT ![t] = "login"]
        /\ UNCHANGED <<now, token, handler, isRefreshing, logins, events>>
    BY DEF LoggedOut, clearAuth, clearTokens
  <1>2. TypeOK /\ None \in Stored
    BY TimeFacts DEF Structure
  <1>3. signedIn' \in BOOLEAN /\ store' \in [Tab -> Stored]
    BY <1>1, <1>2 DEF TypeOK
  <1> QED BY <1>1, <1>2, <1>3, OverStructure

\* the tokens are cleared, or a login's own tokens stored in their place
LEMMA RejectedFacts ==
  ASSUME TypeOK, NEW t \in Tab, NEW rs \in SUBSET Req, Rejected(t, rs)
  PROVE  /\ storage' \in Stored /\ signedIn' \in BOOLEAN
         /\ \/ storage' = None /\ signedIn' = signedIn
            \/ \E r \in rs : request[t][r].op = "current" /\ storage' = request[t][r].own
  <1> DEFINE own == {request[t][r].own : r \in {r \in rs : request[t][r].op = "current"}}
  <1>1. IF own = {} THEN clearTokens ELSE \E s \in own : setTokens(s)
    BY DEF Rejected
  <1>2. \A r \in Req : request[t][r].own \in Stored
    BY RequestTyped DEF Request
  <1>3. CASE own = {}
    BY <1>1, <1>3, TimeFacts DEF clearTokens, TypeOK
  <1>4. CASE own # {}
    <2>1. PICK s \in own : setTokens(s)
      BY <1>1, <1>4
    <2>2. PICK r \in rs : request[t][r].op = "current" /\ s = request[t][r].own
      BY <2>1
    <2>3. storage' = s /\ signedIn' \in BOOLEAN
      BY <2>1 DEF setTokens, TypeOK
    <2> QED BY <1>2, <2>2, <2>3
  <1> QED BY <1>3, <1>4

\* ... when the tab goes to the login page
LEMMA LeaveStructure ==
  ASSUME Structure, NEW t \in Tab, NEW rs \in SUBSET Req, Rejected(t, rs), Unload(t),
         store' = [store EXCEPT ![t] = None], UNCHANGED <<now, token, logins, events, excuse>>
  PROVE  Structure'
  <1>1. TypeOK
    BY DEF Structure
  <1>2. store' \in [Tab -> Stored]
    BY <1>1, TimeFacts DEF TypeOK
  <1>3. TypeOK'
    BY <1>1, <1>2, RejectedFacts, UnloadStep DEF TypeOK
  <1> QED BY <1>3, UnloadKeeps DEF Structure

LEMMA NoRefreshTokenStructure ==
  ASSUME Structure, NEW t \in Tab, NEW r \in Req, NoRefreshToken(t, r)
  PROVE  Structure'
  BY LeaveStructure DEF NoRefreshToken

LEMMA RefusedStructure ==
  ASSUME Structure, NEW t \in Tab, NEW h \in Handler, Refused(t, h)
  PROVE  Structure'
  BY LeaveStructure DEF Refused, Queued

\* a run of refreshTokens answers
LEMMA ReplyStructure ==
  ASSUME Structure, NEW h \in Handler, handler[h].pc # "idle",
         NEW pc \in {"granted", "refused"}, NEW s \in Stored, pc = "granted" => s \in Time,
         Reply(h, pc, s), token' \in [Time -> {"none", "live", "revoked"}], excuse' \in Excuse
  PROVE  Structure'
  <1>1. TypeOK /\ handler[h] \in Exchange
    BY DEF Structure, TypeOK
  <1>2. /\ handler' \in [Handler -> Exchange]
        /\ handler[h].by = NoTab => handler'[h] = NoExchange
        /\ handler[h].by # NoTab => handler'[h] = [handler[h] EXCEPT !.pc = pc, !.new = s]
        /\ \A g \in Handler : g # h => handler'[g] = handler[g]
        /\ UNCHANGED <<now, storage, page, store, isRefreshing, signedIn, request, logins, events>>
    BY <1>1, ReplyStep
  <1>3. TypeOK'
    BY <1>1, <1>2 DEF TypeOK
  <1>4. \/ handler[h].by = NoTab /\ handler'[h].by = NoTab /\ handler'[h].pc = "idle"
        \/ /\ handler[h].by # NoTab /\ handler'[h].by = handler[h].by
           /\ handler'[h].pc = pc /\ handler'[h].new = s /\ handler'[h].old = handler[h].old
    <2>1. CASE handler[h].by = NoTab
      BY <1>2, <2>1 DEF NoExchange
    <2>2. CASE handler[h].by # NoTab
      BY <1>1, <1>2, <2>2 DEF Exchange
    <2> QED BY <2>1, <2>2
  <1>5. HandlerInv' /\ RefreshInv' /\ OwnInv'
    BY <1>2, <1>4, QuietHandler
  <1> QED BY <1>3, <1>5 DEF Structure

\* ... or goes on
LEMMA AdvanceStructure ==
  ASSUME Structure, NEW h \in Handler, handler[h].pc # "idle", NEW pc \in {"revoke", "create"},
         Step(h, [handler[h] EXCEPT !.pc = pc]),
         token' \in [Time -> {"none", "live", "revoked"}], excuse' \in Excuse
  PROVE  Structure'
  <1> DEFINE e == [handler[h] EXCEPT !.pc = pc]
  <1>1. TypeOK /\ handler[h] \in Exchange
    BY DEF Structure, TypeOK
  <1>2. e \in Exchange /\ e.pc = pc /\ e.by = handler[h].by /\ e.old = handler[h].old
    <2>1. e \in Exchange
      BY <1>1, ExchangeType
    <2> QED BY <1>1, <2>1 DEF Exchange
  <1>3. /\ handler' = [handler EXCEPT ![h] = e]
        /\ UNCHANGED <<now, storage, page, store, isRefreshing, signedIn, request, logins, events>>
    BY DEF Step
  <1> HIDE DEF e
  <1>4. /\ handler' \in [Handler -> Exchange] /\ handler'[h] = e
        /\ \A g \in Handler : g # h => handler'[g] = handler[g]
    BY <1>1, <1>2, <1>3, OneHandler
  <1>5. TypeOK'
    BY <1>1, <1>3, <1>4 DEF TypeOK
  <1>6. HandlerInv' /\ RefreshInv' /\ OwnInv'
    BY <1>2, <1>3, <1>4, QuietHandler
  <1> QED BY <1>5, <1>6 DEF Structure

LEMMA FindStructure ==
  ASSUME Structure, NEW h \in Handler, Find(h)
  PROVE  Structure'
  <1> DEFINE s == handler[h].old
  <1>1. TypeOK /\ handler[h].pc = "find" /\ s \in Time /\ None \in Stored
    BY TimeFacts DEF Structure, HandlerInv, Active, Find
  <1>2. \/ Reply(h, "refused", None) /\ UNCHANGED <<token, excuse>>
        \/ token' = [token EXCEPT ![s] = "revoked"] /\ Reply(h, "refused", None) /\ Excused
        \/ Step(h, [handler[h] EXCEPT !.pc = "revoke"]) /\ UNCHANGED <<token, excuse>>
    BY DEF Find
  <1> HIDE DEF s
  <1>3. CASE Reply(h, "refused", None) /\ UNCHANGED <<token, excuse>>
    BY <1>1, <1>3, ReplyStructure DEF TypeOK
  <1>4. CASE token' = [token EXCEPT ![s] = "revoked"] /\ Reply(h, "refused", None) /\ Excused
    <2>1. token' \in [Time -> {"none", "live", "revoked"}]
      BY <1>1, <1>4 DEF TypeOK
    <2> QED BY <1>1, <1>4, <2>1, ReplyStructure, ExcusedFacts
  <1>5. CASE Step(h, [handler[h] EXCEPT !.pc = "revoke"]) /\ UNCHANGED <<token, excuse>>
    BY <1>1, <1>5, AdvanceStructure DEF TypeOK
  <1> QED BY <1>2, <1>3, <1>4, <1>5

LEMMA RevokeStructure ==
  ASSUME Structure, NEW h \in Handler, Revoke(h)
  PROVE  Structure'
  <1> DEFINE s == handler[h].old
  <1>1. TypeOK /\ handler[h].pc = "revoke" /\ s \in Time
    BY DEF Structure, HandlerInv, Active, Revoke
  <1>2. token' = [token EXCEPT ![s] = "revoked"] /\ Step(h, [handler[h] EXCEPT !.pc = "create"]) /\ UNCHANGED excuse
    BY DEF Revoke
  <1> HIDE DEF s
  <1>3. token' \in [Time -> {"none", "live", "revoked"}]
    BY <1>1, <1>2 DEF TypeOK
  <1> QED BY <1>1, <1>2, <1>3, AdvanceStructure DEF TypeOK

LEMMA CreateStructure ==
  ASSUME Structure, NEW h \in Handler, Create(h)
  PROVE  Structure'
  <1>1. TypeOK /\ handler[h].pc = "create" /\ now \in Time /\ now \in Stored /\ None \in Stored
    BY TimeFacts DEF Structure, TypeOK, Create
  <1>2. CASE Fresh
    <2>1. token' = [token EXCEPT ![now] = "live"] /\ Reply(h, "granted", now) /\ UNCHANGED excuse
      BY <1>2 DEF Create
    <2>2. token' \in [Time -> {"none", "live", "revoked"}]
      BY <1>1, <2>1 DEF TypeOK
    <2> QED BY <1>1, <2>1, <2>2, ReplyStructure DEF TypeOK
  <1>3. CASE ~Fresh
    <2>1. Reply(h, "refused", None) /\ Excused /\ UNCHANGED token
      BY <1>3 DEF Create
    <2> QED BY <1>1, <2>1, ReplyStructure, ExcusedFacts DEF TypeOK
  <1> QED BY <1>2, <1>3

LEMMA ExchangeFailsStructure ==
  ASSUME Structure, NEW h \in Handler, ExchangeFails(h)
  PROVE  Structure'
  <1>1. TypeOK /\ handler[h] \in Exchange /\ handler[h].pc # "idle" /\ None \in Stored
    BY TimeFacts DEF Structure, TypeOK, ExchangeFails
  <1> DEFINE e == IF handler[h].by = NoTab THEN NoExchange
                  ELSE [handler[h] EXCEPT !.pc = "refused", !.new = None]
  <1>2. e \in Exchange
    BY <1>1, ExchangeType
  <1>3. \/ handler[h].by = NoTab /\ e.by = NoTab /\ e.pc = "idle"
        \/ /\ handler[h].by # NoTab /\ e.by = handler[h].by
           /\ e.pc = "refused" /\ e.old = handler[h].old
    BY <1>1 DEF Exchange, NoExchange
  <1>4. /\ handler' = [handler EXCEPT ![h] = e]
        /\ Event /\ Excused
        /\ UNCHANGED <<now, token, storage, page, store, isRefreshing, signedIn, request>>
    BY <1>1 DEF ExchangeFails, Fault
  <1> HIDE DEF e
  <1>5. /\ handler' \in [Handler -> Exchange] /\ handler'[h] = e
        /\ \A g \in Handler : g # h => handler'[g] = handler[g]
    BY <1>1, <1>2, <1>4, OneHandler
  <1>6. TypeOK'
    BY <1>1, <1>4, <1>5, ExcusedFacts DEF TypeOK, Event
  <1>7. HandlerInv' /\ RefreshInv' /\ OwnInv'
    BY <1>1, <1>3, <1>4, <1>5, QuietHandler
  <1> QED BY <1>6, <1>7 DEF Structure

LEMMA StartExchangeStructure ==
  ASSUME Structure, NEW t \in Tab, NEW r \in Req, StartExchange(t, r)
  PROVE  Structure'
  <1> DEFINE q == [request[t][r] EXCEPT !.pc = "refreshing", !.retry = TRUE]
  <1>1. /\ request[t][r].pc = "denied" /\ ~isRefreshing[t] /\ storage # None /\ To(t, r, q)
        /\ isRefreshing' = [isRefreshing EXCEPT ![t] = TRUE]
        /\ UNCHANGED <<now, token, storage, page, store, signedIn, logins, events>>
    BY DEF StartExchange
  <1>2. TypeOK /\ request[t][r] \in Request /\ storage \in Stored /\ RefreshInv /\ HandlerInv /\ OwnInv
    BY DEF Structure, TypeOK
  <1>3. q \in Request /\ q.pc = "refreshing" /\ q.op = request[t][r].op /\ q.own = request[t][r].own
    <2>1. q \in Request
      BY <1>2, RequestRecord
    <2> QED BY <1>2, <2>1 DEF Request
  <1> DEFINE e == [pc |-> "find", by |-> t, old |-> storage, new |-> None]
  <1>4. PICK h \in Handler : /\ FreeHandler(h) /\ handler' = [handler EXCEPT ![h] = e]
                             /\ Raced(\E g \in Handler : handler[g].old = storage /\ handler[g].by \notin {t, NoTab})
    BY DEF StartExchange
  <1>5. e \in Exchange /\ e.pc = "find" /\ e.by = t /\ e.old = storage
    BY <1>2, ExchangeType
  <1> HIDE DEF q, e
  <1>6. /\ handler' \in [Handler -> Exchange] /\ handler'[h] = e
        /\ \A g \in Handler : g # h => handler'[g] = handler[g]
    BY <1>2, <1>4, <1>5, OneHandler
  <1>7. excuse' \in Excuse
    <2> DEFINE it == \E g \in Handler : handler[g].old = storage /\ handler[g].by \notin {t, NoTab}
    <2>1. it \in BOOLEAN /\ Raced(it)
      BY <1>4
    <2> HIDE DEF it
    <2> QED BY <1>2, <2>1, RacedFacts
  <1>8. /\ request' \in [Tab -> [Req -> Request]]
        /\ request'[t][r] = q
        /\ \A u \in Tab, p \in Req : u # t \/ p # r => request'[u][p] = request[u][p]
    BY <1>1, <1>2, <1>3, OneRequest
  <1>9. isRefreshing' \in [Tab -> BOOLEAN] /\ isRefreshing'[t]
        /\ \A u \in Tab : u # t => isRefreshing'[u] = isRefreshing[u]
    BY <1>1, <1>2 DEF TypeOK
  <1>10. TypeOK'
    BY <1>1, <1>2, <1>6, <1>7, <1>8, <1>9 DEF TypeOK
  <1>11. handler[h].pc = "idle" /\ handler[h].by = NoTab /\ t # NoTab
    BY <1>2, <1>4, ConstantAssumption DEF FreeHandler, HandlerInv, Active
  <1>12. OwnInv'
    BY <1>1, <1>2, <1>3, <1>8 DEF OwnInv
  <1>13. ASSUME NEW u \in Tab PROVE RefreshAt(u)'
    <2>1. RefreshAt(u) /\ RefreshAt(t)
      BY <1>2 DEF RefreshInv
    <2>2. CASE u = t
      <3>1. page[t] # "loading"
        BY <1>1, <2>1 DEF RefreshAt
      <3>2. \A g \in Handler : handler'[g].by = t <=> g = h
        BY <1>1, <1>5, <1>6, <2>1 DEF RefreshAt
      <3>3. page'[t] # "loading"
        BY <1>1, <3>1
      <3>4. \E p \in Req : request'[t][p].pc = "refreshing"
        BY <1>3, <1>8
      <3>5. isRefreshing'[t]
        BY <1>9
      <3>6. \E g \in Handler : handler'[g].by = t
        BY <3>2
      <3>7. \A f, g \in Handler : handler'[f].by = t /\ handler'[g].by = t => f = g
        BY <3>2
      <3>8. RefreshAt(t)'
        BY <3>3, <3>4, <3>5, <3>6, <3>7 DEF RefreshAt
      <3> QED BY <2>2, <3>8
    <2>3. CASE u # t
      <3>1. \A g \in Handler : handler'[g].by = u <=> handler[g].by = u
        BY <1>5, <1>6, <1>11, <2>3, ConstantAssumption
      <3>2. /\ page'[u] = page[u] /\ isRefreshing'[u] = isRefreshing[u]
            /\ \A p \in Req : request'[u][p] = request[u][p]
        BY <1>1, <1>8, <1>9, <2>3
      <3> QED BY <2>1, <3>1, <3>2 DEF RefreshAt
    <2> QED BY <2>2, <2>3
  <1>14. HandlerInv'
    <2>1. storage \in Time
      BY <1>1, <1>2, TimeFacts
    <2> QED BY <1>2, <1>5, <1>6, <1>11, <2>1 DEF HandlerInv, Active
  <1> QED BY <1>10, <1>12, <1>13, <1>14 DEF Structure, RefreshInv

LEMMA GrantedStructure ==
  ASSUME Structure, NEW t \in Tab, NEW h \in Handler, Granted(t, h)
  PROVE  Structure'
  <1> DEFINE new == handler[h].new
             q(r) == IF r \in Queued(t) THEN Send(request[t][r], new) ELSE request[t][r]
  <1>1. /\ handler[h].by = t /\ handler[h].pc = "granted"
        /\ storage' = new /\ signedIn' = (signedIn \/ new # None)
        /\ request' = [request EXCEPT ![t] = [r \in Req |-> q(r)]]
        /\ isRefreshing' = [isRefreshing EXCEPT ![t] = FALSE]
        /\ handler' = [handler EXCEPT ![h] = NoExchange]
        /\ UNCHANGED <<now, token, page, store, logins, events, excuse>>
    BY DEF Granted, setTokens, Resent
  <1>2. TypeOK /\ HandlerInv /\ RefreshInv /\ OwnInv
    BY DEF Structure
  <1>3. new \in Stored
    BY <1>1, <1>2, TimeFacts DEF HandlerInv
  <1>4. ASSUME NEW r \in Req
        PROVE  /\ q(r) \in Request /\ q(r).op = request[t][r].op /\ q(r).own = request[t][r].own
               /\ q(r).pc \notin {"waiting", "refreshing"}
               /\ q(r).pc = "idle" <=> request[t][r].pc = "idle"
    <2>1. request[t][r] \in Request
      BY <1>2, RequestTyped
    <2>2. CASE r \in Queued(t)
      <3>1. Send(request[t][r], new) \in Request
        BY <1>3, <2>1, RequestRecord
      <3>2. request[t][r].pc # "idle"
        BY <2>2 DEF Queued
      <3> QED BY <2>1, <2>2, <3>1, <3>2 DEF Send, Request
    <2>3. CASE r \notin Queued(t)
      BY <2>1, <2>3 DEF Queued
    <2> QED BY <2>2, <2>3
  <1> HIDE DEF new, q
  <1>5. /\ request' \in [Tab -> [Req -> Request]]
        /\ \A r \in Req : request'[t][r] = q(r)
        /\ \A u \in Tab : u # t => request'[u] = request[u]
    BY <1>1, <1>2, <1>4 DEF TypeOK
  <1>6. /\ handler' \in [Handler -> Exchange] /\ handler'[h] = NoExchange
        /\ \A g \in Handler : g # h => handler'[g] = handler[g]
    BY <1>1, <1>2, ExchangeType, OneHandler
  <1>7. isRefreshing' \in [Tab -> BOOLEAN] /\ ~isRefreshing'[t]
        /\ \A u \in Tab : u # t => isRefreshing'[u] = isRefreshing[u]
    BY <1>1, <1>2 DEF TypeOK
  <1>8. TypeOK'
    BY <1>1, <1>2, <1>3, <1>5, <1>6, <1>7 DEF TypeOK
  <1>9. NoExchange.by = NoTab /\ NoExchange.pc = "idle" /\ NoTab \notin Tab
    BY ConstantAssumption DEF NoExchange
  <1>10. HandlerInv'
    BY <1>2, <1>6, <1>9 DEF HandlerInv, Active
  <1>11. OwnInv'
    <2>1. ASSUME NEW r \in Req, q(r).pc # "idle", q(r).op \in {"current", "logout"}
          PROVE  q(r).own \in Time
      BY <1>2, <1>4, <2>1 DEF OwnInv
    <2> QED BY <1>2, <1>5, <2>1 DEF OwnInv
  <1>12. ASSUME NEW u \in Tab PROVE RefreshAt(u)'
    <2>1. RefreshAt(u) /\ RefreshAt(t)
      BY <1>2 DEF RefreshInv
    <2>2. \A g \in Handler : handler'[g].by = u <=> handler[g].by = u /\ u # t
      BY <1>1, <1>6, <1>9, <2>1 DEF RefreshAt
    <2>3. CASE u = t
      <3>1. page'[t] = page[t]
        BY <1>1
      <3>2. \A r \in Req : /\ request'[t][r].pc \notin {"waiting", "refreshing"}
                           /\ request'[t][r].pc = "idle" <=> request[t][r].pc = "idle"
        BY <1>4, <1>5
      <3> QED BY <1>7, <2>1, <2>2, <2>3, <3>1, <3>2 DEF RefreshAt
    <2>4. CASE u # t
      <3>1. /\ page'[u] = page[u] /\ isRefreshing'[u] = isRefreshing[u]
            /\ request'[u] = request[u]
        BY <1>1, <1>5, <1>7, <2>4
      <3>2. \A g \in Handler : handler'[g].by = u <=> handler[g].by = u
        BY <2>2, <2>4
      <3> QED BY <2>1, <3>1, <3>2 DEF RefreshAt
    <2> QED BY <2>3, <2>4
  <1> QED BY <1>8, <1>10, <1>11, <1>12 DEF Structure, RefreshInv

\* both fetches of a page are over, nothing of it waits
LEMMA BootedStructure ==
  ASSUME Structure, NEW t \in Tab, Booted(t)
  PROVE  Structure'
  <1>1. /\ \A r \in Req : request[t][r].pc = "ok"
        /\ storage' = storage /\ signedIn' = (signedIn \/ storage # None)
        /\ store' = [store EXCEPT ![t] = storage]
        /\ page' = [page EXCEPT ![t] = "app"]
        /\ request' = [request EXCEPT ![t] = [r \in Req |-> NoRequest]]
        /\ UNCHANGED <<now, token, handler, isRefreshing, logins, events, excuse>>
    BY DEF Booted, setAuth, setTokens
  <1>2. TypeOK /\ HandlerInv /\ RefreshInv /\ OwnInv
    BY DEF Structure
  <1>3. /\ request' \in [Tab -> [Req -> Request]]
        /\ \A r \in Req : request'[t][r].pc = "idle"
        /\ \A u \in Tab : u # t => request'[u] = request[u]
    BY <1>1, <1>2, NoRequestType DEF TypeOK
  <1>4. TypeOK'
    BY <1>1, <1>2, <1>3 DEF TypeOK
  <1>5. HandlerInv'
    BY <1>1, <1>2 DEF HandlerInv, Active
  <1>6. OwnInv'
    BY <1>2, <1>3 DEF OwnInv
  <1>7. ASSUME NEW u \in Tab PROVE RefreshAt(u)'
    <2>1. RefreshAt(u)
      BY <1>2 DEF RefreshInv
    <2>2. isRefreshing'[u] = isRefreshing[u] /\ \A g \in Handler : handler'[g].by = handler[g].by
      BY <1>1
    <2>3. CASE u = t
      BY <1>1, <1>3, <2>1, <2>2, <2>3 DEF RefreshAt
    <2>4. CASE u # t
      <3>1. page'[u] = page[u] /\ request'[u] = request[u]
        BY <1>1, <1>2, <1>3, <2>4 DEF TypeOK
      <3> QED BY <2>1, <2>2, <3>1 DEF RefreshAt
    <2> QED BY <2>3, <2>4
  <1> QED BY <1>4, <1>5, <1>6, <1>7 DEF Structure, RefreshInv

\* a fetch of the page failed: the others go on, for nobody
LEMMA BootFailedStructure ==
  ASSUME Structure, NEW t \in Tab, NEW r \in Req, BootFailed(t, r)
  PROVE  Structure'
  <1> DEFINE q(p) == IF p = r THEN NoRequest ELSE [request[t][p] EXCEPT !.op = "call"]
  <1>1. /\ Settled(request[t][r]) /\ storage' = None /\ signedIn' = signedIn
        /\ store' = [store EXCEPT ![t] = None]
        /\ page' = [page EXCEPT ![t] = "login"]
        /\ request' = [request EXCEPT ![t] = [p \in Req |-> q(p)]]
        /\ Noted(request[t][r])
        /\ UNCHANGED <<now, token, handler, isRefreshing, logins, events>>
    BY DEF BootFailed, clearAuth, clearTokens
  <1>2. TypeOK /\ HandlerInv /\ RefreshInv /\ OwnInv
    BY DEF Structure
  <1>3. ASSUME NEW p \in Req
        PROVE  /\ q(p) \in Request
               /\ p # r => q(p).pc = request[t][p].pc /\ q(p).op = "call"
               /\ p = r => q(p).pc = "idle"
    <2>1. request[t][p] \in Request
      BY <1>2, RequestTyped
    <2>2. [request[t][p] EXCEPT !.op = "call"] \in Request
      BY <2>1, RequestRecord
    <2> QED BY <2>1, <2>2, NoRequestType DEF Request
  <1> HIDE DEF q
  <1>4. /\ request' \in [Tab -> [Req -> Request]]
        /\ \A p \in Req : request'[t][p] = q(p)
        /\ \A u \in Tab : u # t => request'[u] = request[u]
    BY <1>1, <1>2, <1>3 DEF TypeOK
  <1>5. TypeOK'
    BY <1>1, <1>2, <1>4, TimeFacts, NotedFacts DEF TypeOK
  <1>6. HandlerInv'
    BY <1>1, <1>2 DEF HandlerInv, Active
  <1>7. OwnInv'
    BY <1>2, <1>3, <1>4 DEF OwnInv
  <1>8. ASSUME NEW u \in Tab PROVE RefreshAt(u)'
    <2>1. RefreshAt(u)
      BY <1>2 DEF RefreshInv
    <2>2. isRefreshing'[u] = isRefreshing[u] /\ \A g \in Handler : handler'[g].by = handler[g].by
      BY <1>1
    <2>3. CASE u = t
      <3>1. request[t][r].pc \notin {"waiting", "refreshing"}
        BY <1>1 DEF Settled
      <3>2. \A p \in Req : /\ request'[t][p].pc = "refreshing" <=> request[t][p].pc = "refreshing"
                           /\ request'[t][p].pc = "waiting" <=> request[t][p].pc = "waiting"
        BY <1>3, <1>4, <3>1
      <3>3. page'[t] = "login"
        BY <1>1, <1>2 DEF TypeOK
      <3> QED BY <2>1, <2>2, <2>3, <3>2, <3>3 DEF RefreshAt
    <2>4. CASE u # t
      <3>1. page'[u] = page[u] /\ request'[u] = request[u]
        BY <1>1, <1>2, <1>4, <2>4 DEF TypeOK
      <3> QED BY <2>1, <2>2, <3>1 DEF RefreshAt
    <2> QED BY <2>3, <2>4
  <1> QED BY <1>5, <1>6, <1>7, <1>8 DEF Structure, RefreshInv

-----------------------------------------------------------------------------
(* Every step keeps the structure.                                          *)

LEMMA UserStructure ==
  ASSUME Structure, UserStep
  PROVE  Structure'
  <1>1. PICK t \in Tab : Reload(t) \/ \E r \in Req : Call(t, r) \/ Login(t, r) \/ Logout(t, r)
    BY DEF UserStep
  <1>2. CASE Reload(t)
    BY <1>2, ReloadStructure
  <1>3. CASE \E r \in Req : Call(t, r) \/ Login(t, r) \/ Logout(t, r)
    BY <1>3, CallStructure, LoginStructure, LogoutStructure
  <1> QED BY <1>1, <1>2, <1>3

LEMMA AnswerStructure ==
  ASSUME Structure, NEW t \in Tab, NEW r \in Req, Answer(t, r)
  PROVE  Structure'
  BY ServeStructure, ServeLoginStructure, JoinQueueStructure, NoRefreshTokenStructure,
     StartExchangeStructure, CallFailedStructure, EnterAppStructure, LoggedOutStructure,
     BootFailedStructure DEF Answer

LEMMA TabStructure ==
  ASSUME Structure, NEW t \in Tab, TabStep(t)
  PROVE  Structure'
  BY LoadStructure, BootedStructure, GrantedStructure, RefusedStructure DEF TabStep

LEMMA HandlerStructure ==
  ASSUME Structure, NEW h \in Handler, HandlerStep(h)
  PROVE  Structure'
  BY FindStructure, RevokeStructure, CreateStructure DEF HandlerStep

LEMMA FailureStructure ==
  ASSUME Structure, Failure
  PROVE  Structure'
  BY ServeFailsStructure, ExchangeFailsStructure DEF Failure

LEMMA StructureStep ==
  ASSUME Structure, [Next]_vars
  PROVE  Structure'
  <1>1. CASE Tick
    BY <1>1, TickStructure
  <1>2. CASE UserStep
    BY <1>2, UserStructure
  <1>3. CASE System
    BY <1>3, AnswerStructure, TabStructure, HandlerStructure DEF System
  <1>4. CASE Failure
    BY <1>4, FailureStructure
  <1>5. CASE UNCHANGED vars
    <2>1. /\ UNCHANGED <<now, token, storage, page, store, isRefreshing, request, handler>>
          /\ UNCHANGED <<logins, events, signedIn, excuse>>
      BY <1>5 DEF vars
    <2>2. TypeOK'
      BY <2>1 DEF Structure, TypeOK
    <2>3. HandlerInv' /\ OwnInv'
      BY <2>1 DEF Structure, HandlerInv, Active, OwnInv
    <2>4. RefreshInv'
      BY <2>1 DEF Structure, RefreshInv, RefreshAt
    <2> QED BY <2>2, <2>3, <2>4 DEF Structure
  <1> QED BY <1>1, <1>2, <1>3, <1>4, <1>5 DEF Next

LEMMA StructureInit ==
  ASSUME Init
  PROVE  Structure
  <1>1. NoRequest \in Request /\ NoRequest.pc = "idle" /\ NoExchange \in Exchange
        /\ NoExchange.pc = "idle" /\ NoExchange.by = NoTab
    BY NoRequestType, ExchangeType DEF NoExchange
  <1>2. 0 \in Time /\ None \in Stored
    BY ConstantAssumption, TimeFacts DEF Time
  <1>3. \A t \in Tab, r \in Req : request[t][r] = NoRequest
    BY DEF Init
  <1>4. \A h \in Handler : handler[h] = NoExchange
    BY DEF Init
  <1>5. TypeOK
    <2>1. /\ request \in [Tab -> [Req -> Request]] /\ handler \in [Handler -> Exchange]
          /\ store \in [Tab -> Stored]
      BY <1>1, <1>2 DEF Init
    <2>2. /\ token \in [Time -> {"none", "live", "revoked"}]
          /\ page \in [Tab -> {"loading", "login", "boot", "app"}]
          /\ isRefreshing \in [Tab -> BOOLEAN]
      BY DEF Init
    <2>3. /\ now \in Time /\ storage \in Stored /\ {logins, events} \subseteq Nat
          /\ signedIn \in BOOLEAN /\ excuse \in Excuse
      <3>1. now = 0 /\ storage = None /\ logins = 0 /\ events = 0 /\ ~signedIn /\ excuse = "none"
        BY DEF Init
      <3>2. signedIn \in BOOLEAN
        BY DEF Init
      <3> QED BY <1>2, <3>1, <3>2 DEF Excuse
    <2> QED BY <2>1, <2>2, <2>3 DEF TypeOK
  <1>6. HandlerInv /\ OwnInv
    BY <1>1, <1>3, <1>4 DEF HandlerInv, Active, OwnInv
  <1>7. ASSUME NEW t \in Tab PROVE RefreshAt(t)
    <2>1. ~isRefreshing[t]
      BY DEF Init
    <2>2. \A h \in Handler : handler[h].by # t
      BY <1>1, <1>4, ConstantAssumption
    <2>3. \A r \in Req : request[t][r].pc = "idle"
      BY <1>1, <1>3
    <2> QED BY <2>1, <2>2, <2>3 DEF RefreshAt
  <1> QED BY <1>5, <1>6, <1>7 DEF Structure, RefreshInv

THEOREM StructureInvariant == Spec => []Structure
  <1>1. Init => Structure
    BY StructureInit
  <1>2. Structure /\ [Next]_vars => Structure'
    BY StructureStep
  <1> QED BY <1>1, <1>2, PTL DEF Spec

\* Every variable keeps its type: the tokens of localStorage, of every request and of
\* every exchange are seconds of the run, whatever the tabs and the service do.
THEOREM TypeCorrect == Spec => []TypeOK
  BY StructureInvariant, PTL DEF Structure

\* NoStrandedWaiter: whoever waits in the queue of the interceptor (api.ts) waits for the
\* one exchange its own tab has under way, in every tab, for any number of requests.
THEOREM WaitersAreReleased == Spec => []NoStrandedWaiter
  <1>1. Structure => NoStrandedWaiter
    <2> SUFFICES ASSUME Structure, NEW t \in Tab, Queued(t) # {}
                 PROVE  /\ \E h \in Handler : Exchanging(t) = {h}
                        /\ \E r \in Req : request[t][r].pc = "refreshing"
      BY DEF NoStrandedWaiter
    <2>1. RefreshAt(t)
      BY DEF Structure, RefreshInv
    <2>2. isRefreshing[t]
      BY <2>1 DEF Queued, RefreshAt
    <2>3. PICK h \in Handler : handler[h].by = t
      BY <2>1, <2>2 DEF RefreshAt
    <2>4. Exchanging(t) = {h}
      BY <2>1, <2>3 DEF RefreshAt, Exchanging
    <2> QED BY <2>1, <2>2, <2>4 DEF RefreshAt
  <1> QED BY <1>1, StructureInvariant, PTL

-----------------------------------------------------------------------------
(* As long as nothing happened that can cost the session.                   *)

Kept == KeptInv /\ LoginInv /\ UnexcusedInv

\* steps that leave the exchanges alone, and let somebody store the tokens of a login
LEMMA KeptRequests ==
  ASSUME Kept, \A h \in Handler : handler'[h] = handler[h], token' = token,
         signedIn' => storage' # None,
         \/ storage' = storage
         \/ \E t \in Tab, r \in Req : /\ Pending(request[t][r]) /\ storage' = request[t][r].own
                                     /\ ~Pending(request'[t][r]),
         \A t \in Tab, r \in Req : request'[t][r].pc # "idle" =>
           request'[t][r].op # "logout" /\ request'[t][r].pc # "failed",
         \A t \in Tab, r \in Req : Pending(request'[t][r]) =>
           Pending(request[t][r]) /\ request'[t][r].own = request[t][r].own
  PROVE  Kept'
  <1>1. KeptInv /\ LoginInv
    BY DEF Kept
  <1>2. \A s : (Presented(s)' <=> Presented(s)) /\ (Untouched(s)' <=> Untouched(s))
    BY DEF Presented, Active, Untouched
  <1>3. UnexcusedInv'
    BY DEF UnexcusedInv
  <1>4. CASE storage' = storage
    <2>1. KeptInv'
      BY <1>1, <1>2, <1>4 DEF KeptInv, KeptAt, Apart, Active
    <2>2. LoginInv'
      BY <1>1, <1>2, <1>4 DEF LoginInv
    <2> QED BY <1>3, <2>1, <2>2 DEF Kept
  <1>5. ASSUME NEW t \in Tab, NEW r \in Req, Pending(request[t][r]), storage' = request[t][r].own,
               ~Pending(request'[t][r])
        PROVE  Kept'
    <2>1. Untouched(storage') /\ \A h \in Handler : handler[h].pc = "granted" => handler[h].new # storage'
      BY <1>1, <1>5 DEF LoginInv
    <2>2. KeptInv'
      BY <1>1, <1>2, <2>1 DEF KeptInv, KeptAt, Apart, Active
    <2>3. \A u \in Tab, q \in Req : Pending(request'[u][q]) => request'[u][q].own # storage'
      BY <1>1, <1>5 DEF LoginInv
    <2>4. LoginInv'
      BY <1>1, <1>2, <2>3 DEF LoginInv
    <2> QED BY <1>3, <2>2, <2>4 DEF Kept
  <1> QED BY <1>4, <1>5

\* ... when one request changes, and the tokens stored do not
LEMMA KeptOneRequest ==
  ASSUME Structure, Kept, NEW t \in Tab, NEW r \in Req, NEW q \in Request, To(t, r, q),
         UNCHANGED <<handler, token, storage, signedIn>>,
         q.pc # "idle" => q.op # "logout" /\ q.pc # "failed",
         Pending(q) => Pending(request[t][r]) /\ q.own = request[t][r].own
  PROVE  Kept'
  <1>1. request'[t][r] = q /\ \A u \in Tab, p \in Req : u # t \/ p # r => request'[u][p] = request[u][p]
    BY OneRequest DEF Structure
  <1>2. \A u \in Tab, p \in Req : request'[u][p].pc # "idle" =>
          request'[u][p].op # "logout" /\ request'[u][p].pc # "failed"
    BY <1>1 DEF Kept, UnexcusedInv
  <1>3. \A u \in Tab, p \in Req : Pending(request'[u][p]) =>
          Pending(request[u][p]) /\ request'[u][p].own = request[u][p].own
    BY <1>1
  <1>4. signedIn' => storage' # None
    BY DEF Kept, KeptInv
  <1>5. \A h \in Handler : handler'[h] = handler[h]
    OBVIOUS
  <1> QED BY <1>2, <1>3, <1>4, <1>5, KeptRequests

LEMMA TickKept ==
  ASSUME Kept, Tick
  PROVE  Kept'
  <1>1. UNCHANGED <<token, handler, storage, signedIn, request>>
    BY DEF Tick
  <1>2. \A t \in Tab, r \in Req : request[t][r].pc # "idle" =>
          request[t][r].op # "logout" /\ request[t][r].pc # "failed"
    BY DEF Kept, UnexcusedInv
  <1>3. signedIn' => storage' # None
    BY <1>1 DEF Kept, KeptInv
  <1> QED BY <1>1, <1>2, <1>3, KeptRequests

LEMMA CallKept ==
  ASSUME Structure, Kept, NEW t \in Tab, NEW r \in Req, Call(t, r) \/ Login(t, r)
  PROVE  Kept'
  <1>1. PICK op \in {"call", "login"} : To(t, r, Send(New(op, None), storage))
    BY DEF Call, Login
  <1> DEFINE q == Send(New(op, None), storage)
  <1>2. q \in Request
    BY NoRequestType, RequestRecord, TimeFacts DEF Structure, TypeOK
  <1>3. q.pc = "sent" /\ q.op = op
    BY DEF Send, New, NoRequest
  <1>4. UNCHANGED <<handler, token, storage, signedIn>> /\ To(t, r, q)
    BY <1>1 DEF Call, Login
  <1> HIDE DEF q
  <1> QED BY <1>2, <1>3, <1>4, KeptOneRequest DEF Pending

LEMMA ServeKept ==
  ASSUME Structure, Kept, NEW t \in Tab, NEW r \in Req, Serve(t, r)
  PROVE  Kept'
  <1> DEFINE o == IF Allowed(request[t][r]) THEN Outcome(request[t][r], "ok")
                  ELSE [request[t][r] EXCEPT !.pc = "denied", !.with = None]
  <1>1. request[t][r].pc = "sent" /\ request[t][r].op # "logout"
    BY DEF Serve, Kept, UnexcusedInv
  <1>2. To(t, r, o) /\ UNCHANGED <<handler, token, storage, signedIn>>
    BY <1>1 DEF Serve
  <1>3. TypeOK /\ request[t][r] \in Request
    BY DEF Structure, TypeOK
  <1>4. o \in Request
    BY <1>3, OutcomeType, RequestRecord
  <1>5. o.pc \in {"idle", "ok", "denied"} /\ (o.pc # "idle" => o.op = request[t][r].op /\ o.own = request[t][r].own)
    BY <1>3, OutcomeFacts DEF Request
  <1> HIDE DEF o
  <1> QED BY <1>1, <1>2, <1>4, <1>5, KeptOneRequest DEF Pending

LEMMA JoinQueueKept ==
  ASSUME Structure, Kept, NEW t \in Tab, NEW r \in Req, JoinQueue(t, r)
  PROVE  Kept'
  <1> DEFINE q == [request[t][r] EXCEPT !.pc = "waiting"]
  <1>1. request[t][r].pc = "denied" /\ To(t, r, q) /\ UNCHANGED <<handler, token, storage, signedIn>>
    BY DEF JoinQueue
  <1>2. request[t][r] \in Request /\ request[t][r].op # "logout"
    BY <1>1 DEF Structure, TypeOK, Kept, UnexcusedInv
  <1>3. q \in Request
    BY <1>2, RequestRecord
  <1>4. q.pc = "waiting" /\ q.op = request[t][r].op /\ q.own = request[t][r].own
    BY <1>2 DEF Request
  <1> HIDE DEF q
  <1> QED BY <1>1, <1>2, <1>3, <1>4, KeptOneRequest DEF Pending

LEMMA CallFailedKept ==
  ASSUME Structure, Kept, NEW t \in Tab, NEW r \in Req, CallFailed(t, r)
  PROVE  Kept'
  <1>1. To(t, r, NoRequest) /\ UNCHANGED <<handler, token, storage, signedIn>>
    BY DEF CallFailed
  <1> QED BY <1>1, NoRequestType, KeptOneRequest DEF Pending

LEMMA LoadKept ==
  ASSUME Structure, Kept, NEW t \in Tab, Load(t)
  PROVE  Kept'
  <1> DEFINE q == Send(New("boot", None), storage)
  <1>1. q.pc = "sent" /\ q.op = "boot"
    BY DEF Send, New, NoRequest
  <1>2. \/ request' = request
        \/ request' = [request EXCEPT ![t] = [r \in Req |-> q]]
    BY DEF Load
  <1>3. UNCHANGED <<handler, token, storage, signedIn>>
    BY DEF Load
  <1> HIDE DEF q
  <1>4. \A u \in Tab, r \in Req : request'[u][r] = request[u][r] \/ request'[u][r] = q
    BY <1>2 DEF Structure, TypeOK
  <1>5. \A u \in Tab, r \in Req : request'[u][r].pc # "idle" =>
          request'[u][r].op # "logout" /\ request'[u][r].pc # "failed"
    BY <1>1, <1>4 DEF Kept, UnexcusedInv
  <1>6. \A u \in Tab, r \in Req : Pending(request'[u][r]) =>
          Pending(request[u][r]) /\ request'[u][r].own = request[u][r].own
    BY <1>1, <1>4 DEF Pending
  <1>7. signedIn' => storage' # None
    BY <1>3 DEF Kept, KeptInv
  <1> QED BY <1>3, <1>5, <1>6, <1>7, KeptRequests

LEMMA BootedKept ==
  ASSUME Structure, Kept, NEW t \in Tab, Booted(t)
  PROVE  Kept'
  <1>1. /\ storage' = storage /\ signedIn' = (signedIn \/ storage # None)
        /\ request' = [request EXCEPT ![t] = [r \in Req |-> NoRequest]]
        /\ UNCHANGED <<token, handler>>
    BY DEF Booted, setAuth, setTokens
  <1>2. \A u \in Tab, r \in Req : request'[u][r] = request[u][r] \/ request'[u][r] = NoRequest
    BY <1>1 DEF Structure, TypeOK
  <1>3. \A u \in Tab, r \in Req : request'[u][r].pc # "idle" =>
          request'[u][r].op # "logout" /\ request'[u][r].pc # "failed"
    BY <1>2, NoRequestType DEF Kept, UnexcusedInv
  <1>4. \A u \in Tab, r \in Req : Pending(request'[u][r]) =>
          Pending(request[u][r]) /\ request'[u][r].own = request[u][r].own
    BY <1>2, NoRequestType DEF Pending
  <1>5. signedIn' => storage' # None
    BY <1>1 DEF Kept, KeptInv
  <1> QED BY <1>1, <1>3, <1>4, <1>5, KeptRequests

\* the login form stores the tokens it was given
LEMMA EnterAppKept ==
  ASSUME Structure, Kept, excuse' = "none", NEW t \in Tab, NEW r \in Req, EnterApp(t, r)
  PROVE  Kept'
  <1> DEFINE own == request[t][r].own
  <1>1. /\ Settled(request[t][r]) /\ request[t][r].op = "current" /\ To(t, r, NoRequest)
        /\ storage' = own /\ UNCHANGED <<token, handler>>
    BY DEF EnterApp, setAuth, setTokens
  <1>2. Pending(request[t][r]) /\ own \in Time
    BY <1>1 DEF Settled, Pending, Structure, OwnInv
  <1>3. /\ request'[t][r] = NoRequest
        /\ \A u \in Tab, p \in Req : u # t \/ p # r => request'[u][p] = request[u][p]
    BY <1>1, NoRequestType, OneRequest DEF Structure
  <1>4. \A u \in Tab, p \in Req : request'[u][p].pc # "idle" =>
          request'[u][p].op # "logout" /\ request'[u][p].pc # "failed"
    BY <1>3, NoRequestType DEF Kept, UnexcusedInv
  <1>5. \A u \in Tab, p \in Req : Pending(request'[u][p]) =>
          Pending(request[u][p]) /\ request'[u][p].own = request[u][p].own
    BY <1>3, NoRequestType DEF Pending
  <1>6. ~Pending(request'[t][r])
    BY <1>3, NoRequestType DEF Pending
  <1>7. storage' # None
    BY <1>1, <1>2, TimeFacts
  <1> HIDE DEF own
  <1>8. \E u \in Tab, p \in Req : /\ Pending(request[u][p]) /\ storage' = request[u][p].own
                                /\ ~Pending(request'[u][p])
    BY <1>1, <1>2, <1>6 DEF own
  <1> QED BY <1>1, <1>4, <1>5, <1>7, <1>8, KeptRequests

\* a tab without an exchange of its own is left
LEMMA UnloadKept ==
  ASSUME Structure, Kept, NEW t \in Tab, Unload(t), Exchanging(t) = {}, UNCHANGED token,
         signedIn' => storage' # None,
         storage' = storage \/ \E r \in Req : Pending(request[t][r]) /\ storage' = request[t][r].own
  PROVE  Kept'
  <1>1. /\ \A r \in Req : request'[t][r] = NoRequest
        /\ \A u \in Tab : u # t => request'[u] = request[u]
        /\ \A h \in Handler : handler[h].by # t => handler'[h] = handler[h]
    BY UnloadStep DEF Structure
  <1>2. \A h \in Handler : handler'[h] = handler[h]
    BY <1>1 DEF Exchanging
  <1>3. \A u \in Tab, p \in Req : request'[u][p] = NoRequest \/ request'[u][p] = request[u][p]
    BY <1>1
  <1>4. \A u \in Tab, p \in Req : request'[u][p].pc # "idle" =>
          request'[u][p].op # "logout" /\ request'[u][p].pc # "failed"
    BY <1>3, NoRequestType DEF Kept, UnexcusedInv
  <1>5. \A u \in Tab, p \in Req : Pending(request'[u][p]) =>
          Pending(request[u][p]) /\ request'[u][p].own = request[u][p].own
    BY <1>3, NoRequestType DEF Pending
  <1>6. \A r \in Req : ~Pending(request'[t][r])
    BY <1>1, NoRequestType DEF Pending
  <1>7. \/ storage' = storage
        \/ \E u \in Tab, r \in Req : /\ Pending(request[u][r]) /\ storage' = request[u][r].own
                                   /\ ~Pending(request'[u][r])
    BY <1>6
  <1> QED BY <1>2, <1>4, <1>5, <1>7, KeptRequests

LEMMA ReloadKept ==
  ASSUME Structure, Kept, excuse' = "none", NEW t \in Tab, Reload(t)
  PROVE  Kept'
  <1>1. Unload(t) /\ UNCHANGED <<token, storage, signedIn>>
    BY DEF Reload
  <1>2. Exchanging(t) = {}
    <2> DEFINE it == Exchanging(t) # {}
    <2>1. it \in BOOLEAN /\ Raced(it) /\ TypeOK
      BY DEF Reload, Structure
    <2>2. ~it
      <3> HIDE DEF it
      <3> QED BY <2>1, RacedFacts
    <2> QED BY <2>2
  <1>3. signedIn' => storage' # None
    BY <1>1 DEF Kept, KeptInv
  <1> QED BY <1>1, <1>2, <1>3, UnloadKept

LEMMA NoRefreshTokenKept ==
  ASSUME Structure, Kept, NEW t \in Tab, NEW r \in Req, NoRefreshToken(t, r)
  PROVE  Kept'
  <1>1. /\ request[t][r].pc = "denied" /\ ~isRefreshing[t] /\ storage = None
        /\ Rejected(t, {r}) /\ Unload(t) /\ UNCHANGED token
    BY DEF NoRefreshToken
  <1>2. Exchanging(t) = {}
    BY <1>1 DEF Structure, RefreshInv, RefreshAt, Exchanging
  <1>3. TypeOK /\ ~signedIn
    BY <1>1 DEF Structure, Kept, KeptInv
  <1>4. \/ storage' = None /\ signedIn' = signedIn
        \/ request[t][r].op = "current" /\ storage' = request[t][r].own
    BY <1>1, <1>3, RejectedFacts
  <1>5. CASE storage' = None /\ signedIn' = signedIn
    BY <1>1, <1>2, <1>3, <1>5, UnloadKept
  <1>6. CASE request[t][r].op = "current" /\ storage' = request[t][r].own
    <2>1. Pending(request[t][r]) /\ request[t][r].own \in Time
      BY <1>1, <1>6 DEF Pending, Structure, OwnInv
    <2>2. storage' # None
      BY <1>6, <2>1, TimeFacts
    <2> QED BY <1>1, <1>2, <1>6, <2>1, <2>2, UnloadKept
  <1> QED BY <1>4, <1>5, <1>6

\* the token of a login is new to everybody
LEMMA ServeLoginKept ==
  ASSUME Structure, Kept, NEW t \in Tab, NEW r \in Req, ServeLogin(t, r)
  PROVE  Kept'
  <1>1. TypeOK
    BY DEF Structure
  <1> PICK n \in Time : n = now
    BY <1>1 DEF TypeOK
  <1>2. UNCHANGED <<handler, storage, signedIn>>
    BY DEF ServeLogin
  <1>3. CASE ~Fresh
    <2>1. To(t, r, NoRequest) /\ UNCHANGED token
      BY <1>3 DEF ServeLogin
    <2> QED BY <1>2, <2>1, NoRequestType, KeptOneRequest DEF Pending
  <1>4. CASE Fresh
    <2> DEFINE q == Send(New("current", n), storage)
    <2>1. q \in Request
      BY <1>1, NoRequestType, RequestRecord, TimeFacts DEF TypeOK
    <2>2. q.pc = "sent" /\ q.op = "current" /\ q.own = n
      BY DEF Send, New, NoRequest
    <2>3. To(t, r, q) /\ token' = [token EXCEPT ![n] = "live"] /\ token[n] = "none"
      BY <1>4 DEF ServeLogin, Fresh
    <2> HIDE DEF q
    <2>4. /\ request'[t][r] = q
          /\ \A u \in Tab, p \in Req : u # t \/ p # r => request'[u][p] = request[u][p]
      BY <1>1, <2>1, <2>3, OneRequest
    <2>5. token'[n] = "live" /\ \A s \in Time : s # n => token'[s] = token[s]
      BY <1>1, <2>3 DEF TypeOK
    <2>6. KeptInv /\ LoginInv /\ UnexcusedInv /\ HandlerInv
      BY DEF Kept, Structure
    <2>7. ~Presented(n)
      BY <2>3, <2>6 DEF Presented, KeptInv, KeptAt
    <2>8. \A s : Presented(s)' <=> Presented(s)
      BY <1>2 DEF Presented, Active
    <2>9. Untouched(n)' /\ \A s : Untouched(s) => Untouched(s)' /\ s # n
      BY <1>1, <2>3, <2>5, <2>7, <2>8 DEF Untouched
    <2>10. KeptInv'
      <3>1. storage' # None => (Untouched(storage) \/ Presented(storage))'
        BY <1>2, <2>6, <2>8, <2>9 DEF KeptInv
      <3>2. ASSUME NEW h \in Handler PROVE KeptAt(h)'
        <4>1. Active(h) => handler[h].old # n /\ token'[handler[h].old] = token[handler[h].old]
          BY <2>3, <2>5, <2>6 DEF HandlerInv, KeptInv, KeptAt
        <4> QED BY <1>2, <2>6, <2>9, <4>1 DEF KeptInv, KeptAt, Active
      <3>3. \A g, h \in Handler : g # h => Apart(g, h)'
        BY <1>2, <2>6 DEF KeptInv, Apart, Active
      <3>4. signedIn' => storage' # None
        BY <1>2, <2>6 DEF KeptInv
      <3> QED BY <3>1, <3>2, <3>3, <3>4 DEF KeptInv
    <2>11. n # storage /\ \A h \in Handler : handler[h].pc = "granted" => handler[h].new # n
      <3>1. n # storage
        BY <1>1, <2>6, <2>7, <2>9, TimeFacts DEF KeptInv
      <3> QED BY <2>6, <2>9, <3>1 DEF KeptInv, KeptAt
    <2>12. \A u \in Tab, p \in Req : Pending(request[u][p]) => request[u][p].own # n
      BY <2>6, <2>9 DEF LoginInv
    <2>13. LoginInv'
      <3> SUFFICES ASSUME NEW u \in Tab, NEW p \in Req, Pending(request'[u][p])
                   PROVE  /\ Untouched(request[u][p].own)' /\ request'[u][p].own # storage'
                          /\ \A h \in Handler : handler'[h].pc = "granted" => handler'[h].new # request'[u][p].own
                          /\ \A w \in Tab, o \in Req :
                               Pending(request'[w][o]) /\ request'[w][o].own = request'[u][p].own => w = u /\ o = p
        BY DEF LoginInv, Pending
      <3>1. CASE u = t /\ p = r
        BY <1>2, <2>2, <2>4, <2>9, <2>11, <2>12, <3>1
      <3>2. CASE u # t \/ p # r
        BY <1>2, <2>2, <2>4, <2>6, <2>9, <2>12, <3>2 DEF LoginInv
      <3> QED BY <3>1, <3>2
    <2>14. UnexcusedInv'
      BY <2>2, <2>4, <2>6 DEF UnexcusedInv
    <2> QED BY <2>10, <2>13, <2>14 DEF Kept
  <1> QED BY <1>3, <1>4

-----------------------------------------------------------------------------
(* The exchanges.                                                           *)

\* steps that leave the requests and localStorage alone
LEMMA KeptExchange ==
  ASSUME Kept, KeptInv', UNCHANGED <<request, storage>>,
         \A s \in Time : Untouched(s) /\ s # storage => Untouched(s)',
         \A h \in Handler : handler'[h].pc = "granted" =>
           \/ handler[h].pc = "granted" /\ handler'[h].new = handler[h].new
           \/ ~Untouched(handler'[h].new)
  PROVE  Kept'
  <1>1. LoginInv /\ UnexcusedInv
    BY DEF Kept
  <1>2. \A t \in Tab, r \in Req : Pending(request[t][r]) => request[t][r].own \in Time
    BY <1>1 DEF LoginInv, Untouched
  <1>3. LoginInv'
    BY <1>1, <1>2 DEF LoginInv
  <1>4. UnexcusedInv'
    BY <1>1 DEF UnexcusedInv
  <1> QED BY <1>3, <1>4 DEF Kept

LEMMA FindKept ==
  ASSUME Structure, Kept, excuse' = "none", NEW h \in Handler, Find(h)
  PROVE  Kept'
  <1> DEFINE e == [handler[h] EXCEPT !.pc = "revoke"]
  <1>1. TypeOK /\ handler[h] \in Exchange /\ handler[h].pc = "find"
    BY DEF Structure, TypeOK, Find
  <1>2. KeptInv /\ token[handler[h].old] = "live"
    BY <1>1 DEF Kept, KeptInv, KeptAt
  <1>3. handler' = [handler EXCEPT ![h] = e] /\ UNCHANGED <<token, request, storage, signedIn>>
    BY <1>1, <1>2, ExcusedFacts DEF Find, Step
  <1>4. e \in Exchange /\ e.pc = "revoke" /\ e.by = handler[h].by /\ e.old = handler[h].old
    <2>1. e \in Exchange
      BY <1>1, ExchangeType
    <2> QED BY <1>1, <2>1 DEF Exchange
  <1> HIDE DEF e
  <1>5. handler'[h] = e /\ \A g \in Handler : g # h => handler'[g] = handler[g]
    BY <1>1, <1>3, <1>4, OneHandler
  <1>6. \A s : (Presented(s)' <=> Presented(s)) /\ (Untouched(s)' <=> Untouched(s))
    BY <1>1, <1>3, <1>4, <1>5 DEF Presented, Active, Untouched
  <1>7. ASSUME NEW g \in Handler PROVE KeptAt(g)'
    BY <1>1, <1>2, <1>3, <1>4, <1>5, <1>6 DEF KeptInv, KeptAt, Active
  <1>8. ASSUME NEW f \in Handler, NEW g \in Handler, f # g PROVE Apart(f, g)'
    <2>1. Apart(f, g)
      BY <1>2, <1>8 DEF KeptInv
    <2> QED BY <1>1, <1>4, <1>5, <2>1 DEF Apart, Active
  <1>9. KeptInv'
    BY <1>2, <1>3, <1>6, <1>7, <1>8 DEF KeptInv
  <1> QED BY <1>1, <1>3, <1>4, <1>5, <1>6, <1>9, KeptExchange

\* the token is revoked, and nobody else counts on it
LEMMA RevokeKept ==
  ASSUME Structure, Kept, NEW h \in Handler, Revoke(h)
  PROVE  Kept'
  <1> DEFINE e == [handler[h] EXCEPT !.pc = "create"]
             old == handler[h].old
  <1>1. /\ TypeOK /\ handler[h] \in Exchange /\ handler[h].pc = "revoke" /\ old \in Time
    BY DEF Structure, TypeOK, HandlerInv, Active, Revoke
  <1>2. KeptInv /\ Active(h)
    BY <1>1 DEF Kept, Active
  <1>3. /\ handler' = [handler EXCEPT ![h] = e] /\ token' = [token EXCEPT ![old] = "revoked"]
        /\ UNCHANGED <<request, storage, signedIn>>
    BY DEF Revoke, Step
  <1>4. e \in Exchange /\ e.pc = "create" /\ e.by = handler[h].by /\ e.old = old
    <2>1. e \in Exchange
      BY <1>1, ExchangeType
    <2> QED BY <1>1, <2>1 DEF Exchange
  <1>5. Presented(old)
    BY <1>2 DEF Presented
  <1> HIDE DEF e
  <1>6. handler'[h] = e /\ \A g \in Handler : g # h => handler'[g] = handler[g]
    BY <1>1, <1>3, <1>4, OneHandler
  <1>7. token'[old] = "revoked" /\ \A s \in Time : s # old => token'[s] = token[s]
    BY <1>1, <1>3 DEF TypeOK
  <1>8. \A s : Presented(s)' <=> Presented(s)
    BY <1>1, <1>3, <1>4, <1>6 DEF Presented, Active
  <1>9. \A s \in Time : Untouched(s) => Untouched(s)'
    BY <1>5, <1>7, <1>8 DEF Untouched
  <1>10. ASSUME NEW g \in Handler PROVE KeptAt(g)'
    <2>1. KeptAt(g) /\ (Active(g) => handler[g].old \in Time)
      BY <1>2 DEF KeptInv, Structure, HandlerInv
    <2>2. CASE g = h
      BY <1>2, <1>4, <1>6, <1>7, <2>1, <2>2 DEF KeptAt, Active
    <2>3. CASE g # h
      <3>1. Active(g) => handler[g].old # old
        BY <1>2, <2>3 DEF KeptInv, Apart
      <3>2. Active(g) => token'[handler[g].old] = token[handler[g].old]
        BY <1>7, <2>1, <3>1
      <3>3. handler'[g] = handler[g]
        BY <1>6, <2>3
      <3>4. handler[g].pc = "granted" => Untouched(handler[g].new)'
        BY <1>9, <2>1, <3>3 DEF KeptAt, Untouched
      <3> QED BY <1>3, <2>1, <3>2, <3>3, <3>4 DEF KeptAt, Active
    <2> QED BY <2>2, <2>3
  <1>11. ASSUME NEW f \in Handler, NEW g \in Handler, f # g PROVE Apart(f, g)'
    <2>1. Apart(f, g)
      BY <1>2, <1>11 DEF KeptInv
    <2> QED BY <1>1, <1>4, <1>6, <2>1 DEF Apart, Active
  <1>12. storage' # None => (Untouched(storage) \/ Presented(storage))'
    BY <1>2, <1>3, <1>8, <1>9 DEF KeptInv, Untouched
  <1>13. KeptInv'
    BY <1>2, <1>3, <1>10, <1>11, <1>12 DEF KeptInv
  <1> QED BY <1>3, <1>4, <1>6, <1>9, <1>13, KeptExchange

\* the new token is new to everybody
LEMMA CreateKept ==
  ASSUME Structure, Kept, excuse' = "none", NEW h \in Handler, Create(h)
  PROVE  Kept'
  <1>1. TypeOK /\ handler[h] \in Exchange /\ handler[h].pc = "create"
    BY DEF Structure, TypeOK, Create
  <1> PICK n \in Time : n = now
    BY <1>1 DEF TypeOK
  <1> DEFINE e == [handler[h] EXCEPT !.pc = "granted", !.new = n]
  <1>2. KeptInv /\ Active(h) /\ handler[h].by # NoTab
    BY <1>1 DEF Kept, KeptInv, KeptAt, Active
  <1>3. /\ Fresh /\ token' = [token EXCEPT ![n] = "live"] /\ Reply(h, "granted", n)
    BY <1>1, ExcusedFacts DEF Create
  <1>4. handler' = [handler EXCEPT ![h] = e] /\ UNCHANGED <<request, storage, signedIn>>
    BY <1>2, <1>3 DEF Reply, Step
  <1>5. e \in Exchange /\ e.pc = "granted" /\ e.by = handler[h].by /\ e.old = handler[h].old /\ e.new = n
    <2>1. e \in Exchange
      BY <1>1, ExchangeType, TimeFacts
    <2> QED BY <1>1, <2>1 DEF Exchange
  <1> HIDE DEF e
  <1>6. handler'[h] = e /\ \A g \in Handler : g # h => handler'[g] = handler[g]
    BY <1>1, <1>4, <1>5, OneHandler
  <1>7. token[n] = "none" /\ token'[n] = "live" /\ \A s \in Time : s # n => token'[s] = token[s]
    BY <1>1, <1>3 DEF TypeOK, Fresh
  <1>8. \A s : Presented(s)' <=> Presented(s)
    BY <1>1, <1>4, <1>5, <1>6 DEF Presented, Active
  <1>9. ~Presented(n)
    BY <1>2, <1>7 DEF Presented, KeptInv, KeptAt
  <1>10. \A s \in Time : Untouched(s) => Untouched(s)' /\ s # n
    BY <1>7, <1>8 DEF Untouched
  <1>11. Untouched(n)'
    BY <1>7, <1>8, <1>9 DEF Untouched
  <1>12. n # storage
    BY <1>2, <1>7, <1>9, TimeFacts DEF KeptInv, Untouched
  <1>13. ASSUME NEW g \in Handler PROVE KeptAt(g)'
    <2>1. KeptAt(g) /\ (Active(g) => handler[g].old \in Time)
      BY <1>2 DEF KeptInv, Structure, HandlerInv
    <2>2. Active(g) => token'[handler[g].old] = token[handler[g].old]
      BY <1>7, <2>1 DEF KeptAt
    <2>3. CASE g = h
      <3>1. handler'[g] = e /\ handler[g] = handler[h]
        BY <1>6, <2>3
      <3>2. token'[e.old] # "none" /\ e.by # NoTab
        BY <1>2, <1>5, <2>1, <2>2, <2>3 DEF KeptAt
      <3> QED BY <1>4, <1>5, <1>11, <1>12, <3>1, <3>2 DEF KeptAt
    <2>4. CASE g # h
      <3>1. handler'[g] = handler[g]
        BY <1>6, <2>4
      <3>2. handler[g].pc = "granted" => Untouched(handler[g].new)'
        BY <1>10, <2>1, <3>1 DEF KeptAt, Untouched
      <3> QED BY <1>4, <2>1, <2>2, <3>1, <3>2 DEF KeptAt, Active
    <2> QED BY <2>3, <2>4
  <1>14. \A g \in Handler : handler[g].pc = "granted" => handler[g].new # n
    BY <1>2, <1>7 DEF KeptInv, KeptAt, Untouched
  <1>15. ASSUME NEW f \in Handler, NEW g \in Handler, f # g PROVE Apart(f, g)'
    <2>1. Apart(f, g)
      BY <1>2, <1>15 DEF KeptInv
    <2> QED BY <1>1, <1>5, <1>6, <1>14, <1>15, <2>1 DEF Apart, Active
  <1>16. storage' # None => (Untouched(storage) \/ Presented(storage))'
    BY <1>2, <1>4, <1>8, <1>10 DEF KeptInv, Untouched
  <1>17. KeptInv'
    BY <1>2, <1>4, <1>13, <1>15, <1>16 DEF KeptInv
  <1>18. ~Untouched(n)
    BY <1>7 DEF Untouched
  <1> QED BY <1>4, <1>5, <1>6, <1>10, <1>17, <1>18, KeptExchange

\* nobody else presents the token of localStorage
LEMMA StartExchangeKept ==
  ASSUME Structure, Kept, excuse' = "none", NEW t \in Tab, NEW r \in Req, StartExchange(t, r)
  PROVE  Kept'
  <1> DEFINE q == [request[t][r] EXCEPT !.pc = "refreshing", !.retry = TRUE]
             e == [pc |-> "find", by |-> t, old |-> storage, new |-> None]
  <1>1. /\ request[t][r].pc = "denied" /\ ~isRefreshing[t] /\ storage # None /\ To(t, r, q)
        /\ UNCHANGED <<token, storage, signedIn>>
    BY DEF StartExchange
  <1>2. TypeOK /\ request[t][r] \in Request /\ KeptInv /\ LoginInv /\ UnexcusedInv
    BY DEF Structure, TypeOK, Kept
  <1>3. q \in Request /\ q.pc = "refreshing" /\ q.op = request[t][r].op /\ q.own = request[t][r].own
    <2>1. q \in Request
      BY <1>2, RequestRecord
    <2> QED BY <1>2, <2>1 DEF Request
  <1>4. PICK h \in Handler : /\ FreeHandler(h) /\ handler' = [handler EXCEPT ![h] = e]
                             /\ Raced(\E g \in Handler : handler[g].old = storage /\ handler[g].by \notin {t, NoTab})
    BY DEF StartExchange
  <1>5. e \in Exchange /\ e.pc = "find" /\ e.by = t /\ e.old = storage
    BY <1>2, ExchangeType DEF TypeOK
  <1> HIDE DEF q, e
  <1>6. handler'[h] = e /\ \A g \in Handler : g # h => handler'[g] = handler[g]
    BY <1>2, <1>4, <1>5, OneHandler
  <1>7. ~Active(h) /\ t # NoTab
    BY <1>4, ConstantAssumption DEF FreeHandler, Active
  <1>8. ~Presented(storage)
    <2> DEFINE it == \E g \in Handler : handler[g].old = storage /\ handler[g].by \notin {t, NoTab}
    <2>1. it \in BOOLEAN /\ Raced(it)
      BY <1>4
    <2>2. ~it
      <3> HIDE DEF it
      <3> QED BY <1>2, <2>1, RacedFacts
    <2>3. \A g \in Handler : handler[g].by # t
      BY <1>1 DEF Structure, RefreshInv, RefreshAt
    <2> QED BY <1>2, <2>2, <2>3 DEF Presented, KeptInv, KeptAt
  <1>9. Untouched(storage)
    BY <1>1, <1>2, <1>8 DEF KeptInv
  <1>10. \A s : Presented(s)' <=> Presented(s) \/ s = storage
    BY <1>5, <1>6, <1>7 DEF Presented, Active
  <1>11. \A s : Untouched(s) /\ s # storage => Untouched(s)'
    BY <1>1, <1>10 DEF Untouched
  <1>12. ASSUME NEW g \in Handler PROVE KeptAt(g)'
    <2>1. CASE g = h
      BY <1>1, <1>5, <1>6, <1>7, <1>9, <2>1 DEF KeptAt, Active, Untouched
    <2>2. CASE g # h
      <3>1. KeptAt(g) /\ handler'[g] = handler[g]
        BY <1>2, <1>6, <2>2 DEF KeptInv
      <3>2. handler[g].pc = "granted" => Untouched(handler[g].new)'
        BY <1>11, <3>1 DEF KeptAt, Untouched
      <3> QED BY <1>1, <3>1, <3>2 DEF KeptAt, Active
    <2> QED BY <2>1, <2>2
  <1>13. \A g \in Handler : Active(g) => handler[g].old # storage
    BY <1>8 DEF Presented
  <1>14. ASSUME NEW f \in Handler, NEW g \in Handler, f # g PROVE Apart(f, g)'
    <2>1. Apart(f, g)
      BY <1>2, <1>14 DEF KeptInv
    <2> QED BY <1>5, <1>6, <1>13, <1>14, <2>1 DEF Apart, Active
  <1>15. Presented(storage)' /\ storage' = storage
    BY <1>1, <1>5, <1>6 DEF Presented, Active
  <1>16. KeptInv'
    BY <1>1, <1>2, <1>12, <1>14, <1>15 DEF KeptInv
  <1>17. /\ request'[t][r] = q
         /\ \A u \in Tab, p \in Req : u # t \/ p # r => request'[u][p] = request[u][p]
    BY <1>1, <1>2, <1>3, OneRequest
  <1>18. \A u \in Tab, p \in Req : /\ Pending(request'[u][p]) <=> Pending(request[u][p])
                                 /\ request'[u][p].own = request[u][p].own
    BY <1>1, <1>3, <1>17 DEF Pending
  <1>19. LoginInv'
    <2> SUFFICES ASSUME NEW u \in Tab, NEW p \in Req, Pending(request[u][p])
                 PROVE  /\ Untouched(request[u][p].own)' /\ request[u][p].own # storage
                        /\ \A g \in Handler : handler'[g].pc = "granted" => handler'[g].new # request[u][p].own
                        /\ \A w \in Tab, o \in Req :
                             Pending(request[w][o]) /\ request[w][o].own = request[u][p].own => w = u /\ o = p
      BY <1>1, <1>18 DEF LoginInv
    <2>1. Untouched(request[u][p].own) /\ request[u][p].own # storage
      BY <1>2 DEF LoginInv
    <2>2. Untouched(request[u][p].own)'
      BY <1>11, <1>18, <2>1 DEF Untouched
    <2> QED BY <1>2, <1>5, <1>6, <2>1, <2>2 DEF LoginInv
  <1>20. UnexcusedInv'
    BY <1>1, <1>2, <1>3, <1>17 DEF UnexcusedInv
  <1> QED BY <1>16, <1>19, <1>20 DEF Kept

\* the new token takes the place of the old one in localStorage
LEMMA GrantedKept ==
  ASSUME Structure, Kept, NEW t \in Tab, NEW h \in Handler, Granted(t, h)
  PROVE  Kept'
  <1> DEFINE q(r) == IF r \in Queued(t) THEN Send(request[t][r], handler[h].new) ELSE request[t][r]
  <1>1. /\ handler[h].pc = "granted" /\ storage' = handler[h].new
        /\ request' = [request EXCEPT ![t] = [r \in Req |-> q(r)]]
        /\ handler' = [handler EXCEPT ![h] = NoExchange]
        /\ UNCHANGED token
    BY DEF Granted, setTokens, Resent
  <1>2. TypeOK /\ KeptInv /\ LoginInv /\ UnexcusedInv
    BY DEF Structure, Kept
  <1> PICK n \in Time : n = handler[h].new
    BY <1>1 DEF Structure, HandlerInv
  <1>3. ASSUME NEW r \in Req
        PROVE  /\ q(r).op = request[t][r].op /\ q(r).own = request[t][r].own
               /\ q(r).pc = "failed" => request[t][r].pc = "failed"
               /\ q(r).pc = "idle" <=> request[t][r].pc = "idle"
    <2>1. request[t][r] \in Request
      BY <1>2, RequestTyped
    <2> QED BY <2>1 DEF Send, Request, Queued
  <1> HIDE DEF q
  <1>4. /\ \A r \in Req : request'[t][r] = q(r)
        /\ \A u \in Tab : u # t => request'[u] = request[u]
    BY <1>1, <1>2 DEF TypeOK
  <1>5. \A u \in Tab, p \in Req : /\ Pending(request'[u][p]) <=> Pending(request[u][p])
                                /\ request'[u][p].own = request[u][p].own
    BY <1>3, <1>4 DEF Pending
  <1>6. handler'[h] = NoExchange /\ \A g \in Handler : g # h => handler'[g] = handler[g]
    BY <1>1, <1>2, ExchangeType, OneHandler
  <1>7. NoExchange.pc = "idle"
    BY DEF NoExchange
  <1>8. \A s : Presented(s)' => Presented(s)
    BY <1>6, <1>7 DEF Presented, Active
  <1>9. \A s : Untouched(s) => Untouched(s)'
    BY <1>1, <1>8 DEF Untouched
  <1>10. Untouched(n) /\ storage' = n
    BY <1>1, <1>2 DEF KeptInv, KeptAt
  <1>11. \A g \in Handler : g # h /\ handler[g].pc = "granted" => handler[g].new # n
    BY <1>1, <1>2 DEF KeptInv, Apart
  <1>12. ASSUME NEW g \in Handler PROVE KeptAt(g)'
    <2>1. CASE g = h
      BY <1>6, <1>7, <2>1 DEF KeptAt, Active
    <2>2. CASE g # h
      <3>1. KeptAt(g) /\ handler'[g] = handler[g]
        BY <1>2, <1>6, <2>2 DEF KeptInv
      <3>2. handler[g].pc = "granted" => Untouched(handler[g].new)'
        BY <1>9, <3>1 DEF KeptAt, Untouched
      <3> QED BY <1>1, <1>10, <1>11, <2>2, <3>1, <3>2 DEF KeptAt, Active
    <2> QED BY <2>1, <2>2
  <1>13. ASSUME NEW f \in Handler, NEW g \in Handler, f # g PROVE Apart(f, g)'
    <2>1. Apart(f, g)
      BY <1>2, <1>13 DEF KeptInv
    <2> QED BY <1>6, <1>7, <2>1 DEF Apart, Active
  <1>14. storage' # None /\ Untouched(storage)'
    BY <1>9, <1>10, TimeFacts DEF Untouched
  <1>15. KeptInv'
    BY <1>12, <1>13, <1>14 DEF KeptInv
  <1>16. LoginInv'
    <2> SUFFICES ASSUME NEW u \in Tab, NEW p \in Req, Pending(request[u][p])
                 PROVE  /\ Untouched(request[u][p].own)' /\ request[u][p].own # storage'
                        /\ \A g \in Handler : handler'[g].pc = "granted" => handler'[g].new # request[u][p].own
                        /\ \A w \in Tab, o \in Req :
                             Pending(request[w][o]) /\ request[w][o].own = request[u][p].own => w = u /\ o = p
      BY <1>5 DEF LoginInv
    <2>1. Untouched(request[u][p].own) /\ request[u][p].own # n
      BY <1>1, <1>2 DEF LoginInv
    <2>2. Untouched(request[u][p].own)'
      BY <1>5, <1>9, <2>1 DEF Untouched
    <2> QED BY <1>2, <1>6, <1>7, <1>10, <2>1, <2>2 DEF LoginInv
  <1>17. UnexcusedInv'
    BY <1>2, <1>3, <1>4 DEF UnexcusedInv
  <1> QED BY <1>15, <1>16, <1>17 DEF Kept

-----------------------------------------------------------------------------
(* Every step either keeps the session or has a cause to lose it.           *)

\* what ends a session is not taken without a cause
LEMMA LosingStepsHaveACause ==
  ASSUME Structure, Kept, excuse' = "none", NEW t \in Tab, NEW r \in Req
  PROVE  ~Logout(t, r) /\ ~LoggedOut(t, r) /\ ~BootFailed(t, r)
  <1>1. ~Excused
    BY ExcusedFacts DEF Structure
  <1>2. ~Logout(t, r)
    BY <1>1 DEF Logout
  <1>3. ~LoggedOut(t, r)
    BY DEF LoggedOut, Settled, Kept, UnexcusedInv
  <1>4. ~BootFailed(t, r)
    BY <1>1 DEF BootFailed, Settled, Failed, Noted, Kept, UnexcusedInv
  <1> QED BY <1>2, <1>3, <1>4

\* a cause is not forgotten
LEMMA CausesStay ==
  ASSUME TypeOK, [Next]_vars, excuse' = "none"
  PROVE  excuse = "none"
  <1>1. ~Excused
    BY ExcusedFacts
  <1>2. ASSUME NEW it, Raced(it) PROVE excuse = "none"
    BY <1>2 DEF Raced
  <1>3. ASSUME NEW q, Noted(q) PROVE excuse = "none"
    BY <1>1, <1>3 DEF Noted
  <1>4. CASE Tick
    BY <1>4 DEF Tick
  <1>5. CASE UserStep
    BY <1>1, <1>2, <1>5 DEF UserStep, Call, Login, Logout, Reload
  <1>6. ASSUME NEW t \in Tab, NEW r \in Req, Answer(t, r) PROVE excuse = "none"
    <2>1. CASE Serve(t, r) \/ ServeLogin(t, r) \/ JoinQueue(t, r) \/ NoRefreshToken(t, r)
      BY <2>1 DEF Serve, ServeLogin, JoinQueue, NoRefreshToken
    <2>2. CASE StartExchange(t, r)
      <3>1. PICK it \in BOOLEAN : Raced(it)
        BY <2>2 DEF StartExchange
      <3> QED BY <1>2, <3>1
    <2>3. CASE CallFailed(t, r) \/ EnterApp(t, r) \/ LoggedOut(t, r) \/ BootFailed(t, r)
      BY <1>3, <2>3 DEF CallFailed, EnterApp, LoggedOut, BootFailed
    <2> QED BY <1>6, <2>1, <2>2, <2>3 DEF Answer
  <1>7. ASSUME NEW t \in Tab, TabStep(t) PROVE excuse = "none"
    BY <1>7 DEF TabStep, Load, Booted, Granted, Refused
  <1>8. ASSUME NEW h \in Handler, HandlerStep(h) PROVE excuse = "none"
    BY <1>1, <1>8 DEF HandlerStep, Find, Revoke, Create
  <1>9. CASE System
    BY <1>6, <1>7, <1>8, <1>9 DEF System
  <1>10. CASE Failure
    BY <1>1, <1>10 DEF Failure, ServeFails, ExchangeFails, Fault
  <1>11. CASE UNCHANGED vars
    BY <1>11 DEF vars
  <1> QED BY <1>4, <1>5, <1>9, <1>10, <1>11 DEF Next

LEMMA AnswerKept ==
  ASSUME Structure, Kept, excuse' = "none", NEW t \in Tab, NEW r \in Req, Answer(t, r)
  PROVE  Kept'
  BY LosingStepsHaveACause, ServeKept, ServeLoginKept, JoinQueueKept, NoRefreshTokenKept,
     StartExchangeKept, CallFailedKept, EnterAppKept DEF Answer

LEMMA KeptStep ==
  ASSUME Structure, Kept, excuse' = "none", [Next]_vars
  PROVE  Kept'
  <1>1. CASE Tick
    BY <1>1, TickKept
  <1>2. CASE UserStep
    <2>1. PICK t \in Tab : Reload(t) \/ \E r \in Req : Call(t, r) \/ Login(t, r) \/ Logout(t, r)
      BY <1>2 DEF UserStep
    <2>2. CASE Reload(t)
      BY <2>2, ReloadKept
    <2>3. ASSUME NEW r \in Req, Call(t, r) \/ Login(t, r) PROVE Kept'
      BY <2>3, CallKept
    <2>4. \A r \in Req : ~Logout(t, r)
      BY LosingStepsHaveACause
    <2> QED BY <2>1, <2>2, <2>3, <2>4
  <1>3. ASSUME NEW t \in Tab, NEW r \in Req, Answer(t, r) PROVE Kept'
    BY <1>3, AnswerKept
  <1>4. ASSUME NEW t \in Tab, TabStep(t) PROVE Kept'
    <2>1. \A h \in Handler : ~Refused(t, h)
      BY DEF Refused, Kept, KeptInv, KeptAt
    <2> QED BY <1>4, <2>1, LoadKept, BootedKept, GrantedKept DEF TabStep
  <1>5. ASSUME NEW h \in Handler, HandlerStep(h) PROVE Kept'
    BY <1>5, FindKept, RevokeKept, CreateKept DEF HandlerStep
  <1>6. CASE Failure
    BY <1>6, ExcusedFacts DEF Structure, Failure, ServeFails, ExchangeFails, Fault
  <1>7. CASE UNCHANGED vars
    <2>1. UNCHANGED <<token, handler, storage, signedIn, request>>
      BY <1>7 DEF vars
    <2>2. signedIn' => storage' # None
      BY <2>1 DEF Kept, KeptInv
    <2>3. \A t \in Tab, r \in Req : request'[t][r].pc # "idle" =>
            request'[t][r].op # "logout" /\ request'[t][r].pc # "failed"
      BY <2>1 DEF Kept, UnexcusedInv
    <2> QED BY <2>1, <2>2, <2>3, KeptRequests
  <1>8. CASE System
    BY <1>3, <1>4, <1>5, <1>8 DEF System
  <1> QED BY <1>1, <1>2, <1>6, <1>7, <1>8 DEF Next

LEMMA KeptInit ==
  ASSUME Init
  PROVE  Kept
  <1>1. \A t \in Tab, r \in Req : request[t][r].pc = "idle"
    BY DEF Init, NoRequest
  <1>2. \A h \in Handler : handler[h].pc = "idle"
    BY DEF Init, NoExchange
  <1>3. ~signedIn /\ storage = None
    BY DEF Init
  <1>4. LoginInv /\ UnexcusedInv
    BY <1>1 DEF LoginInv, Pending, UnexcusedInv
  <1>5. KeptInv
    BY <1>2, <1>3 DEF KeptInv, KeptAt, Apart, Active
  <1> QED BY <1>4, <1>5 DEF Kept

\* The inductive invariant: the structure, and the tokens somebody counts on as long as
\* nothing happened that can cost the session.
THEOREM SessionInvariant == Spec => []SessionInv
  <1>1. SessionInv <=> Structure /\ (excuse = "none" => Kept)
    BY DEF SessionInv, Structure, Kept
  <1>2. Init => SessionInv
    BY <1>1, StructureInit, KeptInit
  <1>3. SessionInv /\ [Next]_vars => SessionInv'
    <2> SUFFICES ASSUME SessionInv, [Next]_vars PROVE SessionInv'
      OBVIOUS
    <2>1. Structure /\ Structure'
      BY <1>1, StructureStep
    <2>2. excuse' = "none" => Kept'
      BY <1>1, <2>1, CausesStay, KeptStep DEF Structure
    <2> QED BY <2>1, <2>2 DEF SessionInv, Structure, Kept
  <1> QED BY <1>2, <1>3, PTL DEF Spec

\* StaysSignedIn: while no logout, expiry, failure, second tab or second of two exchanges
\* is to blame, a browser that has signed in holds a token (auth.service.ts, api.ts).
THEOREM SessionIsKept == Spec => []StaysSignedIn
  <1>1. SessionInv => StaysSignedIn
    BY DEF SessionInv, KeptInv, StaysSignedIn
  <1> QED BY <1>1, SessionInvariant, PTL

-----------------------------------------------------------------------------
(* Refreshing rotates: what the live tokens are paid for by.                *)

LEMMA Fewer ==
  ASSUME NEW S, IsFiniteSet(S), NEW T, T \subseteq S
  PROVE  IsFiniteSet(T) /\ Cardinality(T) \in Nat /\ Cardinality(S) \in Nat
         /\ Cardinality(T) <= Cardinality(S)
  BY FS_Subset, FS_CardinalityType

LEMMA OneFewer ==
  ASSUME NEW S, IsFiniteSet(S), NEW x \in S, NEW T, T \subseteq S \ {x}
  PROVE  IsFiniteSet(T) /\ Cardinality(T) \in Nat /\ Cardinality(S) \in Nat
         /\ Cardinality(T) <= Cardinality(S) - 1
  <1>1. IsFiniteSet(S \ {x}) /\ Cardinality(S \ {x}) = Cardinality(S) - 1
    BY FS_RemoveElement
  <1>2. Cardinality(S) \in Nat
    BY FS_CardinalityType
  <1> QED BY <1>1, <1>2, Fewer

LEMMA OneMore ==
  ASSUME NEW S, IsFiniteSet(S), NEW x, NEW T, T \subseteq S \cup {x}
  PROVE  IsFiniteSet(T) /\ Cardinality(T) \in Nat /\ Cardinality(S) \in Nat
         /\ Cardinality(T) <= Cardinality(S) + 1
  <1>1. /\ IsFiniteSet(S \cup {x})
        /\ Cardinality(S \cup {x}) = IF x \in S THEN Cardinality(S) ELSE Cardinality(S) + 1
    BY FS_AddElement
  <1>2. Cardinality(S) \in Nat
    BY FS_CardinalityType
  <1> QED BY <1>1, <1>2, Fewer

LEMMA LiveFinite == IsFiniteSet(Live) /\ IsFiniteSet(Live')
  <1>1. IsFiniteSet(Time)
    BY ConstantAssumption, FS_Interval DEF Time
  <1>2. Live \subseteq Time /\ Live' \subseteq Time
    BY DEF Live
  <1> QED BY <1>1, <1>2, FS_Subset

\* The sum grows by no more than the logins.
LEMMA CountedFrom ==
  ASSUME TypeOK, Counted, IsFiniteSet(Owed'), IsFiniteSet(Asked'), logins' \in Nat,
         Cardinality(Live') + Cardinality(Owed') + Cardinality(Asked') + logins
           <= Cardinality(Live) + Cardinality(Owed) + Cardinality(Asked) + logins'
  PROVE  Counted'
  <1>1. /\ IsFiniteSet(Owed) /\ IsFiniteSet(Asked) /\ logins \in Nat
        /\ Cardinality(Live) + Cardinality(Owed) + Cardinality(Asked) <= logins
    BY DEF Counted, TypeOK
  <1>2. /\ Cardinality(Live) \in Nat /\ Cardinality(Owed) \in Nat /\ Cardinality(Asked) \in Nat
        /\ Cardinality(Live') \in Nat /\ Cardinality(Owed') \in Nat
        /\ Cardinality(Asked') \in Nat
    BY <1>1, LiveFinite, FS_CardinalityType
  <1>3. Cardinality(Live') + Cardinality(Owed') + Cardinality(Asked') <= logins'
    BY <1>1, <1>2
  <1> QED BY <1>3 DEF Counted

\* Nothing is added to any of the three.
LEMMA CountedStays ==
  ASSUME TypeOK, Counted, logins' = logins,
         Live' \subseteq Live, Owed' \subseteq Owed, Asked' \subseteq Asked
  PROVE  Counted'
  <1>1. IsFiniteSet(Live) /\ IsFiniteSet(Owed) /\ IsFiniteSet(Asked) /\ logins \in Nat
    BY LiveFinite DEF Counted, TypeOK
  <1>2. IsFiniteSet(Live') /\ Cardinality(Live) \in Nat /\ Cardinality(Live') \in Nat
        /\ Cardinality(Live') <= Cardinality(Live)
    BY <1>1, Fewer
  <1>3. IsFiniteSet(Owed') /\ Cardinality(Owed) \in Nat /\ Cardinality(Owed') \in Nat
        /\ Cardinality(Owed') <= Cardinality(Owed)
    BY <1>1, Fewer
  <1>4. IsFiniteSet(Asked') /\ Cardinality(Asked) \in Nat /\ Cardinality(Asked') \in Nat
        /\ Cardinality(Asked') <= Cardinality(Asked)
    BY <1>1, Fewer
  <1>5. /\ logins' \in Nat
        /\ Cardinality(Live') + Cardinality(Owed') + Cardinality(Asked') + logins
             <= Cardinality(Live) + Cardinality(Owed) + Cardinality(Asked) + logins'
    BY <1>1, <1>2, <1>3, <1>4
  <1> QED BY <1>2, <1>3, <1>4, <1>5, CountedFrom

\* A live token is revoked, and at most one exchange under way owes another for it.
LEMMA CountedRevoked ==
  ASSUME TypeOK, Counted, logins' = logins,
         NEW s \in Live, Live' \subseteq Live \ {s},
         NEW h, Owed' \subseteq Owed \cup {h},
         Asked' \subseteq Asked
  PROVE  Counted'
  <1>1. IsFiniteSet(Live) /\ IsFiniteSet(Owed) /\ IsFiniteSet(Asked) /\ logins \in Nat
    BY LiveFinite DEF Counted, TypeOK
  <1>2. IsFiniteSet(Live') /\ Cardinality(Live) \in Nat /\ Cardinality(Live') \in Nat
        /\ Cardinality(Live') <= Cardinality(Live) - 1
    BY <1>1, OneFewer
  <1>3. IsFiniteSet(Owed') /\ Cardinality(Owed) \in Nat /\ Cardinality(Owed') \in Nat
        /\ Cardinality(Owed') <= Cardinality(Owed) + 1
    BY <1>1, OneMore
  <1>4. IsFiniteSet(Asked') /\ Cardinality(Asked) \in Nat /\ Cardinality(Asked') \in Nat
        /\ Cardinality(Asked') <= Cardinality(Asked)
    BY <1>1, Fewer
  <1>5. /\ logins' \in Nat
        /\ Cardinality(Live') + Cardinality(Owed') + Cardinality(Asked') + logins
             <= Cardinality(Live) + Cardinality(Owed) + Cardinality(Asked) + logins'
    BY <1>1, <1>2, <1>3, <1>4
  <1> QED BY <1>2, <1>3, <1>4, <1>5, CountedFrom

\* A token is signed in for one that is owed.
LEMMA CountedCreated ==
  ASSUME TypeOK, Counted, logins' = logins,
         NEW s, Live' \subseteq Live \cup {s},
         NEW h \in Owed, Owed' \subseteq Owed \ {h},
         Asked' \subseteq Asked
  PROVE  Counted'
  <1>1. IsFiniteSet(Live) /\ IsFiniteSet(Owed) /\ IsFiniteSet(Asked) /\ logins \in Nat
    BY LiveFinite DEF Counted, TypeOK
  <1>2. IsFiniteSet(Live') /\ Cardinality(Live) \in Nat /\ Cardinality(Live') \in Nat
        /\ Cardinality(Live') <= Cardinality(Live) + 1
    BY <1>1, OneMore
  <1>3. IsFiniteSet(Owed') /\ Cardinality(Owed) \in Nat /\ Cardinality(Owed') \in Nat
        /\ Cardinality(Owed') <= Cardinality(Owed) - 1
    BY <1>1, OneFewer
  <1>4. IsFiniteSet(Asked') /\ Cardinality(Asked) \in Nat /\ Cardinality(Asked') \in Nat
        /\ Cardinality(Asked') <= Cardinality(Asked)
    BY <1>1, Fewer
  <1>5. /\ logins' \in Nat
        /\ Cardinality(Live') + Cardinality(Owed') + Cardinality(Asked') + logins
             <= Cardinality(Live) + Cardinality(Owed) + Cardinality(Asked) + logins'
    BY <1>1, <1>2, <1>3, <1>4
  <1> QED BY <1>2, <1>3, <1>4, <1>5, CountedFrom

\* ... or for a login that asked for it.
LEMMA CountedAnswered ==
  ASSUME TypeOK, Counted, logins' = logins,
         NEW s, Live' \subseteq Live \cup {s},
         Owed' \subseteq Owed,
         NEW p \in Asked, Asked' \subseteq Asked \ {p}
  PROVE  Counted'
  <1>1. IsFiniteSet(Live) /\ IsFiniteSet(Owed) /\ IsFiniteSet(Asked) /\ logins \in Nat
    BY LiveFinite DEF Counted, TypeOK
  <1>2. IsFiniteSet(Live') /\ Cardinality(Live) \in Nat /\ Cardinality(Live') \in Nat
        /\ Cardinality(Live') <= Cardinality(Live) + 1
    BY <1>1, OneMore
  <1>3. IsFiniteSet(Owed') /\ Cardinality(Owed) \in Nat /\ Cardinality(Owed') \in Nat
        /\ Cardinality(Owed') <= Cardinality(Owed)
    BY <1>1, Fewer
  <1>4. IsFiniteSet(Asked') /\ Cardinality(Asked) \in Nat /\ Cardinality(Asked') \in Nat
        /\ Cardinality(Asked') <= Cardinality(Asked) - 1
    BY <1>1, OneFewer
  <1>5. /\ logins' \in Nat
        /\ Cardinality(Live') + Cardinality(Owed') + Cardinality(Asked') + logins
             <= Cardinality(Live) + Cardinality(Owed) + Cardinality(Asked) + logins'
    BY <1>1, <1>2, <1>3, <1>4
  <1> QED BY <1>2, <1>3, <1>4, <1>5, CountedFrom

\* A login is asked for, and counted as one.
LEMMA CountedAsked ==
  ASSUME TypeOK, Counted, logins' = logins + 1,
         Live' \subseteq Live,
         Owed' \subseteq Owed,
         NEW p, Asked' \subseteq Asked \cup {p}
  PROVE  Counted'
  <1>1. IsFiniteSet(Live) /\ IsFiniteSet(Owed) /\ IsFiniteSet(Asked) /\ logins \in Nat
    BY LiveFinite DEF Counted, TypeOK
  <1>2. IsFiniteSet(Live') /\ Cardinality(Live) \in Nat /\ Cardinality(Live') \in Nat
        /\ Cardinality(Live') <= Cardinality(Live)
    BY <1>1, Fewer
  <1>3. IsFiniteSet(Owed') /\ Cardinality(Owed) \in Nat /\ Cardinality(Owed') \in Nat
        /\ Cardinality(Owed') <= Cardinality(Owed)
    BY <1>1, Fewer
  <1>4. IsFiniteSet(Asked') /\ Cardinality(Asked) \in Nat /\ Cardinality(Asked') \in Nat
        /\ Cardinality(Asked') <= Cardinality(Asked) + 1
    BY <1>1, OneMore
  <1>5. /\ logins' \in Nat
        /\ Cardinality(Live') + Cardinality(Owed') + Cardinality(Asked') + logins
             <= Cardinality(Live) + Cardinality(Owed) + Cardinality(Asked) + logins'
    BY <1>1, <1>2, <1>3, <1>4
  <1> QED BY <1>2, <1>3, <1>4, <1>5, CountedFrom

LEMMA AskedFewer ==
  ASSUME \A t \in Tab, r \in Req : AsksLogin(request'[t][r]) => AsksLogin(request[t][r])
  PROVE  Asked' \subseteq Asked
  BY DEF Asked

\* A step that revokes and issues nothing: each exchange stays, ends, or goes on with the
\* token it presents.
LEMMA QuietRotation ==
  ASSUME TypeOK, Alone, Counted, UNCHANGED <<token, logins>>,
         \A t \in Tab, r \in Req : AsksLogin(request'[t][r]) => AsksLogin(request[t][r]),
         \A h \in Handler :
           \/ handler'[h] = handler[h]
           \/ handler'[h].pc = "idle"
           \/ /\ Active(h) /\ handler'[h].by = handler[h].by /\ handler'[h].old = handler[h].old
              /\ handler'[h].pc # "create"
              /\ handler'[h].pc = "revoke" => token[handler[h].old] = "live"
  PROVE  Alone' /\ Counted'
  <1>1. Asked' \subseteq Asked
    BY AskedFewer
  <1>2. Live' \subseteq Live
    BY DEF Live
  <1>3. Owed' \subseteq Owed
    BY DEF Owed
  <1>4. \A h \in Handler : handler'[h].pc # "idle" =>
          Active(h) /\ handler'[h].by = handler[h].by /\ handler'[h].old = handler[h].old
    BY DEF Active
  <1>5. Alone'
    BY <1>4 DEF Alone, Active
  <1> QED BY <1>1, <1>2, <1>3, <1>5, CountedStays

\* One request changes, and what it becomes asks for nothing it did not ask before.
LEMMA RequestRotation ==
  ASSUME TypeOK, Alone, Counted, UNCHANGED <<token, logins, handler>>,
         NEW t \in Tab, NEW r \in Req, NEW q \in Request, To(t, r, q),
         AsksLogin(q) => AsksLogin(request[t][r])
  PROVE  Alone' /\ Counted'
  <1>1. \A u \in Tab, p \in Req : AsksLogin(request'[u][p]) => AsksLogin(request[u][p])
    BY OneRequest
  <1> QED BY <1>1, QuietRotation

\* A tab is unloaded while it has no exchange under way, or after the answer to it.
LEMMA UnloadRotation ==
  ASSUME TypeOK, Alone, Counted, UNCHANGED <<token, logins>>, NEW t \in Tab, Unload(t),
         \A h \in Exchanging(t) : handler[h].pc \in {"granted", "refused"}
  PROVE  Alone' /\ Counted'
  <1>1. ~AsksLogin(NoRequest) /\ NoExchange.pc = "idle"
    BY DEF AsksLogin, NoRequest, NoExchange
  <1>2. \A u \in Tab, p \in Req : AsksLogin(request'[u][p]) => AsksLogin(request[u][p])
    BY <1>1, UnloadStep
  <1>3. \A h \in Handler : handler'[h] = handler[h] \/ handler'[h].pc = "idle"
    BY <1>1, UnloadStep DEF Exchanging
  <1> QED BY <1>2, <1>3, QuietRotation

\* The exchanges that present a revoked token owe another for it, and they are at most one.
LEMMA OneOwes ==
  ASSUME Alone, NEW s,
         \A h \in Handler : h \in Owed' => h \in Owed \/ (Active(h) /\ handler[h].old = s)
  PROVE  \E h : Owed' \subseteq Owed \cup {h}
  <1>1. Owed' \subseteq Handler
    BY DEF Owed
  <1>2. CASE \E h \in Handler : Active(h) /\ handler[h].old = s
    <2>1. PICK h \in Handler : Active(h) /\ handler[h].old = s
      BY <1>2
    <2>2. \A g \in Handler : Active(g) /\ handler[g].old = s => g = h
      BY <2>1 DEF Alone
    <2> QED BY <1>1, <2>2
  <1>3. CASE ~\E h \in Handler : Active(h) /\ handler[h].old = s
    BY <1>1, <1>3
  <1> QED BY <1>2, <1>3

LEMMA LiveLess ==
  ASSUME TypeOK, NEW s \in Time, token' = [token EXCEPT ![s] = "revoked"]
  PROVE  /\ Live' \subseteq Live \ {s}
         /\ \A u \in Time : u # s => token'[u] = token[u]
         /\ token'[s] = "revoked"
  BY DEF TypeOK, Live

LEMMA LiveMore ==
  ASSUME TypeOK, NEW s \in Time, token' = [token EXCEPT ![s] = "live"]
  PROVE  /\ Live' \subseteq Live \cup {s}
         /\ \A u \in Time : u # s => token'[u] = token[u]
         /\ token'[s] = "live"
  BY DEF TypeOK, Live

\* A token is revoked by a logout or by an exchange that comes too late.
LEMMA RevokedRotation ==
  ASSUME Structure, Alone, Counted, UNCHANGED logins,
         NEW s \in Live, token' = [token EXCEPT ![s] = "revoked"],
         \A t \in Tab, r \in Req : AsksLogin(request'[t][r]) => AsksLogin(request[t][r]),
         \A h \in Handler :
           \/ handler'[h] = handler[h]
           \/ handler'[h].pc = "idle"
           \/ /\ Active(h) /\ handler'[h].by = handler[h].by /\ handler'[h].old = handler[h].old
              /\ handler'[h].pc \in {"create", "revoke"} => handler[h].old = s
  PROVE  Alone' /\ Counted'
  <1>1. TypeOK /\ s \in Time
    BY DEF Structure, Live
  <1>2. /\ Live' \subseteq Live \ {s}
        /\ \A u \in Time : u # s => token'[u] = token[u]
    BY <1>1, LiveLess
  <1>3. Asked' \subseteq Asked
    BY AskedFewer
  <1>4. ASSUME NEW h \in Handler, h \in Owed', h \notin Owed
        PROVE  Active(h) /\ handler[h].old = s
    <2>1. \/ handler'[h].pc = "create"
          \/ (handler'[h].pc = "revoke" /\ token'[handler'[h].old] # "live")
      BY <1>4 DEF Owed
    <2>2. CASE handler'[h] = handler[h]
      <3>1. Active(h) /\ handler[h].pc = "revoke"
        BY <1>4, <2>1, <2>2 DEF Active, Owed
      <3>2. handler[h].old \in Time
        BY <3>1 DEF Structure, HandlerInv
      <3>3. token'[handler[h].old] # "live" /\ token[handler[h].old] = "live"
        BY <1>4, <2>1, <2>2, <3>1 DEF Owed
      <3> QED BY <1>2, <3>1, <3>2, <3>3
    <2>3. CASE handler'[h] # handler[h]
      BY <2>1, <2>3
    <2> QED BY <2>2, <2>3
  <1>5. PICK h : Owed' \subseteq Owed \cup {h}
    BY <1>4, OneOwes
  <1>6. Counted'
    BY <1>1, <1>2, <1>3, <1>5, CountedRevoked
  <1>7. \A g \in Handler : handler'[g].pc # "idle" =>
          Active(g) /\ handler'[g].by = handler[g].by /\ handler'[g].old = handler[g].old
    BY DEF Active
  <1>8. Alone'
    BY <1>7 DEF Alone, Active
  <1> QED BY <1>6, <1>8

-----------------------------------------------------------------------------
(* ... kept by the steps of the requests.                                   *)

LEMMA CallRotation ==
  ASSUME TypeOK, Alone, Counted, NEW t \in Tab, NEW r \in Req, Call(t, r)
  PROVE  Alone' /\ Counted'
  <1> DEFINE q == Send(New("call", None), storage)
  <1>1. q \in Request /\ ~AsksLogin(q)
    <2>1. q \in Request
      BY NoRequestType, RequestRecord, TimeFacts DEF TypeOK
    <2>2. q.op = "call"
      BY DEF Send, New, NoRequest
    <2> QED BY <2>1, <2>2 DEF AsksLogin
  <1>2. To(t, r, q) /\ UNCHANGED <<token, logins, handler>>
    BY DEF Call, Event
  <1> HIDE DEF q
  <1> QED BY <1>1, <1>2, RequestRotation

LEMMA LogoutRotation ==
  ASSUME TypeOK, Alone, Counted, NEW t \in Tab, NEW r \in Req, Logout(t, r)
  PROVE  Alone' /\ Counted'
  <1>1. UNCHANGED <<token, logins, handler>>
    BY DEF Logout, Event
  <1>2. CASE store[t] # None
    <2> DEFINE q == Send(New("logout", store[t]), storage)
    <2>1. q \in Request
      BY NoRequestType, RequestRecord DEF TypeOK
    <2>2. q.op = "logout"
      BY DEF Send, New, NoRequest
    <2>3. To(t, r, q)
      BY <1>2 DEF Logout
    <2> HIDE DEF q
    <2>4. ~AsksLogin(q)
      BY <2>2 DEF AsksLogin
    <2> QED BY <1>1, <2>1, <2>3, <2>4, RequestRotation
  <1>3. CASE store[t] = None
    <2>1. request' = request
      BY <1>3 DEF Logout
    <2> QED BY <1>1, <2>1, QuietRotation
  <1> QED BY <1>2, <1>3

LEMMA ServeFailsRotation ==
  ASSUME TypeOK, Alone, Counted, NEW t \in Tab, NEW r \in Req, ServeFails(t, r)
  PROVE  Alone' /\ Counted'
  <1> DEFINE o == Outcome(request[t][r], "failed")
  <1>1. request[t][r] \in Request /\ o \in Request
    BY OutcomeType DEF TypeOK
  <1>2. AsksLogin(o) => AsksLogin(request[t][r])
    BY <1>1, OutcomeFacts DEF AsksLogin, ServeFails
  <1>3. To(t, r, o) /\ UNCHANGED <<token, logins, handler>>
    BY DEF ServeFails, Fault, Event
  <1> HIDE DEF o
  <1> QED BY <1>1, <1>2, <1>3, RequestRotation

LEMMA JoinQueueRotation ==
  ASSUME TypeOK, Alone, Counted, NEW t \in Tab, NEW r \in Req, JoinQueue(t, r)
  PROVE  Alone' /\ Counted'
  <1> DEFINE q == [request[t][r] EXCEPT !.pc = "waiting"]
  <1>1. request[t][r] \in Request /\ q \in Request
    BY RequestRecord DEF TypeOK
  <1>2. AsksLogin(q) => AsksLogin(request[t][r])
    BY <1>1 DEF AsksLogin, JoinQueue, Request
  <1>3. To(t, r, q) /\ UNCHANGED <<token, logins, handler>>
    BY DEF JoinQueue
  <1> HIDE DEF q
  <1> QED BY <1>1, <1>2, <1>3, RequestRotation

\* A request is over.
LEMMA OverRotation ==
  ASSUME TypeOK, Alone, Counted, NEW t \in Tab, NEW r \in Req,
         To(t, r, NoRequest), UNCHANGED <<token, logins, handler>>
  PROVE  Alone' /\ Counted'
  <1>1. NoRequest \in Request /\ ~AsksLogin(NoRequest)
    BY NoRequestType DEF AsksLogin
  <1> QED BY <1>1, RequestRotation

LEMMA SettledRotation ==
  ASSUME TypeOK, Alone, Counted, NEW t \in Tab, NEW r \in Req,
         CallFailed(t, r) \/ EnterApp(t, r) \/ LoggedOut(t, r)
  PROVE  Alone' /\ Counted'
  BY OverRotation DEF CallFailed, EnterApp, LoggedOut

LEMMA BootFailedRotation ==
  ASSUME TypeOK, Alone, Counted, NEW t \in Tab, NEW r \in Req, BootFailed(t, r)
  PROVE  Alone' /\ Counted'
  <1> DEFINE q(p) == IF p = r THEN NoRequest ELSE [request[t][p] EXCEPT !.op = "call"]
  <1>1. /\ request' = [request EXCEPT ![t] = [p \in Req |-> q(p)]]
        /\ UNCHANGED <<token, logins, handler>>
    BY DEF BootFailed
  <1>2. ASSUME NEW p \in Req PROVE ~AsksLogin(q(p))
    <2>1. CASE p = r
      BY <2>1, NoRequestType DEF AsksLogin
    <2>2. CASE p # r
      <3>1. request[t][p] \in Request
        BY RequestTyped
      <3>2. q(p).op = "call"
        BY <2>2, <3>1 DEF Request
      <3> QED BY <3>2 DEF AsksLogin
    <2> QED BY <2>1, <2>2
  <1> HIDE DEF q
  <1>3. ASSUME NEW u \in Tab, NEW p \in Req, AsksLogin(request'[u][p])
        PROVE  AsksLogin(request[u][p])
    <2>1. u = t => request'[u][p] = q(p)
      BY <1>1 DEF TypeOK
    <2>2. u # t => request'[u] = request[u]
      BY <1>1 DEF TypeOK
    <2> QED BY <1>2, <1>3, <2>1, <2>2
  <1> QED BY <1>1, <1>3, QuietRotation

\* A page is loaded, or has been.
LEMMA PageRotation ==
  ASSUME TypeOK, Alone, Counted, NEW t \in Tab, Load(t) \/ Booted(t)
  PROVE  Alone' /\ Counted'
  <1> DEFINE boot == Send(New("boot", None), storage)
  <1>1. ~AsksLogin(boot) /\ ~AsksLogin(NoRequest)
    BY DEF AsksLogin, Send, New, NoRequest
  <1>2. /\ UNCHANGED <<token, logins, handler>>
        /\ \/ request' = request
           \/ \E q \in {boot, NoRequest} : request' = [request EXCEPT ![t] = [r \in Req |-> q]]
    BY DEF Load, Booted
  <1> HIDE DEF boot
  <1>3. \A u \in Tab, p \in Req : request'[u][p] \in {request[u][p], boot, NoRequest}
    BY <1>2 DEF TypeOK
  <1>4. \A u \in Tab, p \in Req : AsksLogin(request'[u][p]) => AsksLogin(request[u][p])
    BY <1>1, <1>3
  <1> QED BY <1>2, <1>4, QuietRotation

LEMMA ReloadRotation ==
  ASSUME TypeOK, Alone, Counted, NEW t \in Tab, Reload(t), excuse' # "race"
  PROVE  Alone' /\ Counted'
  <1>1. Exchanging(t) = {}
    BY DEF Reload, Raced
  <1>2. Unload(t) /\ UNCHANGED <<token, logins>>
    BY DEF Reload, Event
  <1> QED BY <1>1, <1>2, UnloadRotation

LEMMA NoRefreshTokenRotation ==
  ASSUME Structure, Alone, Counted, NEW t \in Tab, NEW r \in Req, NoRefreshToken(t, r)
  PROVE  Alone' /\ Counted'
  <1>1. Exchanging(t) = {}
    BY DEF NoRefreshToken, Structure, RefreshInv, RefreshAt, Exchanging
  <1>2. Unload(t) /\ UNCHANGED <<token, logins>> /\ TypeOK
    BY DEF NoRefreshToken, Structure
  <1> QED BY <1>1, <1>2, UnloadRotation

LEMMA RefusedRotation ==
  ASSUME Structure, Alone, Counted, NEW t \in Tab, NEW h \in Handler, Refused(t, h)
  PROVE  Alone' /\ Counted'
  <1>1. \A g \in Exchanging(t) : g = h
    BY DEF Refused, Structure, RefreshInv, RefreshAt, Exchanging
  <1>2. Unload(t) /\ UNCHANGED <<token, logins>> /\ TypeOK /\ handler[h].pc = "refused"
    BY DEF Refused, Structure
  <1> QED BY <1>1, <1>2, UnloadRotation

LEMMA GrantedRotation ==
  ASSUME TypeOK, Alone, Counted, NEW t \in Tab, NEW h \in Handler, Granted(t, h)
  PROVE  Alone' /\ Counted'
  <1> DEFINE new == handler[h].new
             q(r) == IF r \in Queued(t) THEN Send(request[t][r], new) ELSE request[t][r]
  <1>1. /\ request' = [request EXCEPT ![t] = [r \in Req |-> q(r)]]
        /\ handler' = [handler EXCEPT ![h] = NoExchange]
        /\ UNCHANGED <<token, logins>>
    BY DEF Granted, Resent
  <1>2. ASSUME NEW r \in Req, AsksLogin(q(r)) PROVE AsksLogin(request[t][r])
    <2>1. request[t][r] \in Request
      BY RequestTyped
    <2>2. CASE r \in Queued(t)
      <3>1. q(r).op = request[t][r].op /\ request[t][r].pc # "idle"
        BY <2>1, <2>2 DEF Queued, Send, Request
      <3> QED BY <1>2, <3>1 DEF AsksLogin
    <2>3. CASE r \notin Queued(t)
      BY <1>2, <2>3
    <2> QED BY <2>2, <2>3
  <1> HIDE DEF new, q
  <1>3. ASSUME NEW u \in Tab, NEW p \in Req, AsksLogin(request'[u][p])
        PROVE  AsksLogin(request[u][p])
    <2>1. u = t => request'[u][p] = q(p)
      BY <1>1 DEF TypeOK
    <2>2. u # t => request'[u] = request[u]
      BY <1>1 DEF TypeOK
    <2> QED BY <1>2, <1>3, <2>1, <2>2
  <1>4. \A g \in Handler : handler'[g] = handler[g] \/ handler'[g].pc = "idle"
    BY <1>1, ExchangeType, OneHandler DEF NoExchange
  <1> QED BY <1>1, <1>3, <1>4, QuietRotation

\* A login is asked for ...
LEMMA LoginRotation ==
  ASSUME TypeOK, Alone, Counted, NEW t \in Tab, NEW r \in Req, Login(t, r)
  PROVE  Alone' /\ Counted'
  <1> DEFINE q == Send(New("login", None), storage)
  <1>1. q \in Request
    BY NoRequestType, RequestRecord, TimeFacts DEF TypeOK
  <1>2. To(t, r, q) /\ UNCHANGED <<token, handler>> /\ logins' = logins + 1
    BY DEF Login
  <1> HIDE DEF q
  <1>3. \A u \in Tab, p \in Req : u # t \/ p # r => request'[u][p] = request[u][p]
    BY <1>1, <1>2, OneRequest
  <1>4. Asked' \subseteq Asked \cup {<<t, r>>}
    BY <1>3 DEF Asked
  <1>5. Live' \subseteq Live /\ Owed' \subseteq Owed
    BY <1>2 DEF Live, Owed
  <1>6. Alone'
    BY <1>2 DEF Alone, Active
  <1> QED BY <1>2, <1>4, <1>5, <1>6, CountedAsked

\* ... and answered.
LEMMA ServeLoginRotation ==
  ASSUME TypeOK, Alone, Counted, NEW t \in Tab, NEW r \in Req, ServeLogin(t, r)
  PROVE  Alone' /\ Counted'
  <1>1. UNCHANGED <<logins, handler>> /\ request[t][r].pc = "sent" /\ request[t][r].op = "login"
    BY DEF ServeLogin
  <1>2. CASE Fresh
    <2> DEFINE q == Send(New("current", now), storage)
    <2>1. q \in Request /\ now \in Time
      BY NoRequestType, RequestRecord, TimeFacts DEF TypeOK
    <2>2. q.op = "current"
      BY DEF Send, New, NoRequest
    <2>3. To(t, r, q) /\ token' = [token EXCEPT ![now] = "live"]
      BY <1>2 DEF ServeLogin
    <2> HIDE DEF q
    <2>4. /\ request'[t][r] = q
          /\ \A u \in Tab, p \in Req : u # t \/ p # r => request'[u][p] = request[u][p]
      BY <2>1, <2>3, OneRequest
    <2>5. <<t, r>> \in Asked
      BY <1>1 DEF Asked, AsksLogin
    <2>6. Asked' \subseteq Asked \ {<<t, r>>}
      BY <2>2, <2>4 DEF Asked, AsksLogin
    <2>7. Live' \subseteq Live \cup {now}
      BY <2>1, <2>3, LiveMore
    <2>8. \A s : token[s] = "live" => token'[s] = "live"
      BY <2>1, <2>3 DEF TypeOK
    <2>9. Owed' \subseteq Owed
      BY <1>1, <2>8 DEF Owed
    <2>10. Alone'
      BY <1>1 DEF Alone, Active
    <2> QED BY <1>1, <2>5, <2>6, <2>7, <2>9, <2>10, CountedAnswered
  <1>3. CASE ~Fresh
    BY <1>1, <1>3, OverRotation DEF ServeLogin
  <1> QED BY <1>2, <1>3

LEMMA ServeRotation ==
  ASSUME Structure, Alone, Counted, NEW t \in Tab, NEW r \in Req, Serve(t, r)
  PROVE  Alone' /\ Counted'
  <1> DEFINE own == request[t][r].own
             o == IF Allowed(request[t][r]) THEN Outcome(request[t][r], "ok")
                  ELSE [request[t][r] EXCEPT !.pc = "denied", !.with = None]
  <1>1. /\ request[t][r].pc = "sent" /\ To(t, r, o)
        /\ \/ token' = token
           \/ /\ request[t][r].op = "logout" /\ token[own] = "live"
              /\ token' = [token EXCEPT ![own] = "revoked"]
        /\ UNCHANGED <<handler, logins>>
    BY DEF Serve
  <1>2. TypeOK /\ request[t][r] \in Request
    BY DEF Structure, TypeOK
  <1>3. o \in Request
    BY <1>2, OutcomeType, RequestRecord
  <1>4. AsksLogin(o) => AsksLogin(request[t][r])
    <2>1. CASE Allowed(request[t][r])
      BY <1>1, <1>2, <2>1, OutcomeFacts DEF AsksLogin
    <2>2. CASE ~Allowed(request[t][r])
      BY <1>1, <1>2, <2>2 DEF AsksLogin, Request
    <2> QED BY <2>1, <2>2
  <1>5. own \in Time \/ token' = token
    BY <1>1 DEF Structure, OwnInv
  <1> HIDE DEF o, own
  <1>6. CASE token' = token
    BY <1>1, <1>2, <1>3, <1>4, <1>6, RequestRotation
  <1>7. CASE own \in Time /\ token[own] = "live" /\ token' = [token EXCEPT ![own] = "revoked"]
    <2>1. \A u \in Tab, p \in Req : AsksLogin(request'[u][p]) => AsksLogin(request[u][p])
      BY <1>1, <1>2, <1>3, <1>4, OneRequest
    <2>2. own \in Live
      BY <1>7 DEF Live
    <2> QED BY <1>1, <1>7, <2>1, <2>2, RevokedRotation
  <1> QED BY <1>1, <1>5, <1>6, <1>7

-----------------------------------------------------------------------------
(* ... and by the steps of an exchange.                                     *)

\* A reply ends the exchange, or leaves it with its tab and its token.
LEMMA ReplyRotation ==
  ASSUME TypeOK, NEW h \in Handler, NEW pc \in {"granted", "refused"},
         NEW s \in Stored, Reply(h, pc, s)
  PROVE  /\ \A g \in Handler : g # h => handler'[g] = handler[g]
         /\ \/ handler'[h].pc = "idle"
            \/ /\ handler'[h].by = handler[h].by /\ handler'[h].old = handler[h].old
               /\ handler'[h].pc = pc
         /\ UNCHANGED <<request, logins>>
  <1>1. TypeOK /\ handler[h] \in Exchange /\ NoExchange.pc = "idle"
    BY DEF TypeOK, NoExchange
  <1>2. /\ handler' \in [Handler -> Exchange]
        /\ handler[h].by = NoTab => handler'[h] = NoExchange
        /\ handler[h].by # NoTab => handler'[h] = [handler[h] EXCEPT !.pc = pc, !.new = s]
        /\ \A g \in Handler : g # h => handler'[g] = handler[g]
        /\ UNCHANGED <<now, storage, page, store, isRefreshing, signedIn, request, logins, events>>
    BY <1>1, ReplyStep
  <1> QED BY <1>1, <1>2 DEF Exchange

LEMMA StepRotation ==
  ASSUME TypeOK, NEW h \in Handler, NEW pc \in {"revoke", "create"},
         Step(h, [handler[h] EXCEPT !.pc = pc])
  PROVE  /\ \A g \in Handler : g # h => handler'[g] = handler[g]
         /\ handler'[h].by = handler[h].by /\ handler'[h].old = handler[h].old
         /\ handler'[h].pc = pc
         /\ UNCHANGED <<request, logins>>
  <1> DEFINE e == [handler[h] EXCEPT !.pc = pc]
  <1>1. handler[h] \in Exchange
    BY DEF TypeOK
  <1>2. e \in Exchange /\ e.pc = pc /\ e.by = handler[h].by /\ e.old = handler[h].old
    <2>1. e \in Exchange
      BY <1>1, ExchangeType
    <2> QED BY <1>1, <2>1 DEF Exchange
  <1>3. handler' = [handler EXCEPT ![h] = e] /\ UNCHANGED <<request, logins>>
    BY DEF Step
  <1> HIDE DEF e
  <1> QED BY <1>2, <1>3, OneHandler

LEMMA FindRotation ==
  ASSUME Structure, Alone, Counted, NEW h \in Handler, Find(h)
  PROVE  Alone' /\ Counted'
  <1> DEFINE s == handler[h].old
  <1>1. TypeOK /\ handler[h].pc = "find" /\ Active(h) /\ s \in Time /\ None \in Stored
    BY TimeFacts DEF Structure, HandlerInv, Active, Find
  <1>2. \/ Reply(h, "refused", None) /\ token' = token
        \/ /\ token[s] = "live" /\ token' = [token EXCEPT ![s] = "revoked"]
           /\ Reply(h, "refused", None)
        \/ Step(h, [handler[h] EXCEPT !.pc = "revoke"]) /\ token[s] = "live" /\ token' = token
    BY DEF Find
  <1>3. CASE Reply(h, "refused", None) /\ token' = token
    BY <1>1, <1>3, ReplyRotation, QuietRotation
  <1>4. CASE /\ token[s] = "live" /\ token' = [token EXCEPT ![s] = "revoked"]
             /\ Reply(h, "refused", None)
    <2>1. s \in Live
      BY <1>1, <1>4 DEF Live
    <2> HIDE DEF s
    <2>2. /\ \A g \in Handler : g # h => handler'[g] = handler[g]
          /\ \/ handler'[h].pc = "idle"
             \/ /\ handler'[h].by = handler[h].by /\ handler'[h].old = handler[h].old
                /\ handler'[h].pc = "refused"
          /\ UNCHANGED <<request, logins>>
      BY <1>1, <1>4, ReplyRotation
    <2> QED BY <1>1, <1>4, <2>1, <2>2, RevokedRotation
  <1>5. CASE Step(h, [handler[h] EXCEPT !.pc = "revoke"]) /\ token[s] = "live" /\ token' = token
    BY <1>1, <1>5, StepRotation, QuietRotation
  <1> QED BY <1>2, <1>3, <1>4, <1>5

\* The exchanged token is revoked: if it was live, the exchange owes another from now on.
LEMMA RevokeRotation ==
  ASSUME Structure, Alone, Counted, NEW h \in Handler, Revoke(h)
  PROVE  Alone' /\ Counted'
  <1> DEFINE s == handler[h].old
  <1>1. TypeOK /\ handler[h].pc = "revoke" /\ Active(h) /\ s \in Time
    BY DEF Structure, HandlerInv, Active, Revoke
  <1>2. token' = [token EXCEPT ![s] = "revoked"]
    BY DEF Revoke
  <1>3. /\ \A g \in Handler : g # h => handler'[g] = handler[g]
        /\ handler'[h].by = handler[h].by /\ handler'[h].old = s
        /\ handler'[h].pc = "create"
        /\ UNCHANGED <<request, logins>>
    BY <1>1, StepRotation DEF Revoke
  <1>4. CASE token[s] = "live"
    <2>1. s \in Live
      BY <1>1, <1>4 DEF Live
    <2>2. \A g \in Handler :
            \/ handler'[g] = handler[g]
            \/ handler'[g].pc = "idle"
            \/ /\ Active(g) /\ handler'[g].by = handler[g].by /\ handler'[g].old = handler[g].old
               /\ handler'[g].pc \in {"create", "revoke"} => handler[g].old = s
      BY <1>1, <1>3
    <2> HIDE DEF s
    <2> QED BY <1>2, <1>3, <2>1, <2>2, RevokedRotation
  <1>5. CASE token[s] # "live"
    <2>1. h \in Owed
      BY <1>1, <1>5 DEF Owed
    <2>2. /\ Live' \subseteq Live
          /\ \A u \in Time : token'[u] # token[u] => u = s
      BY <1>1, <1>2, LiveLess
    <2>3. ASSUME NEW g \in Handler, g \in Owed', g # h PROVE g \in Owed
      <3>1. handler'[g] = handler[g]
        BY <1>3, <2>3
      <3>2. CASE handler[g].pc = "create"
        BY <3>2 DEF Owed
      <3>3. CASE handler[g].pc = "revoke"
        <4>1. handler[g].old \in Time /\ token'[handler[g].old] # "live"
          BY <2>3, <3>1, <3>3 DEF Structure, HandlerInv, Active, Owed
        <4>2. token[handler[g].old] # "live"
          BY <1>5, <2>2, <4>1
        <4> QED BY <3>3, <4>2 DEF Owed
      <3> QED BY <2>3, <3>1, <3>2, <3>3 DEF Owed
    <2>4. Owed' \subseteq Owed
      BY <2>1, <2>3 DEF Owed
    <2>5. Asked' \subseteq Asked
      BY <1>3 DEF Asked
    <2>6. \A g \in Handler : handler'[g].pc # "idle" =>
            Active(g) /\ handler'[g].by = handler[g].by /\ handler'[g].old = handler[g].old
      BY <1>1, <1>3 DEF Active
    <2>7. Alone'
      BY <2>6 DEF Alone, Active
    <2> QED BY <1>1, <1>3, <2>2, <2>4, <2>5, <2>7, CountedStays
  <1> QED BY <1>4, <1>5

\* The token that was owed is signed in.
LEMMA CreateRotation ==
  ASSUME TypeOK, Alone, Counted, NEW h \in Handler, Create(h)
  PROVE  Alone' /\ Counted'
  <1>1. handler[h].pc = "create" /\ Active(h) /\ now \in Time /\ now \in Stored /\ None \in Stored
    BY TimeFacts DEF Active, Create, TypeOK
  <1>2. CASE Fresh
    <2>1. token' = [token EXCEPT ![now] = "live"] /\ Reply(h, "granted", now)
      BY <1>2 DEF Create
    <2>2. /\ \A g \in Handler : g # h => handler'[g] = handler[g]
          /\ \/ handler'[h].pc = "idle"
             \/ /\ handler'[h].by = handler[h].by /\ handler'[h].old = handler[h].old
                /\ handler'[h].pc = "granted"
          /\ UNCHANGED <<request, logins>>
      BY <1>1, <2>1, ReplyRotation
    <2>3. h \in Owed
      BY <1>1 DEF Owed
    <2>4. \A s : token[s] = "live" => token'[s] = "live"
      BY <1>1, <2>1 DEF TypeOK
    <2>5. Owed' \subseteq Owed \ {h}
      BY <2>2, <2>4 DEF Owed
    <2>6. Live' \subseteq Live \cup {now}
      BY <1>1, <2>1, LiveMore
    <2>7. Asked' \subseteq Asked
      BY <2>2 DEF Asked
    <2>8. \A g \in Handler : handler'[g].pc # "idle" =>
            Active(g) /\ handler'[g].by = handler[g].by /\ handler'[g].old = handler[g].old
      BY <1>1, <2>2 DEF Active
    <2>9. Alone'
      BY <2>8 DEF Alone, Active
    <2> QED BY <2>2, <2>3, <2>5, <2>6, <2>7, <2>9, CountedCreated
  <1>3. CASE ~Fresh
    <2>1. Reply(h, "refused", None) /\ UNCHANGED token
      BY <1>3 DEF Create
    <2> QED BY <1>1, <2>1, ReplyRotation, QuietRotation
  <1> QED BY <1>2, <1>3

LEMMA ExchangeFailsRotation ==
  ASSUME TypeOK, Alone, Counted, NEW h \in Handler, ExchangeFails(h)
  PROVE  Alone' /\ Counted'
  <1> DEFINE e == IF handler[h].by = NoTab THEN NoExchange
                  ELSE [handler[h] EXCEPT !.pc = "refused", !.new = None]
  <1>1. handler[h] \in Exchange /\ Active(h) /\ None \in Stored
    BY TimeFacts DEF TypeOK, ExchangeFails, Active
  <1>2. e \in Exchange
    BY <1>1, ExchangeType
  <1>3. \/ e.pc = "idle"
        \/ e.by = handler[h].by /\ e.pc = "refused" /\ e.old = handler[h].old
    BY <1>1 DEF Exchange, NoExchange
  <1>4. /\ handler' = [handler EXCEPT ![h] = e]
        /\ UNCHANGED <<token, request, logins>>
    BY DEF ExchangeFails, Fault, Event, TypeOK
  <1> HIDE DEF e
  <1>5. handler'[h] = e /\ \A g \in Handler : g # h => handler'[g] = handler[g]
    BY <1>2, <1>4, OneHandler
  <1> QED BY <1>1, <1>3, <1>4, <1>5, QuietRotation

\* A new exchange presents a token that no other presents, unless it is a race.
LEMMA StartExchangeRotation ==
  ASSUME Structure, Alone, Counted, NEW t \in Tab, NEW r \in Req, StartExchange(t, r),
         excuse' # "race"
  PROVE  Alone' /\ Counted'
  <1> DEFINE q == [request[t][r] EXCEPT !.pc = "refreshing", !.retry = TRUE]
             e == [pc |-> "find", by |-> t, old |-> storage, new |-> None]
  <1>1. ~isRefreshing[t] /\ request[t][r].pc = "denied" /\ To(t, r, q) /\ UNCHANGED <<token, logins>>
    BY DEF StartExchange
  <1>2. TypeOK /\ request[t][r] \in Request /\ storage \in Stored
    BY DEF Structure, TypeOK
  <1>3. q \in Request /\ (AsksLogin(q) => AsksLogin(request[t][r]))
    <2>1. q \in Request
      BY <1>2, RequestRecord
    <2> QED BY <1>1, <1>2, <2>1 DEF Request, AsksLogin
  <1>4. PICK h \in Handler :
          /\ handler' = [handler EXCEPT ![h] = e]
          /\ Raced(\E g \in Handler : handler[g].old = storage /\ handler[g].by \notin {t, NoTab})
    BY DEF StartExchange
  <1>5. \A g \in Handler : handler[g].old = storage => handler[g].by \in {t, NoTab}
    BY <1>4 DEF Raced
  <1>6. \A g \in Handler : handler[g].by # t
    BY <1>1 DEF Structure, RefreshInv, RefreshAt
  <1>7. \A g \in Handler : Active(g) => handler[g].old # storage
    BY <1>5, <1>6 DEF Alone
  <1>8. e \in Exchange /\ e.pc = "find" /\ e.by # NoTab /\ e.old = storage
    BY <1>2, ExchangeType, ConstantAssumption
  <1> HIDE DEF q, e
  <1>9. handler'[h] = e /\ \A g \in Handler : g # h => handler'[g] = handler[g]
    BY <1>2, <1>4, <1>8, OneHandler
  <1>10. Alone'
    BY <1>7, <1>8, <1>9 DEF Alone, Active
  <1>11. Owed' \subseteq Owed /\ Live' \subseteq Live
    BY <1>1, <1>8, <1>9 DEF Owed, Live
  <1>12. \A u \in Tab, p \in Req : AsksLogin(request'[u][p]) => AsksLogin(request[u][p])
    BY <1>1, <1>2, <1>3, OneRequest
  <1> QED BY <1>1, <1>2, <1>10, <1>11, <1>12, AskedFewer, CountedStays

-----------------------------------------------------------------------------
(* Every step keeps it, until a token is presented twice.                   *)

\* A race is not forgotten.
LEMMA RaceStays ==
  ASSUME [Next]_vars, excuse' # "race"
  PROVE  excuse # "race"
  <1>1. Excused => excuse # "race"
    BY DEF Excused
  <1>2. ASSUME NEW it, Raced(it) PROVE excuse # "race"
    BY <1>2 DEF Raced
  <1>3. ASSUME NEW q, Noted(q) PROVE excuse # "race"
    BY <1>1, <1>3 DEF Noted
  <1>4. CASE Tick
    BY <1>4 DEF Tick
  <1>5. CASE UserStep
    BY <1>1, <1>2, <1>5 DEF UserStep, Call, Login, Logout, Reload
  <1>6. ASSUME NEW t \in Tab, NEW r \in Req, Answer(t, r) PROVE excuse # "race"
    <2>1. CASE Serve(t, r) \/ ServeLogin(t, r) \/ JoinQueue(t, r) \/ NoRefreshToken(t, r)
      BY <2>1 DEF Serve, ServeLogin, JoinQueue, NoRefreshToken
    <2>2. CASE StartExchange(t, r)
      <3>1. PICK it \in BOOLEAN : Raced(it)
        BY <2>2 DEF StartExchange
      <3> QED BY <1>2, <3>1
    <2>3. CASE CallFailed(t, r) \/ EnterApp(t, r) \/ LoggedOut(t, r) \/ BootFailed(t, r)
      BY <1>3, <2>3 DEF CallFailed, EnterApp, LoggedOut, BootFailed
    <2> QED BY <1>6, <2>1, <2>2, <2>3 DEF Answer
  <1>7. ASSUME NEW t \in Tab, TabStep(t) PROVE excuse # "race"
    BY <1>7 DEF TabStep, Load, Booted, Granted, Refused
  <1>8. ASSUME NEW h \in Handler, HandlerStep(h) PROVE excuse # "race"
    BY <1>1, <1>8 DEF HandlerStep, Find, Revoke, Create
  <1>9. CASE System
    BY <1>6, <1>7, <1>8, <1>9 DEF System
  <1>10. CASE Failure
    BY <1>1, <1>10 DEF Failure, ServeFails, ExchangeFails, Fault
  <1>11. CASE UNCHANGED vars
    BY <1>11 DEF vars
  <1> QED BY <1>4, <1>5, <1>9, <1>10, <1>11 DEF Next

LEMMA UserRotation ==
  ASSUME TypeOK, Alone, Counted, excuse' # "race", UserStep
  PROVE  Alone' /\ Counted'
  <1>1. PICK t \in Tab : Reload(t) \/ \E r \in Req : Call(t, r) \/ Login(t, r) \/ Logout(t, r)
    BY DEF UserStep
  <1>2. CASE Reload(t)
    BY <1>2, ReloadRotation
  <1>3. CASE \E r \in Req : Call(t, r) \/ Login(t, r) \/ Logout(t, r)
    BY <1>3, CallRotation, LoginRotation, LogoutRotation
  <1> QED BY <1>1, <1>2, <1>3

LEMMA AnswerRotation ==
  ASSUME Structure, Alone, Counted, excuse' # "race", NEW t \in Tab, NEW r \in Req, Answer(t, r)
  PROVE  Alone' /\ Counted'
  <1>1. TypeOK
    BY DEF Structure
  <1> QED BY <1>1, ServeRotation, ServeLoginRotation, JoinQueueRotation, NoRefreshTokenRotation,
             StartExchangeRotation, SettledRotation, BootFailedRotation DEF Answer

LEMMA SystemRotation ==
  ASSUME Structure, Alone, Counted, excuse' # "race", System
  PROVE  Alone' /\ Counted'
  <1>1. TypeOK
    BY DEF Structure
  <1>2. ASSUME NEW t \in Tab, TabStep(t) PROVE Alone' /\ Counted'
    BY <1>1, <1>2, PageRotation, GrantedRotation, RefusedRotation DEF TabStep
  <1>3. ASSUME NEW h \in Handler, HandlerStep(h) PROVE Alone' /\ Counted'
    BY <1>1, <1>3, FindRotation, RevokeRotation, CreateRotation DEF HandlerStep
  <1> QED BY <1>2, <1>3, AnswerRotation DEF System

LEMMA RotationStep ==
  ASSUME Structure, Alone, Counted, excuse' # "race", [Next]_vars
  PROVE  Alone' /\ Counted'
  <1>1. TypeOK
    BY DEF Structure
  <1>2. CASE Tick \/ UNCHANGED vars
    <2>1. UNCHANGED <<token, handler, request, logins>>
      BY <1>2 DEF Tick, vars
    <2> QED BY <1>1, <2>1, QuietRotation
  <1>3. CASE UserStep
    BY <1>1, <1>3, UserRotation
  <1>4. CASE System
    BY <1>4, SystemRotation
  <1>5. CASE Failure
    BY <1>1, <1>5, ServeFailsRotation, ExchangeFailsRotation DEF Failure
  <1> QED BY <1>2, <1>3, <1>4, <1>5 DEF Next

LEMMA RotationInit ==
  ASSUME Init
  PROVE  Alone /\ Counted
  <1>1. \A t \in Tab, r \in Req : request[t][r].pc = "idle"
    BY DEF Init, NoRequest
  <1>2. \A h \in Handler : handler[h].pc = "idle"
    BY DEF Init, NoExchange
  <1>3. Live = {} /\ Owed = {} /\ Asked = {}
    <2>1. Live = {}
      BY DEF Init, Live
    <2>2. Owed = {}
      BY <1>2 DEF Owed
    <2>3. Asked = {}
      BY <1>1 DEF Asked, AsksLogin
    <2> QED BY <2>1, <2>2, <2>3
  <1>4. IsFiniteSet({}) /\ Cardinality({}) = 0
    BY FS_EmptySet
  <1>5. Counted
    BY <1>3, <1>4 DEF Init, Counted
  <1>6. Alone
    BY <1>2 DEF Alone, Active
  <1> QED BY <1>5, <1>6

\* The inductive invariant of the rotation, as long as no token is presented twice: every
\* live token, and every token an exchange under way will still sign in, is paid for by a
\* login, for any number of tabs, requests and exchanges.
THEOREM RotationInvHolds == Spec => []RotationInv
  <1>1. Init => RotationInv
    BY RotationInit DEF RotationInv
  <1>2. RotationInv /\ Structure /\ [Next]_vars => RotationInv'
    BY RaceStays, RotationStep DEF RotationInv
  <1> QED BY <1>1, <1>2, StructureInvariant, PTL DEF Spec

\* OneTokenPerLogin: exchanging refresh tokens (refreshTokens in auth.service.ts) never
\* leaves more of them live than there were logins, as long as no two exchanges overlap.
THEOREM RotationCorrect == Spec => []OneTokenPerLogin
  <1>1. Structure /\ RotationInv => OneTokenPerLogin
    <2> SUFFICES ASSUME Structure, RotationInv, excuse # "race"
                 PROVE  Cardinality(Live) <= logins
      BY DEF OneTokenPerLogin
    <2>1. /\ IsFiniteSet(Owed) /\ IsFiniteSet(Asked) /\ logins \in Nat
          /\ Cardinality(Live) + Cardinality(Owed) + Cardinality(Asked) <= logins
      BY DEF RotationInv, Counted, Structure, TypeOK
    <2>2. Cardinality(Live) \in Nat /\ Cardinality(Owed) \in Nat /\ Cardinality(Asked) \in Nat
      BY <2>1, LiveFinite, FS_CardinalityType
    <2> QED BY <2>1, <2>2
  <1> QED BY <1>1, StructureInvariant, RotationInvHolds, PTL
=============================================================================
