--------------------------- MODULE AuthSessionProps ---------------------------
(***************************************************************************)
(* What signing in once promises the staff.                                 *)
(***************************************************************************)
EXTENDS AuthSession

\* A request that waits in the queue of its tab's interceptor has somebody to release it:
\* one exchange that the tab itself started, whose answer has not been heard yet.
NoStrandedWaiter ==
  \A t \in Tab : Queued(t) # {} =>
    /\ \E h \in Handler : Exchanging(t) = {h}
    /\ \E r \in Req : request[t][r].pc = "refreshing"

\* A session that was started is kept until it is given up or lost to a cause the design
\* does not cover: an expiry, a failed call, a second tab or a reload in the middle of an
\* exchange, a second exchange in the second of the first.  Parallel requests of one tab,
\* late 401s, logins in another tab and new access tokens alone never cost it.
StaysSignedIn == signedIn /\ excuse = "none" => storage # None

Live == {s \in Time : token[s] = "live"}

\* Refreshing rotates: there are never more live refresh tokens than logins, as long as no
\* two exchanges of one token overlap.
OneTokenPerLogin ==
  excuse # "race" => Cardinality(Live) <= logins

-----------------------------------------------------------------------------
(* The inductive invariant behind the first two.                            *)

Active(h) == handler[h].pc # "idle"

\* an exchange under way presents a token, and its answer is for a tab
HandlerInv ==
  \A h \in Handler :
    /\ Active(h) => handler[h].old \in Time
    /\ ~Active(h) => handler[h].by = NoTab
    /\ handler[h].pc \in {"granted", "refused"} => handler[h].by # NoTab
    /\ handler[h].pc = "granted" => handler[h].new \in Time

\* the flag, the request that set it and the exchange it started come and go together
RefreshAt(t) ==
  /\ page[t] = "loading" => \A r \in Req : request[t][r].pc = "idle"
  /\ isRefreshing[t] <=> \E r \in Req : request[t][r].pc = "refreshing"
  /\ isRefreshing[t] <=> \E h \in Handler : handler[h].by = t
  /\ \A g, h \in Handler : handler[g].by = t /\ handler[h].by = t => g = h
  /\ \A r \in Req : request[t][r].pc = "waiting" => isRefreshing[t]

RefreshInv == \A t \in Tab : RefreshAt(t)

\* the login whose tokens this request will store
Pending(q) == q.pc # "idle" /\ q.op = "current"

\* an exchange under way presents this token
Presented(s) == \E h \in Handler : Active(h) /\ handler[h].old = s

Untouched(s) == s \in Time /\ token[s] = "live" /\ ~Presented(s)

KeptAt(h) ==
  /\ Active(h) => handler[h].by # NoTab /\ token[handler[h].old] # "none"
  /\ handler[h].pc # "refused"
  /\ handler[h].pc \in {"find", "revoke"} => token[handler[h].old] = "live"
  /\ handler[h].pc = "granted" => Untouched(handler[h].new) /\ handler[h].new # storage

Apart(g, h) ==
  /\ Active(g) /\ Active(h) => handler[g].old # handler[h].old
  /\ handler[g].pc = "granted" /\ handler[h].pc = "granted" => handler[g].new # handler[h].new

\* every token that somebody still counts on is live, or is being exchanged by one tab
KeptInv ==
  /\ signedIn => storage # None
  /\ storage # None => Untouched(storage) \/ Presented(storage)
  /\ \A h \in Handler : KeptAt(h)
  /\ \A g, h \in Handler : g # h => Apart(g, h)

LoginInv ==
  \A t \in Tab, r \in Req : Pending(request[t][r]) =>
    LET own == request[t][r].own IN
    /\ Untouched(own)
    /\ own # storage
    /\ \A h \in Handler : handler[h].pc = "granted" => handler[h].new # own
    /\ \A u \in Tab, q \in Req : Pending(request[u][q]) /\ request[u][q].own = own => u = t /\ q = r

UnexcusedInv ==
  \A t \in Tab, r \in Req : request[t][r].pc # "idle" =>
    request[t][r].op # "logout" /\ request[t][r].pc # "failed"

\* what a request carries that somebody will use
OwnInv ==
  \A t \in Tab, r \in Req :
    request[t][r].pc # "idle" /\ request[t][r].op \in {"current", "logout"} => request[t][r].own \in Time

SessionInv ==
  /\ TypeOK /\ HandlerInv /\ RefreshInv /\ OwnInv
  /\ excuse = "none" => KeptInv /\ LoginInv /\ UnexcusedInv

-----------------------------------------------------------------------------
(* The inductive invariant behind OneTokenPerLogin.                         *)

\* every exchange is heard by its tab, and no two present the same token
Alone ==
  /\ \A h \in Handler : Active(h) => handler[h].by # NoTab
  /\ \A g, h \in Handler : g # h /\ Active(g) /\ Active(h) => handler[g].old # handler[h].old

\* the exchanges that will sign in a token for one that is revoked already
Owed == {h \in Handler : \/ handler[h].pc = "create"
                        \/ (handler[h].pc = "revoke" /\ token[handler[h].old] # "live")}

AsksLogin(q) == q.pc # "idle" /\ q.op = "login"

\* the logins that are not answered yet
Asked == {p \in Tab \X Req : AsksLogin(request[p[1]][p[2]])}

\* every live token, every token owed and every login asked for was paid for by a login
Counted ==
  /\ IsFiniteSet(Owed) /\ IsFiniteSet(Asked)
  /\ Cardinality(Live) + Cardinality(Owed) + Cardinality(Asked) <= logins

RotationInv == excuse # "race" => Alone /\ Counted
=============================================================================
