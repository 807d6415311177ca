SPECIFICATION Spec
CONSTANTS
  Tab = {t1, t2}
  Req = {r1, r2}
  Handler = {h1, h2}
  NoTab = NoTab
  AccessTTL = 1
  RefreshTTL = 2
  MaxTime = 2
  MaxLogins = 2
  MaxEvents = 1
INVARIANT TypeOK
INVARIANT NoStrandedWaiter
INVARIANT StaysSignedIn
INVARIANT OneTokenPerLogin
CHECK_DEADLOCK FALSE
