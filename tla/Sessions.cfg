CONSTANTS
  t1 = t1  t2 = t2  t3 = t3  t4 = t4
  q1 = q1  q2 = q2
  e1 = e1  e2 = e2
  a1 = a1  a2 = a2
  Token = {t1, t2, t3}
  Req = {q1, q2}
  Email = {e1, e2}
  AcctID = {a1, a2}
  NilID = NilID
  Ref <- MCRef
  Data <- MCData
  AnonData = AnonData
  JsonNull = JsonNull
  Null = Null
  SessionType = session
  Type = {session, apikey}
  apikey = apikey
  Second = 1
  anonymousSessionDuration = 2
  idleAnonymousSessionDuration = 1
  shortSessionDuration = 1
  longSessionDuration = 2
  AllowRememberMe = FALSE
  MaxClock = 1
  InitAccounts <- OneAccount
  InitTokens <- ApiKey
SYMMETRY Symmetric
SPECIFICATION Spec
INVARIANTS
  TypeOK
  EndedIsGone
  DeletedStaysOut
  SessionIdentity
  SessionDataOwned
PROPERTY ImplementsStore
