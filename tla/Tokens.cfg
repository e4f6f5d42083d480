CONSTANTS
  t1 = t1  t2 = t2  t3 = t3
  c1 = c1  c2 = c2
  ty = ty  ref1 = ref1
  d1 = d1  dnull = dnull
  Token = {t1, t2, t3}
  Caller = {c1, c2}
  Type = {ty}
  Ref = {ref1}
  Data = {d1, dnull}
  JsonNull = dnull
  Null = Null
  Second = 2
  MaxClock = 2
  NewArgs <- MCNewArgs
  RotateArgs <- MCRotateArgs
SYMMETRY Symmetric
SPECIFICATION Spec
INVARIANTS
  TypeOK
  OneSingleUsePerRef
  SpentIsGone
  LineageUnique
  IdleBounded
PROPERTIES
  TokenIsFinal
  CleanupKeepsValid
