CONSTANTS
  staff = staff  other = other
  Admin = {w1}
  Editing = TRUE
  Req = {q1}
  Acct = {a1}
  GroupID = {i1, i2, i3}
  Name <- MCName
  AccessAnyone = any
  AccessAuthenticated = authenticated
  AccessVerified = verified
  GroupLists <- AllLists
  Policies <- MCPolicies
  Null = Null
SPECIFICATION Spec
INVARIANTS
  TypeOK
  AccessAsDocumented
PROPERTIES
  ReadsWhole
SYMMETRY Symmetric
