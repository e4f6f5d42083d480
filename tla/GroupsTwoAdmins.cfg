CONSTANTS
  staff = staff  other = other
  Admin = {w1, w2}
  Editing = FALSE
  Req = {}
  Acct = {a1}
  GroupID = {i1, i2}
  Name <- MCName
  AccessAnyone = any
  AccessAuthenticated = authenticated
  AccessVerified = verified
  GroupLists <- Lists
  Policies <- MCPolicies
  Null = Null
SPECIFICATION Spec
PROPERTIES
  SetMembershipExact
SYMMETRY Symmetric
