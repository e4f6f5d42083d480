-------------------------------- MODULE MCGroups ------------------------------
(***************************************************************************)
(* Groups with two names that are allowed and one that is not.             *)
(***************************************************************************)
EXTENDS Groups, TLC

CONSTANTS staff, other

MCName == {staff, other, AccessVerified}

MCPolicies ==
  { {}, {staff, AccessVerified} } \union { {n} : n \in Special }

\* The lists that are not nil.
Lists == SUBSET {staff, other}

\* Those and nil.
AllLists == Lists \union {Null}

Symmetric == Permutations(Admin) \union Permutations(GroupID)
===============================================================================
