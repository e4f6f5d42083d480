-------------------------------- MODULE Groups --------------------------------
(***************************************************************************)
(* Groups and their members (package accounts) and the Authorize and Deny  *)
(* middleware that read them (package acctmw).                             *)
(*                                                                         *)
(* SetMembership is a transaction of two statements, at READ COMMITTED: a  *)
(* statement sees what was committed when it began, and waits for the      *)
(* transactions that hold the rows it writes or refers to.  The other      *)
(* operations are one statement, outside of a transaction.                 *)
(***************************************************************************)
EXTENDS Naturals

CONSTANTS
  Admin,       \* callers of SetMembership: bound on the calls at once
  Editing,     \* whether AddMembership and RemoveMembership are called too
  Req,         \* request slots
  Acct,        \* account ids
  GroupID,     \* ids of accounts_groups
  Name,        \* names the application may give to a group
  AccessAnyone, AccessAuthenticated, AccessVerified,   \* "?", "*" and "@"
  GroupLists,  \* the groups arguments of SetMembership that are tried
  Policies,    \* the groups arguments of Authorize and Deny that are tried
  Null         \* SQL NULL, Go's nil

Special == {AccessAnyone, AccessAuthenticated, AccessVerified}

ASSUME GroupsAssumption ==
  /\ Null \notin Acct
  /\ AccessAnyone # AccessAuthenticated /\ AccessAnyone # AccessVerified
  /\ AccessAuthenticated # AccessVerified
  /\ Editing \in BOOLEAN
  /\ GroupLists \subseteq SUBSET Name \union {Null}
  /\ Policies \subseteq SUBSET (Name \union Special)

VARIABLES
  accounts,    \* ids in accounts_accounts
  verified,    \* those with a verified email; the application sets it
  groups,      \* accounts_groups
  members,     \* accounts_members
  used,        \* ids of groups that exist or existed
  tx,          \* the calls of SetMembership in progress
  req,         \* the requests
  settled      \* history: accounts_members after the last completed operation

vars == <<accounts, verified, groups, members, used, tx, req, settled>>

GroupRow == [id : GroupID, name : Name]

Member == Acct \X GroupID

Tx ==
  [ pc     : {"idle", "remove", "insert", "commit"},
    acctID : Acct \union {Null},
    groups : SUBSET Name \union {Null},
    seen   : SUBSET Member,      \* what the first statement sees
    known  : SUBSET GroupRow,    \* what the second statement sees
    gone   : SUBSET Member,      \* rows it has deleted
    added  : SUBSET Member ]     \* rows it has inserted

NoTx == [ pc |-> "idle", acctID |-> Null, groups |-> {}, seen |-> {},
          known |-> {}, gone |-> {}, added |-> {} ]

Request ==
  [ pc      : {"idle", "loaded", "decided"},
    acct    : Acct \union {Null},           \* acctctx.Account
    groups  : SUBSET Name,                  \* its Groups
    policy  : SUBSET (Name \union Special),
    isDeny  : BOOLEAN,
    allowed : BOOLEAN ]

NoRequest == [ pc |-> "idle", acct |-> Null, groups |-> {}, policy |-> {},
               isDeny |-> FALSE, allowed |-> FALSE ]

Named(grps, ns) == { g \in grps : g.name \in ns }

\* Account.Groups: the names that selectAccountPrefix aggregates.
GroupsOf(grps, mem, a) == { g.name : g \in { h \in grps : <<a, h.id>> \in mem } }

Init ==
  /\ accounts = Acct
  /\ verified \in SUBSET Acct
  /\ groups = {} /\ members = {} /\ used = {}
  /\ tx = [w \in Admin |-> NoTx]
  /\ req = [q \in Req |-> NoRequest]
  /\ settled = {}

\* The rows other transactions than w's have deleted or inserted.
Gone(w) == UNION { tx[v].gone : v \in Admin \ {w} }
Held(w) == Gone(w) \union UNION { tx[v].added : v \in Admin \ {w} }

Completed == settled' = members'

-----------------------------------------------------------------------------
\* Mutant: no CHECK on the name.
validNameAny(n) == TRUE

\* chk_name_length: at least two characters, and the special names have one.
validName(n) == n \notin Special

\* One name that is too short fails the statement, with no effect.
CreateGroups ==
  /\ \E ns \in SUBSET Name :
       LET new == { n \in ns : Named(groups, {n}) = {} }
       IN  /\ new # {} /\ \A n \in ns : validName(n)
           /\ \E id \in [new -> GroupID \ used] :
                /\ \A m, n \in new : id[m] = id[n] => m = n
                /\ groups' = groups \union { [id |-> id[n], name |-> n] : n \in new }
                /\ used' = used \union { id[n] : n \in new }
  /\ UNCHANGED <<verified, accounts, members, tx, req>>
  /\ Completed

\* Mutant: no foreign key from the members to their group.
DeleteGroupsOnly ==
  /\ \E ns \in SUBSET Name : groups' = groups \ Named(groups, ns)
  /\ UNCHANGED <<verified, accounts, members, used, tx, req>>
  /\ Completed

\* ON DELETE CASCADE.  A transaction that inserted a member holds the group's
\* row, one that deleted a member holds that one.
DeleteGroups ==
  /\ \E ns \in SUBSET Name :
       LET ids == { g.id : g \in Named(groups, ns) }
       IN  /\ ids # {}
           /\ \A w \in Admin : \A m \in tx[w].gone \union tx[w].added : m[2] \notin ids
           /\ groups' = groups \ Named(groups, ns)
           /\ members' = { m \in members : m[2] \notin ids }
  /\ UNCHANGED <<verified, accounts, used, tx, req>>
  /\ Completed

\* accounts.Delete, with the cascade to the members.
DeleteAccount ==
  /\ \E a \in accounts :
       /\ \A w \in Admin : \A m \in tx[w].gone \union tx[w].added : m[1] # a
       /\ accounts' = accounts \ {a}
       /\ members' = { m \in members : m[1] # a }
  /\ UNCHANGED <<verified, groups, used, tx, req>>
  /\ Completed

\* A foreign key refuses the account that was deleted: no effect.
AddMembership ==
  /\ Editing
  /\ \E a \in accounts, g \in groups :
       /\ \A w \in Admin : <<a, g.id>> \notin tx[w].gone \union tx[w].added
       /\ members' = members \union {<<a, g.id>>}
  /\ UNCHANGED <<verified, accounts, groups, used, tx, req>>
  /\ Completed

RemoveMembership ==
  /\ Editing
  /\ \E a \in Acct, g \in groups :
       /\ \A w \in Admin : <<a, g.id>> \notin tx[w].gone
       /\ members' = members \ {<<a, g.id>>}
  /\ UNCHANGED <<verified, accounts, groups, used, tx, req>>
  /\ Completed

-----------------------------------------------------------------------------
(* SetMembership. *)

\* EnsureTx begins a transaction, and the first statement begins.
SetMembership(w) ==
  /\ tx[w].pc = "idle"
  /\ \E a \in Acct, gs \in GroupLists :
       tx' = [tx EXCEPT ![w] = [NoTx EXCEPT !.pc = "remove", !.acctID = a,
                                            !.groups = gs, !.seen = members]]
  /\ UNCHANGED <<verified, accounts, groups, members, used, req, settled>>

\* removeMembers: the rows with name != ALL($2), which is NULL for a NULL array.
ToRemove(w) ==
  { m \in tx[w].seen \intersect members :
      /\ m[1] = tx[w].acctID
      /\ tx[w].groups # Null
      /\ \E g \in groups : g.id = m[2] /\ g.name \notin tx[w].groups }

\* Mutant: the statement is committed by itself.
removeMembersAutocommit(w) ==
  /\ tx[w].pc = "remove" /\ ToRemove(w) \intersect Gone(w) = {}
  /\ tx' = [tx EXCEPT ![w].pc = "insert", ![w].known = groups]
  /\ members' = members \ ToRemove(w)
  /\ UNCHANGED <<verified, accounts, groups, used, req, settled>>

\* The DELETE ends, and the INSERT begins.
removeMembers(w) ==
  /\ tx[w].pc = "remove" /\ ToRemove(w) \intersect Gone(w) = {}
  /\ tx' = [tx EXCEPT ![w].pc = "insert", ![w].gone = ToRemove(w),
                      ![w].known = groups]
  /\ UNCHANGED <<verified, accounts, groups, members, used, req, settled>>

\* insertMembers: the rows with name = ANY($2), none for a NULL array.
Wanted(w) ==
  { <<tx[w].acctID, g.id>> :
      g \in Named(tx[w].known, IF tx[w].groups = Null THEN {} ELSE tx[w].groups) }

\* A row that another transaction deleted or inserted is waited for, and a row
\* that exists is left alone.  Foreign keys refuse a group or an account that
\* was deleted meanwhile (Fail).
insertMembers(w) ==
  /\ tx[w].pc = "insert"
  /\ Wanted(w) \intersect Held(w) = {}
  /\ \A m \in Wanted(w) \ members : /\ m[1] \in accounts
                                     /\ \E g \in groups : g.id = m[2]
  /\ tx' = [tx EXCEPT ![w].pc = "commit", ![w].added = Wanted(w) \ members]
  /\ UNCHANGED <<verified, accounts, groups, members, used, req, settled>>

Commit(w) ==
  /\ tx[w].pc = "commit"
  /\ members' = (members \ tx[w].gone) \union tx[w].added
  /\ tx' = [tx EXCEPT ![w] = NoTx]
  /\ UNCHANGED <<verified, accounts, groups, used, req>>
  /\ Completed

\* An error, a deadlock or a lost connection: the transaction is rolled back.
Fail(w) ==
  /\ tx[w].pc # "idle"
  /\ tx' = [tx EXCEPT ![w] = NoTx]
  /\ UNCHANGED <<verified, accounts, groups, members, used, req, settled>>

-----------------------------------------------------------------------------
(* A request: Session loads the account, or none, and authorize decides. *)

LoadAccount(q) ==
  /\ req[q].pc = "idle"
  /\ \E a \in accounts \union {Null} :
       req' = [req EXCEPT ![q] =
                 [NoRequest EXCEPT !.pc = "loaded", !.acct = a,
                    !.groups = GroupsOf(groups, members, a)]]
  /\ UNCHANGED <<verified, accounts, groups, members, used, tx, settled>>

\* The tests of authorize, in its order, on the set of its groups.
isInGroup(r, set) ==
  \/ AccessAnyone \in set
  \/ /\ r.acct # Null
     /\ \/ AccessAuthenticated \in set
        \/ r.acct \in verified /\ AccessVerified \in set
        \/ r.groups \intersect set # {}

\* An empty set of groups is answered before the request is looked at.
authorize(q) ==
  /\ req[q].pc = "loaded"
  /\ \E set \in Policies, isDeny \in BOOLEAN :
       req' = [req EXCEPT ![q] =
                 [@ EXCEPT !.pc = "decided", !.policy = set, !.isDeny = isDeny,
                           !.allowed = (set # {} /\ isInGroup(req[q], set)) # isDeny]]
  /\ UNCHANGED <<verified, accounts, groups, members, used, tx, settled>>

Respond(q) ==
  /\ req[q].pc = "decided"
  /\ req' = [req EXCEPT ![q] = NoRequest]
  /\ UNCHANGED <<verified, accounts, groups, members, used, tx, settled>>

Next ==
  \/ CreateGroups \/ DeleteGroups \/ DeleteAccount
  \/ AddMembership \/ RemoveMembership
  \/ \E w \in Admin : \/ SetMembership(w) \/ removeMembers(w)
                      \/ insertMembers(w) \/ Commit(w) \/ Fail(w)
  \/ \E q \in Req : LoadAccount(q) \/ authorize(q) \/ Respond(q)

Spec == Init /\ [][Next]_vars

-----------------------------------------------------------------------------
\* The variables have the values the code can give them, a name has one group,
\* and a member is an account and a group that exist.
TypeOK ==
  /\ accounts \subseteq Acct
  /\ verified \subseteq Acct
  /\ groups \subseteq GroupRow
  /\ \A g, h \in groups : g.name = h.name => g = h
  /\ used \subseteq GroupID
  /\ members \subseteq accounts \X { g.id : g \in groups }
  /\ tx \in [Admin -> Tx]
  /\ req \in [Req -> Request]

\* The groups that a request's account is loaded with are those it had after
\* the last completed operation: authorize never decides on the half of a
\* SetMembership, after its DELETE and before its INSERT or its rollback.
ReadsWhole ==
  [][ \A q \in Req : LoadAccount(q) =>
        req'[q].groups = GroupsOf(groups, settled, req'[q].acct) ]_vars

\* Authorize and Deny decide as their comments say: "?" is for anyone, "*" for
\* any authenticated account, "@" for any authenticated and verified one, and
\* another name for the members of that group.  A group of the application is
\* never taken for a special one.
AccessAsDocumented ==
  \A q \in Req : req[q].pc = "decided" =>
    LET r == req[q]
        Matches(n) == CASE n = AccessAnyone -> TRUE
                        [] n = AccessAuthenticated -> r.acct # Null
                        [] n = AccessVerified -> r.acct \in verified
                        [] OTHER -> r.acct # Null /\ n \in r.groups
    IN  r.allowed <=> ((\E n \in r.policy : Matches(n)) # r.isDeny)

\* The comment of SetMembership: it "sets the account's group membership to
\* exactly the provided groups", the ones that do not exist excepted.
SetMembershipExact ==
  [][ \A w \in Admin : Commit(w) /\ tx[w].acctID \in accounts =>
        GroupsOf(groups, members', tx[w].acctID) =
          { g.name : g \in Named(tx[w].known \intersect groups,
                                 IF tx[w].groups = Null THEN {} ELSE tx[w].groups) }
    ]_vars
===============================================================================
