----------------------------- MODULE GroupsProofs ------------------------------
(***************************************************************************)
(* For any number of accounts, groups, administrators and requests: the    *)
(* tables stay consistent, a request loads a whole SetMembership or none   *)
(* of it, and Authorize and Deny decide as documented.                     *)
(***************************************************************************)
EXTENDS Groups, TLAPS

\* A member that a SetMembership has inserted and not committed refers to an
\* account and a group that exist: their rows are locked.
AddedExists ==
  \A w \in Admin : \A m \in tx[w].added :
    m[1] \in accounts /\ \E g \in groups : g.id = m[2]

\* No stored group, and so no group of a loaded account, has a special name.
NamesNotSpecial ==
  /\ \A g \in groups : g.name \notin Special
  /\ \A q \in Req : req[q].groups \intersect Special = {}

IInv ==
  /\ TypeOK
  /\ AddedExists
  /\ NamesNotSpecial

\* A request that is not there yet is a request.
LEMMA NoRequestTyped == NoRequest \in Request /\ NoRequest.groups = {}
  BY DEF NoRequest, Request

\* So is a transaction.
LEMMA NoTxTyped == NoTx \in Tx /\ NoTx.added = {}
  BY DEF NoTx, Tx

\* The empty tables satisfy the invariant.
LEMMA InitIInv == Init => IInv
  BY NoRequestTyped, NoTxTyped DEF Init, IInv, TypeOK, AddedExists, NamesNotSpecial

-----------------------------------------------------------------------------
(* The operations of one statement. *)

\* CreateGroups adds groups with new, valid names.
LEMMA CreateStep == IInv /\ CreateGroups => IInv'
  <1> SUFFICES ASSUME IInv, CreateGroups PROVE IInv'
    OBVIOUS
  <1>1. UNCHANGED <<verified, accounts, members, tx, req>>
    BY DEF CreateGroups
  <1>2. PICK ns \in SUBSET Name :
          LET new == { n \in ns : Named(groups, {n}) = {} }
          IN  /\ \A n \in ns : validName(n)
              /\ \E id \in [new -> GroupID \ used] :
                   /\ groups' = groups \union { [id |-> id[n], name |-> n] : n \in new }
                   /\ used' = used \union { id[n] : n \in new }
    BY DEF CreateGroups
  <1> DEFINE new == { n \in ns : Named(groups, {n}) = {} }
  <1>3. PICK id \in [new -> GroupID \ used] :
          /\ groups' = groups \union { [id |-> id[n], name |-> n] : n \in new }
          /\ used' = used \union { id[n] : n \in new }
    BY <1>2
  <1>4. \A n \in new : n \in Name /\ id[n] \in GroupID /\ n \notin Special
                       /\ \A g \in groups : g.name # n
    BY <1>2 DEF validName, Named
  <1> HIDE DEF new
  <1>5. groups' \subseteq GroupRow /\ used' \subseteq GroupID
    BY <1>3, <1>4 DEF IInv, TypeOK, GroupRow
  <1>6. \A g, h \in groups' : g.name = h.name => g = h
    BY <1>3, <1>4 DEF IInv, TypeOK
  <1>7. groups \subseteq groups'
    BY <1>3
  <1>8. TypeOK'
    BY <1>1, <1>5, <1>6, <1>7 DEF IInv, TypeOK
  <1>9. AddedExists'
    BY <1>1, <1>7 DEF IInv, AddedExists
  <1>10. NamesNotSpecial'
    BY <1>1, <1>3, <1>4 DEF IInv, NamesNotSpecial
  <1> QED
    BY <1>8, <1>9, <1>10 DEF IInv

\* DeleteGroups removes groups with their members, and none that a
\* SetMembership has just referred to.
LEMMA DeleteGroupsStep == IInv /\ DeleteGroups => IInv'
  <1> SUFFICES ASSUME IInv, DeleteGroups PROVE IInv'
    OBVIOUS
  <1>1. UNCHANGED <<verified, accounts, used, tx, req>>
    BY DEF DeleteGroups
  <1>2. PICK ns \in SUBSET Name :
          LET ids == { g.id : g \in Named(groups, ns) }
          IN  /\ \A w \in Admin : \A m \in tx[w].gone \union tx[w].added : m[2] \notin ids
              /\ groups' = groups \ Named(groups, ns)
              /\ members' = { m \in members : m[2] \notin ids }
    BY DEF DeleteGroups
  <1>3. groups' \subseteq groups /\ members' \subseteq members
    BY <1>2
  <1>4. \A g \in groups : g \notin groups' => \A m \in members' : m[2] # g.id
    BY <1>2
  <1>5. \A g \in groups : g \notin groups' =>
          \A w \in Admin : \A m \in tx[w].added : m[2] # g.id
    BY <1>2
  <1>6. members' \subseteq accounts \X { g.id : g \in groups' }
    BY <1>3, <1>4 DEF IInv, TypeOK
  <1>7. TypeOK'
    BY <1>1, <1>3, <1>6 DEF IInv, TypeOK
  <1>8. AddedExists'
    BY <1>1, <1>5 DEF IInv, AddedExists
  <1> QED
    BY <1>1, <1>3, <1>7, <1>8 DEF IInv, NamesNotSpecial

\* accounts.Delete removes the account with its members.
LEMMA DeleteAccountStep == IInv /\ DeleteAccount => IInv'
  <1> SUFFICES ASSUME IInv, DeleteAccount PROVE IInv'
    OBVIOUS
  <1>1. UNCHANGED <<verified, groups, used, tx, req>>
    BY DEF DeleteAccount
  <1>2. PICK a \in accounts :
          /\ \A w \in Admin : \A m \in tx[w].gone \union tx[w].added : m[1] # a
          /\ accounts' = accounts \ {a}
          /\ members' = { m \in members : m[1] # a }
    BY DEF DeleteAccount
  <1>3. members' \subseteq accounts' \X { g.id : g \in groups }
    BY <1>2 DEF IInv, TypeOK
  <1>4. TypeOK'
    BY <1>1, <1>2, <1>3 DEF IInv, TypeOK
  <1>5. AddedExists'
    BY <1>1, <1>2 DEF IInv, AddedExists
  <1> QED
    BY <1>1, <1>4, <1>5 DEF IInv, NamesNotSpecial

\* A membership is added or removed.
LEMMA EditStep == IInv /\ (AddMembership \/ RemoveMembership) => IInv'
  <1> SUFFICES ASSUME IInv, AddMembership \/ RemoveMembership PROVE IInv'
    OBVIOUS
  <1>1. UNCHANGED <<verified, accounts, groups, used, tx, req>>
    BY DEF AddMembership, RemoveMembership
  <1>2. members' \subseteq accounts \X { g.id : g \in groups }
    <2>1. members \subseteq accounts \X { g.id : g \in groups }
      BY DEF IInv, TypeOK
    <2>2. CASE AddMembership
      <3>1. PICK a \in accounts, g \in groups : members' = members \union {<<a, g.id>>}
        BY <2>2 DEF AddMembership
      <3> QED
        BY <2>1, <3>1
    <2>3. CASE RemoveMembership
      <3>1. members' \subseteq members
        BY <2>3 DEF RemoveMembership
      <3> QED
        BY <2>1, <3>1
    <2> QED
      BY <2>2, <2>3
  <1> QED
    BY <1>1, <1>2 DEF IInv, TypeOK, AddedExists, NamesNotSpecial

-----------------------------------------------------------------------------
(* SetMembership. *)

\* A step of one SetMembership that leaves the tables alone.
LEMMA TxStep ==
  ASSUME IInv, NEW w \in Admin, NEW t \in Tx,
         tx' = [tx EXCEPT ![w] = t],
         UNCHANGED <<verified, accounts, groups, members, used, req>>,
         \A m \in t.added : m[1] \in accounts /\ \E g \in groups : g.id = m[2]
  PROVE  IInv'
  BY DEF IInv, TypeOK, AddedExists, NamesNotSpecial

\* Every step of SetMembership keeps the invariant.
LEMMA SetMembershipStep ==
  ASSUME IInv, NEW w \in Admin,
         \/ SetMembership(w) \/ removeMembers(w) \/ insertMembers(w)
         \/ Commit(w) \/ Fail(w)
  PROVE  IInv'
  <1>0. tx[w] \in Tx /\ members \subseteq Member
    BY DEF IInv, TypeOK, Member, GroupRow
  <1>1. CASE SetMembership(w)
    <2>1. PICK a \in Acct, gs \in GroupLists :
            tx' = [tx EXCEPT ![w] = [NoTx EXCEPT !.pc = "remove", !.acctID = a,
                                                 !.groups = gs, !.seen = members]]
      BY <1>1 DEF SetMembership
    <2> DEFINE t == [NoTx EXCEPT !.pc = "remove", !.acctID = a, !.groups = gs,
                                 !.seen = members]
    <2>2. gs \in SUBSET Name \union {Null}
      BY GroupsAssumption
    <2>3. t \in Tx /\ t.added = {}
      BY <1>0, <2>2 DEF NoTx, Tx
    <2>4. UNCHANGED <<verified, accounts, groups, members, used, req>>
      BY <1>1 DEF SetMembership
    <2> QED
      BY <2>1, <2>3, <2>4, TxStep
  <1>2. CASE removeMembers(w)
    <2> DEFINE t == [tx[w] EXCEPT !.pc = "insert", !.gone = ToRemove(w), !.known = groups]
    <2>1. tx' = [tx EXCEPT ![w] = t]
      BY <1>0, <1>2 DEF removeMembers, IInv, TypeOK, Tx
    <2>2. ToRemove(w) \subseteq Member /\ groups \subseteq GroupRow
      BY <1>0 DEF ToRemove, IInv, TypeOK
    <2>3. t \in Tx /\ t.added = tx[w].added
      BY <1>0, <2>2 DEF Tx
    <2>4. UNCHANGED <<verified, accounts, groups, members, used, req>>
      BY <1>2 DEF removeMembers
    <2>5. \A m \in t.added : m[1] \in accounts /\ \E g \in groups : g.id = m[2]
      BY <2>3 DEF IInv, AddedExists
    <2> QED
      BY <2>1, <2>3, <2>4, <2>5, TxStep
  <1>3. CASE insertMembers(w)
    <2> DEFINE t == [tx[w] EXCEPT !.pc = "commit", !.added = Wanted(w) \ members]
    <2>1. tx' = [tx EXCEPT ![w] = t]
      BY <1>0, <1>3 DEF insertMembers, IInv, TypeOK, Tx
    <2>2. \A m \in Wanted(w) \ members : m[1] \in accounts /\ \E g \in groups : g.id = m[2]
      BY <1>3 DEF insertMembers
    <2>3. \A m \in Wanted(w) : \E x, y : m = <<x, y>>
      BY DEF Wanted
    <2>4. Wanted(w) \ members \subseteq Member
      BY <2>2, <2>3 DEF Member, IInv, TypeOK, GroupRow
    <2>5. t \in Tx /\ t.added = Wanted(w) \ members
      BY <1>0, <2>4 DEF Tx
    <2>6. UNCHANGED <<verified, accounts, groups, members, used, req>>
      BY <1>3 DEF insertMembers
    <2> QED
      BY <2>1, <2>2, <2>5, <2>6, TxStep
  <1>4. CASE Commit(w)
    <2>1. /\ members' = (members \ tx[w].gone) \union tx[w].added
          /\ tx' = [tx EXCEPT ![w] = NoTx]
          /\ UNCHANGED <<verified, accounts, groups, used, req>>
      BY <1>4 DEF Commit
    <2>2. tx[w].added \subseteq accounts \X { g.id : g \in groups }
      <3>1. tx[w].added \subseteq Member
        BY <1>0 DEF Tx
      <3> QED
        BY <3>1 DEF IInv, AddedExists, Member
    <2>3. members' \subseteq accounts \X { g.id : g \in groups }
      BY <2>1, <2>2 DEF IInv, TypeOK
    <2> QED
      BY <2>1, <2>3, NoTxTyped DEF IInv, TypeOK, AddedExists, NamesNotSpecial
  <1>5. CASE Fail(w)
    <2>1. /\ tx' = [tx EXCEPT ![w] = NoTx]
          /\ UNCHANGED <<verified, accounts, groups, members, used, req>>
      BY <1>5 DEF Fail
    <2> QED
      BY <2>1, NoTxTyped, TxStep
  <1> QED
    BY <1>1, <1>2, <1>3, <1>4, <1>5

-----------------------------------------------------------------------------
(* Requests. *)

\* A step of a request leaves the tables and the transactions alone.
LEMMA ReqStep ==
  ASSUME IInv, NEW q \in Req, NEW r \in Request,
         req' = [req EXCEPT ![q] = r],
         UNCHANGED <<verified, accounts, groups, members, used, tx>>,
         r.groups \intersect Special = {}
  PROVE  IInv'
  BY DEF IInv, TypeOK, AddedExists, NamesNotSpecial

\* What a request is loaded with, and what authorize makes of it.
Loaded(a) ==
  [NoRequest EXCEPT !.pc = "loaded", !.acct = a, !.groups = GroupsOf(groups, members, a)]

Decided(r, set, isDeny) ==
  [r EXCEPT !.pc = "decided", !.policy = set, !.isDeny = isDeny,
            !.allowed = (set # {} /\ isInGroup(r, set)) # isDeny]

\* Loading, deciding and answering keep the invariant.
LEMMA RequestStep ==
  ASSUME IInv, NEW q \in Req, LoadAccount(q) \/ authorize(q) \/ Respond(q)
  PROVE  IInv'
  <1>0. req[q] \in Request /\ req[q].groups \intersect Special = {}
    BY DEF IInv, TypeOK, NamesNotSpecial
  <1>1. UNCHANGED <<verified, accounts, groups, members, used, tx>>
    BY DEF LoadAccount, authorize, Respond
  <1>2. CASE LoadAccount(q)
    <2>1. PICK a \in accounts \union {Null} : req' = [req EXCEPT ![q] = Loaded(a)]
      BY <1>2 DEF LoadAccount, Loaded
    <2>2. /\ GroupsOf(groups, members, a) \subseteq Name
          /\ GroupsOf(groups, members, a) \intersect Special = {}
      <3>1. \A g \in groups : g.name \in Name /\ g.name \notin Special
        BY DEF IInv, TypeOK, GroupRow, NamesNotSpecial
      <3>2. \A n \in GroupsOf(groups, members, a) : \E g \in groups : n = g.name
        BY DEF GroupsOf
      <3> QED
        BY <3>1, <3>2
    <2>3. a \in Acct \union {Null}
      BY DEF IInv, TypeOK
    <2>4. Loaded(a) \in Request /\ Loaded(a).groups = GroupsOf(groups, members, a)
      BY <2>2, <2>3, NoRequestTyped DEF Loaded, Request
    <2> QED
      BY <1>1, <2>1, <2>2, <2>4, ReqStep
  <1>3. CASE authorize(q)
    <2>1. PICK set \in Policies, isDeny \in BOOLEAN :
            req' = [req EXCEPT ![q] = Decided(req[q], set, isDeny)]
      BY <1>0, <1>3 DEF authorize, Decided
    <2>2. ((set # {} /\ isInGroup(req[q], set)) # isDeny) \in BOOLEAN
      OBVIOUS
    <2>3. set \in SUBSET (Name \union Special)
      BY GroupsAssumption
    <2>4. Decided(req[q], set, isDeny) \in Request
      BY <1>0, <2>2, <2>3 DEF Decided, Request
    <2>5. Decided(req[q], set, isDeny).groups = req[q].groups
      BY <1>0 DEF Decided, Request
    <2> QED
      BY <1>0, <1>1, <2>1, <2>4, <2>5, ReqStep
  <1>4. CASE Respond(q)
    BY <1>1, <1>4, NoRequestTyped, ReqStep DEF Respond
  <1> QED
    BY <1>2, <1>3, <1>4

\* Every operation keeps the invariant.
LEMMA NextIInv == IInv /\ [Next]_vars => IInv'
  <1> SUFFICES ASSUME IInv, [Next]_vars PROVE IInv'
    OBVIOUS
  <1>1. CASE UNCHANGED vars
    BY <1>1 DEF vars, IInv, TypeOK, AddedExists, NamesNotSpecial
  <1> QED
    BY <1>1, CreateStep, DeleteGroupsStep, DeleteAccountStep, EditStep, SetMembershipStep,
       RequestStep
    DEF Next

\* The inductive invariant holds of every behaviour.
THEOREM Inductive == Spec => []IInv
  BY InitIInv, NextIInv, PTL DEF Spec

\* A name has one group, and every membership is of an account and a group that
\* exist, whatever is deleted while a SetMembership is under way.
THEOREM TablesConsistent == Spec => []TypeOK
  <1>1. IInv => TypeOK
    BY DEF IInv
  <1> QED
    BY <1>1, Inductive, PTL

-----------------------------------------------------------------------------
\* What the last completed operation left is what is committed.
Committed == settled = members

\* No statement of an open SetMembership shows before its commit.
LEMMA CommittedStep == Committed /\ [Next]_vars => Committed'
  BY DEF Committed, Next, vars, CreateGroups, DeleteGroups, DeleteAccount, AddMembership,
         RemoveMembership, SetMembership, removeMembers, insertMembers, Commit, Fail,
         LoadAccount, authorize, Respond, Completed

\* A request never loads the half of a SetMembership.
THEOREM LoadsWhole == Spec => ReadsWhole
  <1> DEFINE Whole == \A q \in Req : LoadAccount(q) =>
                        req'[q].groups = GroupsOf(groups, settled, req'[q].acct)
  <1>1. Init => Committed
    BY DEF Init, Committed
  <1>2. IInv /\ Committed => Whole
    <2> SUFFICES ASSUME IInv, Committed, NEW q \in Req, LoadAccount(q)
                 PROVE  req'[q].groups = GroupsOf(groups, settled, req'[q].acct)
      OBVIOUS
    <2>1. PICK a : req' = [req EXCEPT ![q] = Loaded(a)]
      BY DEF LoadAccount, Loaded
    <2>2. req'[q] = Loaded(a)
      BY <2>1 DEF IInv, TypeOK
    <2>3. Loaded(a).acct = a /\ Loaded(a).groups = GroupsOf(groups, members, a)
      BY DEF Loaded, NoRequest
    <2> QED
      BY <2>2, <2>3 DEF Committed
  <1> QED
    BY <1>1, <1>2, CommittedStep, Inductive, PTL DEF Spec, ReadsWhole

-----------------------------------------------------------------------------
\* How a name of a policy applies to a request.
Matches(r, n) ==
  CASE n = AccessAnyone -> TRUE
    [] n = AccessAuthenticated -> r.acct # Null
    [] n = AccessVerified -> r.acct \in verified
    [] OTHER -> r.acct # Null /\ n \in r.groups

\* The tests of authorize find a name that applies, if there is one.
LEMMA InGroupMatches ==
  ASSUME IInv, NEW r, NEW set, r.groups \intersect Special = {}
  PROVE  (set # {} /\ isInGroup(r, set)) <=> \E n \in set : Matches(r, n)
  <1>1. Null \notin verified
    BY GroupsAssumption DEF IInv, TypeOK
  <1>2. ASSUME set # {}, isInGroup(r, set) PROVE \E n \in set : Matches(r, n)
    BY <1>1, <1>2, GroupsAssumption DEF isInGroup, Matches, Special
  <1>3. ASSUME NEW n \in set, Matches(r, n) PROVE isInGroup(r, set)
    BY <1>1, <1>3, GroupsAssumption DEF isInGroup, Matches, Special
  <1> QED
    BY <1>2, <1>3

\* Authorize and Deny decide as their comments say, whatever groups are stored.
THEOREM DecidesAsDocumented == Spec => []AccessAsDocumented
  <1> DEFINE Right(r) == r.pc = "decided" =>
               (r.allowed <=> ((\E n \in r.policy : Matches(r, n)) # r.isDeny))
  <1>1. AccessAsDocumented <=> \A q \in Req : Right(req[q])
    BY DEF AccessAsDocumented, Matches
  <1>2. Init => AccessAsDocumented
    <2>1. Right(NoRequest)
      BY DEF NoRequest
    <2> QED
      BY <1>1, <2>1 DEF Init
  <1>3. IInv /\ AccessAsDocumented /\ [Next]_vars => AccessAsDocumented'
    <2> SUFFICES ASSUME IInv, \A q \in Req : Right(req[q]), [Next]_vars, NEW p \in Req
                 PROVE  Right(req[p])'
      BY <1>1 DEF AccessAsDocumented, Matches
    <2>1. verified' = verified
      BY DEF Next, vars, CreateGroups, DeleteGroups, DeleteAccount, AddMembership,
             RemoveMembership, SetMembership, removeMembers, insertMembers, Commit, Fail,
             LoadAccount, authorize, Respond
    <2>2. CASE req' = req
      BY <2>1, <2>2 DEF Matches
    <2>3. ASSUME NEW q \in Req, LoadAccount(q) \/ Respond(q) PROVE Right(req[p])'
      <3>1. PICK r : req' = [req EXCEPT ![q] = r] /\ r.pc # "decided"
        <4>1. CASE LoadAccount(q)
          <5>1. PICK a : req' = [req EXCEPT ![q] = Loaded(a)]
            BY <4>1 DEF LoadAccount, Loaded
          <5>2. Loaded(a).pc # "decided"
            BY DEF Loaded, NoRequest
          <5> QED
            BY <5>1, <5>2
        <4>2. CASE Respond(q)
          <5>1. NoRequest.pc # "decided"
            BY DEF NoRequest
          <5> QED
            BY <4>2, <5>1 DEF Respond
        <4> QED
          BY <2>3, <4>1, <4>2
      <3> QED
        BY <2>1, <3>1 DEF IInv, TypeOK, Matches
    <2>4. ASSUME NEW q \in Req, authorize(q) PROVE Right(req[p])'
      <3>1. PICK set \in Policies, isDeny \in BOOLEAN :
              req' = [req EXCEPT ![q] = Decided(req[q], set, isDeny)]
        BY <2>4 DEF authorize, Decided, IInv, TypeOK
      <3> DEFINE r == req[q]
                 d == Decided(r, set, isDeny)
                 in == set # {} /\ isInGroup(r, set)
      <3>2. r \in Request /\ r.groups \intersect Special = {}
        BY DEF IInv, TypeOK, NamesNotSpecial
      <3>3. /\ d.policy = set /\ d.isDeny = isDeny /\ d.allowed = (in # isDeny)
            /\ d.acct = r.acct /\ d.groups = r.groups
        BY <3>2 DEF Decided, Request
      <3>4. in <=> \E n \in set : Matches(r, n)
        BY <3>2, InGroupMatches
      <3>5. \A n : Matches(r, n) <=> Matches(d, n)
        BY <3>3 DEF Matches
      <3> HIDE DEF d, in
      <3>6. Right(d)
        <4> DEFINE some == \E n \in d.policy : Matches(d, n)
        <4>1. some <=> in
          BY <3>3, <3>4, <3>5
        <4>2. some \in BOOLEAN /\ in \in BOOLEAN
          BY DEF in
        <4> HIDE DEF some
        <4>3. some = in
          BY <4>1, <4>2
        <4>4. d.allowed = (some # d.isDeny)
          BY <3>3, <4>3
        <4> QED
          BY <4>4 DEF some
      <3>7. req'[p] = IF p = q THEN d ELSE req[p]
        BY <3>1 DEF IInv, TypeOK, d
      <3> QED
        BY <2>1, <3>6, <3>7 DEF Matches
    <2> QED
      BY <2>2, <2>3, <2>4
      DEF Next, vars, CreateGroups, DeleteGroups, DeleteAccount, AddMembership,
          RemoveMembership, SetMembership, removeMembers, insertMembers, Commit, Fail
  <1> QED
    BY <1>2, <1>3, Inductive, PTL DEF Spec
===============================================================================
