----------------------------- MODULE SessionStore -----------------------------
(***************************************************************************)
(* What the handlers of package acctmw promise about the stored sessions,  *)
(* whatever requests do at the same time: a session belongs to one owner,  *)
(* its token is new when it is stored, and gone for good when it ends.     *)
(* Saving data does not store, end or give away a session.                 *)
(***************************************************************************)
EXTENDS FiniteSets

CONSTANTS
  Token,
  Principal, \* the accounts and, for visitors, the nil id
  Visitor,   \* the nil id, one of Principal
  Document   \* what the application may store

VARIABLES
  stored,    \* the sessions: a function from some tokens
  used       \* every token that was ever given out

vars == <<stored, used>>

Session == [owner : Principal, data : Document]

Init ==
  /\ stored = [t \in {} |-> Visitor]
  /\ used \in SUBSET Token

Without(T) == [t \in DOMAIN stored \ T |-> stored[t]]

With(f, t, s) == [u \in DOMAIN f \cup {t} |-> IF u = t THEN s ELSE f[u]]

\* A login, or the first data of a visitor: a new session.
Open ==
  \E t \in Token \ used, s \in Session :
    /\ stored' = With(stored, t, s)
    /\ used' = used \cup {t}

\* A visitor logs in: the session goes on under a new token, and the old one
\* ends in the same step. One that ended meanwhile does not go on.
Upgrade ==
  \E old \in used, new \in Token \ used, s \in Session :
    /\ s.owner # Visitor
    /\ old \in DOMAIN stored => stored[old].owner = Visitor
    /\ stored' = IF old \in DOMAIN stored THEN With(Without({old}), new, s) ELSE stored
    /\ used' = used \cup {new}

\* A logout, or the login of another account on the same client.
End == \E t \in DOMAIN stored : stored' = Without({t}) /\ UNCHANGED used

\* The account is deleted, or found to be: all its sessions end.
EndAll ==
  \E o \in Principal \ {Visitor} :
    /\ stored' = Without({t \in DOMAIN stored : stored[t].owner = o})
    /\ UNCHANGED used

\* A request saves its data.
Save ==
  \E t \in DOMAIN stored, d \in Document :
    /\ stored' = [stored EXCEPT ![t].data = d]
    /\ UNCHANGED used

Next == Open \/ Upgrade \/ End \/ EndAll \/ Save

Spec == Init /\ [][Next]_vars
===============================================================================
