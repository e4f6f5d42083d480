------------------------------ MODULE MCSessions ------------------------------
(***************************************************************************)
(* Sessions on a small instance: an account exists, and another may be     *)
(* registered, for the email of the first once it is deleted or not.       *)
(***************************************************************************)
EXTENDS Sessions, TLC

CONSTANTS t1, t2, t3, t4, q1, q2, e1, e2, a1, a2, apikey

MCRef == AcctID \cup {NilID}
MCData == AcctID \cup {AnonData, JsonNull}

OneAccount == { [id |-> a1, email |-> e1] }

NoTokens == {}

\* A token of the application that refers to the same account.
ApiKey ==
  { [ token |-> t1, type |-> apikey, single_use |-> FALSE, ref_id |-> a1, expiry |-> 9,
      idle |-> Null, idle_duration |-> Null, data |-> JsonNull ] }

Symmetric ==
  Permutations(Token \ { r.token : r \in InitTokens }) \cup Permutations(Req)
===============================================================================
