------------------------------- MODULE MCTokens -------------------------------
(***************************************************************************)
(* Tokens on a small instance: a password-reset kind of token (single use) *)
(* and a session kind (multi-use, idle expiry), for the same reference.    *)
(***************************************************************************)
EXTENDS Tokens, TLC

CONSTANTS t1, t2, t3, c1, c2, ty, ref1, d1, dnull

Args(ref, single, abs, idle, data) ==
  [ Type |-> ty, RefID |-> ref, SingleUse |-> single,
    AbsoluteExpiry |-> abs, IdleExpiry |-> idle, Data |-> data ]

\* IdleExpiry is given for the single-use token too: New must ignore it.
MCNewArgs == { Args(ref1, TRUE, 2, 2, d1), Args(ref1, FALSE, 2, 2, Null) }

\* Three ticks are a second and a half. One tick is truncated to no second: the
\* rotated token is expired and idle a tick later, and Cleanup removes it.
MCRotateArgs == { Args(ref1, FALSE, 3, 3, Null), Args(ref1, FALSE, 1, 1, Null) }

Symmetric == Permutations({t1, t2, t3}) \cup Permutations({c1, c2})
===============================================================================
