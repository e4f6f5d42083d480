---------------------------- MODULE MCTransactions ----------------------------
(* One call of Tx for TLC: the four attempts of the code, calls nested two    *)
(* deep, fn of up to four steps in an attempt, and a pool of one connection   *)
(* that other callers want too.                                               *)
EXTENDS Pool
===============================================================================
