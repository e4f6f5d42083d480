-------------------------------- MODULE Errors --------------------------------
(***************************************************************************)
(* Package errors: an error is nil, or a root error inside of any number   *)
(* of taggedError, outermost first.  Wrapping without a tag (%w) does not  *)
(* show here, nor does errors.Join, which the repository uses to add the   *)
(* untagged error of a rollback.                                           *)
(***************************************************************************)
EXTENDS Integers, Sequences

\* The values of f, and those of g that f does not have (f @@ g of TLC, which the
\* provers do not know): a map that assignments changed.
Overlay(f, g) ==
  [x \in DOMAIN f \cup DOMAIN g |-> IF x \in DOMAIN f THEN f[x] ELSE g[x]]

Nil == [root |-> "nil", tags |-> <<>>]

New(msg) == [root |-> msg, tags |-> <<>>]

Tag(e, tag, meta) ==
  IF e = Nil THEN e ELSE [e EXCEPT !.tags = <<[tag |-> tag, meta |-> meta]>> \o @]

TagNew(msg, tag, meta) == Tag(New(msg), tag, meta)

IsTag(e, tag) == \E i \in DOMAIN e.tags : e.tags[i].tag = tag

HasKey(e, key) == \E i \in DOMAIN e.tags : key \in DOMAIN e.tags[i].meta

\* The value of the first error of the chain that has the key.
KeyValue(e, key) ==
  IF ~HasKey(e, key) THEN ""
  ELSE LET i == CHOOSE i \in DOMAIN e.tags :
                  /\ key \in DOMAIN e.tags[i].meta
                  /\ \A j \in 1..(i - 1) : key \notin DOMAIN e.tags[j].meta
       IN e.tags[i].meta[key]

\* The metadata of the first tagged error is changed in place.
WithKeyValue(e, key, value) ==
  IF e # Nil /\ e.tags # <<>>
    THEN [e EXCEPT !.tags[1].meta = Overlay([k \in {key} |-> value], @)]
    ELSE Tag(e, "", [k \in {key} |-> value])

Atoi ==
  [v \in {"400", "409", "500"} |-> CASE v = "400" -> 400 [] v = "409" -> 409 [] v = "500" -> 500]

Code(e) == LET v == KeyValue(e, "code") IN IF v \in DOMAIN Atoi THEN Atoi[v] ELSE 0
===============================================================================
