-------------------------------- MODULE Params --------------------------------
(***************************************************************************)
(* Package params: what Decode makes of a request, for a struct type       *)
(*   [ fields, path, schema, json : sets of fields, the last three those   *)
(*     that the tag can assign to;                                         *)
(*     cookie : some fields to "base64", "raw" or "json";                  *)
(*     pointer : the fields that are nil pointers ]                        *)
(* which is what the cache holds of it, and a request                      *)
(*   [ path, cookies, query : functions from names;                        *)
(*     method;                                                             *)
(*     body : "none" (ContentLength 0), "form", "json" or another type;    *)
(*     values : the names and values of the body;                          *)
(*     readable : the body can be read and parsed; long : not to its end   *)
(*     when LimitRequestBodyBytes is in front;                             *)
(*     tail : what follows the JSON value ].                               *)
(* Parsing is reduced to these; gorilla/schema and encoding/json are       *)
(* external.                                                               *)
(***************************************************************************)
EXTENDS Errors

\* Mutant: the body wins, as http.Request.FormValue has it.
FormValuesBody(in) ==
  IF in.body = "form" /\ in.method = "POST" THEN Overlay(in.values, in.query) ELSE in.query

\* r.Form lists the values of the body first, and gorilla/schema takes the last.
\* ParseForm reads the body of POST, PUT and PATCH only.
FormValues(in) ==
  IF in.body = "form" /\ in.method = "POST" THEN Overlay(in.query, in.values) ELSE in.query

\* The content type is supported, and ParseForm succeeds.
BodyAccepted(in) ==
  /\ in.body \in {"none", "form", "json"}
  /\ in.body = "form" /\ in.method = "POST" => in.readable

\* A cookie is a text, the base64 of a text, or the base64 of a JSON value.
Cookies(T, in) == DOMAIN T.cookie \cap DOMAIN in.cookies

\* A pointer that is nil is refused, whatever it points to.
cookieFits(T, f, ck) ==
  /\ T.cookie[f] # "raw" => ck.enc # "text"
  /\ T.cookie[f] = "json" => ck.enc = "json"
  /\ f \notin T.pointer

cookieValue(T, f, ck) ==
  IF T.cookie[f] = "raw" /\ ck.enc # "text" THEN "encoded" ELSE ck.value

Nothing == [f \in {} |-> ""]

\* json.Decoder.More is false at a closing bracket, and when reading fails.
More(in) == in.tail = "value"

\* What Decode checks, in its order: it returns the error of the first that fails.
Checks(T, in) ==
  << [ok |-> BodyAccepted(in), msg |-> "body"],
     [ok |-> \A f \in Cookies(T, in) : cookieFits(T, f, in.cookies[f]), msg |-> "cookie"],
     [ok |-> DOMAIN FormValues(in) \subseteq T.schema, msg |-> "form"],
     [ok |-> in.body = "json" => in.readable /\ DOMAIN in.values \subseteq T.json, msg |-> "json"],
     [ok |-> ~(in.body = "json" /\ More(in)), msg |-> "extraneous"] >>

\* What Decode assigns, the later of two assignments first.
Assigned(T, in) ==
  Overlay(IF in.body = "json" THEN in.values ELSE Nothing,
  Overlay(FormValues(in),
  Overlay([f \in Cookies(T, in) |-> cookieValue(T, f, in.cookies[f])],
  Overlay([f \in T.path |-> in.path[f]], [f \in T.fields |-> ""]))))

\* invalid is what Validate of the type returns for the assigned values.
Decode(T, in, invalid) ==
  LET checks == Checks(T, in)
      failed == { i \in DOMAIN checks : ~checks[i].ok }
  IN [ dst |-> Assigned(T, in),
       err |-> IF failed = {} THEN invalid
               ELSE New(checks[CHOOSE i \in failed : \A j \in failed : i <= j].msg) ]
===============================================================================
