----------------------------- MODULE MCMiddleware -----------------------------
(***************************************************************************)
(* Middleware on the stacks in which the parts meet: each pair that shares *)
(* the response writer, the goroutines or the panic, in both orders; and   *)
(* handlers that decode, for requests with each kind of mistake.           *)
(***************************************************************************)
EXTENDS Registration, TLC

MCStacks ==
  { <<"Logging", "PanicRecovery", "TimeoutHandler", "CustomErrors", "LimitResponseBodyBytes">>,
    <<"PanicRecovery", "Logging", "TimeoutHandler", "ResponseContentType">>,
    <<"TimeoutHandler", "Logging", "PanicRecovery">>,
    <<"CustomErrors", "Logging", "LimitResponseBodyBytes">>,
    <<"Logging", "CustomErrors", "PanicRecovery">>,
    <<"LimitResponseBodyBytes", "CustomErrors", "RequestContentType">>,
    <<"CustomErrors", "TimeoutHandler">>,
    <<"TimeoutHandler", "RequestLimit">>,
    <<"Logging", "RequestLimit">>,
    <<"CustomErrors", "LimitRequestBodyBytes", "Register">>,
    <<"TimeoutHandler", "Register">>,
    <<"Decode">> }

OnlyLimit == { <<"LimitResponseBodyBytes">> }

Opt(name, values) == {Nothing} \cup { name :> v : v \in values }

Cookie(encs) == [enc : encs, value : {"1"}]

Plain == [path |-> Nothing, cookies |-> Nothing, query |-> Nothing, method |-> "POST",
          body |-> "none", values |-> Nothing, readable |-> TRUE, long |-> FALSE, tail |-> "none"]

MCAppStruct ==
  [ fields |-> {"id", "q", "sid", "pref", "opt", "ptr"}, path |-> {"id"},
    schema |-> {"id", "q"}, json |-> {"q"}, pointer |-> {"ptr"},
    cookie |-> [sid |-> "base64", pref |-> "json", opt |-> "raw", ptr |-> "base64"] ]

\* Cookies in every encoding, and names that the struct has elsewhere.
MCAppRequests ==
  { [Plain EXCEPT !.path = "id" :> "7", !.query = q, !.body = b, !.values = v,
                  !.cookies = s @@ p @@ o @@ n] :
      q \in Opt("id", {"2"}) \cup Opt("q", {"2"}) \cup Opt("sid", {"2"}),
      b \in {"none", "json"}, v \in Opt("q", {"3"}) \cup Opt("id", {"3"}),
      s \in Opt("sid", Cookie({"text", "base64"})),
      p \in Opt("pref", Cookie({"base64", "json"})),
      o \in Opt("opt", Cookie({"text", "base64"})),
      n \in Opt("ptr", Cookie({"base64"})) }

RegisterValues ==
  { e @@ p @@ r @@ x : e \in Opt("email", {"", "no at", "a@b"}), p \in Opt("password", {"p"}),
                       r \in Opt("password2", {"p", "q"}), x \in Opt("x", {"1"}) }

Whole == [email |-> "a@b", password |-> "p", password2 |-> "p"]

\* What is in the body, or in the query, and an email in both.
MCRegisterRequests ==
  { [Plain EXCEPT !.query = v] : v \in RegisterValues }
  \cup { [Plain EXCEPT !.query = q, !.body = b, !.values = v] :
           q \in Opt("email", {"c@d"}), b \in {"form", "json"}, v \in RegisterValues }
  \cup { [Plain EXCEPT !.method = m, !.body = b, !.values = Whole, !.readable = r,
                       !.long = l, !.tail = t] :
           m \in {"POST", "DELETE"}, b \in {"form", "json", "other"}, r \in BOOLEAN,
           l \in BOOLEAN, t \in {"none", "value", "bracket", "unreadable"} }
===============================================================================
