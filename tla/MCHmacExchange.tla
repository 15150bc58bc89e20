--------------------------- MODULE MCHmacExchange ----------------------------
(* An instance of HmacExchange: a plain request, and those that differ     *)
(* from it in one part.                                                    *)
EXTENDS HmacExchange, TLC

MCKeyOrder == <<"B", "a">>
MCLocaleOrder == <<"a", "B">>
MCHeaderOrder == <<"x-tenant", "x-user">>
MCLowerCase ==
  ("X-Tenant" :> "x-tenant") @@ ("x-tenant" :> "x-tenant") @@ ("x-user" :> "x-user")
MCRefusedValues == {<<"bad">>}
MCClientRules ==
  [sender |-> <<"x-user", "X-Tenant">>, receiver |-> <<"x-tenant", "x-user">>]

Param(k, v) == [key |-> k, value |-> v]
Header(n, v) == [name |-> n, value |-> v]

Plain(method) ==
  [method |-> method, path |-> Path("plain", 0), body |-> "json",
   params |-> <<Param("a", "x"), Param("B", "y")>>,
   headers |-> <<Header("x-user", "u"), Header("X-Tenant", "t")>>]

Paths == {Path("plain", 0), Path("colon", 0), Path("bang", 0),
          Path("space", 0), Path("space", 1), Path("none", 0)}
Headers == {<<Header("X-Tenant", "t")>>,
            <<Header("X-Tenant", "bad"), Header("x-user", "u")>>,
            <<Header("X-Tenant", "t"), Header("x-tenant", "s"), Header("x-user", "u")>>}

Variants(r) ==
  {[r EXCEPT !.path = p] : p \in Paths}
    \cup {[r EXCEPT !.body = b] : b \in {"", "spaced"}}
    \cup {[r EXCEPT !.params = p] : p \in {<<Param("B", "null")>>}}
    \cup {[r EXCEPT !.headers = h] : h \in Headers}

MCRequests == UNION {Variants(Plain(m)) : m \in {"GET", "POST", "PATCH"}} \cup {Plain("PUT")}

(* What the theorem about AcceptedIsGenuine asks of the texts. *)
ASSUME TextsAreApart == PartsApart
=============================================================================
