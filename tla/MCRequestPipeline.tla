-------------------------- MODULE MCRequestPipeline --------------------------
(* An instance of RequestPipeline: two paths of one product, a whitelisted *)
(* path, a request without a product and one that cannot be read.          *)
EXTENDS RequestPipeline

CONSTANTS r1, r2

MCRequests == {r1, r2}

Http(method, path, query, body) ==
  [method |-> method, path |-> path, originalUrl |-> Null, query |-> query, body |-> body]

Web == <<"web">>
Orders == <<"/orders">>
Items == <<"/items">>
Health == <<"/health">>

MCHttpRequests ==
  {Http("GET", Orders, <<Web>>, Null),
   [Http("POST", Null, <<>>, Web) EXCEPT !.originalUrl = Items],
   Http("GET", Health, <<Empty>>, Null),
   Http("PUT", Orders, <<Web>>, Web),
   Http("POST", Orders, <<Web>>, Unreadable)}

Of(path, product) == [prefix |-> "null", path |-> path, product |-> product]

MCTargets == {Of(Orders, Web), Of(Items, Web), Of(Orders, Default), Of(Items, Default),
   Of(Health, Default)}

MCWhitelist == {Health}

MCWindowOrder == <<"hourly">>
MCWindowStart == [w \in {"hourly"} |-> [t \in 0 .. MaxTime |-> 0]]
MCLimits == {[w \in {"hourly"} |-> 1]}

(* Orders are limited, and nothing else has a rule. *)
OrdersAlone == \A t \in Targets : rules[t] # NoRule <=> t = Of(Orders, Web)
=============================================================================
