---------------------------- MODULE MCRedisCache -----------------------------
(* Two caches, one within the other, at the two ends of a table that has   *)
(* one, two or four buckets.                                               *)
EXTENDS RedisCache

MCPrefixes == {<<"app">>, <<"app", "user">>}
MCKeys == {<<"k">>}
MCPlace ==
  [n \in {p \o k : p \in MCPrefixes, k \in MCKeys} |-> IF n[2] = "user" THEN 3 ELSE 0]
MCTables == {{0}, {0, 2}, 0 .. 3}
=============================================================================
