--------------------------- MODULE MCInMemoryCache ---------------------------
(* A small InMemoryCache: one key more than the map has room for, a        *)
(* lifetime of zero beside two real ones, and a clock that outlasts both.  *)
EXTENDS InMemoryCache

CONSTANTS k1, k2, k3, v1, v2

MCKeys == {k1, k2, k3}
MCValues == {v1, v2}
MCTTLs == {0, 1, 2}
=============================================================================
