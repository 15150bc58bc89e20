------------------------------ MODULE CacheMap ------------------------------
(***************************************************************************)
(* The expiring, size-limited map inside InMemoryCache, as pure operators. *)
(* A cache is a function from the stored keys to items; an item carries    *)
(* its value and the absolute time at which it stops being valid.  Time is *)
(* a parameter: one call of the code runs without yielding, and the model  *)
(* reads the clock once for it.                                            *)
(***************************************************************************)
EXTENDS Integers, FiniteSets, Functions

EmptyCache == [k \in {} |-> {}]

CacheItem(Values, Times) == [value : Values, expiresAt : Times]

(* Mutant of IsCacheItemValid: an item still valid at its expiry. *)
ValidAtExpiry(item, t) == t <= item.expiresAt

IsCacheItemValid(item, t) == t < item.expiresAt

Live(c, t) == {k \in DOMAIN c : IsCacheItemValid(c[k], t)}

ItemsCount(c) == Cardinality(DOMAIN c)

(* clean(): drops what has expired, and nothing else. *)
Clean(c, t) == Restrict(c, Live(c, t))

(* this.cache.delete(key) *)
Delete(c, k) == Restrict(c, DOMAIN c \ {k})

(* What a `get` or an `exists` of k leaves behind: k, if it has expired,   *)
(* is deleted; other expired items stay and keep their room.               *)
Purge(c, k, t) ==
  IF k \in DOMAIN c \ Live(c, t) THEN Delete(c, k) ELSE c

(* Mutants of IsFull: a new place even for a stored key; one item too many. *)
IsFullForAnyKey(c, k, max) == ItemsCount(c) >= max
IsFullOffByOne(c, k, max) == k \notin DOMAIN c /\ ItemsCount(c) > max

IsFull(c, k, max) == k \notin DOMAIN c /\ ItemsCount(c) >= max

(* Mutant of MakeRoom: no sweep. *)
NoSweep(c, k, t, max) == c

(* The map as `set` finds or makes it before it looks for room again. *)
MakeRoom(c, k, t, max) == IF IsFull(c, k, max) THEN Clean(c, t) ELSE c

Refused(c, k, t, max) == IsFull(MakeRoom(c, k, t, max), k, max)

Put(c, k, item) ==
  [x \in DOMAIN c \cup {k} |-> IF x = k THEN item ELSE c[x]]

(* The map after `set`, whether it stored the item or threw. *)
SetItem(c, k, v, ttl, t, max) ==
  LET room == MakeRoom(c, k, t, max)
  IN  IF IsFull(room, k, max)
      THEN room
      ELSE Put(room, k, [value |-> v, expiresAt |-> t + ttl])
=============================================================================
