------------------------------- MODULE TTLMap -------------------------------
(***************************************************************************)
(* What InMemoryCache promises its callers, free of its representation: a  *)
(* map of at most MaxSize live items in which time itself removes what has *)
(* expired.  Nothing here knows of expired items that still take room, or  *)
(* of the sweep that `set` makes when the map looks full.                  *)
(***************************************************************************)
EXTENDS CacheMap

CONSTANTS Keys, Values, TTLs, MaxSize, MaxTime

VARIABLES items, now, reply

vars == <<items, now, reply>>

Returns(v) == [kind |-> "returns", value |-> v]
Throws(e) == [kind |-> "throws", value |-> e]

Init ==
  /\ items = EmptyCache
  /\ now = 0
  /\ reply = Returns("void")

HasRoomFor(k) == k \in DOMAIN items \/ ItemsCount(items) < MaxSize

(* Storing with a lifetime of zero leaves nothing behind, old item included. *)
Stored(k, v, ttl) ==
  IF ttl > 0
  THEN Put(items, k, [value |-> v, expiresAt |-> now + ttl])
  ELSE Delete(items, k)

SetOk(k, v, ttl) ==
  /\ HasRoomFor(k)
  /\ items' = Stored(k, v, ttl)
  /\ reply' = Returns("void")
  /\ UNCHANGED now

SetFull(k) ==
  /\ ~HasRoomFor(k)
  /\ reply' = Throws("cache is full")
  /\ UNCHANGED <<items, now>>

SetNull ==
  /\ reply' = Throws("null value")
  /\ UNCHANGED <<items, now>>

Get(k) ==
  /\ reply' = Returns(IF k \in DOMAIN items THEN items[k].value ELSE "null")
  /\ UNCHANGED <<items, now>>

Exists(k) ==
  /\ reply' = Returns(IF k \in DOMAIN items THEN "true" ELSE "false")
  /\ UNCHANGED <<items, now>>

RemoveItem(k) ==
  /\ items' = Delete(items, k)
  /\ reply' = Returns("void")
  /\ UNCHANGED now

Clear ==
  /\ items' = EmptyCache
  /\ reply' = Returns("void")
  /\ UNCHANGED now

Tick ==
  /\ now < MaxTime
  /\ now' = now + 1
  /\ items' = Clean(items, now')
  /\ UNCHANGED reply

Next ==
  \/ \E k \in Keys, v \in Values, ttl \in TTLs : SetOk(k, v, ttl)
  \/ \E k \in Keys : SetFull(k) \/ Get(k) \/ Exists(k) \/ RemoveItem(k)
  \/ SetNull \/ Clear \/ Tick

Spec == Init /\ [][Next]_vars
=============================================================================
