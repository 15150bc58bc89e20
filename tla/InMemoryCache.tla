---------------------------- MODULE InMemoryCache ----------------------------
(***************************************************************************)
(* InMemoryCache: a Map of items that expire, filled up to a fixed size.   *)
(* Every method runs to completion without yielding, so each is one step;  *)
(* the clock moves between them.  Expired items stay in the map until a    *)
(* read of their own key or the sweep of a `set` that finds no room meets  *)
(* them.                                                                   *)
(***************************************************************************)
EXTENDS CacheMap

CONSTANTS Keys,      \* cache keys
          Values,    \* storable values: anything but null and undefined
          TTLs,      \* lifetimes callers pass, in clock ticks; 0 is legal
          MaxSize,   \* the constructor's maxSize
          MaxTime    \* bound: the clock stops here

ASSUME TTLsAssumption == TTLs \subseteq Nat
ASSUME MaxSizeAssumption == MaxSize \in Nat
ASSUME MaxTimeAssumption == MaxTime \in Nat

VARIABLES cache,     \* the Map
          now,       \* Date.now()
          reply      \* what the last call returned or threw

vars == <<cache, now, reply>>

Returns(v) == [kind |-> "returns", value |-> v]
Throws(e) == [kind |-> "throws", value |-> e]

Init ==
  /\ cache = EmptyCache
  /\ now = 0
  /\ reply = Returns("void")

(* `set` with null or undefined: nothing is touched. *)
SetNull ==
  /\ reply' = Throws("null value")
  /\ UNCHANGED <<cache, now>>

(* `set`: a new key in a full map first sweeps the expired items out, and  *)
(* the sweep stands even when the call then throws.                        *)
Set(k, v, ttl) ==
  /\ cache' = SetItem(cache, k, v, ttl, now, MaxSize)
  /\ reply' = IF Refused(cache, k, now, MaxSize)
              THEN Throws("cache is full")
              ELSE Returns("void")
  /\ UNCHANGED now

Get(k) ==
  /\ reply' = Returns(IF k \in Live(cache, now) THEN cache[k].value ELSE "null")
  /\ cache' = Purge(cache, k, now)
  /\ UNCHANGED now

Exists(k) ==
  /\ reply' = Returns(IF k \in Live(cache, now) THEN "true" ELSE "false")
  /\ cache' = Purge(cache, k, now)
  /\ UNCHANGED now

RemoveItem(k) ==
  /\ cache' = Delete(cache, k)
  /\ reply' = Returns("void")
  /\ UNCHANGED now

Clear ==
  /\ cache' = EmptyCache
  /\ reply' = Returns("void")
  /\ UNCHANGED now

Tick ==
  /\ now < MaxTime
  /\ now' = now + 1
  /\ UNCHANGED <<cache, reply>>

Next ==
  \/ SetNull
  \/ \E k \in Keys, v \in Values, ttl \in TTLs : Set(k, v, ttl)
  \/ \E k \in Keys : Get(k)
  \/ \E k \in Keys : Exists(k)
  \/ \E k \in Keys : RemoveItem(k)
  \/ Clear
  \/ Tick

Spec == Init /\ [][Next]_vars

-----------------------------------------------------------------------------
(* The map holds items of known keys with a time stamp, the clock is in    *)
(* range.                                                                  *)
TypeOK ==
  /\ now \in 0 .. MaxTime
  /\ DOMAIN cache \subseteq Keys
  /\ cache \in [DOMAIN cache -> CacheItem(Values, Nat)]

(* However calls and expiries interleave, the map never outgrows maxSize,  *)
(* expired items included: the memory bound the constructor is given.      *)
CapacityBound == IsFiniteSet(DOMAIN cache) /\ ItemsCount(cache) <= MaxSize

(* The live part of the map, and every reply, behave as the abstract map   *)
(* whose items vanish when they expire: an expired item is never returned, *)
(* a live one is neither lost nor refused an update, and `set` throws for  *)
(* lack of room exactly when MaxSize other items are live.                 *)
Abstract == INSTANCE TTLMap WITH items <- Clean(cache, now)
ImplementsTTLMap == Abstract!Spec
=============================================================================
