------------------------- MODULE InMemoryCacheProofs -------------------------
(* Theorems about InMemoryCache for every set of keys and values, every    *)
(* collection of lifetimes and every maximum size.                         *)
EXTENDS InMemoryCache, FiniteSetTheorems, TLAPS

IInv == TypeOK /\ CapacityBound

Item == CacheItem(Values, Nat)

(* Keeping some of the keys keeps a well-typed map well typed and bounded. *)
LEMMA RestrictSafe ==
  ASSUME NEW c, NEW S, S \subseteq DOMAIN c,
         DOMAIN c \subseteq Keys, c \in [DOMAIN c -> Item],
         IsFiniteSet(DOMAIN c), ItemsCount(c) <= MaxSize
  PROVE  /\ DOMAIN Restrict(c, S) = S
         /\ S \subseteq Keys
         /\ Restrict(c, S) \in [S -> Item]
         /\ IsFiniteSet(S)
         /\ ItemsCount(Restrict(c, S)) <= MaxSize
<1>1. DOMAIN Restrict(c, S) = S /\ Restrict(c, S) \in [S -> Item]
  BY DEF Restrict
<1>2. IsFiniteSet(S) /\ Cardinality(S) <= Cardinality(DOMAIN c)
  BY FS_Subset
<1>3. Cardinality(S) \in Nat /\ Cardinality(DOMAIN c) \in Nat
  BY <1>2, FS_CardinalityType
<1>. QED  BY <1>1, <1>2, <1>3, MaxSizeAssumption DEF ItemsCount

(* `set` leaves a well-typed map no larger than maxSize. *)
LEMMA SetItemSafe ==
  ASSUME NEW c, NEW k \in Keys, NEW v \in Values, NEW ttl \in Nat, NEW t \in Nat,
         DOMAIN c \subseteq Keys, c \in [DOMAIN c -> Item],
         IsFiniteSet(DOMAIN c), ItemsCount(c) <= MaxSize
  PROVE  LET d == SetItem(c, k, v, ttl, t, MaxSize)
         IN  /\ DOMAIN d \subseteq Keys
             /\ d \in [DOMAIN d -> Item]
             /\ IsFiniteSet(DOMAIN d)
             /\ ItemsCount(d) <= MaxSize
<1>. DEFINE r == MakeRoom(c, k, t, MaxSize)
<1>1. Live(c, t) \subseteq DOMAIN c
  BY DEF Live
<1>2. /\ DOMAIN r \subseteq Keys
      /\ r \in [DOMAIN r -> Item]
      /\ IsFiniteSet(DOMAIN r)
      /\ ItemsCount(r) <= MaxSize
  BY <1>1, RestrictSafe DEF MakeRoom, Clean
<1>3. ItemsCount(r) \in Nat
  BY <1>2, FS_CardinalityType DEF ItemsCount
<1>4. CASE IsFull(r, k, MaxSize)
  BY <1>2, <1>4 DEF SetItem
<1>5. CASE ~IsFull(r, k, MaxSize)
  <2>. DEFINE i == [value |-> v, expiresAt |-> t + ttl]
              d == Put(r, k, i)
  <2>1. SetItem(c, k, v, ttl, t, MaxSize) = d
    BY <1>5 DEF SetItem
  <2>2. i \in Item
    BY DEF Item, CacheItem
  <2>3. DOMAIN d = DOMAIN r \cup {k} /\ d \in [DOMAIN d -> Item]
    BY <1>2, <2>2 DEF Put
  <2>4. /\ IsFiniteSet(DOMAIN d)
        /\ Cardinality(DOMAIN d) = IF k \in DOMAIN r THEN Cardinality(DOMAIN r)
                                   ELSE Cardinality(DOMAIN r) + 1
    BY <1>2, <2>3, FS_AddElement
  <2>5. ItemsCount(d) <= MaxSize
    BY <1>2, <1>3, <1>5, <2>4, MaxSizeAssumption DEF IsFull, ItemsCount
  <2>. QED  BY <1>2, <2>1, <2>3, <2>4, <2>5
<1>. QED  BY <1>4, <1>5

LEMMA InitIInv == Init => IInv
<1>. SUFFICES ASSUME Init PROVE IInv
  OBVIOUS
<1>1. DOMAIN cache = {} /\ now = 0
  BY DEF Init, EmptyCache
<1>2. cache \in [DOMAIN cache -> Item]
  BY <1>1 DEF Init, EmptyCache
<1>3. IsFiniteSet(DOMAIN cache) /\ ItemsCount(cache) = 0
  BY <1>1, FS_EmptySet DEF ItemsCount
<1>. QED
  BY <1>1, <1>2, <1>3, MaxSizeAssumption, MaxTimeAssumption
     DEF IInv, TypeOK, CapacityBound, Item

LEMMA NextIInv == IInv /\ [Next]_vars => IInv'
<1>. SUFFICES ASSUME IInv, [Next]_vars PROVE IInv'
  OBVIOUS
<1>. USE DEF IInv, TypeOK, CapacityBound
<1>0. now \in Nat /\ Item = CacheItem(Values, Nat)
  BY MaxTimeAssumption DEF Item
<1>1. ASSUME NEW S, S \subseteq DOMAIN cache, cache' = Restrict(cache, S), UNCHANGED now
      PROVE  IInv'
  BY <1>0, <1>1, RestrictSafe
<1>2. CASE SetNull
  BY <1>2 DEF SetNull
<1>3. ASSUME NEW k \in Keys, NEW v \in Values, NEW ttl \in TTLs, Set(k, v, ttl)
      PROVE  IInv'
  BY <1>0, <1>3, SetItemSafe, TTLsAssumption DEF Set
<1>4. ASSUME NEW k \in Keys, cache' = Purge(cache, k, now), UNCHANGED now
      PROVE  IInv'
  BY <1>1, <1>4 DEF Purge, Delete
<1>5. ASSUME NEW k \in Keys, Get(k) \/ Exists(k)
      PROVE  IInv'
  BY <1>4, <1>5 DEF Get, Exists
<1>6. ASSUME NEW k \in Keys, RemoveItem(k)
      PROVE  IInv'
  BY <1>1, <1>6 DEF RemoveItem, Delete
<1>7. CASE Clear
  <2>1. DOMAIN cache' = {} /\ cache' \in [DOMAIN cache' -> Item] /\ now' = now
    BY <1>7 DEF Clear, EmptyCache
  <2>2. IsFiniteSet(DOMAIN cache') /\ ItemsCount(cache') = 0
    BY <2>1, FS_EmptySet DEF ItemsCount
  <2>. QED  BY <1>0, <2>1, <2>2, MaxSizeAssumption
<1>8. CASE Tick
  BY <1>0, <1>8, MaxTimeAssumption DEF Tick
<1>9. CASE UNCHANGED vars
  BY <1>9 DEF vars
<1>. QED
  BY <1>2, <1>3, <1>5, <1>6, <1>7, <1>8, <1>9 DEF Next

LEMMA Inductive == Spec => []IInv
  BY InitIInv, NextIInv, PTL DEF Spec

(* The map always holds items of known keys with natural time stamps.      *)
THEOREM TypeCorrect == Spec => []TypeOK
<1>1. IInv => TypeOK
  BY DEF IInv
<1>. QED  BY <1>1, Inductive, PTL

(* InMemoryCache never holds more than maxSize items, expired ones         *)
(* included, whatever the order of calls and expiries.                     *)
THEOREM Bounded == Spec => []CapacityBound
<1>1. IInv => CapacityBound
  BY DEF IInv
<1>. QED  BY <1>1, Inductive, PTL

-----------------------------------------------------------------------------
(* The refinement: how each helper looks through Clean. *)

(* What a clean map is made of. *)
LEMMA CleanShape ==
  ASSUME NEW c, NEW t
  PROVE  /\ Live(c, t) \subseteq DOMAIN c
         /\ DOMAIN Clean(c, t) = Live(c, t)
         /\ \A k \in Live(c, t) : Clean(c, t)[k] = c[k]
         /\ Clean(c, t) = [k \in Live(c, t) |-> c[k]]
BY DEF Clean, Restrict, Live

(* Cleaning later subsumes cleaning now. *)
LEMMA CleanClean ==
  ASSUME NEW c, c \in [DOMAIN c -> Item], NEW t \in Nat, NEW u \in Nat, t <= u
  PROVE  Clean(Clean(c, t), u) = Clean(c, u)
<1>. DEFINE d == Clean(c, t)
<1>1. DOMAIN d = Live(c, t) /\ \A k \in DOMAIN d : d[k] = c[k]
  BY CleanShape
<1>2. \A k \in DOMAIN c : c[k].expiresAt \in Nat
  BY DEF Item, CacheItem
<1>3. Live(d, u) = Live(c, u)
  BY <1>1, <1>2 DEF Live, IsCacheItemValid
<1>4. \A k \in Live(c, u) : d[k] = c[k]
  BY <1>1, <1>3 DEF Live
<1>. QED  BY <1>3, <1>4 DEF Clean, Restrict

LEMMA CleanDelete ==
  ASSUME NEW c, NEW k, NEW t
  PROVE  Clean(Delete(c, k), t) = Delete(Clean(c, t), k)
<1>1. DOMAIN Delete(c, k) = DOMAIN c \ {k} /\ \A x \in DOMAIN c \ {k} : Delete(c, k)[x] = c[x]
  BY DEF Delete, Restrict
<1>2. Live(Delete(c, k), t) = Live(c, t) \ {k}
  BY <1>1 DEF Live
<1>3. Clean(Delete(c, k), t) = [x \in Live(c, t) \ {k} |-> c[x]]
  BY <1>1, <1>2, CleanShape
<1>4. Delete(Clean(c, t), k) = [x \in Live(c, t) \ {k} |-> c[x]]
  BY CleanShape DEF Delete, Restrict
<1>. QED  BY <1>3, <1>4

LEMMA CleanPurge ==
  ASSUME NEW c, NEW k, NEW t
  PROVE  Clean(Purge(c, k, t), t) = Clean(c, t)
<1>1. CASE k \in DOMAIN c \ Live(c, t)
  <2>1. Clean(Purge(c, k, t), t) = Delete(Clean(c, t), k)
    BY <1>1, CleanDelete DEF Purge
  <2>2. Delete(Clean(c, t), k) = [x \in Live(c, t) \ {k} |-> c[x]]
    BY CleanShape DEF Delete, Restrict
  <2>3. Live(c, t) \ {k} = Live(c, t)
    BY <1>1
  <2>. QED  BY <2>1, <2>2, <2>3, CleanShape
<1>2. CASE k \notin DOMAIN c \ Live(c, t)
  BY <1>2 DEF Purge
<1>. QED  BY <1>1, <1>2

(* Storing an item with some lifetime left shows; storing one without any  *)
(* only removes the old item.                                              *)
LEMMA CleanPut ==
  ASSUME NEW c, NEW k, NEW v, NEW t \in Nat, NEW ttl \in Nat
  PROVE  LET i == [value |-> v, expiresAt |-> t + ttl]
         IN  Clean(Put(c, k, i), t)
               = IF ttl > 0 THEN Put(Clean(c, t), k, i) ELSE Delete(Clean(c, t), k)
<1>. DEFINE i == [value |-> v, expiresAt |-> t + ttl]
            d == Put(c, k, i)
<1>1. DOMAIN d = DOMAIN c \cup {k} /\ \A x \in DOMAIN d : d[x] = IF x = k THEN i ELSE c[x]
  BY DEF Put
<1>2. CASE ttl > 0
  <2>1. IsCacheItemValid(i, t)
    BY <1>2 DEF IsCacheItemValid
  <2>2. Live(d, t) = Live(c, t) \cup {k}
    BY <1>1, <2>1 DEF Live
  <2>3. Clean(d, t) = [x \in Live(c, t) \cup {k} |-> IF x = k THEN i ELSE c[x]]
    <3>1. \A x \in Live(c, t) \cup {k} : d[x] = IF x = k THEN i ELSE c[x]
      BY <1>1 DEF Live
    <3>2. Clean(d, t) = [x \in Live(d, t) |-> d[x]]
      BY CleanShape
    <3>. HIDE DEF d, i
    <3>. QED  BY <2>2, <3>1, <3>2
  <2>4. Put(Clean(c, t), k, i) = [x \in Live(c, t) \cup {k} |-> IF x = k THEN i ELSE c[x]]
    BY CleanShape DEF Put
  <2>. QED  BY <1>2, <2>3, <2>4
<1>3. CASE ~(ttl > 0)
  <2>1. ~IsCacheItemValid(i, t)
    BY <1>3 DEF IsCacheItemValid
  <2>2. Live(d, t) = Live(c, t) \ {k}
    BY <1>1, <2>1 DEF Live
  <2>3. Clean(d, t) = [x \in Live(c, t) \ {k} |-> c[x]]
    <3>1. \A x \in Live(c, t) \ {k} : d[x] = c[x]
      BY <1>1 DEF Live
    <3>2. Clean(d, t) = [x \in Live(d, t) |-> d[x]]
      BY CleanShape
    <3>. HIDE DEF d, i
    <3>. QED  BY <2>2, <3>1, <3>2
  <2>4. Delete(Clean(c, t), k) = [x \in Live(c, t) \ {k} |-> c[x]]
    BY CleanShape DEF Delete, Restrict
  <2>. QED  BY <1>3, <2>3, <2>4
<1>. QED  BY <1>2, <1>3

(* `set` is refused exactly when MaxSize items of other keys are live: this *)
(* is where the bound on the whole map is needed.                           *)
LEMMA RefusedWhenLiveIsFull ==
  ASSUME IInv, NEW k \in Keys
  PROVE  Refused(cache, k, now, MaxSize)
           <=> k \notin Live(cache, now) /\ ~(Cardinality(Live(cache, now)) < MaxSize)
<1>. DEFINE L == Live(cache, now)
            N == Cardinality(DOMAIN cache)
<1>1. L \subseteq DOMAIN cache /\ IsFiniteSet(DOMAIN cache) /\ N <= MaxSize
  BY DEF Live, IInv, CapacityBound, ItemsCount
<1>2. Cardinality(L) <= N /\ Cardinality(L) \in Nat /\ N \in Nat
  BY <1>1, FS_Subset, FS_CardinalityType
<1>3. CASE k \in L
  BY <1>1, <1>3 DEF Refused, MakeRoom, IsFull
<1>4. CASE k \in DOMAIN cache \ L
  <2>1. L \subseteq DOMAIN cache \ {k}
    BY <1>1, <1>4
  <2>2. IsFiniteSet(DOMAIN cache \ {k}) /\ Cardinality(DOMAIN cache \ {k}) = N - 1
    BY <1>1, <1>4, FS_RemoveElement
  <2>3. Cardinality(L) <= N - 1
    BY <2>1, <2>2, FS_Subset
  <2>. QED  BY <1>1, <1>2, <1>4, <2>3, MaxSizeAssumption DEF Refused, MakeRoom, IsFull
<1>5. CASE k \notin DOMAIN cache /\ N < MaxSize
  BY <1>1, <1>2, <1>5, MaxSizeAssumption DEF Refused, MakeRoom, IsFull, ItemsCount
<1>6. CASE k \notin DOMAIN cache /\ ~(N < MaxSize)
  <2>1. MakeRoom(cache, k, now, MaxSize) = Clean(cache, now)
    BY <1>2, <1>6, MaxSizeAssumption DEF MakeRoom, IsFull, ItemsCount
  <2>. QED  BY <1>1, <1>2, <1>6, <2>1, CleanShape, MaxSizeAssumption
            DEF Refused, IsFull, ItemsCount
<1>. QED  BY <1>3, <1>4, <1>5, <1>6

(* What `set` does to the live items. *)
LEMMA CleanSetItem ==
  ASSUME IInv, NEW k \in Keys, NEW v, NEW ttl \in Nat
  PROVE  LET i == [value |-> v, expiresAt |-> now + ttl]
         IN  Clean(SetItem(cache, k, v, ttl, now, MaxSize), now)
               = IF Refused(cache, k, now, MaxSize) THEN Clean(cache, now)
                 ELSE IF ttl > 0 THEN Put(Clean(cache, now), k, i)
                 ELSE Delete(Clean(cache, now), k)
<1>. DEFINE r == MakeRoom(cache, k, now, MaxSize)
<1>1. now \in Nat /\ cache \in [DOMAIN cache -> Item]
  BY MaxTimeAssumption DEF IInv, TypeOK, Item
<1>2. Clean(r, now) = Clean(cache, now)
  BY <1>1, CleanClean DEF MakeRoom
<1>3. CASE Refused(cache, k, now, MaxSize)
  <2>1. SetItem(cache, k, v, ttl, now, MaxSize) = r
    BY <1>3 DEF Refused, SetItem
  <2>. QED  BY <1>2, <1>3, <2>1
<1>4. CASE ~Refused(cache, k, now, MaxSize)
  <2>1. SetItem(cache, k, v, ttl, now, MaxSize)
          = Put(r, k, [value |-> v, expiresAt |-> now + ttl])
    BY <1>4 DEF Refused, SetItem
  <2>2. Clean(Put(r, k, [value |-> v, expiresAt |-> now + ttl]), now)
          = IF ttl > 0 THEN Put(Clean(r, now), k, [value |-> v, expiresAt |-> now + ttl])
            ELSE Delete(Clean(r, now), k)
    <3>. HIDE DEF r
    <3>. QED  BY <1>1, CleanPut
  <2>. HIDE DEF r
  <2>. QED  BY <1>2, <1>4, <2>1, <2>2
<1>. QED  BY <1>3, <1>4

(* The abstract module's copy of Cardinality is Cardinality. *)
LEMMA SameCount == \A c : Abstract!ItemsCount(c) = Cardinality(DOMAIN c)
BY DEF Abstract!ItemsCount, Abstract!Cardinality, Cardinality

LEMMA InitRefines == Init => Abstract!Init
<1>. SUFFICES ASSUME Init PROVE Abstract!Init
  OBVIOUS
<1>1. Live(cache, now) = {}
  BY DEF Init, EmptyCache, Live
<1>2. Clean(cache, now) = EmptyCache
  BY <1>1, CleanShape DEF EmptyCache
<1>. QED
  BY <1>2 DEF Init, Abstract!Init, Abstract!EmptyCache, EmptyCache, Returns, Abstract!Returns

LEMMA NextRefines == IInv /\ [Next]_vars => [Abstract!Next]_(Abstract!vars)
<1>. SUFFICES ASSUME IInv, [Next]_vars
              PROVE  Abstract!Next \/ UNCHANGED Abstract!vars
  OBVIOUS
<1>. DEFINE items == Clean(cache, now)
<1>0. /\ now \in Nat
      /\ cache \in [DOMAIN cache -> Item]
      /\ DOMAIN items = Live(cache, now)
      /\ \A k \in Live(cache, now) : items[k] = cache[k]
  BY CleanShape, MaxTimeAssumption DEF IInv, TypeOK, Item
<1>1. CASE SetNull
  <2>1. Abstract!SetNull
    BY <1>1 DEF SetNull, Abstract!SetNull, Throws, Abstract!Throws
  <2>. QED  BY <2>1 DEF Abstract!Next
<1>2. ASSUME NEW k \in Keys, NEW v \in Values, NEW ttl \in TTLs, Set(k, v, ttl)
      PROVE  Abstract!Next
  <2>. ttl \in Nat /\ now' = now
    BY <1>2, TTLsAssumption DEF Set
  <2>1. CASE Refused(cache, k, now, MaxSize)
    <3>1. Clean(cache, now)' = items
      BY <1>2, <2>1, CleanSetItem DEF Set
    <3>2. ~Abstract!HasRoomFor(k)
      BY <1>0, <2>1, RefusedWhenLiveIsFull, SameCount DEF Abstract!HasRoomFor
    <3>3. Abstract!SetFull(k)
      BY <1>2, <2>1, <3>1, <3>2 DEF Set, Abstract!SetFull, Throws, Abstract!Throws
    <3>. QED  BY <3>3 DEF Abstract!Next
  <2>2. CASE ~Refused(cache, k, now, MaxSize)
    <3>1. Clean(cache, now)'
            = IF ttl > 0
              THEN Put(items, k, [value |-> v, expiresAt |-> now + ttl])
              ELSE Delete(items, k)
      BY <1>2, <2>2, CleanSetItem DEF Set
    <3>0. Clean(cache, now)' = Abstract!Stored(k, v, ttl)
      BY <3>1 DEF Abstract!Stored, Put, Abstract!Put, Delete, Abstract!Delete,
                  Restrict, Abstract!Restrict
    <3>2. Abstract!HasRoomFor(k)
      BY <1>0, <2>2, RefusedWhenLiveIsFull, SameCount DEF Abstract!HasRoomFor
    <3>3. Abstract!SetOk(k, v, ttl)
      BY <1>2, <2>2, <3>0, <3>2 DEF Set, Abstract!SetOk, Returns, Abstract!Returns
    <3>. QED  BY <3>3 DEF Abstract!Next
  <2>. QED  BY <2>1, <2>2
<1>3. ASSUME NEW k \in Keys, Get(k)
      PROVE  Abstract!Next
  <2>1. Clean(cache, now)' = items
    BY <1>3, CleanPurge DEF Get
  <2>2. Abstract!Get(k)
    BY <1>0, <1>3, <2>1 DEF Get, Abstract!Get, Returns, Abstract!Returns
  <2>. QED  BY <2>2 DEF Abstract!Next
<1>4. ASSUME NEW k \in Keys, Exists(k)
      PROVE  Abstract!Next
  <2>1. Clean(cache, now)' = items
    BY <1>4, CleanPurge DEF Exists
  <2>2. Abstract!Exists(k)
    BY <1>0, <1>4, <2>1 DEF Exists, Abstract!Exists, Returns, Abstract!Returns
  <2>. QED  BY <2>2 DEF Abstract!Next
<1>5. ASSUME NEW k \in Keys, RemoveItem(k)
      PROVE  Abstract!Next
  <2>1. Clean(cache, now)' = Delete(items, k)
    BY <1>5, CleanDelete DEF RemoveItem
  <2>2. Abstract!RemoveItem(k)
    BY <1>5, <2>1
       DEF RemoveItem, Abstract!RemoveItem, Returns, Abstract!Returns, Delete,
           Abstract!Delete, Restrict, Abstract!Restrict
  <2>. QED  BY <2>2 DEF Abstract!Next
<1>6. CASE Clear
  <2>1. Live(cache', now') = {}
    BY <1>6 DEF Clear, EmptyCache, Live
  <2>2. Clean(cache', now') = Abstract!EmptyCache
    BY <2>1, CleanShape DEF Abstract!EmptyCache
  <2>3. Abstract!Clear
    BY <1>6, <2>2 DEF Clear, Abstract!Clear, Returns, Abstract!Returns
  <2>. QED  BY <2>3 DEF Abstract!Next
<1>7. CASE Tick
  <2>1. Clean(cache, now)' = Clean(items, now')
    BY <1>0, <1>7, CleanClean DEF Tick
  <2>2. Abstract!Tick
    BY <1>7, <2>1
       DEF Tick, Abstract!Tick, Clean, Abstract!Clean, Live, Abstract!Live, Restrict,
           Abstract!Restrict, IsCacheItemValid, Abstract!IsCacheItemValid
  <2>. QED  BY <2>2 DEF Abstract!Next
<1>8. CASE UNCHANGED vars
  BY <1>8 DEF vars, Abstract!vars
<1>. QED
  BY <1>1, <1>2, <1>3, <1>4, <1>5, <1>6, <1>7, <1>8 DEF Next

(* InMemoryCache implements the map whose items vanish as they expire:     *)
(* lazy deletion and the sweep on a full map are invisible to its callers. *)
THEOREM Refinement == Spec => ImplementsTTLMap
BY InitRefines, NextRefines, Inductive, PTL DEF Spec, ImplementsTTLMap, Abstract!Spec
=============================================================================
