-------------------------- MODULE RateLimiterProofs --------------------------
(* Theorems about RateLimiter for every set of requests and targets, every *)
(* calendar, lifetime, latency and cache size, and about RequestPipeline   *)
(* for every set of HTTP requests.                                         *)
EXTENDS RequestPipeline, FiniteSetTheorems, SequenceTheorems, TLAPS

-----------------------------------------------------------------------------
(* The inductive invariant. *)

RowsBefore(t, start, time) == {row \in RowsSince(t, start) : row.at < time}

(* A count never exceeds what the log now shows for its window, and never  *)
(* misses a row older than its query.                                      *)
CountTrue(v) ==
  \A w \in Windows : v.n[w] # Unsampled =>
    LET start == getUtcBoundaries(v.asked)[w]
    IN  /\ v.n[w] <= Cardinality(RowsSince(v.target, start))
        /\ Cardinality(RowsBefore(v.target, start, v.asked)) <= v.n[w]

Complete(v) == \A w \in Windows : v.n[w] # Unsampled

RuleFor(v, t) == v \in RuleValues /\ v.target = t /\ v.asked <= now
CountFor(v, t) == v \in CountValues /\ v.target = t /\ v.asked <= now /\ CountTrue(v)

(* A value cached under key k belongs to a target that has that key. *)
RuleUnder(k, v) == \E t \in Targets : k = RuleKey(t) /\ RuleFor(v, t)
CountUnder(k, v) == \E t \in Targets : k = CountKey(t) /\ CountFor(v, t) /\ Complete(v)

(* An entry of the cache is of its key's kind and target, and no older     *)
(* than its lifetime allows.                                               *)
EntryOK(k, item) ==
  /\ item = [value |-> item.value, expiresAt |-> item.expiresAt]
  /\ item.expiresAt \in Nat
  /\ item.expiresAt <= item.value.asked + MaxLatency + TTL
  /\ RuleUnder(k, item.value) \/ CountUnder(k, item.value)

CacheOK ==
  /\ ruleCache = [k \in DOMAIN ruleCache |-> ruleCache[k]]
  /\ \A k \in DOMAIN ruleCache : EntryOK(k, ruleCache[k])

(* Asked by the request itself, or cached not too long before it came. *)
FreshFor(v, arrived) ==
  v.asked <= arrived /\ (arrived = v.asked \/ arrived < v.asked + TTL + MaxLatency)

RuleFetchOK(r) ==
  LET f == ruleFetch[r]
      q == request[r]
  IN  /\ f.state # "idle" => q.target \in Targets /\ q.state # "new"
      /\ Outstanding(f) => now <= q.arrived + MaxLatency
      /\ f.state = "answered" /\ f.value # NoRule
           => RuleFor(f.value, q.target) /\ f.value.asked = q.arrived
      /\ f.state = "done" /\ f.value # NoRule
           => RuleUnder(RuleKey(q.target), f.value) /\ FreshFor(f.value, q.arrived)

CountFetchOK(r) ==
  LET f == countFetch[r]
      q == request[r]
  IN  /\ f.state # "answered"
      /\ f.state # "idle" => q.target \in Targets /\ q.state # "new"
      /\ f.state = "asked"
           => /\ now <= q.arrived + MaxLatency
              /\ CountFor(f.value, q.target) /\ f.value.asked = q.arrived
      /\ f.state = "done"
           => CountUnder(CountKey(q.target), f.value) /\ FreshFor(f.value, q.arrived)

VerdictOK(r) ==
  /\ request[r].arrived <= now
  /\ Judged(r) =>
       /\ ruleFetch[r].state = "done" /\ countFetch[r].state = "done"
       /\ ruleFetch[r].value # NoRule
  /\ request[r].reason \in Windows => Exhausted(r, request[r].reason)
  /\ request[r].reason = "within limits" => \A w \in Windows : ~Exhausted(r, w)

IInv ==
  /\ TypeOK
  /\ IsFiniteSet(rows)
  /\ CacheOK
  /\ \A r \in Requests : RuleFetchOK(r) /\ CountFetchOK(r) /\ VerdictOK(r)

-----------------------------------------------------------------------------
(* Keys and maps. *)

LEMMA ConcatHead ==
  ASSUME NEW S, NEW x \in Seq(S), NEW y \in Seq(S), Len(x) >= 1
  PROVE  x \o y \in Seq(S) /\ Len(x \o y) >= 1 /\ (x \o y)[1] = x[1]
OBVIOUS

LEMMA KeyHeads ==
  ASSUME NEW t \in Targets
  PROVE  RuleKey(t)[1] = "rule" /\ CountKey(t)[1] = "count"
<1>. DEFINE S == STRING \cup {"rule", "count", Scope(t)}
            a == <<"rule", Scope(t)>>
            b == <<"count", Scope(t)>>
<1>1. t.path \in Seq(S) /\ t.product \in Seq(S)
  BY TargetAssumption
<1>2. /\ a \in Seq(S) /\ Len(a) >= 1 /\ a[1] = "rule"
      /\ b \in Seq(S) /\ Len(b) >= 1 /\ b[1] = "count"
  OBVIOUS
<1>. HIDE DEF S, a, b
<1>3. /\ a \o t.path \in Seq(S) /\ Len(a \o t.path) >= 1 /\ (a \o t.path)[1] = "rule"
      /\ b \o t.path \in Seq(S) /\ Len(b \o t.path) >= 1 /\ (b \o t.path)[1] = "count"
  BY <1>1, <1>2, ConcatHead
<1>4. ((a \o t.path) \o t.product)[1] = "rule" /\ ((b \o t.path) \o t.product)[1] = "count"
  BY <1>1, <1>3, ConcatHead
<1>. QED  BY <1>4 DEF RuleKey, CountKey, a, b

(* A rule and a count never share a key. *)
LEMMA KindsApart == \A t, u \in Targets : RuleKey(t) # CountKey(u)
BY KeyHeads

(* Dropping entries leaves the others as they were. *)
LEMMA PurgeEntries ==
  ASSUME NEW c, c = [x \in DOMAIN c |-> c[x]], NEW k, NEW t
  PROVE  LET d == Purge(c, k, t)
         IN  /\ d = [x \in DOMAIN d |-> d[x]]
             /\ DOMAIN d \subseteq DOMAIN c
             /\ \A x \in DOMAIN d : d[x] = c[x]
<1>1. CASE k \in DOMAIN c \ Live(c, t)
  BY <1>1 DEF Purge, Delete, Restrict
<1>2. CASE k \notin DOMAIN c \ Live(c, t)
  BY <1>2 DEF Purge
<1>. QED  BY <1>1, <1>2

(* `set` adds at most its own entry. *)
LEMMA SetItemEntries ==
  ASSUME NEW c, c = [x \in DOMAIN c |-> c[x]], NEW k, NEW v, NEW ttl, NEW t
  PROVE  LET d == SetItem(c, k, v, ttl, t, MaxSize)
         IN  /\ d = [x \in DOMAIN d |-> d[x]]
             /\ \A x \in DOMAIN d : \/ x \in DOMAIN c /\ d[x] = c[x]
                                    \/ x = k /\ d[x] = [value |-> v, expiresAt |-> t + ttl]
<1>. DEFINE m == MakeRoom(c, k, t, MaxSize)
            d == SetItem(c, k, v, ttl, t, MaxSize)
<1>1. /\ m = [x \in DOMAIN m |-> m[x]]
      /\ DOMAIN m \subseteq DOMAIN c
      /\ \A x \in DOMAIN m : m[x] = c[x]
  BY DEF MakeRoom, Clean, Live, Restrict
<1>2. CASE IsFull(m, k, MaxSize)
  BY <1>1, <1>2 DEF SetItem
<1>3. CASE ~IsFull(m, k, MaxSize)
  <2>1. d = Put(m, k, [value |-> v, expiresAt |-> t + ttl])
    BY <1>3 DEF SetItem
  <2>2. /\ DOMAIN d = DOMAIN m \cup {k}
        /\ d = [x \in DOMAIN d |-> d[x]]
        /\ \A x \in DOMAIN d :
             d[x] = IF x = k THEN [value |-> v, expiresAt |-> t + ttl] ELSE m[x]
    BY <2>1 DEF Put
  <2>3. /\ d = [x \in DOMAIN d |-> d[x]]
        /\ \A x \in DOMAIN d : \/ x \in DOMAIN c /\ d[x] = c[x]
                               \/ x = k /\ d[x] = [value |-> v, expiresAt |-> t + ttl]
    <3>. HIDE DEF m, d
    <3>. QED  BY <1>1, <2>2
  <2>. QED  BY <2>3
<1>. QED  BY <1>2, <1>3

-----------------------------------------------------------------------------
(* What time and new rows do to values already obtained. *)

LEMMA StepRowsNow ==
  ASSUME TypeOK, [Next]_vars
  PROVE  /\ now \in Nat /\ now' \in Nat /\ now <= now' /\ now \in Times
         /\ \/ UNCHANGED rows
            \/ \E t \in Targets :
                 rows' = rows \cup {[target |-> t, id |-> Cardinality(rows), at |-> now]}
<1>. now \in Nat /\ now \in Times
  BY TimeAssumption DEF TypeOK, Times
<1>1. CASE Tick
  BY <1>1 DEF Tick
<1>2. ASSUME NEW t \in Targets, InsertRow(t)
      PROVE  /\ rows' = rows \cup {[target |-> t, id |-> Cardinality(rows), at |-> now]}
             /\ now' = now
  BY <1>2 DEF InsertRow
<1>3. ASSUME NEW t \in Targets, NEW limits \in Limits \cup {NoRule}, ChangeRule(t, limits)
      PROVE  UNCHANGED <<rows, now>>
  BY <1>3 DEF ChangeRule
<1>4. ASSUME NEW r \in Requests, NEW t \in Targets, Bypass(r, t) \/ Arrive(r, t)
      PROVE  UNCHANGED <<rows, now>>
  BY <1>4 DEF Bypass, Arrive
<1>5. ASSUME NEW r \in Requests,
             \/ Defective(r) \/ AnswerRule(r) \/ FinishRule(r) \/ FailRule(r)
             \/ FinishCount(r) \/ FailCount(r)
      PROVE  UNCHANGED <<rows, now>>
  BY <1>5 DEF Defective, AnswerRule, FinishRule, FailRule, FinishCount, FailCount
<1>6. ASSUME NEW r \in Requests, Decide(r)
      PROVE  UNCHANGED <<rows, now>>
  BY <1>6 DEF Decide, PassError, LimitNoRule, LimitWindow, Admit
<1>7. ASSUME NEW r \in Requests, NEW w \in Windows, AnswerCount(r, w)
      PROVE  UNCHANGED <<rows, now>>
  BY <1>7 DEF AnswerCount
<1>8. CASE resetRateLimiterCache
  BY <1>8 DEF resetRateLimiterCache
<1>9. CASE UNCHANGED vars
  BY <1>9 DEF vars
<1>. QED
  BY <1>1, <1>2, <1>3, <1>4, <1>5, <1>6, <1>7, <1>8, <1>9 DEF Next

LEMMA RowsFinite ==
  ASSUME IsFiniteSet(rows), NEW t, NEW start, NEW time
  PROVE  /\ IsFiniteSet(RowsSince(t, start))
         /\ IsFiniteSet(RowsBefore(t, start, time))
         /\ Cardinality(RowsSince(t, start)) \in Nat
         /\ Cardinality(RowsBefore(t, start, time)) \in Nat
         /\ Cardinality(RowsBefore(t, start, time)) <= Cardinality(RowsSince(t, start))
<1>1. RowsSince(t, start) \subseteq rows /\ RowsBefore(t, start, time) \subseteq RowsSince(t, start)
  BY DEF RowsSince, RowsBefore
<1>2. IsFiniteSet(RowsSince(t, start))
  BY <1>1, FS_Subset
<1>3. /\ IsFiniteSet(RowsBefore(t, start, time))
      /\ Cardinality(RowsBefore(t, start, time)) <= Cardinality(RowsSince(t, start))
  BY <1>1, <1>2, FS_Subset
<1>. QED  BY <1>2, <1>3, FS_CardinalityType

(* The log only grows, and never before the present. *)
LEMMA RowsGrow ==
  ASSUME TypeOK, IsFiniteSet(rows), [Next]_vars,
         NEW t, NEW start, NEW time \in Nat, time <= now
  PROVE  /\ IsFiniteSet(rows')
         /\ Cardinality(RowsSince(t, start)) <= Cardinality(RowsSince(t, start)')
         /\ RowsBefore(t, start, time)' = RowsBefore(t, start, time)
<1>. DEFINE row(u) == [target |-> u, id |-> Cardinality(rows), at |-> now]
<1>0. now \in Nat
  BY StepRowsNow
<1>1. CASE UNCHANGED rows
  <2>1. RowsSince(t, start)' = RowsSince(t, start)
    BY <1>1 DEF RowsSince
  <2>2. RowsBefore(t, start, time)' = RowsBefore(t, start, time)
    BY <1>1 DEF RowsSince, RowsBefore
  <2>3. Cardinality(RowsSince(t, start)) \in Nat
    BY RowsFinite
  <2>. QED  BY <1>1, <2>1, <2>2, <2>3
<1>2. ASSUME NEW u \in Targets, rows' = rows \cup {row(u)}
      PROVE  /\ IsFiniteSet(rows')
             /\ Cardinality(RowsSince(t, start)) <= Cardinality(RowsSince(t, start)')
             /\ RowsBefore(t, start, time)' = RowsBefore(t, start, time)
  <2>1. IsFiniteSet(rows')
    BY <1>2, FS_AddElement
  <2>2. RowsSince(t, start) \subseteq RowsSince(t, start)' /\ RowsSince(t, start)' \subseteq rows'
    BY <1>2 DEF RowsSince
  <2>3. Cardinality(RowsSince(t, start)) <= Cardinality(RowsSince(t, start)')
    BY <2>1, <2>2, FS_Subset
  <2>4. ~(row(u).at < time)
    BY <1>0
  <2>5. RowsBefore(t, start, time)' = RowsBefore(t, start, time)
    BY <1>2, <2>4 DEF RowsSince, RowsBefore
  <2>. QED  BY <2>1, <2>3, <2>5
<1>. QED  BY <1>1, <1>2, StepRowsNow

(* Rules and counts once obtained stay true. *)
LEMMA ValuesStay ==
  ASSUME TypeOK, IsFiniteSet(rows), [Next]_vars
  PROVE  /\ \A v, t : RuleFor(v, t) => RuleFor(v, t)'
         /\ \A v, t : CountFor(v, t) => CountFor(v, t)'
         /\ \A k, v : RuleUnder(k, v) => RuleUnder(k, v)'
         /\ \A k, v : CountUnder(k, v) => CountUnder(k, v)'
         /\ \A k, item : EntryOK(k, item) => EntryOK(k, item)'
<1>0. now \in Nat /\ now' \in Nat /\ now <= now'
  BY StepRowsNow
<1>1. ASSUME NEW v, NEW t, RuleFor(v, t)
      PROVE  RuleFor(v, t)'
  <2>1. v.asked \in Nat
    BY <1>1, TimeAssumption DEF RuleFor, RuleValues, Times
  <2>. QED  BY <1>0, <1>1, <2>1 DEF RuleFor
<1>2. ASSUME NEW v, NEW t, CountFor(v, t)
      PROVE  CountFor(v, t)'
  <2>1. v \in CountValues /\ v.target = t /\ v.asked \in Nat /\ v.asked <= now
    BY <1>2, TimeAssumption DEF CountFor, CountValues, Times
  <2>2. ASSUME NEW w \in Windows, v.n[w] # Unsampled
        PROVE  LET start == getUtcBoundaries(v.asked)[w]
               IN  /\ v.n[w] <= Cardinality(RowsSince(v.target, start)')
                   /\ Cardinality(RowsBefore(v.target, start, v.asked)') <= v.n[w]
    <3>. DEFINE start == getUtcBoundaries(v.asked)[w]
    <3>1. v.n[w] <= Cardinality(RowsSince(v.target, start))
          /\ Cardinality(RowsBefore(v.target, start, v.asked)) <= v.n[w]
      BY <1>2, <2>2 DEF CountFor, CountTrue
    <3>2. v.n[w] \in Nat
      BY <2>1, <2>2 DEF CountValues, Counts, Unsampled
    <3>. HIDE DEF start
    <3>3. /\ IsFiniteSet(rows')
          /\ Cardinality(RowsSince(v.target, start)) <= Cardinality(RowsSince(v.target, start)')
          /\ RowsBefore(v.target, start, v.asked)' = RowsBefore(v.target, start, v.asked)
      BY <2>1, RowsGrow
    <3>4. Cardinality(RowsSince(v.target, start)) \in Nat
          /\ Cardinality(RowsSince(v.target, start)') \in Nat
      <4>1. Cardinality(RowsSince(v.target, start)) \in Nat
        BY RowsFinite
      <4>2. RowsSince(v.target, start)' \subseteq rows'
        BY DEF RowsSince
      <4>. QED  BY <3>3, <4>1, <4>2, FS_Subset, FS_CardinalityType
    <3>5. v.n[w] <= Cardinality(RowsSince(v.target, start)')
      BY <3>1, <3>2, <3>3, <3>4
    <3>. QED  BY <3>1, <3>3, <3>5 DEF start
  <2>3. CountTrue(v)'
    BY <2>2 DEF CountTrue
  <2>. QED  BY <1>0, <2>1, <2>3 DEF CountFor
<1>3. \A k, v : RuleUnder(k, v) => RuleUnder(k, v)'
  BY <1>1 DEF RuleUnder
<1>4. \A k, v : CountUnder(k, v) => CountUnder(k, v)'
  BY <1>2 DEF CountUnder, Complete
<1>5. \A k, item : EntryOK(k, item) => EntryOK(k, item)'
  BY <1>3, <1>4 DEF EntryOK
<1>. QED  BY <1>1, <1>2, <1>3, <1>4, <1>5

-----------------------------------------------------------------------------
(* What a step leaves alone. *)

LEMMA RowsStayFinite ==
  ASSUME TypeOK, IsFiniteSet(rows), [Next]_vars
  PROVE  IsFiniteSet(rows')
BY StepRowsNow, FS_AddElement

LEMMA CacheStays ==
  ASSUME IInv, [Next]_vars, UNCHANGED ruleCache
  PROVE  CacheOK'
BY ValuesStay DEF IInv, CacheOK

(* A fetch nobody touched, while the clock stands still. *)
LEMMA RuleFetchStays ==
  ASSUME IInv, [Next]_vars, now' = now, NEW r \in Requests,
         ruleFetch'[r] = ruleFetch[r],
         request'[r].target = request[r].target, request'[r].arrived = request[r].arrived,
         request'[r].state # "new"
  PROVE  RuleFetchOK(r)'
<1>1. RuleFetchOK(r)
  BY DEF IInv
<1>. QED  BY <1>1, ValuesStay DEF IInv, RuleFetchOK, FreshFor

LEMMA CountFetchStays ==
  ASSUME IInv, [Next]_vars, now' = now, NEW r \in Requests,
         countFetch'[r] = countFetch[r],
         request'[r].target = request[r].target, request'[r].arrived = request[r].arrived,
         request'[r].state # "new"
  PROVE  CountFetchOK(r)'
<1>1. CountFetchOK(r)
  BY DEF IInv
<1>. QED  BY <1>1, ValuesStay DEF IInv, CountFetchOK, FreshFor

(* A verdict stands whatever the fetches of others do. *)
LEMMA VerdictStays ==
  ASSUME IInv, [Next]_vars, NEW r \in Requests,
         request'[r] = request[r],
         ruleFetch[r].state = "done" => ruleFetch'[r] = ruleFetch[r],
         countFetch[r].state = "done" => countFetch'[r] = countFetch[r]
  PROVE  VerdictOK(r)'
<1>1. VerdictOK(r) /\ request[r].arrived \in Nat
  BY TimeAssumption DEF IInv, TypeOK, Times
<1>2. now \in Nat /\ now' \in Nat /\ now <= now'
  BY StepRowsNow DEF IInv
<1>3. request'[r].arrived <= now'
  <2>1. request[r].arrived <= now
    BY <1>1 DEF VerdictOK
  <2>. QED  BY <1>1, <1>2, <2>1
<1>4. Judged(r)' = Judged(r)
  BY DEF Judged
<1>5. CASE Judged(r)
  <2>1. ruleFetch'[r] = ruleFetch[r] /\ countFetch'[r] = countFetch[r]
    BY <1>1, <1>5 DEF VerdictOK
  <2>2. \A w \in Windows : Exhausted(r, w)' = Exhausted(r, w)
    BY <2>1 DEF Exhausted
  <2>. QED  BY <1>1, <1>3, <1>4, <2>1, <2>2 DEF VerdictOK
<1>6. CASE ~Judged(r)
  <2>1. request[r].reason \notin Windows /\ request[r].reason # "within limits"
    BY <1>6 DEF Judged
  <2>. QED  BY <1>3, <1>4, <1>6, <2>1 DEF VerdictOK
<1>. QED  BY <1>5, <1>6

(* A request no step is about. *)
LEMMA OthersStay ==
  ASSUME IInv, [Next]_vars, now' = now, NEW r \in Requests,
         request'[r] = request[r], ruleFetch'[r] = ruleFetch[r],
         countFetch'[r] = countFetch[r]
  PROVE  RuleFetchOK(r)' /\ CountFetchOK(r)' /\ VerdictOK(r)'
<1>1. CASE request[r].state = "new"
  BY <1>1, VerdictStays DEF IInv, RuleFetchOK, CountFetchOK, Outstanding
<1>2. CASE request[r].state # "new"
  BY <1>2, RuleFetchStays, CountFetchStays, VerdictStays
<1>. QED  BY <1>1, <1>2

-----------------------------------------------------------------------------
(* Every step keeps the invariant. *)

LEMMA InitIInv == Init => IInv
<1>. SUFFICES ASSUME Init PROVE IInv
  OBVIOUS
<1>1. TypeOK
  <2>1. 0 \in Times
    BY TimeAssumption DEF Times
  <2>. QED  BY <2>1 DEF Init, TypeOK, EmptyCache, Fetch, FetchStates, Reasons
<1>2. IsFiniteSet(rows)
  BY FS_EmptySet DEF Init
<1>3. CacheOK
  BY DEF Init, CacheOK, EmptyCache
<1>4. ASSUME NEW r \in Requests
      PROVE  RuleFetchOK(r) /\ CountFetchOK(r) /\ VerdictOK(r)
  <2>1. request[r].reason = "none" /\ request[r].arrived = 0 /\ now = 0
        /\ ruleFetch[r].state = "idle" /\ countFetch[r].state = "idle"
    BY DEF Init, Fetch
  <2>2. "none" \notin Windows
    BY WindowAssumption DEF Reasons
  <2>. QED  BY <2>1, <2>2 DEF RuleFetchOK, CountFetchOK, VerdictOK, Judged, Outstanding
<1>. QED  BY <1>1, <1>2, <1>3, <1>4 DEF IInv

(* The steps that only answer a request, or let it pass unexamined. *)
LEMMA BypassKeeps ==
  ASSUME IInv, NEW r \in Requests, NEW t \in Targets, Bypass(r, t)
  PROVE  IInv'
<1>1. [Next]_vars
  BY DEF Next
<1>2. TypeOK'
  <2>. DEFINE Calls == [state : {"new", "checking", "next", "429", "error"},
                        target : Targets \cup {NoValue}, arrived : Times,
                        reason : Reasons \cup Windows]
  <2>1. request \in [Requests -> Calls] /\ now \in Times
    BY DEF IInv, TypeOK
  <2>2. request' \in [Requests -> Calls]
    BY <2>1 DEF Bypass, Reasons
  <2>. QED  BY <2>2 DEF IInv, TypeOK, Bypass
<1>3. IsFiniteSet(rows')
  BY <1>1, RowsStayFinite DEF IInv
<1>4. CacheOK'
  BY <1>1, CacheStays DEF Bypass
<1>5. ASSUME NEW p \in Requests, p # r
      PROVE  RuleFetchOK(p)' /\ CountFetchOK(p)' /\ VerdictOK(p)'
  BY <1>1, <1>5, OthersStay DEF Bypass, IInv, TypeOK
<1>6. RuleFetchOK(r)' /\ CountFetchOK(r)' /\ VerdictOK(r)'
  <2>1. ruleFetch'[r].state = "idle" /\ countFetch'[r].state = "idle"
    BY DEF IInv, TypeOK, RuleFetchOK, CountFetchOK, Bypass
  <2>2. request'[r].arrived = now' /\ request'[r].reason = "whitelisted" /\ now' \in Nat
    BY TimeAssumption DEF IInv, TypeOK, Bypass, Times
  <2>3. "whitelisted" \notin Windows
    BY WindowAssumption DEF Reasons
  <2>. QED  BY <2>1, <2>2, <2>3 DEF RuleFetchOK, CountFetchOK, VerdictOK, Judged, Outstanding
<1>. QED  BY <1>2, <1>3, <1>4, <1>5, <1>6 DEF IInv

LEMMA DefectiveKeeps ==
  ASSUME IInv, NEW r \in Requests, Defective(r)
  PROVE  IInv'
<1>1. [Next]_vars
  BY DEF Next
<1>2. TypeOK'
  <2>. DEFINE Calls == [state : {"new", "checking", "next", "429", "error"},
                        target : Targets \cup {NoValue}, arrived : Times,
                        reason : Reasons \cup Windows]
  <2>1. request \in [Requests -> Calls] /\ now \in Times
    BY DEF IInv, TypeOK
  <2>2. request' \in [Requests -> Calls]
    BY <2>1 DEF Defective, Answer, Reasons
  <2>. QED  BY <2>2 DEF IInv, TypeOK, Defective
<1>3. IsFiniteSet(rows')
  BY <1>1, RowsStayFinite DEF IInv
<1>4. CacheOK'
  BY <1>1, CacheStays DEF Defective
<1>5. ASSUME NEW p \in Requests, p # r
      PROVE  RuleFetchOK(p)' /\ CountFetchOK(p)' /\ VerdictOK(p)'
  BY <1>1, <1>5, OthersStay DEF Defective, Answer, IInv, TypeOK
<1>6. RuleFetchOK(r)' /\ CountFetchOK(r)' /\ VerdictOK(r)'
  <2>1. ruleFetch'[r].state = "idle" /\ countFetch'[r].state = "idle"
    BY DEF IInv, TypeOK, RuleFetchOK, CountFetchOK, Defective
  <2>2. request'[r].arrived <= now' /\ request'[r].reason = "bad request"
    BY DEF IInv, TypeOK, VerdictOK, Defective, Answer
  <2>3. "bad request" \notin Windows
    BY WindowAssumption DEF Reasons
  <2>. QED  BY <2>1, <2>2, <2>3 DEF RuleFetchOK, CountFetchOK, VerdictOK, Judged, Outstanding
<1>. QED  BY <1>2, <1>3, <1>4, <1>5, <1>6 DEF IInv

(* The verdicts are exactly what Decide computes from two finished fetches. *)
LEMMA DecideKeeps ==
  ASSUME IInv, NEW r \in Requests, Decide(r)
  PROVE  IInv'
<1>0. PICK state \in {"next", "429", "error"}, reason \in Reasons \cup Windows :
        /\ request[r].state = "checking"
        /\ Answer(r, state, reason)
        /\ UNCHANGED <<ruleCache, now, rules, rows, ruleFetch, countFetch>>
        /\ reason \in {"within limits"} \cup Windows
             => BothDone(r) /\ ruleFetch[r].value # NoRule
        /\ reason \in Windows => Exhausted(r, reason)
        /\ reason = "within limits" => \A w \in Windows : ~Exhausted(r, w)
  <2>0. Windows \cap Reasons = {}
    BY WindowAssumption
  <2>1. CASE PassError(r)
    BY <2>0, <2>1 DEF PassError, Rejected, Reasons
  <2>2. CASE LimitNoRule(r)
    <3>1. Answer(r, "429", "no rule") /\ request[r].state = "checking"
          /\ UNCHANGED <<ruleCache, now, rules, rows, ruleFetch, countFetch>>
      BY <2>2 DEF LimitNoRule, BothDone
    <3>2. "no rule" \in Reasons /\ "no rule" \notin Windows
      BY <2>0 DEF Reasons
    <3>3. "no rule" \notin {"within limits"} \cup Windows /\ "no rule" # "within limits"
      BY <3>2
    <3>. QED  BY <3>1, <3>2, <3>3
  <2>3. CASE LimitWindow(r)
    <3>1. PICK i \in DOMAIN WindowOrder :
            Exhausted(r, WindowOrder[i]) /\ Answer(r, "429", WindowOrder[i])
      BY <2>3 DEF LimitWindow
    <3>2. WindowOrder[i] \in Windows
      BY <3>1 DEF Windows
    <3>. QED  BY <2>0, <2>3, <3>1, <3>2 DEF LimitWindow, BothDone, Reasons
  <2>4. CASE Admit(r)
    BY <2>0, <2>4 DEF Admit, BothDone, Reasons
  <2>. QED  BY <2>1, <2>2, <2>3, <2>4 DEF Decide
<1>1. [Next]_vars
  BY DEF Next
<1>2. TypeOK'
  <2>. DEFINE Calls == [state : {"new", "checking", "next", "429", "error"},
                        target : Targets \cup {NoValue}, arrived : Times,
                        reason : Reasons \cup Windows]
  <2>1. request \in [Requests -> Calls] /\ now \in Times
    BY DEF IInv, TypeOK
  <2>2. request' \in [Requests -> Calls]
    BY <1>0, <2>1 DEF Answer
  <2>. QED  BY <1>0, <2>2 DEF IInv, TypeOK
<1>3. IsFiniteSet(rows')
  BY <1>1, RowsStayFinite DEF IInv
<1>4. CacheOK'
  BY <1>0, <1>1, CacheStays
<1>5. ASSUME NEW p \in Requests, p # r
      PROVE  RuleFetchOK(p)' /\ CountFetchOK(p)' /\ VerdictOK(p)'
  BY <1>0, <1>1, <1>5, OthersStay DEF Answer, IInv, TypeOK
<1>6. /\ request'[r].target = request[r].target /\ request'[r].arrived = request[r].arrived
      /\ request'[r].state = state /\ request'[r].reason = reason
  BY <1>0 DEF IInv, TypeOK, Answer
<1>7. RuleFetchOK(r)' /\ CountFetchOK(r)'
  BY <1>0, <1>1, <1>6, RuleFetchStays, CountFetchStays
<1>8. VerdictOK(r)'
  <2>1. request'[r].arrived <= now'
    BY <1>0, <1>6 DEF IInv, VerdictOK
  <2>2. \A w \in Windows : Exhausted(r, w)' = Exhausted(r, w)
    BY <1>0 DEF Exhausted
  <2>. QED  BY <1>0, <1>6, <2>1, <2>2 DEF VerdictOK, Judged, BothDone
<1>. QED  BY <1>2, <1>3, <1>4, <1>5, <1>7, <1>8 DEF IInv

(* Storing a young enough value keeps the cache sound. *)
LEMMA SetKeepsCache ==
  ASSUME IInv, [Next]_vars, NEW k \in CacheKeys, NEW v \in RuleValues \cup CountValues,
         RuleUnder(k, v) \/ CountUnder(k, v), now <= v.asked + MaxLatency,
         NEW item, item = [value |-> v, expiresAt |-> now + TTL],
         ruleCache' = SetItem(ruleCache, k, v, TTL, now, MaxSize)
  PROVE  /\ CacheOK'
         /\ DOMAIN ruleCache' \subseteq CacheKeys
         /\ ruleCache' \in [DOMAIN ruleCache' -> CacheItem(RuleValues \cup CountValues, Nat)]
<1>1. ruleCache = [x \in DOMAIN ruleCache |-> ruleCache[x]]
  BY DEF IInv, CacheOK
<1>2. /\ ruleCache' = [x \in DOMAIN ruleCache' |-> ruleCache'[x]]
      /\ \A x \in DOMAIN ruleCache' :
           \/ x \in DOMAIN ruleCache /\ ruleCache'[x] = ruleCache[x]
           \/ x = k /\ ruleCache'[x] = item
  BY <1>1, SetItemEntries
<1>3. now \in Nat /\ TTL \in Nat /\ MaxLatency \in Nat /\ v.asked \in Nat
  BY TimeAssumption, TTLAssumption DEF IInv, TypeOK, Times, RuleValues, CountValues
<1>4. EntryOK(k, item)'
  <2>1. EntryOK(k, item)
    BY <1>3 DEF EntryOK
  <2>. QED  BY <2>1, ValuesStay DEF IInv
<1>5. ASSUME NEW x \in DOMAIN ruleCache, NEW e, e = ruleCache[x]
      PROVE  EntryOK(x, e)'
  <2>1. EntryOK(x, e)
    BY <1>5 DEF IInv, CacheOK
  <2>. QED  BY <2>1, ValuesStay DEF IInv
<1>6. \A x \in DOMAIN ruleCache :
        x \in CacheKeys /\ ruleCache[x] \in CacheItem(RuleValues \cup CountValues, Nat)
  BY DEF IInv, TypeOK
<1>7. item \in CacheItem(RuleValues \cup CountValues, Nat)
  BY <1>3 DEF CacheItem
<1>8. CacheOK'
  <2>1. ASSUME NEW x \in DOMAIN ruleCache', NEW e, e = ruleCache'[x]
        PROVE  EntryOK(x, e)'
    BY <1>2, <1>4, <1>5, <2>1
  <2>. QED  BY <1>2, <2>1 DEF CacheOK
<1>. QED  BY <1>2, <1>6, <1>7, <1>8

LEMMA AnswerRuleKeeps ==
  ASSUME IInv, NEW r \in Requests, AnswerRule(r)
  PROVE  IInv'
<1>1. [Next]_vars
  BY DEF Next
<1>. DEFINE t == request[r].target
            v == RuleValue(t, request[r].arrived, rules[t])
<1>2. /\ t \in Targets /\ request[r].state # "new" /\ request[r].arrived \in Times
      /\ now <= request[r].arrived + MaxLatency /\ request[r].arrived <= now
  BY DEF IInv, TypeOK, RuleFetchOK, VerdictOK, AnswerRule, Outstanding
<1>3. PICK f \in RuleValues \cup {NoRule} :
        /\ ruleFetch' = [ruleFetch EXCEPT ![r] = Fetch("answered", f)]
        /\ f # NoRule => f.target = request[r].target /\ f.asked = request[r].arrived
  <2>1. rules[t] # NoRule
          => v \in RuleValues /\ v.target = request[r].target /\ v.asked = request[r].arrived
    BY <1>2 DEF IInv, TypeOK, RuleValues, RuleValue
  <2>. QED  BY <2>1 DEF AnswerRule
<1>4. ruleFetch'[r].state = "answered" /\ ruleFetch'[r].value = f
  BY <1>3 DEF IInv, TypeOK, Fetch
<1>5. TypeOK'
  <2>1. ruleFetch' \in [Requests ->
          [state : FetchStates, value : RuleValues \cup {NoRule, NoValue}]]
    BY <1>3 DEF IInv, TypeOK, Fetch, FetchStates
  <2>. QED  BY <2>1 DEF IInv, TypeOK, AnswerRule
<1>6. IsFiniteSet(rows')
  BY <1>1, RowsStayFinite DEF IInv
<1>7. CacheOK'
  BY <1>1, CacheStays DEF AnswerRule
<1>8. ASSUME NEW p \in Requests, p # r
      PROVE  RuleFetchOK(p)' /\ CountFetchOK(p)' /\ VerdictOK(p)'
  BY <1>1, <1>8, OthersStay DEF AnswerRule, IInv, TypeOK
<1>9. RuleFetchOK(r)' /\ CountFetchOK(r)' /\ VerdictOK(r)'
  <2>1. request' = request /\ countFetch' = countFetch /\ now' = now
    BY DEF AnswerRule
  <2>2. CountFetchOK(r)' /\ VerdictOK(r)'
    BY <1>1, <1>2, <2>1, CountFetchStays, VerdictStays DEF AnswerRule
  <2>3. f # NoRule => RuleFor(f, request[r].target)'
    BY <1>2, <1>3, <2>1 DEF RuleFor
  <2>. QED  BY <1>2, <1>3, <1>4, <2>1, <2>2, <2>3 DEF RuleFetchOK, Outstanding
<1>. QED  BY <1>5, <1>6, <1>7, <1>8, <1>9 DEF IInv

LEMMA FinishRuleKeeps ==
  ASSUME IInv, NEW r \in Requests, FinishRule(r)
  PROVE  IInv'
<1>1. [Next]_vars
  BY DEF Next
<1>0. PICK v, k : v = ruleFetch[r].value /\ k = RuleKey(request[r].target)
  OBVIOUS
<1>2. /\ request[r].target \in Targets /\ request[r].state # "new"
      /\ now <= request[r].arrived + MaxLatency
      /\ request[r].arrived \in Nat /\ request[r].arrived <= now
      /\ v # NoRule => RuleFor(v, request[r].target) /\ v.asked = request[r].arrived
      /\ ruleFetch[r].state = "answered"
  <2>1. RuleFetchOK(r) /\ VerdictOK(r) /\ ruleFetch[r].state = "answered"
    BY DEF IInv, FinishRule
  <2>2. request[r].arrived \in Nat
    BY TimeAssumption DEF IInv, TypeOK, Times
  <2>. QED  BY <1>0, <2>1, <2>2 DEF RuleFetchOK, VerdictOK, Outstanding
<1>3. v # NoRule => RuleUnder(k, v) /\ v \in RuleValues
  BY <1>0, <1>2 DEF RuleUnder, RuleFor
<1>4. /\ CacheOK'
      /\ DOMAIN ruleCache' \subseteq CacheKeys
      /\ ruleCache' \in [DOMAIN ruleCache' -> CacheItem(RuleValues \cup CountValues, Nat)]
  <2>1. CASE v = NoRule
    BY <1>0, <1>1, <2>1, CacheStays DEF FinishRule, IInv, TypeOK
  <2>2. CASE v # NoRule
    <3>1. k \in CacheKeys
      BY <1>0, <1>2 DEF CacheKeys
    <3>2. now <= v.asked + MaxLatency
      BY <1>2, <2>2
    <3>3. ruleCache' = SetItem(ruleCache, k, v, TTL, now, MaxSize)
      BY <1>0, <2>2 DEF FinishRule
    <3>. QED  BY <1>1, <1>3, <2>2, <3>1, <3>2, <3>3, SetKeepsCache
  <2>. QED  BY <2>1, <2>2
<1>5. TypeOK'
  <2>1. PICK state \in {"full", "done"} : ruleFetch' = [ruleFetch EXCEPT ![r].state = state]
    BY DEF FinishRule
  <2>2. ruleFetch' \in [Requests ->
          [state : FetchStates, value : RuleValues \cup {NoRule, NoValue}]]
    BY <2>1 DEF IInv, TypeOK, FetchStates
  <2>. QED  BY <1>4, <2>2 DEF IInv, TypeOK, FinishRule
<1>6. IsFiniteSet(rows')
  BY <1>1, RowsStayFinite DEF IInv
<1>8. ASSUME NEW p \in Requests, p # r
      PROVE  RuleFetchOK(p)' /\ CountFetchOK(p)' /\ VerdictOK(p)'
  BY <1>1, <1>8, OthersStay DEF FinishRule, IInv, TypeOK
<1>9. RuleFetchOK(r)' /\ CountFetchOK(r)' /\ VerdictOK(r)'
  <2>1. request' = request /\ countFetch' = countFetch /\ now' = now
    BY DEF FinishRule
  <2>2. CountFetchOK(r)' /\ VerdictOK(r)'
    BY <1>1, <1>2, <2>1, CountFetchStays, VerdictStays DEF FinishRule
  <2>3. ruleFetch'[r].state \in {"full", "done"} /\ ruleFetch'[r].value = v
    BY <1>0 DEF IInv, TypeOK, FinishRule
  <2>4. v # NoRule => RuleUnder(k, v)'
    BY <1>1, <1>3, ValuesStay DEF IInv
  <2>5. v # NoRule => FreshFor(v, request[r].arrived)
    BY <1>2 DEF FreshFor
  <2>. QED  BY <1>0, <1>2, <2>1, <2>2, <2>3, <2>4, <2>5 DEF RuleFetchOK, Outstanding, FreshFor
<1>. QED  BY <1>4, <1>5, <1>6, <1>8, <1>9 DEF IInv

LEMMA FailRuleKeeps ==
  ASSUME IInv, NEW r \in Requests, FailRule(r)
  PROVE  IInv'
<1>1. [Next]_vars
  BY DEF Next
<1>2. request[r].target \in Targets /\ request[r].state # "new" /\ ruleFetch[r].state # "done"
  BY DEF IInv, RuleFetchOK, FailRule, Outstanding
<1>3. TypeOK'
  <2>. DEFINE Fetches == [state : FetchStates, value : RuleValues \cup {NoRule, NoValue}]
  <2>1. ruleFetch \in [Requests -> Fetches]
    BY DEF IInv, TypeOK
  <2>2. ruleFetch' \in [Requests -> Fetches]
    BY <2>1 DEF FailRule, Fetch, FetchStates
  <2>. QED  BY <2>2 DEF IInv, TypeOK, FailRule
<1>4. IsFiniteSet(rows')
  BY <1>1, RowsStayFinite DEF IInv
<1>5. CacheOK'
  BY <1>1, CacheStays DEF FailRule
<1>6. ASSUME NEW p \in Requests, p # r
      PROVE  RuleFetchOK(p)' /\ CountFetchOK(p)' /\ VerdictOK(p)'
  BY <1>1, <1>6, OthersStay DEF FailRule, IInv, TypeOK
<1>7. RuleFetchOK(r)' /\ CountFetchOK(r)' /\ VerdictOK(r)'
  <2>1. request' = request /\ countFetch' = countFetch /\ now' = now
    BY DEF FailRule
  <2>2. CountFetchOK(r)' /\ VerdictOK(r)'
    BY <1>1, <1>2, <2>1, CountFetchStays, VerdictStays
  <2>3. ruleFetch'[r].state = "failed"
    BY DEF IInv, TypeOK, FailRule, Fetch
  <2>. QED  BY <1>2, <2>1, <2>2, <2>3 DEF RuleFetchOK, Outstanding
<1>. QED  BY <1>3, <1>4, <1>5, <1>6, <1>7 DEF IInv

LEMMA AnswerCountKeeps ==
  ASSUME IInv, NEW r \in Requests, NEW w \in Windows, AnswerCount(r, w)
  PROVE  IInv'
<1>1. [Next]_vars
  BY DEF Next
<1>0. PICK v, n, u :
        /\ v = countFetch[r].value
        /\ n = Cardinality(RowsSince(v.target, getUtcBoundaries(v.asked)[w]))
        /\ u = [v EXCEPT !.n[w] = n]
  OBVIOUS
<1>2. /\ request[r].target \in Targets /\ request[r].state # "new"
      /\ now <= request[r].arrived + MaxLatency
      /\ CountFor(v, request[r].target) /\ v.asked = request[r].arrived
      /\ countFetch[r].state = "asked"
  <2>1. CountFetchOK(r) /\ countFetch[r].state = "asked"
    BY DEF IInv, AnswerCount
  <2>. QED  BY <1>0, <2>1 DEF CountFetchOK
<1>3. /\ v \in CountValues /\ v.target = request[r].target /\ v.asked <= now
      /\ v.n \in Counts
  BY <1>2 DEF CountFor, CountValues
<1>4. n \in Nat
  BY <1>0, RowsFinite DEF IInv
<1>5. /\ u \in CountValues /\ u.target = v.target /\ u.asked = v.asked
      /\ \A x \in Windows : u.n[x] = IF x = w THEN n ELSE v.n[x]
  BY <1>0, <1>3, <1>4 DEF CountValues, Counts
<1>6. CountFor(u, request[r].target)
  <2>1. ASSUME NEW x \in Windows, u.n[x] # Unsampled, NEW start,
               start = getUtcBoundaries(u.asked)[x]
        PROVE  /\ u.n[x] <= Cardinality(RowsSince(u.target, start))
               /\ Cardinality(RowsBefore(u.target, start, u.asked)) <= u.n[x]
    <3>1. CASE x = w
      <4>1. u.n[x] = Cardinality(RowsSince(u.target, start))
        BY <1>0, <1>5, <2>1, <3>1
      <4>. QED  BY <4>1, RowsFinite DEF IInv
    <3>2. CASE x # w
      BY <1>2, <1>5, <2>1, <3>2 DEF CountFor, CountTrue
    <3>. QED  BY <3>1, <3>2
  <2>2. CountTrue(u)
    BY <2>1 DEF CountTrue
  <2>. QED  BY <1>3, <1>5, <2>2 DEF CountFor
<1>7. countFetch' = [countFetch EXCEPT ![r].value = u]
  BY <1>0 DEF AnswerCount, IInv, TypeOK
<1>8. TypeOK'
  <2>1. countFetch' \in [Requests -> [state : FetchStates, value : CountValues \cup {NoValue}]]
    BY <1>5, <1>7 DEF IInv, TypeOK
  <2>. QED  BY <2>1 DEF IInv, TypeOK, AnswerCount
<1>9. IsFiniteSet(rows')
  BY <1>1, RowsStayFinite DEF IInv
<1>10. CacheOK'
  BY <1>1, CacheStays DEF AnswerCount
<1>11. ASSUME NEW p \in Requests, p # r
       PROVE  RuleFetchOK(p)' /\ CountFetchOK(p)' /\ VerdictOK(p)'
  BY <1>1, <1>7, <1>11, OthersStay DEF AnswerCount, IInv, TypeOK
<1>12. RuleFetchOK(r)' /\ CountFetchOK(r)' /\ VerdictOK(r)'
  <2>1. request' = request /\ ruleFetch' = ruleFetch /\ now' = now
    BY DEF AnswerCount
  <2>2. RuleFetchOK(r)' /\ VerdictOK(r)'
    BY <1>1, <1>2, <2>1, RuleFetchStays, VerdictStays
  <2>3. countFetch'[r].state = "asked" /\ countFetch'[r].value = u
    BY <1>2, <1>7 DEF IInv, TypeOK
  <2>4. CountFor(u, request[r].target)'
    BY <1>1, <1>6, <2>1, ValuesStay DEF IInv
  <2>. QED  BY <1>2, <1>5, <2>1, <2>2, <2>3, <2>4 DEF CountFetchOK
<1>. QED  BY <1>8, <1>9, <1>10, <1>11, <1>12 DEF IInv

LEMMA FinishCountKeeps ==
  ASSUME IInv, NEW r \in Requests, FinishCount(r)
  PROVE  IInv'
<1>1. [Next]_vars
  BY DEF Next
<1>0. PICK v, k : v = countFetch[r].value /\ k = CountKey(request[r].target)
  OBVIOUS
<1>2. /\ request[r].target \in Targets /\ request[r].state # "new"
      /\ now <= request[r].arrived + MaxLatency
      /\ request[r].arrived \in Nat /\ request[r].arrived <= now
      /\ CountFor(v, request[r].target) /\ v.asked = request[r].arrived
      /\ countFetch[r].state = "asked"
  <2>1. CountFetchOK(r) /\ VerdictOK(r) /\ countFetch[r].state = "asked"
    BY DEF IInv, FinishCount
  <2>2. request[r].arrived \in Nat
    BY TimeAssumption DEF IInv, TypeOK, Times
  <2>. QED  BY <1>0, <2>1, <2>2 DEF CountFetchOK, VerdictOK
<1>3. CountUnder(k, v) /\ v \in CountValues
  BY <1>0, <1>2 DEF CountUnder, CountFor, Complete, FinishCount
<1>4. /\ CacheOK'
      /\ DOMAIN ruleCache' \subseteq CacheKeys
      /\ ruleCache' \in [DOMAIN ruleCache' -> CacheItem(RuleValues \cup CountValues, Nat)]
  <2>1. k \in CacheKeys
    BY <1>0, <1>2 DEF CacheKeys
  <2>2. now <= v.asked + MaxLatency
    BY <1>2
  <2>3. ruleCache' = SetItem(ruleCache, k, v, TTL, now, MaxSize)
    BY <1>0 DEF FinishCount
  <2>. QED  BY <1>1, <1>3, <2>1, <2>2, <2>3, SetKeepsCache
<1>5. TypeOK'
  <2>1. PICK state \in {"full", "done"} : countFetch' = [countFetch EXCEPT ![r].state = state]
    BY DEF FinishCount
  <2>2. countFetch' \in [Requests -> [state : FetchStates, value : CountValues \cup {NoValue}]]
    BY <2>1 DEF IInv, TypeOK, FetchStates
  <2>. QED  BY <1>4, <2>2 DEF IInv, TypeOK, FinishCount
<1>6. IsFiniteSet(rows')
  BY <1>1, RowsStayFinite DEF IInv
<1>8. ASSUME NEW p \in Requests, p # r
      PROVE  RuleFetchOK(p)' /\ CountFetchOK(p)' /\ VerdictOK(p)'
  BY <1>1, <1>8, OthersStay DEF FinishCount, IInv, TypeOK
<1>9. RuleFetchOK(r)' /\ CountFetchOK(r)' /\ VerdictOK(r)'
  <2>1. request' = request /\ ruleFetch' = ruleFetch /\ now' = now
    BY DEF FinishCount
  <2>2. RuleFetchOK(r)' /\ VerdictOK(r)'
    BY <1>1, <1>2, <2>1, RuleFetchStays, VerdictStays
  <2>3. countFetch'[r].state \in {"full", "done"} /\ countFetch'[r].value = v
    BY <1>0 DEF IInv, TypeOK, FinishCount
  <2>4. CountUnder(k, v)'
    BY <1>1, <1>3, ValuesStay DEF IInv
  <2>5. FreshFor(v, request[r].arrived)
    BY <1>2 DEF FreshFor
  <2>. QED  BY <1>0, <1>2, <2>1, <2>2, <2>3, <2>4, <2>5 DEF CountFetchOK, FreshFor
<1>. QED  BY <1>4, <1>5, <1>6, <1>8, <1>9 DEF IInv

LEMMA FailCountKeeps ==
  ASSUME IInv, NEW r \in Requests, FailCount(r)
  PROVE  IInv'
<1>1. [Next]_vars
  BY DEF Next
<1>2. request[r].target \in Targets /\ request[r].state # "new" /\ countFetch[r].state # "done"
  BY DEF IInv, CountFetchOK, FailCount, Outstanding
<1>3. TypeOK'
  <2>. DEFINE Fetches == [state : FetchStates, value : CountValues \cup {NoValue}]
  <2>1. countFetch \in [Requests -> Fetches]
    BY DEF IInv, TypeOK
  <2>2. countFetch' \in [Requests -> Fetches]
    BY <2>1 DEF FailCount, Fetch, FetchStates
  <2>. QED  BY <2>2 DEF IInv, TypeOK, FailCount
<1>4. IsFiniteSet(rows')
  BY <1>1, RowsStayFinite DEF IInv
<1>5. CacheOK'
  BY <1>1, CacheStays DEF FailCount
<1>6. ASSUME NEW p \in Requests, p # r
      PROVE  RuleFetchOK(p)' /\ CountFetchOK(p)' /\ VerdictOK(p)'
  BY <1>1, <1>6, OthersStay DEF FailCount, IInv, TypeOK
<1>7. RuleFetchOK(r)' /\ CountFetchOK(r)' /\ VerdictOK(r)'
  <2>1. request' = request /\ ruleFetch' = ruleFetch /\ now' = now
    BY DEF FailCount
  <2>2. RuleFetchOK(r)' /\ VerdictOK(r)'
    BY <1>1, <1>2, <2>1, RuleFetchStays, VerdictStays
  <2>3. countFetch'[r].state = "failed"
    BY DEF IInv, TypeOK, FailCount, Fetch
  <2>. QED  BY <1>2, <2>1, <2>2, <2>3 DEF CountFetchOK
<1>. QED  BY <1>3, <1>4, <1>5, <1>6, <1>7 DEF IInv

LEMMA OutsideKeeps ==
  ASSUME IInv,
         \/ resetRateLimiterCache
         \/ \E t \in Targets : InsertRow(t)
         \/ \E t \in Targets, limits \in Limits \cup {NoRule} : ChangeRule(t, limits)
         \/ UNCHANGED vars
  PROVE  IInv'
<1>1. [Next]_vars
  BY DEF Next
<1>2. UNCHANGED <<now, request, ruleFetch, countFetch>>
  BY DEF resetRateLimiterCache, InsertRow, ChangeRule, vars
<1>3. ruleCache' = EmptyCache \/ UNCHANGED ruleCache
  BY DEF resetRateLimiterCache, InsertRow, ChangeRule, vars
<1>4. rules' \in [Targets -> Limits \cup {NoRule}]
  BY DEF IInv, TypeOK, resetRateLimiterCache, InsertRow, ChangeRule, vars
<1>5. rows' \subseteq [target : Targets, id : Nat, at : Times]
  <2>1. Cardinality(rows) \in Nat
    BY FS_CardinalityType DEF IInv
  <2>2. TypeOK /\ now \in Times
    BY <1>1, StepRowsNow DEF IInv
  <2>3. ASSUME NEW t \in Targets,
               rows' = rows \cup {[target |-> t, id |-> Cardinality(rows), at |-> now]}
        PROVE  rows' \subseteq [target : Targets, id : Nat, at : Times]
    BY <2>1, <2>2, <2>3 DEF TypeOK
  <2>4. CASE UNCHANGED rows
    BY <2>2, <2>4 DEF TypeOK
  <2>. QED  BY <1>1, <2>2, <2>3, <2>4, StepRowsNow DEF IInv
<1>6. CacheOK' /\ DOMAIN ruleCache' \subseteq CacheKeys
      /\ ruleCache' \in [DOMAIN ruleCache' -> CacheItem(RuleValues \cup CountValues, Nat)]
  <2>1. CASE ruleCache' = EmptyCache
    BY <2>1 DEF CacheOK, EmptyCache
  <2>2. CASE UNCHANGED ruleCache
    BY <1>1, <2>2, CacheStays DEF IInv, TypeOK
  <2>. QED  BY <1>3, <2>1, <2>2
<1>7. TypeOK'
  BY <1>2, <1>4, <1>5, <1>6 DEF IInv, TypeOK
<1>8. IsFiniteSet(rows')
  BY <1>1, RowsStayFinite DEF IInv
<1>9. ASSUME NEW p \in Requests
      PROVE  RuleFetchOK(p)' /\ CountFetchOK(p)' /\ VerdictOK(p)'
  BY <1>1, <1>2, OthersStay
<1>. QED  BY <1>6, <1>7, <1>8, <1>9 DEF IInv

(* Time passes, but not beyond what an outstanding query may take. *)
LEMMA TickKeeps ==
  ASSUME IInv, Tick
  PROVE  IInv'
<1>1. [Next]_vars
  BY DEF Next
<1>2. now \in Nat /\ now' = now + 1 /\ now' \in Times
  BY TimeAssumption DEF IInv, TypeOK, Tick, Times
<1>3. TypeOK'
  BY <1>2 DEF IInv, TypeOK, Tick
<1>4. IsFiniteSet(rows')
  BY <1>1, RowsStayFinite DEF IInv
<1>5. CacheOK'
  BY <1>1, CacheStays DEF Tick
<1>6. ASSUME NEW r \in Requests
      PROVE  RuleFetchOK(r)' /\ CountFetchOK(r)' /\ VerdictOK(r)'
  <2>1. UNCHANGED <<request, ruleFetch, countFetch>>
    BY DEF Tick
  <2>2. VerdictOK(r)'
    BY <1>1, <2>1, VerdictStays
  <2>3. request[r].arrived \in Nat /\ MaxLatency \in Nat
    BY TimeAssumption DEF IInv, TypeOK, Times
  <2>4. Outstanding(ruleFetch[r]) \/ Outstanding(countFetch[r])
          => now' <= request[r].arrived + MaxLatency
    BY <1>2, <2>3 DEF Tick
  <2>5. RuleFetchOK(r)'
    <3>1. RuleFetchOK(r)
      BY DEF IInv
    <3>. QED  BY <1>1, <2>1, <2>4, <3>1, ValuesStay DEF IInv, RuleFetchOK, FreshFor
  <2>6. CountFetchOK(r)'
    <3>1. CountFetchOK(r)
      BY DEF IInv
    <3>. QED  BY <1>1, <2>1, <2>4, <3>1, ValuesStay DEF IInv, CountFetchOK, FreshFor, Outstanding
  <2>. QED  BY <2>2, <2>5, <2>6
<1>. QED  BY <1>3, <1>4, <1>5, <1>6 DEF IInv

(* A live entry is recent enough for a request that comes now, and of the  *)
(* kind its key says.                                                      *)
LEMMA LiveIsFresh ==
  ASSUME IInv, NEW k \in Live(ruleCache, now), NEW v, v = ruleCache[k].value
  PROVE  /\ RuleUnder(k, v) \/ CountUnder(k, v)
         /\ FreshFor(v, now)
         /\ \A t \in Targets : k = RuleKey(t) => RuleUnder(k, v)
         /\ \A t \in Targets : k = CountKey(t) => CountUnder(k, v)
<1>1. k \in DOMAIN ruleCache /\ now < ruleCache[k].expiresAt
  BY DEF Live, IsCacheItemValid
<1>2. EntryOK(k, ruleCache[k])
  BY <1>1 DEF IInv, CacheOK
<1>3. RuleUnder(k, v) \/ CountUnder(k, v)
  BY <1>2 DEF EntryOK
<1>4. v.asked \in Nat /\ v.asked <= now /\ now \in Nat
  BY <1>3, TimeAssumption DEF RuleUnder, RuleFor, CountUnder, CountFor, RuleValues, CountValues,
                              IInv, TypeOK, Times
<1>5. FreshFor(v, now)
  <2>1. ruleCache[k].expiresAt \in Nat
        /\ ruleCache[k].expiresAt <= v.asked + MaxLatency + TTL
    BY <1>2 DEF EntryOK
  <2>. QED  BY <1>1, <1>4, <2>1, TimeAssumption, TTLAssumption DEF FreshFor
<1>. QED  BY <1>3, <1>5, KindsApart DEF RuleUnder, CountUnder

LEMMA ArriveKeeps ==
  ASSUME IInv, NEW r \in Requests, NEW t \in Targets, Arrive(r, t)
  PROVE  IInv'
<1>1. [Next]_vars
  BY DEF Next
<1>2. PICK f : /\ ruleFetch' = [ruleFetch EXCEPT ![r] = f]
               /\ f = IF RuleKey(t) \in Live(ruleCache, now)
                      THEN Fetch("done", ruleCache[RuleKey(t)].value)
                      ELSE Fetch("asked", NoValue)
  BY DEF Arrive
<1>3. PICK g : /\ countFetch' = [countFetch EXCEPT ![r] = g]
               /\ g = IF CountKey(t) \in Live(ruleCache, now)
                      THEN Fetch("done", ruleCache[CountKey(t)].value)
                      ELSE Fetch("asked", CountValue(t, now, [w \in Windows |-> Unsampled]))
  BY DEF Arrive
<1>4. \/ f = Fetch("asked", NoValue)
      \/ \E v : f = Fetch("done", v) /\ RuleUnder(RuleKey(t), v) /\ FreshFor(v, now)
  BY <1>2, LiveIsFresh
<1>5. \/ /\ g = Fetch("asked", CountValue(t, now, [w \in Windows |-> Unsampled]))
         /\ CountFor(g.value, t)
      \/ \E v : g = Fetch("done", v) /\ CountUnder(CountKey(t), v) /\ FreshFor(v, now)
  <2>1. CASE CountKey(t) \in Live(ruleCache, now)
    BY <1>3, <2>1, LiveIsFresh
  <2>2. CASE CountKey(t) \notin Live(ruleCache, now)
    <3>1. g = Fetch("asked", CountValue(t, now, [w \in Windows |-> Unsampled]))
      BY <1>3, <2>2
    <3>2. now \in Times /\ now <= now
      BY TimeAssumption DEF IInv, TypeOK, Times
    <3>3. \A w \in Windows : g.value.n[w] = Unsampled
      BY <3>1 DEF Fetch, CountValue
    <3>4. CountTrue(g.value)
      BY <3>3 DEF CountTrue
    <3>5. g.value \in CountValues /\ g.value.target = t /\ g.value.asked = now
      BY <3>1, <3>2 DEF Fetch, CountValue, CountValues, Counts
    <3>. QED  BY <3>1, <3>2, <3>4, <3>5 DEF CountFor
  <2>. QED  BY <2>1, <2>2
<1>6. f \in [state : FetchStates, value : RuleValues \cup {NoRule, NoValue}]
  BY <1>4 DEF Fetch, FetchStates, RuleUnder, RuleFor
<1>7. g \in [state : FetchStates, value : CountValues \cup {NoValue}]
  BY <1>5 DEF Fetch, FetchStates, CountUnder, CountFor
<1>8. /\ ruleCache' = [x \in DOMAIN ruleCache' |-> ruleCache'[x]]
      /\ DOMAIN ruleCache' \subseteq DOMAIN ruleCache
      /\ \A x \in DOMAIN ruleCache' : ruleCache'[x] = ruleCache[x]
  <2>1. PICK c : c = Purge(ruleCache, RuleKey(t), now)
    OBVIOUS
  <2>2. ruleCache' = Purge(c, CountKey(t), now)
    BY <2>1 DEF Arrive
  <2>3. /\ c = [x \in DOMAIN c |-> c[x]]
        /\ DOMAIN c \subseteq DOMAIN ruleCache
        /\ \A x \in DOMAIN c : c[x] = ruleCache[x]
    BY <2>1, PurgeEntries DEF IInv, CacheOK
  <2>4. /\ ruleCache' = [x \in DOMAIN ruleCache' |-> ruleCache'[x]]
        /\ DOMAIN ruleCache' \subseteq DOMAIN c
        /\ \A x \in DOMAIN ruleCache' : ruleCache'[x] = c[x]
    BY <2>2, <2>3, PurgeEntries
  <2>. QED  BY <2>3, <2>4
<1>9. CacheOK'
  <2>1. ASSUME NEW x \in DOMAIN ruleCache', NEW e, e = ruleCache'[x]
        PROVE  EntryOK(x, e)'
    <3>1. EntryOK(x, e)
      BY <1>8, <2>1 DEF IInv, CacheOK
    <3>. QED  BY <1>1, <3>1, ValuesStay DEF IInv
  <2>. QED  BY <1>8, <2>1 DEF CacheOK
<1>10. TypeOK'
  <2>1. request' \in [Requests ->
          [state : {"new", "checking", "next", "429", "error"},
           target : Targets \cup {NoValue}, arrived : Times,
           reason : Reasons \cup Windows]]
    BY DEF IInv, TypeOK, Arrive, Reasons
  <2>2. ruleFetch' \in [Requests ->
          [state : FetchStates, value : RuleValues \cup {NoRule, NoValue}]]
    BY <1>2, <1>6 DEF IInv, TypeOK
  <2>3. countFetch' \in [Requests -> [state : FetchStates, value : CountValues \cup {NoValue}]]
    BY <1>3, <1>7 DEF IInv, TypeOK
  <2>4. /\ DOMAIN ruleCache' \subseteq CacheKeys
        /\ ruleCache' \in [DOMAIN ruleCache' -> CacheItem(RuleValues \cup CountValues, Nat)]
    BY <1>8 DEF IInv, TypeOK
  <2>. QED  BY <2>1, <2>2, <2>3, <2>4 DEF IInv, TypeOK, Arrive
<1>11. IsFiniteSet(rows')
  BY <1>1, RowsStayFinite DEF IInv
<1>12. ASSUME NEW p \in Requests, p # r
       PROVE  RuleFetchOK(p)' /\ CountFetchOK(p)' /\ VerdictOK(p)'
  BY <1>1, <1>12, OthersStay DEF Arrive, IInv, TypeOK
<1>13. RuleFetchOK(r)' /\ CountFetchOK(r)' /\ VerdictOK(r)'
  <2>1. /\ request'[r].target = t /\ request'[r].arrived = now /\ request'[r].reason = "none"
        /\ request'[r].state = "checking" /\ now' = now
        /\ ruleFetch'[r] = f /\ countFetch'[r] = g
    BY <1>2, <1>3 DEF Arrive, IInv, TypeOK
  <2>2. now \in Nat /\ MaxLatency \in Nat /\ now <= now + MaxLatency /\ now <= now
    BY TimeAssumption DEF IInv, TypeOK, Times
  <2>3. RuleFetchOK(r)'
    <3>1. CASE f = Fetch("asked", NoValue)
      BY <2>1, <2>2, <3>1 DEF RuleFetchOK, Fetch, Outstanding
    <3>2. ASSUME NEW v, f = Fetch("done", v), RuleUnder(RuleKey(t), v), FreshFor(v, now)
          PROVE  RuleFetchOK(r)'
      <4>1. RuleUnder(RuleKey(t), v)'
        BY <1>1, <3>2, ValuesStay DEF IInv
      <4>. QED  BY <2>1, <3>2, <4>1 DEF RuleFetchOK, Fetch, Outstanding, FreshFor
    <3>. QED  BY <1>4, <3>1, <3>2
  <2>4. CountFetchOK(r)'
    <3>1. ASSUME NEW v, v = CountValue(t, now, [w \in Windows |-> Unsampled]),
                 g = Fetch("asked", v), CountFor(v, t)
          PROVE  CountFetchOK(r)'
      <4>1. CountFor(v, t)'
        BY <1>1, <3>1, ValuesStay DEF IInv
      <4>2. v.asked = now
        BY <3>1 DEF CountValue
      <4>. QED  BY <2>1, <2>2, <3>1, <4>1, <4>2 DEF CountFetchOK, Fetch
    <3>2. ASSUME NEW v, g = Fetch("done", v), CountUnder(CountKey(t), v), FreshFor(v, now)
          PROVE  CountFetchOK(r)'
      <4>1. CountUnder(CountKey(t), v)'
        BY <1>1, <3>2, ValuesStay DEF IInv
      <4>. QED  BY <2>1, <3>2, <4>1 DEF CountFetchOK, Fetch, FreshFor
    <3>. QED  BY <1>5, <3>1, <3>2 DEF Fetch
  <2>5. VerdictOK(r)'
    <3>1. "none" \notin Windows
      BY WindowAssumption DEF Reasons
    <3>. QED  BY <2>1, <2>2, <3>1 DEF VerdictOK, Judged
  <2>. QED  BY <2>3, <2>4, <2>5
<1>. QED  BY <1>9, <1>10, <1>11, <1>12, <1>13 DEF IInv

LEMMA StepKeeps ==
  ASSUME IInv, [Next]_vars
  PROVE  IInv'
BY BypassKeeps, ArriveKeeps, DefectiveKeeps, AnswerRuleKeeps, FinishRuleKeeps,
   FailRuleKeeps, AnswerCountKeeps, FinishCountKeeps, FailCountKeeps, DecideKeeps,
   OutsideKeeps, TickKeeps DEF Next

LEMMA Inductive == Spec => []IInv
<1>. QED  BY InitIInv, StepKeeps, PTL DEF Spec

-----------------------------------------------------------------------------
(* The theorems. *)

(* Every variable of the rate limiter keeps its type, in particular the    *)
(* shared cache holds only finished rules and counts under the keys of     *)
(* their targets.                                                          *)
THEOREM TypeCorrect == Spec => []TypeOK
<1>1. IInv => TypeOK
  BY DEF IInv
<1>. QED  BY <1>1, Inductive, PTL

(* What a finished fetch holds, whatever way it was obtained. *)
LEMMA DoneFetches ==
  ASSUME IInv, NEW r \in Requests, Judged(r)
  PROVE  /\ RuleUnder(RuleKey(request[r].target), ruleFetch[r].value)
         /\ FreshFor(ruleFetch[r].value, request[r].arrived)
         /\ CountUnder(CountKey(request[r].target), countFetch[r].value)
         /\ FreshFor(countFetch[r].value, request[r].arrived)
         /\ request[r].target \in Targets
<1>1. RuleFetchOK(r) /\ CountFetchOK(r) /\ VerdictOK(r)
  BY DEF IInv
<1>2. /\ ruleFetch[r].state = "done" /\ countFetch[r].state = "done"
      /\ ruleFetch[r].value # NoRule
  BY <1>1 DEF VerdictOK
<1>. QED  BY <1>1, <1>2 DEF RuleFetchOK, CountFetchOK

(* A verdict rests on data no older than the cache's lifetime plus the     *)
(* latency of the query that filled it (assertCapacity over RULE_CACHE).   *)
THEOREM Fresh == Spec => []VerdictsRestOnFreshData
<1>1. ASSUME IInv
      PROVE  VerdictsRestOnFreshData
  BY <1>1, DoneFetches DEF VerdictsRestOnFreshData, FreshFor
<1>. QED  BY <1>1, Inductive, PTL

(* Where no two targets share a cache key, a request is judged by its own  *)
(* target's rule and counts only (resolveCacheScopeKey and the keys of the *)
(* two fetches).                                                           *)
LEMMA OwnValues ==
  ASSUME KeysDistinct, NEW t \in Targets
  PROVE  /\ \A v : RuleUnder(RuleKey(t), v) => RuleFor(v, t)
         /\ \A v : CountUnder(CountKey(t), v) => CountFor(v, t) /\ Complete(v)
BY DEF KeysDistinct, RuleUnder, CountUnder

THEOREM OwnTargetOnly ==
  ASSUME KeysDistinct
  PROVE  Spec => []NoReuseAcrossTargets
<1>1. ASSUME IInv
      PROVE  NoReuseAcrossTargets
  <2>1. ASSUME NEW r \in Requests
        PROVE  /\ ruleFetch[r].state = "done" /\ ruleFetch[r].value # NoRule
                    => ruleFetch[r].value.target = request[r].target
               /\ countFetch[r].state = "done" => countFetch[r].value.target = request[r].target
    <3>1. RuleFetchOK(r) /\ CountFetchOK(r)
      BY <1>1 DEF IInv
    <3>. QED  BY <3>1, OwnValues DEF RuleFetchOK, CountFetchOK, RuleFor, CountFor
  <2>. QED  BY <2>1 DEF NoReuseAcrossTargets
<1>. QED  BY <1>1, Inductive, PTL

(* Where no two targets share a cache key, a 429 for a window is earned by *)
(* rows the log still holds, although the counts were taken at different   *)
(* moments and may come from the cache.                                    *)
THEOREM Justified ==
  ASSUME KeysDistinct
  PROVE  Spec => []RejectionJustified
<1>1. ASSUME IInv, NEW r \in Requests, request[r].reason \in Windows,
             NEW w, w = request[r].reason,
             NEW v, v = countFetch[r].value,
             NEW start, start = getUtcBoundaries(v.asked)[w]
      PROVE  Cardinality(RowsSince(request[r].target, start)) >= ruleFetch[r].value.limits[w]
  <2>1. Judged(r) /\ Exhausted(r, w)
    BY <1>1 DEF IInv, VerdictOK, Judged
  <2>2. /\ CountFor(v, request[r].target) /\ Complete(v)
        /\ RuleFor(ruleFetch[r].value, request[r].target)
    BY <1>1, <2>1, DoneFetches, OwnValues
  <2>3. v.n[w] <= Cardinality(RowsSince(request[r].target, start))
    BY <1>1, <2>2 DEF CountFor, CountTrue, Complete
  <2>4. v.n[w] >= ruleFetch[r].value.limits[w]
    BY <1>1, <2>1 DEF Exhausted
  <2>5. v.n[w] \in Nat /\ ruleFetch[r].value.limits[w] \in Nat
    BY <1>1, <2>2, LimitsAssumption
       DEF CountFor, Complete, CountValues, Counts, RuleFor, RuleValues
  <2>6. Cardinality(RowsSince(request[r].target, start)) \in Nat
    BY <1>1, RowsFinite DEF IInv
  <2>. QED  BY <2>3, <2>4, <2>5, <2>6
<1>2. IInv => RejectionJustified
  BY <1>1 DEF RejectionJustified
<1>. QED  BY <1>2, Inductive, PTL

(* Where no two targets share a cache key, the cache puts a limit off by   *)
(* less than its lifetime and a query's latency: no request is let through *)
(* once the rows older than that exhaust a window.                         *)
THEOREM Enforced ==
  ASSUME KeysDistinct
  PROVE  Spec => []EnforcedWithinTTL
<1>1. ASSUME IInv, NEW r \in Requests, request[r].reason = "within limits", NEW w \in Windows,
             NEW v, v = countFetch[r].value,
             NEW start, start = getUtcBoundaries(request[r].arrived)[w],
             NEW old, old = {row \in RowsSince(request[r].target, start) :
                               row.at + TTL + MaxLatency <= request[r].arrived}
      PROVE  Cardinality(old) < ruleFetch[r].value.limits[w]
  <2>1. Judged(r) /\ ~Exhausted(r, w)
    BY <1>1 DEF IInv, VerdictOK, Judged
  <2>2. /\ CountFor(v, request[r].target) /\ Complete(v)
        /\ RuleFor(ruleFetch[r].value, request[r].target)
        /\ FreshFor(v, request[r].arrived)
    BY <1>1, <2>1, DoneFetches, OwnValues
  <2>3. PICK from : from = getUtcBoundaries(v.asked)[w]
    OBVIOUS
  <2>4. /\ v.asked \in Times /\ request[r].arrived \in Times /\ v.asked <= request[r].arrived
        /\ v.asked \in Nat /\ request[r].arrived \in Nat
    <3>1. v.asked \in Times
      BY <2>2 DEF CountFor, CountValues
    <3>2. request[r].arrived \in Times
      BY <1>1 DEF IInv, TypeOK
    <3>3. v.asked <= request[r].arrived
      BY <2>2 DEF FreshFor
    <3>. QED  BY <3>1, <3>2, <3>3, TimeAssumption DEF Times
  <2>5. from <= start /\ from \in Nat /\ start \in Nat
    <3>1. from = WindowStart[w][v.asked] /\ start = WindowStart[w][request[r].arrived]
      BY <1>1, <2>3 DEF getUtcBoundaries
    <3>2. from \in Times /\ start \in Times
      BY <2>4, <3>1, WindowAssumption
    <3>. QED  BY <2>4, <3>1, <3>2, WindowAssumption, TimeAssumption DEF Times
  <2>6. old \subseteq RowsBefore(request[r].target, from, v.asked)
    <3>1. ASSUME NEW row \in old
          PROVE  row \in RowsBefore(request[r].target, from, v.asked)
      <4>1. /\ row \in rows /\ row.target = request[r].target /\ row.at >= start
            /\ row.at + TTL + MaxLatency <= request[r].arrived
        BY <1>1, <3>1 DEF RowsSince
      <4>2. row.at \in Nat
        <5>1. row.at \in Times
          BY <1>1, <4>1 DEF IInv, TypeOK
        <5>. QED  BY <5>1, TimeAssumption DEF Times
      <4>3. row.at < v.asked
        BY <2>2, <2>4, <4>1, <4>2, TTLAssumption, TimeAssumption DEF FreshFor
      <4>. QED  BY <2>5, <4>1, <4>2, <4>3 DEF RowsBefore, RowsSince
    <3>. QED  BY <3>1
  <2>7. IsFiniteSet(RowsBefore(request[r].target, from, v.asked))
    BY <1>1, RowsFinite DEF IInv
  <2>8. /\ Cardinality(old) <= Cardinality(RowsBefore(request[r].target, from, v.asked))
        /\ Cardinality(old) \in Nat
        /\ Cardinality(RowsBefore(request[r].target, from, v.asked)) \in Nat
    BY <2>6, <2>7, FS_Subset, FS_CardinalityType
  <2>9. Cardinality(RowsBefore(request[r].target, from, v.asked)) <= v.n[w]
    BY <2>2, <2>3 DEF CountFor, CountTrue, Complete
  <2>10. v.n[w] \in Nat /\ ruleFetch[r].value.limits[w] \in Nat
    BY <2>2, LimitsAssumption
       DEF CountFor, Complete, CountValues, Counts, RuleFor, RuleValues
  <2>11. ~(v.n[w] >= ruleFetch[r].value.limits[w])
    BY <1>1, <2>1 DEF Exhausted
  <2>. QED  BY <2>8, <2>9, <2>10, <2>11
<1>2. IInv => EnforcedWithinTTL
  BY <1>1 DEF EnforcedWithinTTL
<1>. QED  BY <1>2, Inductive, PTL

(* `set` refuses a key only when live items under other keys fill the map. *)
LEMMA RefusedMeansFull ==
  ASSUME NEW c, NEW k, NEW t, Refused(c, k, t, MaxSize)
  PROVE  Cardinality(Live(c, t) \ {k}) >= MaxSize
<1>1. IsFull(c, k, MaxSize)
  BY DEF Refused, MakeRoom
<1>2. IsFull(Clean(c, t), k, MaxSize)
  BY <1>1 DEF Refused, MakeRoom
<1>3. DOMAIN Clean(c, t) = Live(c, t)
  BY DEF Clean, Restrict
<1>4. k \notin Live(c, t) /\ Cardinality(Live(c, t)) >= MaxSize
  BY <1>2, <1>3 DEF IsFull, ItemsCount
<1>5. Live(c, t) \ {k} = Live(c, t)
  BY <1>4
<1>. QED  BY <1>4, <1>5

(* A fetch ends for lack of room only if MaxSize other keys are live in    *)
(* RULE_CACHE: expired entries never cost a request its answer.            *)
THEOREM FullIsEarned == Spec => FullMeansOtherKeysLive
<1>. DEFINE Earned(r) ==
       /\ ruleFetch[r].state # "full" /\ ruleFetch'[r].state = "full"
            => Cardinality(Live(ruleCache, now) \ {RuleKey(request[r].target)}) >= MaxSize
       /\ countFetch[r].state # "full" /\ countFetch'[r].state = "full"
            => Cardinality(Live(ruleCache, now) \ {CountKey(request[r].target)}) >= MaxSize
<1>1. ASSUME TypeOK, [Next]_vars, NEW r \in Requests
      PROVE  Earned(r)
  <2>1. ASSUME NEW p \in Requests, FinishRule(p)
        PROVE  Earned(r)
    <3>1. CASE p = r
      BY <1>1, <2>1, <3>1, RefusedMeansFull DEF FinishRule, TypeOK
    <3>2. CASE p # r
      BY <1>1, <2>1, <3>2 DEF FinishRule, TypeOK
    <3>. QED  BY <3>1, <3>2
  <2>2. ASSUME NEW p \in Requests, FinishCount(p)
        PROVE  Earned(r)
    <3>1. CASE p = r
      BY <1>1, <2>2, <3>1, RefusedMeansFull DEF FinishCount, TypeOK
    <3>2. CASE p # r
      BY <1>1, <2>2, <3>2 DEF FinishCount, TypeOK
    <3>. QED  BY <3>1, <3>2
  <2>3. ASSUME NEW p \in Requests, NEW t \in Targets, Arrive(p, t)
        PROVE  Earned(r)
    BY <1>1, <2>3 DEF Arrive, Fetch, TypeOK
  <2>4. ASSUME NEW p \in Requests, AnswerRule(p) \/ FailRule(p) \/ FailCount(p)
        PROVE  Earned(r)
    BY <1>1, <2>4 DEF AnswerRule, FailRule, FailCount, Fetch, TypeOK
  <2>5. ASSUME NEW p \in Requests, NEW w \in Windows, AnswerCount(p, w)
        PROVE  Earned(r)
    BY <1>1, <2>5 DEF AnswerCount, TypeOK
  <2>6. CASE UNCHANGED <<ruleFetch, countFetch>>
    BY <2>6
  <2>7. ASSUME NEW p \in Requests, \/ \E t \in Targets : Bypass(p, t)
                                   \/ Defective(p) \/ Decide(p)
        PROVE  UNCHANGED <<ruleFetch, countFetch>>
    BY <2>7 DEF Bypass, Defective, Decide, PassError, LimitNoRule, LimitWindow, Admit
  <2>8. ASSUME \/ resetRateLimiterCache \/ Tick \/ UNCHANGED vars
               \/ \E t \in Targets : InsertRow(t)
               \/ \E t \in Targets, limits \in Limits \cup {NoRule} : ChangeRule(t, limits)
        PROVE  UNCHANGED <<ruleFetch, countFetch>>
    BY <2>8 DEF resetRateLimiterCache, Tick, vars, InsertRow, ChangeRule
  <2>. HIDE DEF Earned
  <2>. QED  BY <1>1, <2>1, <2>2, <2>3, <2>4, <2>5, <2>6, <2>7, <2>8 DEF Next
<1>2. ASSUME TypeOK, [Next]_vars
      PROVE  [\A r \in Requests : Earned(r)]_vars
  BY <1>1, <1>2
<1>3. (TypeOK /\ [Next]_vars) => [\A r \in Requests : Earned(r)]_vars
  BY <1>2
<1>. QED  BY <1>3, TypeCorrect, PTL DEF Spec, FullMeansOtherKeysLive

(* A ':' in no path and no product, and no prefix named "default". *)
PlainTargets ==
  /\ \A t \in Targets : Len(t.path) = 1 /\ Len(t.product) = 1 /\ t.prefix # "default"
  /\ \A t, u \in Targets :
       t.prefix = u.prefix /\ t.path = u.path /\ t.product = u.product => t = u

LEMMA ConcatPieces ==
  ASSUME NEW S, NEW x \in Seq(S), NEW p \in Seq(S), Len(p) = 1
  PROVE  /\ x \o p \in Seq(S) /\ Len(x \o p) = Len(x) + 1
         /\ \A i \in 1 .. Len(x) : (x \o p)[i] = x[i]
         /\ (x \o p)[Len(x) + 1] = p[1]
<1>1. x \o p \in Seq(S) /\ Len(x \o p) = Len(x) + 1 /\ Len(x) \in Nat
  <2>1. x \o p \in Seq(S) /\ Len(x) \in Nat
    OBVIOUS
  <2>2. Len(x \o p) = Len(x) + Len(p)
    BY ConcatProperties
  <2>. QED  BY <2>1, <2>2
<1>2. ASSUME NEW i \in 1 .. Len(x)
      PROVE  (x \o p)[i] = x[i]
  BY <1>1, ConcatProperties
<1>3. (x \o p)[Len(x) + 1] = p[1]
  BY <1>1, ConcatProperties
<1>. QED  BY <1>1, <1>2, <1>3

LEMMA KeyPieces ==
  ASSUME NEW x, NEW y, NEW p \in Seq(STRING), NEW q \in Seq(STRING), Len(p) = 1, Len(q) = 1
  PROVE  /\ (<<x, y>> \o p \o q)[2] = y
         /\ (<<x, y>> \o p \o q)[3] = p[1]
         /\ (<<x, y>> \o p \o q)[4] = q[1]
<1>. DEFINE S == STRING \cup {x, y}
            h == <<x, y>>
            hp == h \o p
<1>1. h \in Seq(S) /\ Len(h) = 2 /\ h[2] = y /\ p \in Seq(S) /\ q \in Seq(S)
  OBVIOUS
<1>. HIDE DEF S, h
<1>2. hp \in Seq(S) /\ Len(hp) = 3 /\ hp[2] = y /\ hp[3] = p[1]
  <2>1. /\ hp \in Seq(S) /\ Len(hp) = Len(h) + 1
        /\ \A i \in 1 .. Len(h) : hp[i] = h[i]
        /\ hp[Len(h) + 1] = p[1]
    BY <1>1, ConcatPieces
  <2>. HIDE DEF hp
  <2>. QED  BY <1>1, <2>1
<1>. HIDE DEF hp
<1>3. (hp \o q)[2] = y /\ (hp \o q)[3] = p[1] /\ (hp \o q)[4] = q[1]
  <2>. DEFINE k == hp \o q
  <2>1. /\ k \in Seq(S) /\ Len(k) = Len(hp) + 1
        /\ \A i \in 1 .. Len(hp) : k[i] = hp[i]
        /\ k[Len(hp) + 1] = q[1]
    BY <1>1, <1>2, ConcatPieces
  <2>. HIDE DEF k
  <2>2. k[2] = y /\ k[3] = p[1] /\ k[4] = q[1]
    BY <1>2, <2>1
  <2>. QED  BY <2>2 DEF k
<1>. QED  BY <1>3 DEF hp, h

(* What a deployment has to ensure for the theorems above: RULE_CACHE's    *)
(* keys tell its targets apart when no path or product holds a ':' and no  *)
(* table prefix is "default".                                              *)
THEOREM PlainTargetsAreDistinct == PlainTargets => KeysDistinct
<1>. SUFFICES ASSUME PlainTargets, NEW t \in Targets, NEW u \in Targets,
                     RuleKey(t) = RuleKey(u) \/ CountKey(t) = CountKey(u)
              PROVE  t = u
  BY DEF KeysDistinct
<1>1. /\ t.path \in Seq(STRING) /\ t.product \in Seq(STRING)
      /\ u.path \in Seq(STRING) /\ u.product \in Seq(STRING)
      /\ Len(t.path) = 1 /\ Len(t.product) = 1 /\ Len(u.path) = 1 /\ Len(u.product) = 1
  BY TargetAssumption DEF PlainTargets
<1>2. ASSUME NEW v \in {t, u}
      PROVE  /\ RuleKey(v)[2] = Scope(v) /\ CountKey(v)[2] = Scope(v)
             /\ RuleKey(v)[3] = v.path[1] /\ CountKey(v)[3] = v.path[1]
             /\ RuleKey(v)[4] = v.product[1] /\ CountKey(v)[4] = v.product[1]
  <2>1. v.path \in Seq(STRING) /\ v.product \in Seq(STRING) /\ Len(v.path) = 1 /\ Len(v.product) = 1
    BY <1>1
  <2>2. ASSUME NEW x, NEW k, k = <<x, Scope(v)>> \o v.path \o v.product
        PROVE  k[2] = Scope(v) /\ k[3] = v.path[1] /\ k[4] = v.product[1]
    <3>1. PICK y, p, q : y = Scope(v) /\ p = v.path /\ q = v.product
      OBVIOUS
    <3>2. p \in Seq(STRING) /\ q \in Seq(STRING) /\ Len(p) = 1 /\ Len(q) = 1
      BY <2>1, <3>1
    <3>3. k = <<x, y>> \o p \o q
      BY <2>2, <3>1
    <3>4. /\ (<<x, y>> \o p \o q)[2] = y
          /\ (<<x, y>> \o p \o q)[3] = p[1]
          /\ (<<x, y>> \o p \o q)[4] = q[1]
      BY <3>2, KeyPieces
    <3>. QED  BY <3>1, <3>3, <3>4
  <2>. QED  BY <2>2 DEF RuleKey, CountKey
<1>3. Scope(t) = Scope(u) /\ t.path[1] = u.path[1] /\ t.product[1] = u.product[1]
  BY <1>2
<1>4. t.path = <<t.path[1]>> /\ u.path = <<u.path[1]>>
      /\ t.product = <<t.product[1]>> /\ u.product = <<u.product[1]>>
  BY <1>1
<1>5. t.prefix = u.prefix
  BY <1>3 DEF Scope, PlainTargets
<1>. QED  BY <1>3, <1>4, <1>5 DEF PlainTargets

-----------------------------------------------------------------------------
(* The pipeline. *)

RowOf(r) == [target |-> entry[r].target, id |-> entry[r].id, at |-> entry[r].at]

EntryStages == {"none", "rejected", "passed", "open", "saved"}

(* A saved entry has a row of its own. *)
EntriesOK ==
  /\ entry \in [Requests -> [stage : EntryStages, target : Targets \cup {NoValue},
                             id : Nat, at : Times]]
  /\ \A row \in rows : row.id < Cardinality(rows)
  /\ \A r \in Requests :
       /\ entry[r].stage \in {"open", "saved"} => entry[r].target \in Targets
       /\ entry[r].stage = "saved" => RowOf(r) \in rows
  /\ \A q, r \in Requests :
       entry[q].stage = "saved" /\ entry[r].stage = "saved" /\ entry[q].id = entry[r].id
         => q = r

(* A request is logged as it is judged. *)
LoggedAsJudged ==
  \A r \in Requests :
    /\ request[r].state = "checking" \/ Admitted(r)
    /\ entry[r].stage \in {"open", "saved"}
    => entry[r].target = request[r].target

LEMMA EntryTypes ==
  /\ \A t \in Targets \cup {NoValue}, s \in EntryStages :
       Entry(s, t) \in [stage : EntryStages, target : Targets \cup {NoValue}, id : Nat, at : Times]
  /\ 0 \in Times
BY TimeAssumption DEF Entry, Times

LEMMA PipelineBegins == PipelineInit => IInv /\ EntriesOK /\ LoggedAsJudged
<1>. SUFFICES ASSUME PipelineInit
              PROVE  IInv /\ EntriesOK /\ LoggedAsJudged
  OBVIOUS
<1>1. IInv
  BY InitIInv DEF PipelineInit
<1>2. entry = [r \in Requests |-> Entry("none", NoValue)] /\ rows = {}
  BY DEF PipelineInit, Init
<1>3. \A r \in Requests : entry[r].stage = "none"
  BY <1>2 DEF Entry
<1>4. entry \in [Requests -> [stage : EntryStages, target : Targets \cup {NoValue},
                             id : Nat, at : Times]]
  BY <1>2, EntryTypes DEF EntryStages
<1>. QED  BY <1>1, <1>2, <1>3, <1>4 DEF EntriesOK, LoggedAsJudged

(* A limiter's step in the pipeline is a step of the limiter. *)
LEMMA PipelineSteps ==
  ASSUME EntriesOK, [PipelineNext]_pipeline
  PROVE  [Next]_vars
<1>1. ASSUME NEW r \in Requests, NEW http \in HttpRequests, Enter(r, http)
      PROVE  Next
  <2>1. CASE resolveRequestPath(http) \in Whitelist
    BY <1>1, <2>1 DEF Enter, Limit, Next
  <2>2. CASE resolveRequestPath(http) \notin Whitelist /\ Defects(http)
    BY <1>1, <2>2 DEF Enter, Limit, Next
  <2>3. CASE resolveRequestPath(http) \notin Whitelist /\ ~Defects(http)
    <3>1. LimitTarget(http) \in Targets /\ Arrive(r, LimitTarget(http))
      BY <1>1, <2>3, HttpAssumption DEF Enter, Limit
    <3>. QED  BY <1>1, <3>1 DEF Next
  <2>. QED  BY <2>1, <2>2, <2>3
<1>2. ASSUME NEW r \in Requests, SaveEntry(r)
      PROVE  Next
  BY <1>2 DEF SaveEntry, EntriesOK, Next
<1>3. ASSUME NEW r \in Requests, LimiterStep(r)
      PROVE  Next
  BY <1>3 DEF LimiterStep, Step, Next
<1>4. ASSUME NEW r \in Requests, NEW http \in HttpRequests, Reject(r, http)
      PROVE  UNCHANGED vars
  BY <1>4 DEF Reject
<1>5. TimePasses => Next
  BY DEF TimePasses, Next
<1>6. UNCHANGED pipeline => UNCHANGED vars
  BY DEF pipeline
<1>. QED  BY <1>1, <1>2, <1>3, <1>4, <1>5, <1>6 DEF PipelineNext

(* Only a saved entry adds a row. *)
LEMMA RowsStay ==
  /\ \A r \in Requests, http \in HttpRequests :
       Reject(r, http) \/ Enter(r, http) => UNCHANGED rows
  /\ \A r \in Requests : LimiterStep(r) => UNCHANGED <<rows, entry>>
  /\ TimePasses => UNCHANGED <<rows, entry, request>>
<1>1. ASSUME NEW r \in Requests, NEW http \in HttpRequests, Enter(r, http)
      PROVE  UNCHANGED rows
  BY <1>1 DEF Enter, Limit, Bypass, Defective, Arrive
<1>2. ASSUME NEW r \in Requests, NEW http \in HttpRequests, Reject(r, http)
      PROVE  UNCHANGED rows
  BY <1>2 DEF Reject, vars
<1>3. ASSUME NEW r \in Requests, LimiterStep(r)
      PROVE  UNCHANGED <<rows, entry>>
  BY <1>3 DEF LimiterStep, Step, AnswerRule, FinishRule, FailRule, FinishCount, FailCount,
              AnswerCount, Decide, PassError, LimitNoRule, LimitWindow, Admit
<1>4. TimePasses => UNCHANGED <<rows, entry, request>>
  BY DEF TimePasses, Tick
<1>. QED  BY <1>1, <1>2, <1>3, <1>4

(* A change of one entry that leaves it unsaved. *)
LEMMA UnsavedKeeps ==
  ASSUME EntriesOK, UNCHANGED rows, NEW r \in Requests,
         NEW e \in [stage : EntryStages, target : Targets \cup {NoValue}, id : Nat, at : Times],
         e.stage # "saved", e.stage = "open" => e.target \in Targets,
         entry' = [entry EXCEPT ![r] = e]
  PROVE  EntriesOK'
<1>1. entry'[r] = e /\ \A q \in Requests \ {r} : entry'[q] = entry[q]
  BY DEF EntriesOK
<1>2. entry' \in [Requests -> [stage : EntryStages, target : Targets \cup {NoValue},
                              id : Nat, at : Times]]
  BY DEF EntriesOK
<1>3. \A row \in rows' : row.id < Cardinality(rows')
  BY DEF EntriesOK
<1>4. ASSUME NEW q \in Requests
      PROVE  /\ entry'[q].stage \in {"open", "saved"} => entry'[q].target \in Targets
             /\ entry'[q].stage = "saved" => RowOf(q)' \in rows'
  <2>1. CASE q = r
    BY <1>1, <2>1
  <2>2. CASE q # r
    BY <1>1, <2>2 DEF EntriesOK, RowOf
  <2>. QED  BY <2>1, <2>2
<1>5. ASSUME NEW p \in Requests, NEW q \in Requests,
             entry'[p].stage = "saved", entry'[q].stage = "saved", entry'[p].id = entry'[q].id
      PROVE  p = q
  <2>1. p # r /\ q # r
    BY <1>1, <1>5
  <2>2. entry'[p] = entry[p] /\ entry'[q] = entry[q]
    BY <1>1, <2>1
  <2>. QED  BY <1>5, <2>2 DEF EntriesOK
<1>. QED  BY <1>2, <1>3, <1>4, <1>5 DEF EntriesOK

LEMMA SaveKeeps ==
  ASSUME IInv, EntriesOK, NEW r \in Requests, SaveEntry(r)
  PROVE  EntriesOK'
<1>1. PICK n : n = Cardinality(rows)
  OBVIOUS
<1>2. PICK row : row = [target |-> entry[r].target, id |-> n, at |-> now]
  OBVIOUS
<1>3. /\ entry[r].stage = "open" /\ rows' = rows \cup {row}
      /\ entry' = [entry EXCEPT ![r].stage = "saved", ![r].id = n, ![r].at = now]
  BY <1>1, <1>2 DEF SaveEntry, InsertRow
<1>4. n \in Nat /\ IsFiniteSet(rows) /\ now \in Times
  BY <1>1, FS_CardinalityType DEF IInv, TypeOK
<1>5. row \notin rows
  BY <1>1, <1>2, <1>4 DEF EntriesOK
<1>6. Cardinality(rows') = n + 1
  BY <1>1, <1>3, <1>4, <1>5, FS_AddElement
<1>7. \A x \in rows : x.id \in Nat /\ x.id < n
  BY <1>1 DEF EntriesOK, IInv, TypeOK
<1>8. \A x \in rows' : x.id < Cardinality(rows')
  BY <1>2, <1>3, <1>4, <1>6, <1>7
<1>9. /\ entry'[r] = [stage |-> "saved", target |-> entry[r].target, id |-> n, at |-> now]
      /\ \A q \in Requests \ {r} : entry'[q] = entry[q]
      /\ entry' \in [Requests -> [stage : EntryStages, target : Targets \cup {NoValue},
                                  id : Nat, at : Times]]
  BY <1>3, <1>4 DEF EntriesOK, EntryStages
<1>10. ASSUME NEW q \in Requests
       PROVE  /\ entry'[q].stage \in {"open", "saved"} => entry'[q].target \in Targets
              /\ entry'[q].stage = "saved" => RowOf(q)' \in rows'
  <2>1. CASE q = r
    BY <1>2, <1>3, <1>9, <2>1 DEF EntriesOK, RowOf
  <2>2. CASE q # r
    BY <1>3, <1>9, <2>2 DEF EntriesOK, RowOf
  <2>. QED  BY <2>1, <2>2
<1>11. ASSUME NEW q \in Requests \ {r}, entry'[q].stage = "saved"
       PROVE  entry'[q].id # n
  <2>1. entry'[q] = entry[q] /\ RowOf(q) \in rows /\ RowOf(q).id = entry[q].id
    BY <1>9, <1>11 DEF EntriesOK, RowOf
  <2>2. entry[q].id < n /\ entry[q].id \in Nat
    BY <1>7, <2>1
  <2>. QED  BY <1>4, <2>1, <2>2
<1>12. ASSUME NEW p \in Requests, NEW q \in Requests,
              entry'[p].stage = "saved", entry'[q].stage = "saved", entry'[p].id = entry'[q].id
       PROVE  p = q
  <2>1. CASE p = r \/ q = r
    BY <1>9, <1>11, <1>12, <2>1
  <2>2. CASE p # r /\ q # r
    BY <1>9, <1>12, <2>2 DEF EntriesOK
  <2>. QED  BY <2>1, <2>2
<1>. QED  BY <1>8, <1>9, <1>10, <1>12 DEF EntriesOK

LEMMA EntriesStay ==
  ASSUME IInv, EntriesOK, [PipelineNext]_pipeline
  PROVE  EntriesOK'
<1>1. ASSUME NEW r \in Requests, NEW http \in HttpRequests, Enter(r, http)
      PROVE  EntriesOK'
  <2>1. PICK e : e = IF resolveRequestPath(http) \in LogWhitelist
                     THEN Entry("passed", NoValue) ELSE Entry("open", LogTarget(http))
    OBVIOUS
  <2>2. entry' = [entry EXCEPT ![r] = e]
    BY <1>1, <2>1 DEF Enter, OpenEntry
  <2>3. CASE resolveRequestPath(http) \in LogWhitelist
    <3>1. e = Entry("passed", NoValue)
      BY <2>1, <2>3
    <3>2. e \in [stage : EntryStages, target : Targets \cup {NoValue}, id : Nat, at : Times]
      BY <3>1, EntryTypes DEF EntryStages
    <3>3. e.stage = "passed"
      BY <3>1 DEF Entry
    <3>. QED  BY <1>1, <2>2, <3>2, <3>3, RowsStay, UnsavedKeeps
  <2>4. CASE resolveRequestPath(http) \notin LogWhitelist
    <3>1. e = Entry("open", LogTarget(http)) /\ LogTarget(http) \in Targets
      BY <1>1, <2>1, <2>4, HttpAssumption DEF Enter, OpenEntry
    <3>2. e \in [stage : EntryStages, target : Targets \cup {NoValue}, id : Nat, at : Times]
      BY <3>1, EntryTypes DEF EntryStages
    <3>3. e.stage = "open" /\ e.target \in Targets
      BY <3>1 DEF Entry
    <3>. QED  BY <1>1, <2>2, <3>2, <3>3, RowsStay, UnsavedKeeps
  <2>. QED  BY <2>3, <2>4
<1>2. ASSUME NEW r \in Requests, NEW http \in HttpRequests, Reject(r, http)
      PROVE  EntriesOK'
  <2>1. PICK e : e = [entry[r] EXCEPT !.stage = "rejected"]
    OBVIOUS
  <2>2. entry' = [entry EXCEPT ![r] = e]
    BY <1>2, <2>1 DEF Reject
  <2>3. /\ e \in [stage : EntryStages, target : Targets \cup {NoValue}, id : Nat, at : Times]
        /\ e.stage = "rejected"
    BY <2>1 DEF EntriesOK, EntryStages
  <2>. QED  BY <1>2, <2>2, <2>3, RowsStay, UnsavedKeeps
<1>3. ASSUME UNCHANGED <<rows, entry>>
      PROVE  EntriesOK'
  BY <1>3 DEF EntriesOK, RowOf
<1>4. UNCHANGED pipeline => UNCHANGED <<rows, entry>>
  BY DEF pipeline, vars
<1>. QED  BY <1>1, <1>2, <1>3, <1>4, RowsStay, SaveKeeps DEF PipelineNext

(* The limiter judges by what the logger stored: it found a product, so no *)
(* default replaced it.                                                    *)
LEMMA SameTarget ==
  ASSUME Override = Null, NEW http \in HttpRequests, ~Defects(http)
  PROVE  LogTarget(http) = LimitTarget(http)
<1>1. extractRequestData(http) # Null
  BY DEF Defects
<1>2. applyRequestDefaults(extractRequestData(http), Override) = extractRequestData(http)
  BY <1>1 DEF applyRequestDefaults
<1>. QED  BY <1>2 DEF LogTarget, LimitTarget

LEMMA EnterKeepsTargets ==
  ASSUME IInv, EntriesOK, LoggedAsJudged, Override = Null,
         NEW r \in Requests, NEW http \in HttpRequests, Enter(r, http)
  PROVE  LoggedAsJudged'
<1>1. \A q \in Requests \ {r} : entry'[q] = entry[q] /\ request'[q] = request[q]
  <2>1. \A q \in Requests \ {r} : entry'[q] = entry[q]
    BY DEF Enter, OpenEntry, EntriesOK
  <2>2. \A q \in Requests \ {r} : request'[q] = request[q]
    BY DEF Enter, Limit, Bypass, Defective, Arrive, Answer, IInv, TypeOK
  <2>. QED  BY <2>1, <2>2
<1>2. entry'[r].stage \in {"open", "saved"} => entry'[r].target = LogTarget(http)
  BY DEF Enter, OpenEntry, Entry, EntriesOK
<1>3. request'[r].state = "checking" \/ Admitted(r)'
        => ~Defects(http) /\ request'[r].target = LimitTarget(http)
  <2>1. CASE resolveRequestPath(http) \in Whitelist
    <3>1. request'[r].state = "next" /\ request'[r].reason = "whitelisted"
      BY <2>1 DEF Enter, Limit, Bypass, IInv, TypeOK
    <3>. QED  BY <3>1 DEF Admitted
  <2>2. CASE resolveRequestPath(http) \notin Whitelist /\ Defects(http)
    <3>1. request'[r].state = "error"
      BY <2>2 DEF Enter, Limit, Defective, Answer, IInv, TypeOK
    <3>. QED  BY <3>1 DEF Admitted
  <2>3. CASE resolveRequestPath(http) \notin Whitelist /\ ~Defects(http)
    BY <2>3 DEF Enter, Limit, Arrive, IInv, TypeOK
  <2>. QED  BY <2>1, <2>2, <2>3
<1>4. ASSUME NEW q \in Requests, (request[q].state = "checking" \/ Admitted(q))',
             entry'[q].stage \in {"open", "saved"}
      PROVE  entry'[q].target = request'[q].target
  <2>1. CASE q = r
    BY <1>2, <1>3, <1>4, <2>1, SameTarget
  <2>2. CASE q # r
    <3>1. entry'[q] = entry[q] /\ request'[q] = request[q]
      BY <1>1, <2>2
    <3>. QED  BY <1>4, <3>1 DEF LoggedAsJudged, Admitted
  <2>. QED  BY <2>1, <2>2
<1>. QED  BY <1>4 DEF LoggedAsJudged

(* A step of the limiter decides, at most, on the request it was checking. *)
LEMMA LimiterKeepsTargets ==
  ASSUME IInv, LoggedAsJudged, NEW r \in Requests, LimiterStep(r)
  PROVE  LoggedAsJudged'
<1>1. UNCHANGED entry
  BY DEF LimiterStep
<1>2. CASE UNCHANGED request
  BY <1>1, <1>2 DEF LoggedAsJudged, Admitted
<1>3. CASE Decide(r)
  <2>1. request[r].state = "checking"
    BY <1>3 DEF Decide, PassError, LimitNoRule, LimitWindow, Admit, BothDone
  <2>2. PICK state, reason : Answer(r, state, reason)
    BY <1>3 DEF Decide, PassError, LimitNoRule, LimitWindow, Admit
  <2>3. /\ \A q \in Requests : request'[q].target = request[q].target
        /\ \A q \in Requests \ {r} : request'[q] = request[q]
    BY <2>2 DEF Answer, IInv, TypeOK
  <2>4. ASSUME NEW q \in Requests, (request[q].state = "checking" \/ Admitted(q))',
               entry'[q].stage \in {"open", "saved"}
        PROVE  entry'[q].target = request'[q].target
    <3>1. request[q].state = "checking" \/ Admitted(q)
      BY <2>1, <2>3, <2>4 DEF Admitted
    <3>. QED  BY <1>1, <2>3, <2>4, <3>1 DEF LoggedAsJudged
  <2>. QED  BY <2>4 DEF LoggedAsJudged
<1>4. Decide(r) \/ UNCHANGED request
  BY DEF LimiterStep, Step, AnswerRule, FinishRule, FailRule, FinishCount, FailCount, AnswerCount
<1>. QED  BY <1>2, <1>3, <1>4

LEMMA TargetsStay ==
  ASSUME IInv, EntriesOK, LoggedAsJudged, Override = Null, [PipelineNext]_pipeline
  PROVE  LoggedAsJudged'
<1>1. ASSUME NEW r \in Requests, SaveEntry(r) \/ \E http \in HttpRequests : Reject(r, http)
      PROVE  LoggedAsJudged'
  <2>1. UNCHANGED request
    BY <1>1 DEF SaveEntry, InsertRow, Reject, vars
  <2>2. ASSUME NEW q \in Requests, entry'[q].stage \in {"open", "saved"}
        PROVE  entry[q].stage \in {"open", "saved"} /\ entry'[q].target = entry[q].target
    BY <1>1, <2>2 DEF SaveEntry, Reject, EntriesOK
  <2>. QED  BY <2>1, <2>2 DEF LoggedAsJudged, Admitted
<1>2. ASSUME UNCHANGED <<request, entry>>
      PROVE  LoggedAsJudged'
  BY <1>2 DEF LoggedAsJudged, Admitted
<1>3. UNCHANGED pipeline => UNCHANGED <<request, entry>>
  BY DEF pipeline, vars
<1>. QED  BY <1>1, <1>2, <1>3, RowsStay, EnterKeepsTargets, LimiterKeepsTargets DEF PipelineNext

-----------------------------------------------------------------------------
(* Within the pipeline the limiter is the limiter: every theorem about     *)
(* Spec holds of PipelineSpec too, whatever the logger stores.             *)
LEMMA PipelineInductive == PipelineSpec => [](IInv /\ EntriesOK)
<1>1. ASSUME IInv /\ EntriesOK, [PipelineNext]_pipeline
      PROVE  (IInv /\ EntriesOK)'
  BY <1>1, PipelineSteps, StepKeeps, EntriesStay
<1>. QED  BY <1>1, PipelineBegins, PTL DEF PipelineSpec

THEOREM LimiterApart == PipelineSpec => Spec
<1>1. PipelineInit => Init
  BY DEF PipelineInit
<1>2. ASSUME EntriesOK, [PipelineNext]_pipeline
      PROVE  [Next]_vars
  BY <1>2, PipelineSteps
<1>. QED  BY <1>1, <1>2, PipelineInductive, PTL DEF PipelineSpec, Spec

(* Where no two targets share a cache key and the logger has no override   *)
(* of the product, no limit is overshot but by requests whose entries were *)
(* not in the log for TTL + MaxLatency yet: the entries the logger saves   *)
(* are the rows the limiter counts.                                        *)
THEOREM AdmissionsBounded ==
  ASSUME KeysDistinct, Override = Null
  PROVE  PipelineSpec => []AdmissionsWithinLimit
<1>1. ASSUME IInv, EntriesOK, LoggedAsJudged, EnforcedWithinTTL,
             NEW r \in Requests, Admitted(r), NEW w \in Windows,
             NEW start, start = getUtcBoundaries(request[r].arrived)[w],
             NEW old, old = {row \in RowsSince(request[r].target, start) :
                               row.at + TTL + MaxLatency <= request[r].arrived}
      PROVE  Cardinality(AdmittedBefore(r, w)) < ruleFetch[r].value.limits[w]
  <2>1. Cardinality(old) < ruleFetch[r].value.limits[w]
    BY <1>1 DEF EnforcedWithinTTL, Admitted
  <2>2. IsFiniteSet(old)
    <3>1. old \subseteq rows
      BY <1>1 DEF RowsSince
    <3>. QED  BY <1>1, <3>1, FS_Subset DEF IInv
  <2>3. PICK own : own = [q \in AdmittedBefore(r, w) |-> RowOf(q)]
    OBVIOUS
  <2>4. ASSUME NEW q \in AdmittedBefore(r, w)
        PROVE  own[q] \in old
    <3>1. /\ q \in Requests /\ Admitted(q) /\ request[q].target = request[r].target
          /\ entry[q].stage = "saved" /\ entry[q].at >= start
          /\ entry[q].at + TTL + MaxLatency <= request[r].arrived
      BY <1>1 DEF AdmittedBefore
    <3>2. RowOf(q) \in rows /\ entry[q].target = request[r].target
      BY <1>1, <3>1 DEF EntriesOK, LoggedAsJudged
    <3>3. RowOf(q).target = entry[q].target /\ RowOf(q).at = entry[q].at
      BY DEF RowOf
    <3>. QED  BY <1>1, <2>3, <3>1, <3>2, <3>3 DEF RowsSince
  <2>5. ASSUME NEW p \in AdmittedBefore(r, w), NEW q \in AdmittedBefore(r, w), own[p] = own[q]
        PROVE  p = q
    <3>1. RowOf(p) = RowOf(q) /\ entry[p].stage = "saved" /\ entry[q].stage = "saved"
          /\ p \in Requests /\ q \in Requests
      BY <2>3, <2>5 DEF AdmittedBefore
    <3>2. entry[p].id = entry[q].id
      BY <3>1 DEF RowOf
    <3>. QED  BY <1>1, <3>1, <3>2 DEF EntriesOK
  <2>6. own \in Injection(AdmittedBefore(r, w), old)
    BY <2>3, <2>4, <2>5 DEF Injection, IsInjective
  <2>7. /\ IsFiniteSet(AdmittedBefore(r, w))
        /\ Cardinality(AdmittedBefore(r, w)) <= Cardinality(old)
    BY <2>2, <2>6, FS_Injection
  <2>8. Cardinality(AdmittedBefore(r, w)) \in Nat /\ Cardinality(old) \in Nat
    BY <2>2, <2>7, FS_CardinalityType
  <2>9. ruleFetch[r].value.limits[w] \in Nat
    <3>1. Judged(r)
      BY <1>1 DEF Admitted, Judged
    <3>2. PICK t \in Targets : RuleFor(ruleFetch[r].value, t)
      BY <1>1, <3>1, DoneFetches DEF RuleUnder
    <3>. QED  BY <3>2, LimitsAssumption DEF RuleFor, RuleValues
  <2>. QED  BY <2>1, <2>7, <2>8, <2>9
<1>2. ASSUME IInv, EntriesOK, LoggedAsJudged, EnforcedWithinTTL
      PROVE  AdmissionsWithinLimit
  BY <1>1, <1>2 DEF AdmissionsWithinLimit
<1>3. ASSUME IInv /\ EntriesOK /\ LoggedAsJudged, [PipelineNext]_pipeline
      PROVE  (IInv /\ EntriesOK /\ LoggedAsJudged)'
  BY <1>3, PipelineSteps, StepKeeps, EntriesStay, TargetsStay
<1>4. Spec => []EnforcedWithinTTL
  BY Enforced
<1>. QED  BY <1>2, <1>3, <1>4, PipelineBegins, LimiterApart, PTL DEF PipelineSpec
=============================================================================
