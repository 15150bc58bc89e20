----------------------------- MODULE RateLimiter -----------------------------
(***************************************************************************)
(* rateLimiterMiddleware and assertCapacity: concurrent requests share one *)
(* process-wide RULE_CACHE, read the rule and the per-window counts from   *)
(* the database when it misses, and decide.  A step is what runs between   *)
(* two awaits; the database answers each query on its own, so the counts   *)
(* of one request can come from different moments, and a late answer can   *)
(* overwrite a newer one in the cache.                                     *)
(*                                                                         *)
(* The database is external: `rows` is the request log, `rules` the rule   *)
(* table, both changed by others at any time.                              *)
(***************************************************************************)
EXTENDS CacheMap, Sequences

CONSTANTS
  Requests,     \* calls of the middleware
  Targets,      \* [prefix, path, product]: whose rule and rows are meant;
                \* path and product are sequences of ':'-free pieces
  Whitelist,    \* paths that are never limited
  WindowOrder,  \* the windows in the order assertCapacity tests them
  WindowStart,  \* WindowStart[w][t]: start of the calendar window w at t
  Limits,       \* the limits a rule can state, one number for each window
  NoRule,       \* the rule table has no row
  NoValue,      \* nothing answered yet
  TTL,          \* ruleCachingExpirationSeconds
  MaxSize,      \* RULE_CACHE's size
  MaxLatency,   \* assumption: a query is answered or fails within this time
  MaxRows,      \* bound: rows the request log receives
  MaxTime       \* bound: the clock stops here

Times == 0 .. MaxTime
Windows == {WindowOrder[i] : i \in DOMAIN WindowOrder}

(* How a request can end other than by an exhausted window. *)
Reasons ==
  {"none", "whitelisted", "bad request", "failed", "full", "no rule", "within limits"}

ASSUME TTLAssumption == TTL \in Nat
ASSUME MaxSizeAssumption == MaxSize \in Nat
ASSUME TimeAssumption == MaxTime \in Nat /\ MaxLatency \in Nat \ {0}
ASSUME TargetAssumption ==
  \A t \in Targets : t.path \in Seq(STRING) /\ t.product \in Seq(STRING)
ASSUME WindowAssumption ==
  /\ WindowOrder \in Seq(Windows)
  /\ Windows \cap Reasons = {}
  /\ WindowStart \in [Windows -> [Times -> Times]]
  /\ \A w \in Windows : \A t, u \in Times :
       t <= u => WindowStart[w][t] <= WindowStart[w][u]
ASSUME LimitsAssumption == Limits \subseteq [Windows -> Nat]
ASSUME NoRuleAssumption ==
  /\ NoRule \notin Limits
  /\ NoRule \notin [target : Targets, asked : Times, limits : Limits]

VARIABLES
  ruleCache,    \* RULE_CACHE
  now,          \* Date.now()
  rules,        \* rule table: the limits in force for each target, or NoRule
  rows,         \* request log: [target, id, at]
  request,      \* each call: how far it is and how it ended
  ruleFetch,    \* each call's fetchRateLimiterRule
  countFetch    \* each call's fetchRateLimiterCount

vars == <<ruleCache, now, rules, rows, request, ruleFetch, countFetch>>

-----------------------------------------------------------------------------
(* A null prefix and the prefix "default" share a scope. *)
Scope(t) == IF t.prefix = "null" THEN "default" ELSE t.prefix

(* The parts of a key are joined with ':', which paths and products may    *)
(* contain: only the pieces survive, not where the path ends.              *)
RuleKey(t) == <<"rule", Scope(t)>> \o t.path \o t.product
(* Mutant of CountKey: one counter for all the paths of a product. *)
CountKeyWithoutPath(t) == <<"count", Scope(t)>> \o t.product
CountKey(t) == <<"count", Scope(t)>> \o t.path \o t.product

getUtcBoundaries(t) == [w \in Windows |-> WindowStart[w][t]]

RowsSince(t, start) == {row \in rows : row.target = t /\ row.at >= start}

(* `asked` records when the queries behind a value were sent, `target` for *)
(* whom; the code keeps neither.                                           *)
RuleValue(t, asked, limits) == [target |-> t, asked |-> asked, limits |-> limits]
CountValue(t, asked, n) == [target |-> t, asked |-> asked, n |-> n]

Unsampled == -1

Fetch(state, value) == [state |-> state, value |-> value]

Outstanding(f) == f.state \in {"asked", "answered"}
(* Mutant of Rejected: only a failed query counts as a rejection. *)
RejectedByQueryOnly(f) == f.state = "failed"
Rejected(f) == f.state \in {"failed", "full"}

-----------------------------------------------------------------------------
Init ==
  /\ ruleCache = EmptyCache
  /\ now = 0
  /\ rules \in [Targets -> Limits \cup {NoRule}]
  /\ rows = {}
  /\ request = [r \in Requests |->
                  [state |-> "new", target |-> NoValue, arrived |-> 0, reason |-> "none"]]
  /\ ruleFetch = [r \in Requests |-> Fetch("idle", NoValue)]
  /\ countFetch = [r \in Requests |-> Fetch("idle", NoValue)]

Answer(r, state, reason) ==
  request' = [request EXCEPT ![r].state = state, ![r].reason = reason]

(* The path is whitelisted: next() without looking at anything. *)
Bypass(r, t) ==
  /\ request[r].state = "new"
  /\ t.path \in Whitelist
  /\ request' = [request EXCEPT ![r] =
       [state |-> "next", target |-> t, arrived |-> now, reason |-> "whitelisted"]]
  /\ UNCHANGED <<ruleCache, now, rules, rows, ruleFetch, countFetch>>

(* No context, an unreadable body, no path or no product: next(error)      *)
(* before any query.                                                       *)
Defective(r) ==
  /\ request[r].state = "new"
  /\ Answer(r, "error", "bad request")
  /\ UNCHANGED <<ruleCache, now, rules, rows, ruleFetch, countFetch>>

(* assertCapacity up to its await: both lookups, then the queries of those *)
(* that missed, with the window starts of this moment.                     *)
Arrive(r, t) ==
  /\ request[r].state = "new"
  /\ t.path \notin Whitelist
  /\ request' = [request EXCEPT ![r] =
       [state |-> "checking", target |-> t, arrived |-> now, reason |-> "none"]]
  /\ ruleFetch' = [ruleFetch EXCEPT ![r] =
       IF RuleKey(t) \in Live(ruleCache, now)
       THEN Fetch("done", ruleCache[RuleKey(t)].value)
       ELSE Fetch("asked", NoValue)]
  /\ countFetch' = [countFetch EXCEPT ![r] =
       IF CountKey(t) \in Live(ruleCache, now)
       THEN Fetch("done", ruleCache[CountKey(t)].value)
       ELSE Fetch("asked", CountValue(t, now, [w \in Windows |-> Unsampled]))]
  /\ ruleCache' = Purge(Purge(ruleCache, RuleKey(t), now), CountKey(t), now)
  /\ UNCHANGED <<now, rules, rows>>

(* The database reads the rule of r's target. *)
AnswerRule(r) ==
  /\ ruleFetch[r].state = "asked"
  /\ LET t == request[r].target
     IN  ruleFetch' = [ruleFetch EXCEPT ![r] =
           Fetch("answered",
                 IF rules[t] = NoRule THEN NoRule
                 ELSE RuleValue(t, request[r].arrived, rules[t]))]
  /\ UNCHANGED <<ruleCache, now, rules, rows, request, countFetch>>

(* fetchRateLimiterRule resumes: the absence of a rule is not cached, and  *)
(* a full cache makes the fetch itself fail.                               *)
FinishRule(r) ==
  LET v == ruleFetch[r].value
      k == RuleKey(request[r].target)
      full == v # NoRule /\ Refused(ruleCache, k, now, MaxSize)
  IN  /\ ruleFetch[r].state = "answered"
      /\ ruleCache' = IF v = NoRule THEN ruleCache
                      ELSE SetItem(ruleCache, k, v, TTL, now, MaxSize)
      /\ ruleFetch' = [ruleFetch EXCEPT ![r].state = IF full THEN "full" ELSE "done"]
      /\ UNCHANGED <<now, rules, rows, request, countFetch>>

(* Mutant of AnswerCount: every window is counted from the longest one's start. *)
AnswerCountFromLongest(r, w) ==
  /\ countFetch[r].state = "asked"
  /\ countFetch[r].value.n[w] = Unsampled
  /\ LET v == countFetch[r].value
     IN  countFetch' = [countFetch EXCEPT ![r].value.n[w] =
           Cardinality(RowsSince(v.target, getUtcBoundaries(v.asked)[WindowOrder[1]]))]
  /\ UNCHANGED <<ruleCache, now, rules, rows, request, ruleFetch>>

(* The database counts the rows of one window, each window on its own. *)
AnswerCount(r, w) ==
  /\ countFetch[r].state = "asked"
  /\ countFetch[r].value.n[w] = Unsampled
  /\ LET v == countFetch[r].value
     IN  countFetch' = [countFetch EXCEPT ![r].value.n[w] =
           Cardinality(RowsSince(v.target, getUtcBoundaries(v.asked)[w]))]
  /\ UNCHANGED <<ruleCache, now, rules, rows, request, ruleFetch>>

(* fetchRateLimiterCount resumes once all windows have been counted. *)
FinishCount(r) ==
  LET v == countFetch[r].value
      k == CountKey(request[r].target)
      full == Refused(ruleCache, k, now, MaxSize)
  IN  /\ countFetch[r].state = "asked"
      /\ \A w \in Windows : v.n[w] # Unsampled
      /\ ruleCache' = SetItem(ruleCache, k, v, TTL, now, MaxSize)
      /\ countFetch' = [countFetch EXCEPT ![r].state = IF full THEN "full" ELSE "done"]
      /\ UNCHANGED <<now, rules, rows, request, ruleFetch>>

FailRule(r) ==
  /\ Outstanding(ruleFetch[r])
  /\ ruleFetch' = [ruleFetch EXCEPT ![r] = Fetch("failed", NoValue)]
  /\ UNCHANGED <<ruleCache, now, rules, rows, request, countFetch>>

FailCount(r) ==
  /\ Outstanding(countFetch[r])
  /\ countFetch' = [countFetch EXCEPT ![r] = Fetch("failed", NoValue)]
  /\ UNCHANGED <<ruleCache, now, rules, rows, request, ruleFetch>>

(* Promise.all rejects with the first failure and does not wait for the    *)
(* other fetch, which goes on to write the cache: next(error).             *)
PassError(r) ==
  /\ request[r].state = "checking"
  /\ \E f \in {ruleFetch[r], countFetch[r]} : Rejected(f) /\ Answer(r, "error", f.state)
  /\ UNCHANGED <<ruleCache, now, rules, rows, ruleFetch, countFetch>>

BothDone(r) ==
  /\ request[r].state = "checking"
  /\ ruleFetch[r].state = "done"
  /\ countFetch[r].state = "done"

(* Mutant of Exhausted: the limit itself is still allowed. *)
ExhaustedBeyond(r, w) == countFetch[r].value.n[w] > ruleFetch[r].value.limits[w]

Exhausted(r, w) == countFetch[r].value.n[w] >= ruleFetch[r].value.limits[w]

(* No rule is a RateLimitException too: 429. *)
LimitNoRule(r) ==
  /\ BothDone(r)
  /\ ruleFetch[r].value = NoRule
  /\ Answer(r, "429", "no rule")
  /\ UNCHANGED <<ruleCache, now, rules, rows, ruleFetch, countFetch>>

(* The first exhausted window names the exception: 429. *)
LimitWindow(r) ==
  /\ BothDone(r)
  /\ ruleFetch[r].value # NoRule
  /\ \E i \in DOMAIN WindowOrder :
       /\ Exhausted(r, WindowOrder[i])
       /\ \A j \in 1 .. i - 1 : ~Exhausted(r, WindowOrder[j])
       /\ Answer(r, "429", WindowOrder[i])
  /\ UNCHANGED <<ruleCache, now, rules, rows, ruleFetch, countFetch>>

Admit(r) ==
  /\ BothDone(r)
  /\ ruleFetch[r].value # NoRule
  /\ \A w \in Windows : ~Exhausted(r, w)
  /\ Answer(r, "next", "within limits")
  /\ UNCHANGED <<ruleCache, now, rules, rows, ruleFetch, countFetch>>

resetRateLimiterCache ==
  /\ ruleCache' = EmptyCache
  /\ UNCHANGED <<now, rules, rows, request, ruleFetch, countFetch>>

-----------------------------------------------------------------------------
(* Others: a request is logged (the table stamps the row itself), a rule   *)
(* is written or removed, time passes.                                     *)
InsertRow(t) ==
  /\ Cardinality(rows) < MaxRows
  /\ rows' = rows \cup {[target |-> t, id |-> Cardinality(rows), at |-> now]}
  /\ UNCHANGED <<ruleCache, now, rules, request, ruleFetch, countFetch>>

ChangeRule(t, limits) ==
  /\ rules' = [rules EXCEPT ![t] = limits]
  /\ UNCHANGED <<ruleCache, now, rows, request, ruleFetch, countFetch>>

Tick ==
  /\ now < MaxTime
  /\ \A r \in Requests :
       Outstanding(ruleFetch[r]) \/ Outstanding(countFetch[r])
         => now < request[r].arrived + MaxLatency
  /\ now' = now + 1
  /\ UNCHANGED <<ruleCache, rules, rows, request, ruleFetch, countFetch>>

Decide(r) == PassError(r) \/ LimitNoRule(r) \/ LimitWindow(r) \/ Admit(r)

Next ==
  \/ \E r \in Requests, t \in Targets : Bypass(r, t) \/ Arrive(r, t)
  \/ \E r \in Requests :
       \/ Defective(r)
       \/ AnswerRule(r) \/ FinishRule(r) \/ FailRule(r)
       \/ FinishCount(r) \/ FailCount(r)
       \/ Decide(r)
  \/ \E r \in Requests, w \in Windows : AnswerCount(r, w)
  \/ \E t \in Targets : InsertRow(t)
  \/ \E t \in Targets, limits \in Limits \cup {NoRule} : ChangeRule(t, limits)
  \/ resetRateLimiterCache
  \/ Tick

Spec == Init /\ [][Next]_vars

(* What the database and the event loop owe a request. *)
Step(r) ==
  \/ AnswerRule(r) \/ FinishRule(r) \/ FailRule(r)
  \/ FinishCount(r) \/ FailCount(r) \/ \E w \in Windows : AnswerCount(r, w)
  \/ Decide(r)

(* The database settles every query and the event loop runs every          *)
(* continuation that is ready; nothing makes clients, rows or time go on.  *)
Fairness == \A r \in Requests : WF_vars(Step(r))

FairSpec == Spec /\ Fairness

-----------------------------------------------------------------------------
Counts == [Windows -> Nat \cup {Unsampled}]
RuleValues == [target : Targets, asked : Times, limits : Limits]
CountValues == [target : Targets, asked : Times, n : Counts]
CacheKeys == {RuleKey(t) : t \in Targets} \cup {CountKey(t) : t \in Targets}

FetchStates == {"idle", "asked", "answered", "done", "failed", "full"}

(* Every variable holds values of its kind. *)
TypeOK ==
  /\ now \in Times
  /\ rules \in [Targets -> Limits \cup {NoRule}]
  /\ rows \subseteq [target : Targets, id : Nat, at : Times]
  /\ request \in [Requests ->
       [state : {"new", "checking", "next", "429", "error"},
        target : Targets \cup {NoValue}, arrived : Times,
        reason : Reasons \cup Windows]]
  /\ ruleFetch \in [Requests ->
       [state : FetchStates, value : RuleValues \cup {NoRule, NoValue}]]
  /\ countFetch \in [Requests -> [state : FetchStates, value : CountValues \cup {NoValue}]]
  /\ DOMAIN ruleCache \subseteq CacheKeys
  /\ ruleCache \in [DOMAIN ruleCache -> CacheItem(RuleValues \cup CountValues, Nat)]

(* No two targets share a cache key. *)
KeysDistinct ==
  \A t, u \in Targets : RuleKey(t) = RuleKey(u) \/ CountKey(t) = CountKey(u) => t = u

(* A request is judged by the rule and the counts of its own target, never *)
(* by values another prefix, path or product left in the shared RULE_CACHE *)
(* (the tests at rate-limiter.test.ts:226 and :360 say so of prefixes).    *)
NoReuseAcrossTargets ==
  \A r \in Requests :
    /\ ruleFetch[r].state = "done" /\ ruleFetch[r].value # NoRule
         => ruleFetch[r].value.target = request[r].target
    /\ countFetch[r].state = "done" => countFetch[r].value.target = request[r].target

(* A 429 for a window is earned: the request's own target really has as    *)
(* many rows as the limit in that window, as it began when they were       *)
(* counted, however the three counts, the rule and the cache interleaved.  *)
RejectionJustified ==
  \A r \in Requests :
    request[r].state = "429" /\ request[r].reason \in Windows
      => LET w == request[r].reason
             start == getUtcBoundaries(countFetch[r].value.asked)[w]
         IN  Cardinality(RowsSince(request[r].target, start))
               >= ruleFetch[r].value.limits[w]

Judged(r) == request[r].reason \in {"within limits"} \cup Windows

(* Whatever the cache did in between (sharing, late answers that overwrite *)
(* newer ones, refreshes), a verdict rests on a rule and on counts asked   *)
(* for less than TTL + MaxLatency before the request arrived.              *)
VerdictsRestOnFreshData ==
  \A r \in Requests :
    Judged(r) =>
      /\ request[r].arrived < ruleFetch[r].value.asked + TTL + MaxLatency \/
         request[r].arrived = ruleFetch[r].value.asked
      /\ request[r].arrived < countFetch[r].value.asked + TTL + MaxLatency \/
         request[r].arrived = countFetch[r].value.asked

(* Caching delays the limit by no more than TTL + MaxLatency: once a       *)
(* target's rows in a window that are older than that reach the limit, no  *)
(* request is let through.                                                 *)
EnforcedWithinTTL ==
  \A r \in Requests :
    request[r].state = "next" /\ request[r].reason = "within limits"
      => \A w \in Windows :
           LET start == getUtcBoundaries(request[r].arrived)[w]
               old == {row \in RowsSince(request[r].target, start) :
                         row.at + TTL + MaxLatency <= request[r].arrived}
           IN  Cardinality(old) < ruleFetch[r].value.limits[w]

(* A fetch fails for lack of room only while MaxSize other keys are live:  *)
(* requests of a target already cached, and refreshes of expired entries,  *)
(* are not turned into server errors by a cache full of the dead.          *)
FullMeansOtherKeysLive ==
  [][\A r \in Requests :
       /\ ruleFetch[r].state # "full" /\ ruleFetch'[r].state = "full"
            => Cardinality(Live(ruleCache, now) \ {RuleKey(request[r].target)}) >= MaxSize
       /\ countFetch[r].state # "full" /\ countFetch'[r].state = "full"
            => Cardinality(Live(ruleCache, now) \ {CountKey(request[r].target)}) >= MaxSize]_vars

(* Every request gets its next(), next(error) or 429, whichever fetch      *)
(* fails, and in whichever order the answers come.                         *)
EveryRequestAnswered ==
  \A r \in Requests : request[r].state = "checking"
                       ~> request[r].state \in {"next", "429", "error"}
=============================================================================
