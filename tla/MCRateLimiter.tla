---------------------------- MODULE MCRateLimiter ----------------------------
(* Small instances of RateLimiter: a target beside a whitelisted one,      *)
(* targets whose cache keys collide, calendars of one and two windows.     *)
EXTENDS RateLimiter, TLC

CONSTANTS r1, r2,
          Offset   \* how far into its hour and its day a run begins

MCRequests == {r1, r2}
MCRequestSymmetry == Permutations(MCRequests)

Target(prefix, path, product) == [prefix |-> prefix, path |-> path, product |-> product]

Orders == Target("null", <<"/orders">>, <<"web">>)
Health == Target("null", <<"/health">>, <<"web">>)
MCWithHealth == {Orders, Health}
MCWhitelist == {Health.path}

(* Bound: the whitelisted target has neither a rule nor rows, which nothing *)
(* would read.                                                             *)
HealthUnruled == rules[Health] = NoRule /\ \A row \in rows : row.target # Health

(* A null prefix beside the prefix "default"; the path "/a:b" beside "/a". *)
MCCollidingTargets ==
  {Orders, Target("default", <<"/orders">>, <<"web">>),
   Target("app", <<"/a", "b">>, <<"web">>), Target("app", <<"/a">>, <<"b", "web">>)}

MCNoWhitelist == {}

(* A tick is a quarter of an hour or so: an hour of four, a day of eight.  *)
MCOneWindow == <<"hourly">>
MCTwoWindows == <<"daily", "hourly">>
WindowLength(w) == CASE w = "daily" -> 8 [] w = "hourly" -> 4
MCWindowStart ==
  [w \in {WindowOrder[i] : i \in DOMAIN WindowOrder} |->
     [t \in 0 .. MaxTime |->
        IF t < (t + Offset) % WindowLength(w) THEN 0 ELSE t - ((t + Offset) % WindowLength(w))]]

MCLimits ==
  {[w \in {WindowOrder[i] : i \in DOMAIN WindowOrder} |-> IF w = "hourly" THEN 1 ELSE 2]}
=============================================================================
