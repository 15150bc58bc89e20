-------------------------- MODULE PrismaRetryProofs --------------------------
(* Theorems about PrismaRetry for every number of attempts, delay, jitter, *)
(* timeout, lag and set of errors.                                         *)
EXTENDS PrismaRetry, FiniteSetTheorems, WellFoundedInduction, TLAPS

-----------------------------------------------------------------------------
(* The race is open only while its query is unanswered; a sleeper has      *)
(* attempts left; queries were sent in the past; a query given up          *)
(* unanswered used up its timeout before the sleep began.                  *)
RaceOK == phase = "racing" => query[attempt].state = "pending"

SleepOK ==
  phase = "sleeping" =>
    /\ attempt + 1 \in Attempts
    /\ query[attempt].state = "pending"
         => Timeout # NoTimeout /\ wakeAt >= query[attempt].sentAt + setTimeout(Timeout)

PastOK == \A a \in Attempts : query[a].sentAt <= now

(* Only queries that were sent are applied. *)
SentOK == \A a \in Attempts : query[a].applied => query[a].state # "unsent"

IInv == TypeOK /\ RaceOK /\ SleepOK /\ PastOK /\ SentOK /\ OverlapOnlyAfterTimeout

(* A timer is armed for some natural number of ticks. *)
LEMMA TimerNat == \A d : setTimeout(d) \in Nat
  BY TimersAssumption DEF setTimeout

LEMMA AttemptsNat == \A a \in Attempts : a \in Int /\ 0 <= a /\ a <= MaxAttempts - 1
  BY OptionsAssumption DEF Attempts

LEMMA InitIInv == Init => IInv
<1>. SUFFICES ASSUME Init PROVE IInv
  OBVIOUS
<1>1. 0 \in Attempts /\ \A a \in Attempts : a > 0 <=> a # 0
  BY OptionsAssumption DEF Attempts
<1>2. \A a \in Attempts : /\ query[a].sentAt = 0
                          /\ query[a].state = IF a = 0 THEN "pending" ELSE "unsent"
                          /\ query[a].error = {} /\ query[a].applied = FALSE
  BY DEF Init, Sent, Unsent
<1>3. query \in [Attempts -> [state : {"unsent", "pending", "ok", "error"},
                              error : SUBSET Traits, applied : BOOLEAN, sentAt : Nat]]
  BY DEF Init, Sent, Unsent
<1>4. TypeOK
  BY <1>1, <1>2, <1>3 DEF Init, TypeOK
<1>5. RaceOK /\ SleepOK /\ PastOK /\ SentOK
  BY <1>1, <1>2 DEF Init, RaceOK, SleepOK, PastOK, SentOK
<1>6. OverlapOnlyAfterTimeout
  BY <1>1, AttemptsNat DEF Init, OverlapOnlyAfterTimeout
<1>. QED  BY <1>4, <1>5, <1>6 DEF IInv

(* What the catch block does to the loop. *)
LEMMA CatchEffect ==
  ASSUME IInv, NEW e, Catch(e)
  PROVE  /\ attempt' = attempt
         /\ \/ phase' = "threw" /\ wakeAt' = wakeAt
            \/ /\ phase' = "sleeping" /\ attempt + 1 \in Attempts
               /\ \E j \in JitterValues :
                    wakeAt' = now + setTimeout(calculateDelay(attempt, j))
         /\ wakeAt' \in Nat
<1>1. attempt \in Attempts /\ now \in Nat /\ wakeAt \in Nat
  BY DEF IInv, TypeOK
<1>2. CASE Throw(e)
  BY <1>1, <1>2 DEF Catch, Throw
<1>3. CASE Backoff(e)
  <2>1. attempt # MaxAttempts - 1
    BY <1>3 DEF Backoff, GivesUp
  <2>2. attempt + 1 \in Attempts
    BY <1>1, <2>1, OptionsAssumption DEF Attempts
  <2>3. PICK j \in JitterValues : wakeAt' = now + setTimeout(calculateDelay(attempt, j))
    BY <1>3 DEF Backoff
  <2>4. wakeAt' \in Nat
    BY <1>1, <2>3, TimerNat
  <2>. QED  BY <1>3, <2>2, <2>3, <2>4 DEF Catch, Backoff
<1>. QED  BY <1>2, <1>3 DEF Catch

LEMMA ApplyKeeps ==
  ASSUME IInv, NEW a \in Attempts, Apply(a)
  PROVE  IInv'
<1>1. /\ UNCHANGED <<now, attempt, phase, wakeAt>>
      /\ \A b \in Attempts : /\ query'[b].state = query[b].state
                             /\ query'[b].sentAt = query[b].sentAt
  BY DEF Apply, IInv, TypeOK
<1>2. TypeOK'
  <2>1. query' \in [Attempts -> [state : {"unsent", "pending", "ok", "error"},
                                 error : SUBSET Traits, applied : BOOLEAN, sentAt : Nat]]
    BY DEF Apply, IInv, TypeOK
  <2>. QED  BY <1>1, <2>1 DEF IInv, TypeOK
<1>3. RaceOK' /\ SleepOK' /\ PastOK'
  BY <1>1 DEF IInv, TypeOK, RaceOK, SleepOK, PastOK
<1>4. OverlapOnlyAfterTimeout'
  <2>1. \A b \in Attempts : b < attempt => b + 1 \in Attempts
    BY OptionsAssumption DEF IInv, TypeOK, Attempts
  <2>. QED  BY <1>1, <2>1 DEF IInv, OverlapOnlyAfterTimeout
<1>5. SentOK'
  BY DEF Apply, IInv, TypeOK, SentOK
<1>. QED  BY <1>2, <1>3, <1>4, <1>5 DEF IInv

(* An answer, in the race or after it. *)
LEMMA AnswerKeeps ==
  ASSUME IInv, NEW a \in Attempts, Succeed(a) \/ \E e \in Errors : Fail(a, e)
  PROVE  IInv'
<1>1. PICK state \in {"ok", "error"}, e \in SUBSET Traits :
        /\ query' = [query EXCEPT ![a].state = state, ![a].error = e]
        /\ query[a].state = "pending"
        /\ now' = now
        /\ IF InRace(a)
           THEN (phase' = "returned" /\ UNCHANGED <<attempt, wakeAt>>) \/ Catch(e)
           ELSE UNCHANGED <<attempt, phase, wakeAt>>
  <2>1. CASE Succeed(a)
    <3>1. query' = [query EXCEPT ![a].state = "ok", ![a].error = query[a].error]
          /\ query[a].error \in SUBSET Traits
      BY <2>1 DEF Succeed, IInv, TypeOK
    <3>. QED  BY <2>1, <3>1 DEF Succeed
  <2>2. ASSUME NEW e \in Errors, Fail(a, e)
        PROVE  /\ e \in SUBSET Traits
               /\ query' = [query EXCEPT ![a].state = "error", ![a].error = e]
               /\ query[a].state = "pending"
               /\ now' = now
               /\ IF InRace(a) THEN Catch(e) ELSE UNCHANGED <<attempt, phase, wakeAt>>
    BY <2>2, ErrorsAssumption DEF Fail
  <2>. QED  BY <2>1, <2>2
<1>2. /\ \A b \in Attempts : query'[b].sentAt = query[b].sentAt
      /\ \A b \in Attempts : query'[b].state = IF b = a THEN state ELSE query[b].state
      /\ \A b \in Attempts : query'[b].applied = query[b].applied
  BY <1>1 DEF IInv, TypeOK
<1>3. /\ attempt' = attempt /\ wakeAt' \in Nat
      /\ phase' \in {"racing", "sleeping", "returned", "threw"}
      /\ phase' = "sleeping" => attempt + 1 \in Attempts
      /\ phase' = "racing" => phase = "racing" /\ a # attempt
      /\ phase' = "sleeping" => a = attempt \/ (phase = "sleeping" /\ wakeAt' = wakeAt)
  <2>1. CASE InRace(a)
    <3>1. CASE phase' = "returned" /\ UNCHANGED <<attempt, wakeAt>>
      BY <3>1 DEF IInv, TypeOK
    <3>2. CASE Catch(e)
      <4>1. /\ attempt' = attempt /\ wakeAt' \in Nat
            /\ phase' = "threw" \/ (phase' = "sleeping" /\ attempt + 1 \in Attempts)
        BY <3>2, CatchEffect
      <4>. QED  BY <2>1, <4>1 DEF InRace
    <3>. QED  BY <1>1, <2>1, <3>1, <3>2
  <2>2. CASE ~InRace(a)
    BY <1>1, <2>2 DEF InRace, IInv, TypeOK, SleepOK
  <2>. QED  BY <2>1, <2>2
<1>4. TypeOK'
  <2>1. query' \in [Attempts -> [state : {"unsent", "pending", "ok", "error"},
                                 error : SUBSET Traits, applied : BOOLEAN, sentAt : Nat]]
    BY <1>1 DEF IInv, TypeOK
  <2>2. \A b \in Attempts : query'[b].state = "unsent" <=> b > attempt
    BY <1>1, <1>2 DEF IInv, TypeOK
  <2>. QED  BY <1>1, <1>3, <2>1, <2>2 DEF IInv, TypeOK
<1>5. RaceOK' /\ PastOK' /\ SentOK'
  BY <1>1, <1>2, <1>3 DEF IInv, TypeOK, RaceOK, PastOK, SentOK
<1>6. SleepOK'
  BY <1>1, <1>2, <1>3 DEF IInv, TypeOK, SleepOK
<1>7. OverlapOnlyAfterTimeout'
  <2>1. \A b \in Attempts : b < attempt => b + 1 \in Attempts
    BY OptionsAssumption DEF IInv, TypeOK, Attempts
  <2>2. \A b \in Attempts : query'[b].state = "pending" => query[b].state = "pending"
    BY <1>1, <1>2
  <2>. QED  BY <1>2, <1>3, <2>1, <2>2 DEF IInv, OverlapOnlyAfterTimeout
<1>. QED  BY <1>4, <1>5, <1>6, <1>7 DEF IInv

LEMMA TimerFiresKeeps ==
  ASSUME IInv, TimerFires
  PROVE  IInv'
<1>1. UNCHANGED <<now, query>> /\ Catch({"timeout"}) /\ phase = "racing"
      /\ Timeout # NoTimeout /\ now >= query[attempt].sentAt + setTimeout(Timeout)
  BY DEF TimerFires, Expired
<1>2. /\ attempt' = attempt /\ wakeAt' \in Nat
      /\ \/ phase' = "threw"
         \/ (phase' = "sleeping" /\ attempt + 1 \in Attempts /\ wakeAt' >= now)
  <2>1. CASE phase' = "threw"
    BY <1>1, <2>1, CatchEffect
  <2>2. ASSUME phase' = "sleeping", attempt + 1 \in Attempts, NEW j \in JitterValues,
               wakeAt' = now + setTimeout(calculateDelay(attempt, j))
        PROVE  wakeAt' >= now
    <3>1. now \in Nat
      BY DEF IInv, TypeOK
    <3>. QED  BY <2>2, <3>1, TimerNat
  <2>. QED  BY <1>1, <2>1, <2>2, CatchEffect
<1>3. TypeOK'
  BY <1>1, <1>2 DEF IInv, TypeOK
<1>4. RaceOK' /\ PastOK' /\ SentOK'
  BY <1>1, <1>2 DEF IInv, RaceOK, PastOK, SentOK
<1>5. SleepOK'
  <2>1. now \in Nat /\ query[attempt].sentAt \in Nat /\ setTimeout(Timeout) \in Nat
    BY TimerNat DEF IInv, TypeOK
  <2>. QED  BY <1>1, <1>2, <2>1 DEF SleepOK
<1>6. OverlapOnlyAfterTimeout'
  BY <1>1, <1>2 DEF IInv, OverlapOnlyAfterTimeout
<1>. QED  BY <1>3, <1>4, <1>5, <1>6 DEF IInv

LEMMA WakeKeeps ==
  ASSUME IInv, Wake
  PROVE  IInv'
<1>1. /\ attempt' = attempt + 1 /\ phase' = "racing" /\ UNCHANGED <<now, wakeAt>>
      /\ query' = [query EXCEPT ![attempt + 1] = Sent(now)]
      /\ now >= wakeAt /\ phase = "sleeping"
  BY DEF Wake
<1>2. /\ attempt \in Attempts /\ attempt + 1 \in Attempts /\ attempt + 1 # attempt
      /\ now \in Nat /\ wakeAt \in Nat
  BY <1>1, AttemptsNat DEF IInv, TypeOK, SleepOK
<1>3. \A b \in Attempts : query'[b] = IF b = attempt + 1 THEN Sent(now) ELSE query[b]
  BY <1>1, <1>2 DEF IInv, TypeOK
<1>4. TypeOK'
  <2>1. query' \in [Attempts -> [state : {"unsent", "pending", "ok", "error"},
                                 error : SUBSET Traits, applied : BOOLEAN, sentAt : Nat]]
    BY <1>1, <1>2 DEF IInv, TypeOK, Sent
  <2>2. ASSUME NEW b \in Attempts
        PROVE  query'[b].state = "unsent" <=> b > attempt'
    BY <1>1, <1>2, <1>3, AttemptsNat DEF IInv, TypeOK, Sent
  <2>. QED  BY <1>1, <1>2, <2>1, <2>2 DEF IInv, TypeOK
<1>5. RaceOK' /\ SleepOK'
  BY <1>1, <1>2, <1>3 DEF RaceOK, SleepOK, Sent
<1>6. PastOK' /\ SentOK'
  BY <1>1, <1>2, <1>3 DEF IInv, PastOK, SentOK, Sent
<1>7. OverlapOnlyAfterTimeout'
  <2>1. ASSUME NEW b \in Attempts, b < attempt', query'[b].state = "pending"
        PROVE  Timeout # NoTimeout /\ query'[b + 1].sentAt >= query'[b].sentAt + setTimeout(Timeout)
    <3>1. CASE b = attempt
      <4>1. query'[b] = query[attempt] /\ query'[b + 1].sentAt = now
        BY <1>2, <1>3, <3>1 DEF Sent
      <4>2. Timeout # NoTimeout /\ wakeAt >= query[attempt].sentAt + setTimeout(Timeout)
        BY <1>1, <2>1, <4>1 DEF IInv, SleepOK
      <4>3. query[attempt].sentAt \in Nat /\ setTimeout(Timeout) \in Nat
        BY <1>2, TimerNat DEF IInv, TypeOK
      <4>. QED  BY <1>1, <1>2, <4>1, <4>2, <4>3
    <3>2. CASE b # attempt
      <4>1. b < attempt /\ b + 1 \in Attempts /\ b + 1 # attempt + 1 /\ b # attempt + 1
        BY <1>1, <1>2, <2>1, <3>2, OptionsAssumption DEF Attempts
      <4>2. query'[b] = query[b] /\ query'[b + 1] = query[b + 1]
        BY <1>3, <4>1
      <4>. QED  BY <2>1, <4>1, <4>2 DEF IInv, OverlapOnlyAfterTimeout
    <3>. QED  BY <3>1, <3>2
  <2>. QED  BY <2>1 DEF OverlapOnlyAfterTimeout
<1>. QED  BY <1>4, <1>5, <1>6, <1>7 DEF IInv

LEMMA TickKeeps ==
  ASSUME IInv, Tick
  PROVE  IInv'
<1>1. now' = now + 1 /\ UNCHANGED <<attempt, phase, wakeAt, query>> /\ now \in Nat
  BY DEF Tick, IInv, TypeOK
<1>2. TypeOK'
  BY <1>1 DEF IInv, TypeOK
<1>3. RaceOK' /\ SleepOK' /\ SentOK' /\ OverlapOnlyAfterTimeout'
  BY <1>1 DEF IInv, RaceOK, SleepOK, SentOK, OverlapOnlyAfterTimeout
<1>4. PastOK'
  BY <1>1 DEF IInv, TypeOK, PastOK
<1>. QED  BY <1>2, <1>3, <1>4 DEF IInv

LEMMA Inductive == Spec => []IInv
<1>1. ASSUME IInv, [Next]_vars
      PROVE  IInv'
  <2>1. CASE UNCHANGED vars
    BY <1>1, <2>1 DEF vars, IInv, TypeOK, RaceOK, SleepOK, PastOK, SentOK,
                     OverlapOnlyAfterTimeout
  <2>2. CASE Next
    BY <1>1, <2>2, ApplyKeeps, AnswerKeeps, TimerFiresKeeps, WakeKeeps, TickKeeps DEF Next
  <2>. QED  BY <1>1, <2>1, <2>2
<1>. QED  BY <1>1, InitIInv, PTL DEF Spec

-----------------------------------------------------------------------------
(* The loop's variables keep their types, and its queries are sent in      *)
(* order, one for each attempt (executeWithRetry).                         *)
THEOREM TypeCorrect == Spec => []TypeOK
<1>1. IInv => TypeOK
  BY DEF IInv
<1>. QED  BY <1>1, Inductive, PTL

(* Two queries of one operation are in the database together only when the *)
(* older one used up a timeout of its own (executeWithTimeout).            *)
THEOREM NoEarlyOverlap == Spec => []OverlapOnlyAfterTimeout
<1>1. IInv => OverlapOnlyAfterTimeout
  BY DEF IInv
<1>. QED  BY <1>1, Inductive, PTL

(* The sleeper will wake no sooner than its backoff. *)
SleepsLongEnough ==
  phase = "sleeping" => wakeAt >= query[attempt].sentAt + MinDistance(attempt)

LEMMA BackoffTimer ==
  ASSUME NEW a \in Attempts
  PROVE  /\ MinDistance(a) \in Int
         /\ \A j \in JitterValues : setTimeout(calculateDelay(a, j)) >= MinDistance(a)
<1>1. a \in Nat /\ 2^a \in Int
  BY OptionsAssumption DEF Attempts
<1>2. PICK d \in Int : d = BaseDelay * 2^a
  BY <1>1, OptionsAssumption
<1>3. MinDistance(a) = IF BackoffFits(a) THEN d ELSE 1
  BY <1>2 DEF MinDistance
<1>4. ASSUME NEW j \in JitterValues
      PROVE  setTimeout(calculateDelay(a, j)) >= MinDistance(a)
  <2>1. j \in Nat /\ calculateDelay(a, j) = d + j
    BY <1>2, OptionsAssumption DEF JitterValues, calculateDelay
  <2>2. BackoffFits(a) => d + j <= TimerMax
    BY <2>1 DEF BackoffFits
  <2>3. setTimeout(d + j) >= 1 /\ (d + j <= TimerMax => setTimeout(d + j) >= d)
    BY <2>1, TimersAssumption DEF setTimeout
  <2>. QED  BY <1>3, <2>1, <2>2, <2>3
<1>. QED  BY <1>2, <1>3, <1>4

LEMMA SpacingStep ==
  ASSUME IInv, RetrySpacing, SleepsLongEnough, [Next]_vars
  PROVE  RetrySpacing' /\ SleepsLongEnough'
<1>1. \A b \in Attempts : b < attempt => b + 1 \in Attempts
  BY OptionsAssumption DEF IInv, TypeOK, Attempts
<1>2. attempt \in Attempts /\ now \in Nat /\ wakeAt \in Nat
      /\ query[attempt].sentAt \in Nat /\ query[attempt].sentAt <= now
  BY DEF IInv, TypeOK, PastOK
<1>3. ASSUME NEW e, Catch(e)
      PROVE  attempt' = attempt /\ (phase' = "sleeping" => wakeAt' >= now + MinDistance(attempt))
  <2>1. attempt' = attempt /\ (phase' = "threw" \/
          \E j \in JitterValues : wakeAt' = now + setTimeout(calculateDelay(attempt, j)))
    BY <1>3, CatchEffect
  <2>2. ASSUME NEW j \in JitterValues, wakeAt' = now + setTimeout(calculateDelay(attempt, j))
        PROVE  wakeAt' >= now + MinDistance(attempt)
    <3>1. PICK d, s : d = MinDistance(attempt) /\ s = setTimeout(calculateDelay(attempt, j))
      OBVIOUS
    <3>2. d \in Int /\ s \in Nat /\ s >= d
      BY <1>2, <3>1, BackoffTimer, TimerNat
    <3>. QED  BY <1>2, <2>2, <3>1, <3>2
  <2>. QED  BY <2>1, <2>2
<1>4. ASSUME attempt' = attempt, \A b \in Attempts : query'[b].sentAt = query[b].sentAt,
             \/ phase' # "sleeping"
             \/ (phase = "sleeping" /\ wakeAt' = wakeAt)
             \/ wakeAt' >= now + MinDistance(attempt)
      PROVE  RetrySpacing' /\ SleepsLongEnough'
  <2>1. RetrySpacing'
    BY <1>1, <1>4 DEF RetrySpacing
  <2>2. PICK d : d = MinDistance(attempt)
    OBVIOUS
  <2>3. d \in Int
    BY <1>2, <2>2, BackoffTimer
  <2>4. CASE wakeAt' >= now + MinDistance(attempt) /\ phase' = "sleeping"
    <3>1. wakeAt' \in Nat
      <4>1. CASE UNCHANGED wakeAt
        BY <1>2, <4>1
      <4>2. CASE \E e : Catch(e)
        BY <4>2, CatchEffect
      <4>3. (\E e : Catch(e)) \/ UNCHANGED wakeAt
        BY DEF Next, Apply, Succeed, Fail, TimerFires, Wake, Tick, vars
      <4>. QED  BY <4>1, <4>2, <4>3
    <3>2. wakeAt' >= query[attempt].sentAt + d
      BY <1>2, <2>2, <2>3, <2>4, <3>1
    <3>. QED  BY <1>2, <1>4, <2>1, <2>2, <3>2 DEF SleepsLongEnough
  <2>5. CASE phase' # "sleeping" \/ (phase = "sleeping" /\ wakeAt' = wakeAt)
    BY <1>2, <1>4, <2>1, <2>5 DEF SleepsLongEnough
  <2>. QED  BY <1>4, <2>4, <2>5
<1>5. ASSUME NEW a \in Attempts, Apply(a) \/ Succeed(a)
      PROVE  RetrySpacing' /\ SleepsLongEnough'
  BY <1>4, <1>5 DEF Apply, Succeed, IInv, TypeOK
<1>6. ASSUME NEW a \in Attempts, NEW e \in Errors, Fail(a, e)
      PROVE  RetrySpacing' /\ SleepsLongEnough'
  <2>1. \A b \in Attempts : query'[b].sentAt = query[b].sentAt
    BY <1>6 DEF Fail, IInv, TypeOK
  <2>2. Catch(e) \/ UNCHANGED <<attempt, phase, wakeAt>>
    BY <1>6 DEF Fail
  <2>. QED  BY <1>3, <1>4, <2>1, <2>2
<1>7. CASE TimerFires
  BY <1>3, <1>4, <1>7 DEF TimerFires
<1>8. CASE Tick \/ UNCHANGED vars
  BY <1>4, <1>8 DEF Tick, vars
<1>9. CASE Wake
  <2>1. /\ attempt' = attempt + 1 /\ phase' = "racing" /\ attempt + 1 \in Attempts
        /\ query' = [query EXCEPT ![attempt + 1] = Sent(now)]
        /\ now >= wakeAt /\ phase = "sleeping"
    BY <1>9 DEF Wake, IInv, SleepOK
  <2>2. \A b \in Attempts : query'[b] = IF b = attempt + 1 THEN Sent(now) ELSE query[b]
    BY <2>1 DEF IInv, TypeOK
  <2>3. ASSUME NEW b \in Attempts, b < attempt + 1
        PROVE  query'[b + 1].sentAt >= query'[b].sentAt + MinDistance(b)
    <3>1. CASE b = attempt
      <4>1. query'[b] = query[attempt] /\ query'[b + 1].sentAt = now
        BY <1>2, <2>1, <2>2, <3>1, AttemptsNat DEF Sent
      <4>2. wakeAt >= query[attempt].sentAt + MinDistance(attempt)
        BY <2>1 DEF SleepsLongEnough
      <4>3. PICK d : d = MinDistance(attempt)
        OBVIOUS
      <4>4. d \in Int
        BY <1>2, <4>3, BackoffTimer
      <4>. QED  BY <1>2, <2>1, <3>1, <4>1, <4>2, <4>3, <4>4
    <3>2. CASE b # attempt
      <4>1. b < attempt /\ b + 1 \in Attempts /\ b + 1 # attempt + 1 /\ b # attempt + 1
        BY <1>2, <2>1, <2>3, <3>2, OptionsAssumption DEF Attempts
      <4>2. query'[b] = query[b] /\ query'[b + 1] = query[b + 1]
        BY <2>2, <4>1
      <4>. QED  BY <4>1, <4>2 DEF RetrySpacing
    <3>. QED  BY <3>1, <3>2
  <2>. QED  BY <2>1, <2>3 DEF RetrySpacing, SleepsLongEnough
<1>. QED  BY <1>5, <1>6, <1>7, <1>8, <1>9 DEF Next

(* Attempts keep their exponential distance, wherever the timers can keep  *)
(* it (calculateDelay and msleep).                                         *)
THEOREM Spaced == Spec => []RetrySpacing
<1>1. Init => RetrySpacing /\ SleepsLongEnough
  BY AttemptsNat DEF Init, RetrySpacing, SleepsLongEnough
<1>2. IInv /\ RetrySpacing /\ SleepsLongEnough /\ [Next]_vars
        => RetrySpacing' /\ SleepsLongEnough'
  BY SpacingStep
<1>. QED  BY <1>1, <1>2, Inductive, PTL DEF Spec

(* The caller sees an operation with at most MaxAttempts effects that      *)
(* succeeds only after one (prismaRetryExtension).                         *)
THEOREM Refinement == Spec => ImplementsAtLeastOnce
<1>. DEFINE Applied == {a \in Attempts : query[a].applied}
<1>1. IsFiniteSet(Attempts) /\ Cardinality(Attempts) = MaxAttempts
  BY OptionsAssumption, FS_Interval DEF Attempts
<1>2. Init => Promise!Init
  <2>. SUFFICES ASSUME Init PROVE Promise!Init
    OBVIOUS
  <2>1. Applied = {}
    BY DEF Init, Sent, Unsent
  <2>2. Cardinality(Applied) = 0
    BY <2>1, FS_EmptySet
  <2>. QED  BY <2>2 DEF Init, Promise!Init, Outcome, Ended
<1>3. ASSUME IInv, [Next]_vars
      PROVE  [Promise!Next]_<<Cardinality(Applied), Outcome>>
  <2>. SUFFICES ASSUME Next
                PROVE  Promise!Next \/ (Cardinality(Applied)' = Cardinality(Applied) /\ Outcome' = Outcome)
    BY <1>3 DEF vars, Outcome, Ended
  <2>1. IsFiniteSet(Applied) /\ Cardinality(Applied) \in Nat
    BY <1>1, FS_Subset, FS_CardinalityType
  <2>2. ASSUME NEW a \in Attempts, Apply(a)
        PROVE  Promise!Effect
    <3>1. Applied' = Applied \cup {a} /\ a \notin Applied
      BY <1>3, <2>2 DEF Apply, IInv, TypeOK
    <3>2. Cardinality(Applied') = Cardinality(Applied) + 1
      BY <2>1, <3>1, FS_AddElement
    <3>3. Cardinality(Applied') <= MaxAttempts
      BY <1>1, FS_Subset
    <3>4. Outcome' = Outcome
      BY <2>2 DEF Apply, Outcome, Ended
    <3>. QED  BY <2>1, <3>2, <3>3, <3>4, OptionsAssumption DEF Promise!Effect
  <2>3. ASSUME \A b \in Attempts : query'[b].applied = query[b].applied
        PROVE  Cardinality(Applied)' = Cardinality(Applied)
    <3>1. Applied' = Applied
      BY <2>3
    <3>. QED  BY <3>1
  <2>4. ASSUME NEW a \in Attempts, Succeed(a)
        PROVE  Promise!Next \/ (Cardinality(Applied)' = Cardinality(Applied) /\ Outcome' = Outcome)
    <3>1. \A b \in Attempts : query'[b].applied = query[b].applied
      BY <1>3, <2>4 DEF Succeed, IInv, TypeOK
    <3>2. CASE ~InRace(a)
      BY <2>3, <2>4, <3>1, <3>2 DEF Succeed, Outcome, Ended
    <3>3. CASE InRace(a)
      <4>1. a \in Applied /\ Cardinality(Applied) # 0
        BY <2>1, <2>4, FS_EmptySet DEF Succeed
      <4>2. Outcome = "running" /\ Outcome' = "returned"
        BY <2>4, <3>3 DEF Succeed, InRace, Outcome, Ended
      <4>. QED  BY <2>1, <2>3, <3>1, <4>1, <4>2 DEF Promise!Next, Promise!Return
    <3>. QED  BY <3>2, <3>3
  <2>5. ASSUME NEW e, Catch(e), phase = "racing"
        PROVE  Outcome = "running" /\ Outcome' \in {"running", "threw"}
    BY <1>3, <2>5, CatchEffect DEF Outcome, Ended
  <2>6. ASSUME NEW a \in Attempts, NEW e \in Errors, Fail(a, e)
        PROVE  Promise!Next \/ (Cardinality(Applied)' = Cardinality(Applied) /\ Outcome' = Outcome)
    <3>1. \A b \in Attempts : query'[b].applied = query[b].applied
      BY <1>3, <2>6 DEF Fail, IInv, TypeOK
    <3>2. CASE ~InRace(a)
      BY <2>3, <2>6, <3>1, <3>2 DEF Fail, Outcome, Ended
    <3>3. CASE InRace(a)
      BY <2>3, <2>5, <2>6, <3>1, <3>3 DEF Fail, InRace, Promise!Next, Promise!Throw
    <3>. QED  BY <3>2, <3>3
  <2>7. CASE TimerFires
    <3>1. \A b \in Attempts : query'[b].applied = query[b].applied
      BY <2>7 DEF TimerFires
    <3>. QED  BY <2>3, <2>5, <2>7, <3>1 DEF TimerFires, Promise!Next, Promise!Throw
  <2>8. CASE Wake
    <3>1. /\ attempt + 1 \in Attempts /\ query[attempt + 1].state = "unsent"
          /\ query' = [query EXCEPT ![attempt + 1] = Sent(now)]
      BY <1>3, <2>8, AttemptsNat DEF Wake, IInv, TypeOK, SleepOK
    <3>2. \A b \in Attempts : query'[b].applied = query[b].applied
      BY <1>3, <3>1 DEF IInv, TypeOK, SentOK, Sent
    <3>3. Outcome' = Outcome
      BY <2>8 DEF Wake, Outcome, Ended
    <3>. QED  BY <2>3, <3>2, <3>3
  <2>9. CASE Tick
    BY <2>3, <2>9 DEF Tick, Outcome, Ended
  <2>. QED  BY <2>2, <2>4, <2>6, <2>7, <2>8, <2>9 DEF Next, Promise!Next
<1>. QED  BY <1>2, <1>3, Inductive, PTL DEF Spec, ImplementsAtLeastOnce, Promise!Spec

-----------------------------------------------------------------------------
(* A validation error ends the operation in its own race, whatever else it *)
(* says (shouldRetry).                                                     *)
THEOREM FailsFast == Spec => ValidationFailsFast
<1>. DEFINE Fast(a) == InRace(a) /\ query'[a].state = "error"
                         /\ "validation" \in query'[a].error /\ query[a].state = "pending"
                       => phase' = "threw"
<1>1. ASSUME IInv, Next, NEW a \in Attempts
      PROVE  Fast(a)
  <2>1. ASSUME NEW b \in Attempts, Apply(b)
        PROVE  query'[a].state = query[a].state
    BY <1>1, <2>1 DEF Apply, IInv, TypeOK
  <2>2. ASSUME NEW b \in Attempts, Succeed(b), b # a \/ query'[a].state # "ok"
        PROVE  query'[a].state = query[a].state
    BY <1>1, <2>2 DEF Succeed, IInv, TypeOK
  <2>3. ASSUME NEW b \in Attempts, NEW e \in Errors, Fail(b, e)
        PROVE  Fast(a)
    <3>1. CASE a = b /\ InRace(a) /\ "validation" \in e
      <4>1. ~shouldRetry(e)
        BY <3>1, ErrorsAssumption DEF shouldRetry
      <4>. QED  BY <2>3, <3>1, <4>1 DEF Fail, Catch, Throw, Backoff, GivesUp
    <3>2. CASE a = b /\ "validation" \notin e
      BY <1>1, <2>3, <3>2 DEF Fail, IInv, TypeOK
    <3>3. CASE a # b
      BY <1>1, <2>3, <3>3 DEF Fail, IInv, TypeOK
    <3>. QED  BY <3>1, <3>2, <3>3
  <2>4. CASE TimerFires \/ Tick
    BY <2>4 DEF TimerFires, Tick
  <2>5. CASE Wake
    BY <2>5 DEF Wake, InRace
  <2>. QED  BY <1>1, <2>1, <2>2, <2>3, <2>4, <2>5 DEF Next
<1>2. IInv /\ [Next]_vars => [\A a \in Attempts : Fast(a)]_vars
  BY <1>1
<1>. QED  BY <1>2, Inductive, PTL DEF Spec, ValidationFailsFast

-----------------------------------------------------------------------------
(* A set of naturals that holds zero and every successor holds them all.   *)
LEMMA Induction ==
  ASSUME NEW S \in SUBSET Nat, 0 \in S, \A n \in S : n + 1 \in S
  PROVE  S = Nat
<1>1. SUFFICES ASSUME Nat \ S # {} PROVE FALSE
  OBVIOUS
<1>2. PICK x \in Nat \ S : \A y \in Nat \ S : ~(<<y, x>> \in OpToRel(<, Nat))
  BY <1>1, NatLessThanWellFounded, WFMin
<1>3. \A y \in Nat \ S : ~(y < x)
  BY <1>2 DEF OpToRel
<1>4. x # 0 /\ x - 1 \in Nat
  OBVIOUS
<1>5. x - 1 \in S
  BY <1>3, <1>4
<1>. QED  BY <1>4, <1>5

(* The equation that defines LatestEnd has a solution, and it counts time. *)
LEMMA LatestEndValues ==
  ASSUME Timeout # NoTimeout
  PROVE  /\ \A a \in Attempts : LatestEnd[a] \in Int /\ LongestSleep(a) \in Int
         /\ LatestEnd[0] = setTimeout(Timeout) + MaxLag
         /\ \A a \in Attempts : a + 1 \in Attempts =>
              LatestEnd[a + 1] = LatestEnd[a] + LongestSleep(a) + MaxLag
                                  + setTimeout(Timeout) + MaxLag
<1>. DEFINE t == setTimeout(Timeout)
            End(g, a) == (IF a = 0 THEN 0 ELSE g[a - 1] + LongestSleep(a - 1) + MaxLag)
                           + t + MaxLag
            Upto(g, n) == g = [a \in 0 .. n |-> End(g, a)]
<1>1. t \in Nat /\ MaxLag \in Nat /\ 0 \in Attempts
  BY TimerNat, TimersAssumption, OptionsAssumption DEF Attempts
<1>2. ASSUME NEW a \in Attempts PROVE LongestSleep(a) \in Int
  <2>1. 2^a \in Int
    BY AttemptsNat
  <2>2. BaseDelay * 2^a + Jitter \in Int
    BY <2>1, OptionsAssumption
  <2>. QED  BY <2>2 DEF LongestSleep
<1>3. LatestEnd = [a \in Attempts |-> End(LatestEnd, a)]
  <2>. DEFINE S == {n \in Nat : \E g : Upto(g, n)}
  <2>. HIDE DEF t
  <2>1. 0 \in S
    <3>1. Upto([a \in 0 .. 0 |-> 0 + t + MaxLag], 0)
      OBVIOUS
    <3>. QED  BY <3>1
  <2>2. ASSUME NEW n \in S PROVE n + 1 \in S
    <3>1. PICK g : Upto(g, n)
      OBVIOUS
    <3>. DEFINE h == [a \in 0 .. n + 1 |-> IF a = n + 1 THEN End(g, n + 1) ELSE g[a]]
    <3>2. ASSUME NEW a \in 0 .. n + 1 PROVE h[a] = End(h, a)
      <4>1. a = 0 \/ h[a - 1] = g[a - 1]
        OBVIOUS
      <4>2. h[a] = End(g, a)
        BY <3>1
      <4>. QED  BY <4>1, <4>2
    <3>3. Upto(h, n + 1)
      BY <3>2
    <3>. HIDE DEF Upto, h
    <3>. QED  BY <3>3
  <2>3. S = Nat
    <3>. HIDE DEF S
    <3>1. S \in SUBSET Nat
      BY DEF S
    <3>. QED  BY <2>1, <2>2, <3>1, Induction
  <2>4. PICK g : Upto(g, MaxAttempts - 1)
    BY <2>3, OptionsAssumption
  <2>. QED  BY <2>4 DEF LatestEnd, Attempts, t
<1>. HIDE DEF t
<1>4. LatestEnd[0] = t + MaxLag
  BY <1>1, <1>3
<1>5. ASSUME NEW a \in Attempts, a + 1 \in Attempts
      PROVE  LatestEnd[a + 1] = LatestEnd[a] + LongestSleep(a) + MaxLag + t + MaxLag
  <2>1. LatestEnd[a + 1] = End(LatestEnd, a + 1)
    BY <1>3, <1>5
  <2>2. a + 1 # 0 /\ (a + 1) - 1 = a
    BY AttemptsNat
  <2>. QED  BY <2>1, <2>2
<1>6. \A a \in Attempts : LatestEnd[a] \in Int
  <2>. DEFINE S == {a \in Nat : a \in Attempts => LatestEnd[a] \in Int}
  <2>1. 0 \in S
    BY <1>1, <1>4
  <2>2. ASSUME NEW a \in S PROVE a + 1 \in S
    <3>1. a + 1 \in Attempts => a \in Attempts
      BY OptionsAssumption DEF Attempts
    <3>. QED  BY <1>1, <1>2, <1>5, <3>1
  <2>. HIDE DEF S
  <2>3. S \in SUBSET Nat
    BY DEF S
  <2>4. S = Nat
    BY <2>1, <2>2, <2>3, Induction
  <2>. QED  BY <2>4, AttemptsNat DEF S
<1>. QED  BY <1>2, <1>4, <1>5, <1>6 DEF t

(* An attempt is sent early enough for its timer, and a sleep begins early *)
(* enough for its own.                                                     *)
OnTime ==
  Timeout # NoTimeout =>
    /\ phase = "racing" =>
         LET over == query[attempt].sentAt + setTimeout(Timeout) + MaxLag
         IN  now <= over /\ over <= LatestEnd[attempt]
    /\ phase = "sleeping" =>
         /\ now <= wakeAt + MaxLag
         /\ wakeAt <= LatestEnd[attempt] + LongestSleep(attempt)

LEMMA SleepBound ==
  ASSUME NEW a \in Attempts, NEW j \in JitterValues
  PROVE  setTimeout(calculateDelay(a, j)) <= LongestSleep(a)
<1>1. a \in Nat /\ 2^a \in Int
  BY OptionsAssumption DEF Attempts
<1>2. PICK d \in Int : d = BaseDelay * 2^a
  BY <1>1, OptionsAssumption
<1>3. j \in Nat /\ j <= Jitter /\ (Jitter # 0 => j < Jitter) /\ Jitter \in Nat
  BY OptionsAssumption DEF JitterValues
<1>4. calculateDelay(a, j) = d + j /\ LongestSleep(a) = IF d + Jitter < 1 THEN 1 ELSE d + Jitter
  BY <1>2 DEF calculateDelay, LongestSleep
<1>. QED  BY <1>2, <1>3, <1>4, TimersAssumption DEF setTimeout

LEMMA OnTimeStep ==
  ASSUME IInv, OnTime, [Next]_vars
  PROVE  OnTime'
<1>. SUFFICES ASSUME Timeout # NoTimeout PROVE OnTime'
  BY DEF OnTime
<1>. DEFINE t == setTimeout(Timeout)
<1>1. /\ attempt \in Attempts /\ attempt \in Nat /\ now \in Nat /\ wakeAt \in Nat
      /\ query[attempt].sentAt \in Nat /\ query[attempt].sentAt <= now
      /\ t \in Nat /\ MaxLag \in Nat
      /\ LatestEnd[attempt] \in Int /\ LongestSleep(attempt) \in Int
  BY AttemptsNat, TimerNat, TimersAssumption, LatestEndValues DEF IInv, TypeOK, PastOK
<1>2. ASSUME NEW e, Catch(e), phase = "racing", now' = now
      PROVE  OnTime'
  <2>1. /\ attempt' = attempt /\ phase' \in {"threw", "sleeping"}
        /\ phase' = "sleeping" =>
             \E j \in JitterValues : wakeAt' = now + setTimeout(calculateDelay(attempt, j))
    BY <1>2, CatchEffect
  <2>2. ASSUME NEW j \in JitterValues, wakeAt' = now + setTimeout(calculateDelay(attempt, j))
        PROVE  now <= wakeAt' + MaxLag /\ wakeAt' <= LatestEnd[attempt] + LongestSleep(attempt)
    <3>1. PICK s \in Nat : s = setTimeout(calculateDelay(attempt, j))
      BY TimerNat
    <3>2. s <= LongestSleep(attempt)
      BY <1>1, <3>1, SleepBound
    <3>3. now <= LatestEnd[attempt]
      BY <1>1, <1>2 DEF OnTime
    <3>. HIDE DEF t
    <3>. QED  BY <1>1, <2>2, <3>1, <3>2, <3>3
  <2>. QED  BY <1>2, <2>1, <2>2 DEF OnTime
<1>3. ASSUME UNCHANGED <<now, attempt, wakeAt>>, phase' = phase \/ phase' = "returned",
             query'[attempt].sentAt = query[attempt].sentAt
      PROVE  OnTime'
  BY <1>3 DEF OnTime
<1>4. ASSUME NEW a \in Attempts, Apply(a) \/ Succeed(a)
      PROVE  OnTime'
  BY <1>1, <1>3, <1>4 DEF Apply, Succeed, IInv, TypeOK
<1>5. ASSUME NEW a \in Attempts, NEW e \in Errors, Fail(a, e)
      PROVE  OnTime'
  <2>1. query'[attempt].sentAt = query[attempt].sentAt
    BY <1>1, <1>5 DEF Fail, IInv, TypeOK
  <2>. QED  BY <1>2, <1>3, <1>5, <2>1 DEF Fail, InRace
<1>6. CASE TimerFires
  BY <1>2, <1>6 DEF TimerFires
<1>7. CASE Wake
  <2>1. /\ attempt' = attempt + 1 /\ attempt + 1 \in Attempts /\ phase' = "racing"
        /\ query'[attempt + 1].sentAt = now /\ now' = now /\ phase = "sleeping"
    BY <1>7 DEF Wake, IInv, TypeOK, SleepOK, Sent
  <2>2. now <= LatestEnd[attempt] + LongestSleep(attempt) + MaxLag
    BY <1>1, <2>1 DEF OnTime
  <2>3. LatestEnd[attempt + 1] = LatestEnd[attempt] + LongestSleep(attempt) + MaxLag + t + MaxLag
    BY <1>1, <2>1, LatestEndValues
  <2>. HIDE DEF t
  <2>4. now + t + MaxLag <= LatestEnd[attempt + 1] /\ now <= now + t + MaxLag
    BY <1>1, <2>2, <2>3
  <2>. QED  BY <2>1, <2>4 DEF OnTime, t
<1>8. CASE Tick
  <2>1. now' = now + 1 /\ UNCHANGED <<attempt, phase, wakeAt, query>> /\ ~Overdue(now)
    BY <1>8 DEF Tick
  <2>2. CASE phase = "racing"
    <3>1. ~(now - MaxLag >= query[attempt].sentAt + t)
      BY <2>1, <2>2 DEF Overdue, Expired
    <3>2. now + 1 <= query[attempt].sentAt + t + MaxLag
      BY <1>1, <3>1
    <3>. QED  BY <2>1, <2>2, <3>2 DEF OnTime
  <2>3. CASE phase = "sleeping"
    <3>1. now + 1 <= wakeAt + MaxLag
      BY <1>1, <2>1, <2>3 DEF Overdue
    <3>. QED  BY <2>1, <2>3, <3>1 DEF OnTime
  <2>. QED  BY <2>1, <2>2, <2>3 DEF OnTime
<1>9. CASE UNCHANGED vars
  BY <1>3, <1>9 DEF vars
<1>. QED  BY <1>4, <1>5, <1>6, <1>7, <1>8, <1>9 DEF Next

(* With a timeout an operation lasts no longer than its attempts, its      *)
(* sleeps and the lag of its timers together (executeWithRetry).           *)
THEOREM Bounded == Spec => []EndsInTime
<1>1. Init => OnTime
  <2>. SUFFICES ASSUME Init, Timeout # NoTimeout PROVE OnTime
    BY DEF OnTime
  <2>1. 0 \in Attempts /\ query[0].sentAt = 0
    BY OptionsAssumption DEF Init, Attempts, Sent
  <2>2. setTimeout(Timeout) \in Nat /\ MaxLag \in Nat
    BY TimerNat, TimersAssumption
  <2>. QED  BY <2>1, <2>2, LatestEndValues DEF Init, OnTime
<1>2. IInv /\ OnTime /\ [Next]_vars => OnTime'
  BY OnTimeStep
<1>3. IInv /\ OnTime => EndsInTime
  <2>. SUFFICES ASSUME IInv, OnTime, Timeout # NoTimeout PROVE EndsInTime
    BY DEF EndsInTime
  <2>1. /\ attempt \in Attempts /\ attempt \in Nat /\ now \in Nat /\ wakeAt \in Nat /\ query[attempt].sentAt \in Nat
        /\ setTimeout(Timeout) \in Nat /\ MaxLag \in Nat
    BY AttemptsNat, TimerNat, TimersAssumption DEF IInv, TypeOK
  <2>2. LatestEnd[attempt] \in Int /\ LongestSleep(attempt) \in Int
    BY <2>1, LatestEndValues
  <2>. QED  BY <2>1, <2>2 DEF OnTime, EndsInTime
<1>. QED  BY <1>1, <1>2, <1>3, Inductive, PTL DEF Spec
=============================================================================
