---------------------------- MODULE PrismaRetry -----------------------------
(***************************************************************************)
(* One operation under prismaRetryExtension: executeWithRetry's loop, the  *)
(* race of each attempt's query with its timeout, and the backoff.  The    *)
(* code between two awaits is one step, so an answer or a timer that ends  *)
(* the race also runs the catch block, up to the next sleep or the throw.  *)
(*                                                                         *)
(* The database is external.  It applies a query at most once, at any      *)
(* moment, and answers it at any later moment or never; a query that lost  *)
(* its race goes on, and can be applied after the operation has ended.     *)
(***************************************************************************)
EXTENDS Integers, FiniteSets

CONSTANTS
  MaxAttempts, BaseDelay, Jitter,
  Timeout,      \* a number, or NoTimeout for the code's null
  NoTimeout,
  TimerMax,     \* the longest delay setTimeout accepts
  Errors,       \* errors the database can answer with, each a set of traits
  MaxLag,       \* assumption: a timer runs at most this late
  MaxTime       \* bound: the clock stops here

(* What shouldRetry tests of an error. *)
Traits == {"timeout", "validation", "message", "unknown", "panic", "code"}

(* validateRetryOptions *)
ASSUME OptionsAssumption ==
  /\ MaxAttempts \in Nat \ {0}
  /\ BaseDelay \in Nat /\ Jitter \in Nat
  /\ Timeout \in Nat \cup {NoTimeout} /\ NoTimeout \notin Nat

(* An error is an instance of one class: not of PrismaRetryTimeoutError    *)
(* and of PrismaClientValidationError.                                     *)
ASSUME ErrorsAssumption ==
  \A e \in Errors : e \subseteq Traits /\ ~ {"timeout", "validation"} \subseteq e

ASSUME TimersAssumption == TimerMax \in Nat \ {0} /\ MaxLag \in Nat /\ MaxTime \in Nat

VARIABLES
  now,
  attempt,   \* the loop's counter
  phase,     \* "racing" | "sleeping" | "returned" | "threw"
  wakeAt,    \* when the sleep's timer is due
  query      \* what became of each attempt's query

vars == <<now, attempt, phase, wakeAt, query>>

Attempts == 0 .. MaxAttempts - 1

Unsent == [state |-> "unsent", error |-> {}, applied |-> FALSE, sentAt |-> 0]
Sent(t) == [state |-> "pending", error |-> {}, applied |-> FALSE, sentAt |-> t]

-----------------------------------------------------------------------------
(* Node arms a timer of 1 for a delay it cannot represent. *)
setTimeout(delay) == IF delay \in 1 .. TimerMax THEN delay ELSE 1

(* Math.random() * jitter, in whole ticks. *)
JitterValues == IF Jitter = 0 THEN {0} ELSE 0 .. Jitter - 1

(* Mutants of calculateDelay: linear backoff; one doubling too many. *)
LinearDelay(a, j) == BaseDelay * a + j
DelayDoubledOnce(a, j) == BaseDelay * 2^(a + 1) + j

calculateDelay(a, j) == BaseDelay * 2^a + j

(* Mutant of shouldRetry: the message is looked at first. *)
RetryByMessageFirst(e) == e \cap {"timeout", "message", "unknown", "panic", "code"} # {}

shouldRetry(e) ==
  \/ "timeout" \in e
  \/ /\ "validation" \notin e
     /\ e \cap {"message", "unknown", "panic", "code"} # {}

(* Mutant of Expired: one timer for all attempts. *)
ExpiredSinceStart(t) == t >= query[0].sentAt + setTimeout(Timeout)

(* The current attempt's timer is due. *)
Expired(t) == t >= query[attempt].sentAt + setTimeout(Timeout)

Overdue(t) ==
  \/ (phase = "racing" /\ Timeout # NoTimeout /\ Expired(t - MaxLag))
  \/ (phase = "sleeping" /\ t >= wakeAt + MaxLag)

-----------------------------------------------------------------------------
Init ==
  /\ now = 0
  /\ attempt = 0
  /\ phase = "racing"
  /\ wakeAt = 0
  /\ query = [a \in Attempts |-> IF a = 0 THEN Sent(0) ELSE Unsent]

GivesUp(e) == attempt = MaxAttempts - 1 \/ ~shouldRetry(e)

(* Mutant of Throw: the loop runs out and the function returns. *)
ReturnUndefined(e) ==
  /\ GivesUp(e)
  /\ phase' = "returned"
  /\ UNCHANGED wakeAt

Throw(e) ==
  /\ GivesUp(e)
  /\ phase' = "threw"
  /\ UNCHANGED wakeAt

Backoff(e) ==
  /\ ~GivesUp(e)
  /\ phase' = "sleeping"
  /\ \E j \in JitterValues : wakeAt' = now + setTimeout(calculateDelay(attempt, j))

(* The catch block, up to its await or throw. *)
Catch(e) == (Throw(e) \/ Backoff(e)) /\ UNCHANGED attempt

InRace(a) == phase = "racing" /\ a = attempt

(* The query answers.  Only in its own race does the answer count. *)
Succeed(a) ==
  /\ query[a].state = "pending" /\ query[a].applied
  /\ query' = [query EXCEPT ![a].state = "ok"]
  /\ phase' = IF InRace(a) THEN "returned" ELSE phase
  /\ UNCHANGED <<now, attempt, wakeAt>>

Fail(a, e) ==
  /\ query[a].state = "pending"
  /\ "validation" \in e => ~query[a].applied
  /\ query' = [query EXCEPT ![a].state = "error", ![a].error = e]
  /\ IF InRace(a) THEN Catch(e) ELSE UNCHANGED <<attempt, phase, wakeAt>>
  /\ UNCHANGED now

(* Mutant of TimerFires: a timer for the first attempt only. *)
TimerOnFirstAttempt ==
  /\ phase = "racing" /\ attempt = 0
  /\ Timeout # NoTimeout
  /\ Expired(now)
  /\ Catch({"timeout"})
  /\ UNCHANGED <<now, query>>

(* The timeout wins the race; the query is left to itself. *)
TimerFires ==
  /\ phase = "racing"
  /\ Timeout # NoTimeout
  /\ Expired(now)
  /\ Catch({"timeout"})
  /\ UNCHANGED <<now, query>>

(* msleep is over: the next attempt's query is sent and its timer armed. *)
Wake ==
  /\ phase = "sleeping"
  /\ now >= wakeAt
  /\ attempt' = attempt + 1
  /\ query' = [query EXCEPT ![attempt + 1] = Sent(now)]
  /\ phase' = "racing"
  /\ UNCHANGED <<now, wakeAt>>

(* The database executes a query, though its connection may be gone. *)
Apply(a) ==
  /\ ~query[a].applied
  /\ query[a].state = "error" => "message" \in query[a].error
  /\ query[a].state # "unsent"
  /\ query' = [query EXCEPT ![a].applied = TRUE]
  /\ UNCHANGED <<now, attempt, phase, wakeAt>>

Tick ==
  /\ now < MaxTime
  /\ ~Overdue(now)
  /\ now' = now + 1
  /\ UNCHANGED <<attempt, phase, wakeAt, query>>

Next ==
  \/ \E a \in Attempts : Apply(a) \/ Succeed(a)
  \/ \E a \in Attempts, e \in Errors : Fail(a, e)
  \/ TimerFires
  \/ Wake
  \/ Tick

Spec == Init /\ [][Next]_vars

(* Time passes and due timers run; the database owes nothing. *)
FairSpec == Spec /\ WF_vars(Tick) /\ WF_vars(TimerFires) /\ WF_vars(Wake)

-----------------------------------------------------------------------------
(* Every variable holds values of its kind; queries are sent in order. *)
TypeOK ==
  /\ now \in Nat /\ wakeAt \in Nat
  /\ attempt \in Attempts
  /\ phase \in {"racing", "sleeping", "returned", "threw"}
  /\ query \in [Attempts -> [state : {"unsent", "pending", "ok", "error"},
                             error : SUBSET Traits, applied : BOOLEAN, sentAt : Nat]]
  /\ \A a \in Attempts : query[a].state = "unsent" <=> a > attempt

Ended == phase \in {"returned", "threw"}

(* Attempts keep their distance: the next query is sent no sooner than     *)
(* BaseDelay doubled for each attempt so far (README: "exponential         *)
(* backoff"), so a failing database is asked ever more rarely; but past    *)
(* the longest delay a timer takes, for which nothing caps the backoff,    *)
(* one tick is all that can be said.                                       *)
BackoffFits(a) == \A j \in JitterValues : calculateDelay(a, j) <= TimerMax

MinDistance(a) == IF BackoffFits(a) THEN BaseDelay * 2^a ELSE 1

RetrySpacing ==
  \A a \in Attempts :
    a < attempt => query[a + 1].sentAt >= query[a].sentAt + MinDistance(a)

(* Two queries of one operation are in the database together only when the *)
(* older one has used up a whole timeout of its own; without a timeout     *)
(* there is never more than one.                                           *)
OverlapOnlyAfterTimeout ==
  \A a \in Attempts :
    a < attempt /\ query[a].state = "pending"
      => /\ Timeout # NoTimeout
         /\ query[a + 1].sentAt >= query[a].sentAt + setTimeout(Timeout)

(* With a timeout the operation is bounded in time, whatever the database  *)
(* does: each attempt by the timeout, each sleep by its backoff, at least  *)
(* a tick, and each timer by its lag.                                      *)
LongestSleep(a) == LET d == BaseDelay * 2^a + Jitter IN IF d < 1 THEN 1 ELSE d

LatestEnd[a \in Attempts] ==
  (IF a = 0 THEN 0 ELSE LatestEnd[a - 1] + LongestSleep(a - 1) + MaxLag)
    + setTimeout(Timeout) + MaxLag

EndsInTime ==
  Timeout # NoTimeout =>
    /\ phase = "racing" => now <= LatestEnd[attempt]
    /\ phase = "sleeping" => now <= LatestEnd[attempt] + LongestSleep(attempt) + MaxLag

(* A query rejected as invalid is not sent again, whatever its message     *)
(* says (README: "letting validation errors fail fast").                   *)
ValidationFailsFast ==
  [][\A a \in Attempts :
       InRace(a) /\ query'[a].state = "error" /\ "validation" \in query'[a].error
         /\ query[a].state = "pending"
         => phase' = "threw"]_vars

(* The caller sees an operation that takes effect at most MaxAttempts      *)
(* times and succeeds only if it took effect.                              *)
Outcome == IF Ended THEN phase ELSE "running"

Promise == INSTANCE AtLeastOnce WITH
  Max <- MaxAttempts,
  effects <- Cardinality({a \in Attempts : query[a].applied}),
  outcome <- Outcome

ImplementsAtLeastOnce == Promise!Spec

(* With a timeout every operation ends, even if the database never answers. *)
EventuallyEnds == <>Ended
=============================================================================
