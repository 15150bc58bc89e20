------------------------ MODULE DatabaseCacheProofs -------------------------
(***************************************************************************)
(* Theorems about DatabaseCache: its type invariant, that no value         *)
(* outlives its lifetime for a call made after it, and who may lose a live *)
(* row; for all clients, keys, lifetimes and clock rates.                  *)
(***************************************************************************)
EXTENDS DatabaseCache, TLAPS

(* A row written by set expires at the second it was set in, plus its      *)
(* lifetime.                                                               *)
WellDated(row) ==
  row.expiresAt # Never => row.expiresAt = nowInSeconds(row.setAt) + row.lifetime

Dated ==
  /\ \A k \in Keys : table[k] # None => WellDated(table[k])
  /\ \A c \in Clients : call[c].row # None => WellDated(call[c].row)

(* Whoever is answered asked before the row's second of expiry. *)
ServedInTime ==
  \A c \in Clients : call[c].op \in Answers => ~Expired(call[c].row, call[c].asked)

IInv == TypeOK /\ Dated /\ ServedInTime

-----------------------------------------------------------------------------
LEMMA Floor ==
  ASSUME NEW t \in Nat
  PROVE  /\ nowInSeconds(t) \in Nat
         /\ nowInSeconds(t) * TicksPerSecond <= t
         /\ t < (nowInSeconds(t) + 1) * TicksPerSecond
  BY TimeAssumption DEF nowInSeconds

LEMMA TimesMonotone ==
  ASSUME NEW a \in Nat, NEW b \in Nat, NEW c \in Nat, a <= b
  PROVE  a * c <= b * c
  OBVIOUS

(* What the code calls expired is no longer live, and stays so. *)
LEMMA ExpiredIsDead ==
  ASSUME NEW row \in Rows, NEW t \in Nat, NEW u \in Nat, t <= u, Expired(row, t)
  PROVE  ~Live(row, u)
<1> DEFINE s == nowInSeconds(t)
           e == row.expiresAt
<1>1. e \in Nat /\ e # Never /\ s \in Nat /\ e <= s
  BY Floor, NullsAssumption DEF Rows, Expired
<1>2. s * TicksPerSecond <= t
  BY Floor
<1>3. TicksPerSecond \in Nat
  BY TimeAssumption
<1> HIDE DEF s, e
<1>4. e * TicksPerSecond <= s * TicksPerSecond
  BY <1>1, <1>3, TimesMonotone
<1>5. e * TicksPerSecond \in Nat /\ s * TicksPerSecond \in Nat
  BY <1>1, <1>3
<1>6. ~(u < e * TicksPerSecond)
  BY <1>2, <1>4, <1>5
<1> QED
  BY <1>1, <1>6 DEF e, Live

(* And what it does not call expired is younger than its lifetime. *)
LEMMA UnexpiredIsYoung ==
  ASSUME NEW row \in Rows, NEW t \in Nat,
         row.expiresAt # Never, WellDated(row), ~Expired(row, t)
  PROVE  t < row.setAt + row.lifetime * TicksPerSecond
<1> DEFINE s == nowInSeconds(t)
           b == nowInSeconds(row.setAt)
           l == row.lifetime
           T == TicksPerSecond
<1>1. row.setAt \in Nat /\ l \in Nat /\ T \in Nat
  BY TimeAssumption DEF Rows
<1>2. s \in Nat /\ b \in Nat /\ t < (s + 1) * T /\ b * T <= row.setAt
  BY <1>1, Floor
<1>3. s + 1 <= b + l
  <2>1. s < b + l
    BY <1>1, <1>2 DEF WellDated, Expired, Rows
  <2> QED
    BY <1>1, <1>2, <2>1
<1> HIDE DEF s, b, l, T
<1>4. (s + 1) * T <= (b + l) * T
  <2>1. s + 1 \in Nat /\ b + l \in Nat
    BY <1>1, <1>2
  <2> QED
    BY <1>1, <1>3, <2>1, TimesMonotone
<1>5. (b + l) * T = b * T + l * T
  BY <1>1, <1>2
<1>6. b * T \in Nat /\ l * T \in Nat /\ (s + 1) * T \in Nat
  BY <1>1, <1>2
<1>7. t < row.setAt + l * T
  BY <1>1, <1>2, <1>4, <1>5, <1>6
<1> QED
  BY <1>7 DEF l, T

-----------------------------------------------------------------------------
(* A value is never served to a call made its whole lifetime after it was  *)
(* set: the invariant relates each answer's row's dates to the call's.       *)
LEMMA InTime == IInv => NeverServedTooLate
<1> SUFFICES ASSUME IInv, NEW c \in Clients,
                    call[c].op \in Answers, call[c].row.expiresAt # Never
             PROVE  call[c].asked < call[c].row.setAt
                                      + call[c].row.lifetime * TicksPerSecond
  BY DEF NeverServedTooLate
<1>1. call[c].row \in Rows /\ call[c].asked \in Nat /\ call[c].row # None
  BY DEF IInv, TypeOK, Calls
<1>2. WellDated(call[c].row) /\ ~Expired(call[c].row, call[c].asked)
  BY <1>1 DEF IInv, Dated, ServedInTime
<1> QED
  BY <1>1, <1>2, UnexpiredIsYoung

-----------------------------------------------------------------------------
LEMMA PermanentIsRow == PermanentRow \in Rows
  BY TimeAssumption DEF PermanentRow, Rows

LEMMA InitInv == Init => IInv
<1> SUFFICES ASSUME Init PROVE IInv
  OBVIOUS
<1>1. TypeOK
  BY PermanentIsRow DEF Init, TypeOK, Calls, Operations, Answers
<1>2. Dated
  BY DEF Init, Dated, WellDated, PermanentRow
<1>3. ServedInTime
  BY DEF Init, ServedInTime, Answers
<1> QED
  BY <1>1, <1>2, <1>3 DEF IInv

(* Starting a method: its clock is read, and a row it carries is dated. *)
LEMMA StartStep ==
  ASSUME IInv, NEW c \in Clients, NEW k \in Keys, NEW row \in Rows \cup {None},
         NEW op \in Operations \ Answers, Start(c, op, k, row),
         row # None => WellDated(row) /\ op = "upsert",
         op = "upsert" => row # None
  PROVE  IInv'
<1> USE DEF IInv, TypeOK, Start
<1>1. [op |-> op, key |-> k, asked |-> now, row |-> row] \in Calls
  BY DEF Calls
<1>2. TypeOK'
  BY <1>1 DEF Live
<1>3. Dated'
  BY <1>1 DEF Dated, WellDated
<1>4. ServedInTime'
  BY <1>1 DEF ServedInTime, Expired
<1> QED
  BY <1>2, <1>3, <1>4

(* Every write leaves rows that were dated before it. *)
LEMMA ReturnStep ==
  ASSUME IInv, NEW c \in Clients, Return(c), UNCHANGED now,
         table' \in [Keys -> Rows \cup {None}],
         \A k \in Keys : table'[k] # None => WellDated(table'[k])
  PROVE  IInv'
<1> USE DEF IInv, TypeOK, Return
<1>1. /\ call' \in [Clients -> Calls]
      /\ call'[c].op = "none" /\ call'[c].asked = call[c].asked /\ call'[c].row = None
      /\ \A d \in Clients : d # c => call'[d] = call[d]
  BY DEF Calls, Operations, Answers
<1>2. TypeOK'
  BY <1>1 DEF Live, Answers
<1>3. Dated'
  BY <1>1 DEF Dated, WellDated
<1>4. ServedInTime'
  BY <1>1 DEF ServedInTime, Expired, Answers
<1> QED
  BY <1>2, <1>3, <1>4

(* What a SELECT makes of a row: an answer if it has not expired, and a    *)
(* removal only if it has.                                                 *)
LEMMA RowFound ==
  ASSUME IInv, NEW c \in Clients, UNCHANGED <<now, table>>,
         NEW op \in {"remove"} \cup Answers,
         NEW row, row = table[call[c].key], row # None,
         call' = [call EXCEPT ![c].op = op, ![c].row = row],
         op = "remove" => Expired(row, call[c].asked),
         op \in Answers => ~Expired(row, call[c].asked)
  PROVE  IInv'
<1>1. call[c] \in Calls /\ call[c].key \in Keys /\ call[c].asked \in Nat
        /\ call[c].asked <= now /\ now \in Nat
  BY DEF IInv, TypeOK, Calls
<1>2. row \in Rows /\ WellDated(row)
  BY <1>1 DEF IInv, TypeOK, Dated
<1>3. op = "remove" => ~Live(row, now)
  BY <1>1, <1>2, ExpiredIsDead
<1>4. op \in Operations
  BY DEF Operations
<1>5. call' = [call EXCEPT ![c] = [@ EXCEPT !.op = op, !.row = row]]
  OBVIOUS
<1>6. [call[c] EXCEPT !.op = op, !.row = row] \in Calls
  BY <1>1, <1>2, <1>4 DEF Calls
<1>7. /\ call' \in [Clients -> Calls]
      /\ call'[c].op = op /\ call'[c].row = row /\ call'[c].asked = call[c].asked
      /\ \A d \in Clients : d # c => call'[d] = call[d]
  BY <1>1, <1>5, <1>6 DEF IInv, TypeOK, Calls
<1>8. TypeOK'
  BY <1>2, <1>3, <1>7 DEF IInv, TypeOK, Live
<1>9. Dated'
  BY <1>2, <1>7 DEF IInv, Dated, WellDated
<1>10. ServedInTime'
  BY <1>7 DEF IInv, ServedInTime, Expired
<1> QED
  BY <1>8, <1>9, <1>10 DEF IInv

LEMMA FindStep ==
  ASSUME IInv, NEW c \in Clients, Find(c) PROVE IInv'
<1>1. UNCHANGED <<now, table>>
  BY DEF Find
<1>2. CASE Return(c)
  BY <1>1, <1>2, ReturnStep DEF IInv, TypeOK, Dated
<1>3. "remove" \notin Answers /\ "served" \in Answers
  BY DEF Answers
<1> QED
  BY <1>1, <1>2, <1>3, RowFound DEF Find

LEMMA PresentStep ==
  ASSUME IInv, NEW c \in Clients, SelectPresent(c) PROVE IInv'
<1>1. UNCHANGED <<now, table>>
  BY DEF SelectPresent
<1>2. CASE Return(c)
  BY <1>1, <1>2, ReturnStep DEF IInv, TypeOK, Dated
<1>3. "present" \in Answers
  BY DEF Answers
<1> QED
  BY <1>1, <1>2, <1>3, RowFound DEF SelectPresent

LEMMA StepInv == IInv /\ [Next]_vars => IInv'
<1> SUFFICES ASSUME IInv, [Next]_vars PROVE IInv'
  OBVIOUS
<1>t. TypeOK /\ Dated
  BY DEF IInv
<1>1. ASSUME NEW c \in Clients, NEW k \in Keys,
             \E op \in {"find", "remove", "exists", "clear", "cleanup"} :
               Start(c, op, k, None)
      PROVE  IInv'
  BY <1>1, StartStep DEF Operations, Answers
<1>2. ASSUME NEW c \in Clients, NEW k \in Keys, NEW l \in Lifetimes, Set(c, k, l)
      PROVE  IInv'
  <2> DEFINE row == [expiresAt |-> nowInSeconds(now) + l, setAt |-> now, lifetime |-> l]
  <2>1. now \in Nat /\ l \in Nat /\ nowInSeconds(now) + l \in Nat
    BY <1>t, Floor, TimeAssumption DEF TypeOK
  <2>2. row \in Rows /\ WellDated(row)
    BY <2>1 DEF Rows, WellDated
  <2>3. row # None
    BY <2>2, NullsAssumption
  <2>4. Start(c, "upsert", k, row)
    BY <1>2 DEF Set
  <2> HIDE DEF row
  <2> QED
    BY <2>2, <2>3, <2>4, StartStep DEF Operations, Answers
<1>3. ASSUME NEW c \in Clients, Find(c) PROVE IInv'
  BY <1>3, FindStep
<1>4. ASSUME NEW c \in Clients, Upsert(c) PROVE IInv'
  <2>1. call[c].row \in Rows /\ WellDated(call[c].row) /\ call[c].key \in Keys
    BY <1>t, <1>4 DEF Upsert, TypeOK, Calls, Dated
  <2> QED
    BY <1>t, <1>4, <2>1, ReturnStep DEF Upsert, TypeOK, Dated
<1>5. ASSUME NEW c \in Clients, Remove(c) PROVE IInv'
  BY <1>t, <1>5, ReturnStep DEF Remove, TypeOK, Dated
<1>6. ASSUME NEW c \in Clients, SelectPresent(c) \/ Fail(c) PROVE IInv'
  BY <1>t, <1>6, ReturnStep, PresentStep DEF Fail, TypeOK, Dated
<1>7. ASSUME NEW c \in Clients, Truncate(c) PROVE IInv'
  BY <1>t, <1>7, ReturnStep DEF Truncate, TypeOK, Dated
<1>8. ASSUME NEW c \in Clients, DeleteExpired(c) PROVE IInv'
  BY <1>t, <1>8, ReturnStep DEF DeleteExpired, TypeOK, Dated
<1>9. CASE Tick
  <2>1. now' = now + 1 /\ UNCHANGED <<table, call>> /\ now \in Nat
    BY <1>t, <1>9 DEF Tick, TypeOK
  <2>2. ASSUME NEW row \in Rows, ~Live(row, now) PROVE ~Live(row, now + 1)
    <3>1. row.expiresAt \in Nat /\ TicksPerSecond \in Nat
      BY <2>2, TimeAssumption DEF Live, Rows
    <3>2. row.expiresAt * TicksPerSecond \in Nat
      BY <3>1
    <3> QED
      BY <2>1, <2>2, <3>2 DEF Live
  <2>3. \A c \in Clients : call[c].row \in Rows \cup {None} /\ call[c].asked \in Nat
    BY <1>t DEF TypeOK, Calls
  <2>4. TypeOK'
    BY <1>t, <2>1, <2>2, <2>3 DEF TypeOK, Live
  <2> QED
    BY <2>1, <2>4 DEF IInv, Dated, ServedInTime
<1>10. CASE UNCHANGED vars
  BY <1>10 DEF vars, IInv, TypeOK, Live, Dated, ServedInTime
<1> QED
  BY <1>1, <1>2, <1>3, <1>4, <1>5, <1>6, <1>7, <1>8, <1>9, <1>10
  DEF Next, Get, RemoveItem, Exists, Clear, CleanupExpired

(* Type correctness, and with it that a get sends a removal only for a row *)
(* it found expired: for all clients, keys, lifetimes and clock rates.     *)
THEOREM TypeCorrect == Spec => []TypeOK
<1>1. IInv => TypeOK
  BY DEF IInv
<1> QED
  BY <1>1, InitInv, StepInv, PTL DEF Spec

(* No call is served a value whose lifetime was over when it was made. *)
THEOREM Punctual == Spec => []NeverServedTooLate
  BY InTime, InitInv, StepInv, PTL DEF Spec

-----------------------------------------------------------------------------
(* A live row is lost only to removeItem, to clear, or to the second half  *)
(* of a get that found an older row expired.                               *)
Accounted(k) ==
  table[k] # None /\ table'[k] = None /\ Live(table[k], now) =>
    \E c \in Clients :
      \/ call[c].op = "clear" /\ call'[c].op = "none"
      \/ /\ call[c].op = "remove" /\ call'[c].op = "none" /\ call[c].key = k
         /\ call[c].row # None => ~Live(call[c].row, now)

LEMMA LossStep == IInv /\ [Next]_vars => \A k \in Keys : Accounted(k)
<1> SUFFICES ASSUME IInv, [Next]_vars, NEW k \in Keys,
                    table[k] # None, table'[k] = None, Live(table[k], now)
             PROVE  \E c \in Clients :
                      \/ call[c].op = "clear" /\ call'[c].op = "none"
                      \/ /\ call[c].op = "remove" /\ call'[c].op = "none"
                         /\ call[c].key = k
                         /\ call[c].row # None => ~Live(call[c].row, now)
  BY DEF Accounted
<1>t. TypeOK
  BY DEF IInv
<1>1. PICK c \in Clients : Upsert(c) \/ Remove(c) \/ Truncate(c) \/ DeleteExpired(c)
  BY DEF Next, vars, Get, Set, RemoveItem, Exists, Clear, CleanupExpired, Start,
         Find, SelectPresent, Fail, Tick
<1>2. call[c] \in Calls
  BY <1>t DEF TypeOK
<1>3. Return(c) => call'[c].op = "none"
  BY <1>t, <1>2 DEF Return, TypeOK, Calls
<1>4. ~Upsert(c)
  BY <1>t, <1>2, NullsAssumption DEF Upsert, TypeOK, Calls
<1>5. ~DeleteExpired(c)
  <2> SUFFICES ASSUME DeleteExpired(c) PROVE FALSE
    OBVIOUS
  <2>1. table[k] \in Rows /\ Expired(table[k], call[c].asked)
    BY <1>t DEF DeleteExpired, TypeOK
  <2>2. call[c].asked \in Nat /\ call[c].asked <= now /\ now \in Nat
    BY <1>t, <1>2 DEF TypeOK, Calls
  <2> QED
    BY <2>1, <2>2, ExpiredIsDead
<1>6. CASE Remove(c)
  BY <1>t, <1>3, <1>6 DEF Remove, TypeOK
<1>7. CASE Truncate(c)
  BY <1>3, <1>7 DEF Truncate
<1> QED
  BY <1>1, <1>4, <1>5, <1>6, <1>7

THEOREM LossesKnown == Spec => LossesAccounted
<1>1. IInv /\ [Next]_vars => [\A k \in Keys : Accounted(k)]_vars
  BY LossStep
<1> QED
  BY <1>1, InitInv, StepInv, PTL DEF Spec, LossesAccounted, Accounted
=============================================================================
