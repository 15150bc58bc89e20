--------------------------- MODULE DatabaseCache ----------------------------
(***************************************************************************)
(* DatabaseCache over PrismaCacheRepository: clients, in any number of     *)
(* processes, share a table through single SQL statements.  A method reads *)
(* its clock when it is called; its statement is executed at any later     *)
(* moment, and a get that found an expired row sends a second one.         *)
(*                                                                         *)
(* The database is external: it executes each statement atomically, or     *)
(* fails it, which rejects the method's promise.                           *)
(*                                                                         *)
(* Of a row there are only its dates: no decision of the code looks at the *)
(* value, and what serialising makes of it is left out.                    *)
(***************************************************************************)
EXTENDS Integers

CONSTANTS
  Clients, Keys,
  Lifetimes,          \* in seconds
  TicksPerSecond,
  None, Never,
  MaxTime             \* bound: the clock stops here

ASSUME TimeAssumption ==
  /\ Lifetimes \subseteq Nat /\ Lifetimes # {}
  /\ TicksPerSecond \in Nat \ {0}
  /\ MaxTime \in Nat

VARIABLES
  now,
  table,   \* the row of each key's hash, or None
  call     \* each client's method, at its statement

vars == <<now, table, call>>

nowInSeconds(t) == t \div TicksPerSecond

(* A row, with the call that wrote it for the properties to look at. *)
Rows == [expiresAt : Nat \cup {Never}, setAt : Nat, lifetime : Lifetimes]

ASSUME NullsAssumption == Never \notin Nat /\ None \notin Rows

(* What a client was told of a row: its value, or that it is there. *)
Answers == {"served", "present"}

Operations ==
  {"none", "find", "upsert", "remove", "exists", "clear", "cleanup"} \cup Answers

Calls == [op : Operations, key : Keys, asked : Nat, row : Rows \cup {None}]

-----------------------------------------------------------------------------
(* Others may have inserted a row that never expires. *)
PermanentRow ==
  [expiresAt |-> Never, setAt |-> 0, lifetime |-> CHOOSE l \in Lifetimes : TRUE]

Init ==
  /\ now = 0
  /\ table \in [Keys -> {None, PermanentRow}]
  /\ \E k \in Keys :
       call = [c \in Clients |-> [op |-> "none", key |-> k, asked |-> 0, row |-> None]]

Free(c) == call[c].op \in {"none"} \cup Answers

Start(c, op, k, row) ==
  /\ Free(c)
  /\ call' = [call EXCEPT ![c] = [op |-> op, key |-> k, asked |-> now, row |-> row]]
  /\ UNCHANGED <<now, table>>

Get(c, k) == Start(c, "find", k, None)
Set(c, k, l) == Start(c, "upsert", k,
  [expiresAt |-> nowInSeconds(now) + l, setAt |-> now, lifetime |-> l])
RemoveItem(c, k) == Start(c, "remove", k, None)
Exists(c, k) == Start(c, "exists", k, None)
Clear(c, k) == Start(c, "clear", k, None)
CleanupExpired(c, k) == Start(c, "cleanup", k, None)

-----------------------------------------------------------------------------
(* Mutant of Expired: a row outlives its second of expiry. *)
ExpiredAfter(row, t) == row.expiresAt # Never /\ nowInSeconds(t) > row.expiresAt

Expired(row, t) == row.expiresAt # Never /\ nowInSeconds(t) >= row.expiresAt

Return(c) == call' = [call EXCEPT ![c].op = "none", ![c].row = None]

(* get's await of find, up to its return or its await of removeItem. *)
Find(c) ==
  /\ call[c].op = "find"
  /\ LET row == table[call[c].key] IN
       \/ row = None /\ Return(c)
       \/ /\ row # None /\ Expired(row, call[c].asked)
          /\ call' = [call EXCEPT ![c].op = "remove", ![c].row = row]
       \/ /\ row # None /\ ~Expired(row, call[c].asked)
          /\ call' = [call EXCEPT ![c].op = "served", ![c].row = row]
  /\ UNCHANGED <<now, table>>

Upsert(c) ==
  /\ call[c].op = "upsert"
  /\ table' = [table EXCEPT ![call[c].key] = call[c].row]
  /\ Return(c)
  /\ UNCHANGED now

Remove(c) ==
  /\ call[c].op = "remove"
  /\ table' = [table EXCEPT ![call[c].key] = None]
  /\ Return(c)
  /\ UNCHANGED now

(* The statement's condition is that of a row that has not expired. *)
SelectPresent(c) ==
  /\ call[c].op = "exists"
  /\ LET row == table[call[c].key] IN
       \/ (row # None => Expired(row, call[c].asked)) /\ Return(c)
       \/ /\ row # None /\ ~Expired(row, call[c].asked)
          /\ call' = [call EXCEPT ![c].op = "present", ![c].row = row]
  /\ UNCHANGED <<now, table>>

Truncate(c) ==
  /\ call[c].op = "clear"
  /\ table' = [k \in Keys |-> None]
  /\ Return(c)
  /\ UNCHANGED now

(* Mutant of DeleteExpired: the clock is not divided. *)
DeleteByTicks(c) ==
  /\ call[c].op = "cleanup"
  /\ table' = [k \in Keys |->
       IF /\ table[k] # None
          /\ table[k].expiresAt # Never
          /\ call[c].asked >= table[k].expiresAt
       THEN None ELSE table[k]]
  /\ Return(c)
  /\ UNCHANGED now

DeleteExpired(c) ==
  /\ call[c].op = "cleanup"
  /\ table' = [k \in Keys |->
       IF table[k] # None /\ Expired(table[k], call[c].asked) THEN None ELSE table[k]]
  /\ Return(c)
  /\ UNCHANGED now

Fail(c) ==
  /\ ~Free(c)
  /\ Return(c)
  /\ UNCHANGED <<now, table>>

Tick ==
  /\ now < MaxTime
  /\ now' = now + 1
  /\ UNCHANGED <<table, call>>

Next ==
  \/ \E c \in Clients, k \in Keys :
       \/ Get(c, k) \/ RemoveItem(c, k) \/ Exists(c, k)
       \/ Clear(c, k) \/ CleanupExpired(c, k)
       \/ \E l \in Lifetimes : Set(c, k, l)
  \/ \E c \in Clients :
       \/ Find(c) \/ Upsert(c) \/ Remove(c) \/ SelectPresent(c)
       \/ Truncate(c) \/ DeleteExpired(c) \/ Fail(c)
  \/ Tick

Spec == Init /\ [][Next]_vars

-----------------------------------------------------------------------------
(* A row is live before the moment its second of expiry begins. *)
Live(row, t) == row.expiresAt = Never \/ t < row.expiresAt * TicksPerSecond

(* Every variable holds values of its kind; a row is written with its      *)
(* expiry and sent for removal only once it has expired.                   *)
TypeOK ==
  /\ now \in Nat
  /\ table \in [Keys -> Rows \cup {None}]
  /\ call \in [Clients -> Calls]
  /\ \A c \in Clients :
       /\ call[c].asked <= now
       /\ call[c].op \in {"upsert"} \cup Answers => call[c].row # None
       /\ call[c].op = "remove" /\ call[c].row # None => ~Live(call[c].row, now)

(* A value is neither served by get nor said to be there by exists to a    *)
(* call made its whole lifetime after it was set, though both moments are  *)
(* cut to seconds and the row is read, and may be rewritten, after the     *)
(* call.                                                                   *)
NeverServedTooLate ==
  \A c \in Clients :
    call[c].op \in Answers /\ call[c].row.expiresAt # Never
      => call[c].asked < call[c].row.setAt + call[c].row.lifetime * TicksPerSecond

(* A live row is lost only to removeItem, to clear, or to a get of its key *)
(* that found an older row expired: never to cleanupExpired.               *)
LossesAccounted ==
  [][\A k \in Keys :
       table[k] # None /\ table'[k] = None /\ Live(table[k], now) =>
         \E c \in Clients :
           \/ call[c].op = "clear" /\ call'[c].op = "none"
           \/ /\ call[c].op = "remove" /\ call'[c].op = "none" /\ call[c].key = k
              /\ call[c].row # None => ~Live(call[c].row, now)]_vars

(* cache.test.ts: "removes expired database cache items on read". *)
ReadRemovesExpiredOnly ==
  [][\A c \in Clients :
       /\ call[c].op = "remove" /\ call[c].row # None /\ call'[c] # call[c]
       /\ table'[call[c].key] # table[call[c].key]
       => ~Live(table[call[c].key], now)]_vars
=============================================================================
