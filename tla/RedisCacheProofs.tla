-------------------------- MODULE RedisCacheProofs ---------------------------
(***************************************************************************)
(* Theorems about RedisCache: its type invariant, that a clear which       *)
(* returns has removed everything that was there when it was called, and   *)
(* that setWithNx grants a name once; for any caches and clients, however  *)
(* often the server resizes its table.                                     *)
(***************************************************************************)
EXTENDS RedisCache, TLAPS

(* What a call of clear still has to meet: each old name is on the page    *)
(* about to be deleted, or at a place that the scan has not passed.        *)
Ahead(call, n, live) ==
  n \in live /\ IsPrefix(call.prefix, n) /\ Place[n] >= call.cursor

OnCourse(call, live) ==
  /\ call.state \in {"idle", "done"} => call.old = {}
  /\ call.state = "scan" => \A n \in call.old : Ahead(call, n, live)
  /\ call.state = "delete" => \A n \in call.old :
       n \in call.page \/ (call.cursor # 0 /\ Ahead(call, n, live))

Scanned == \A c \in Clients : OnCourse(clearing[c], Live)

(* A grant that stands is a live name, and stands for one client. *)
Granted ==
  /\ \A c \in Clients : lease[c] # NoLease => lease[c] \in Live
  /\ LeaseHeldAlone

IInv == TypeOK /\ Scanned /\ Granted

Calls ==
  [state : {"idle", "scan", "delete", "done"}, prefix : CachePrefixes \cup {<<>>},
   cursor : 0 .. Places - 1, page : SUBSET Names, old : SUBSET Names]

-----------------------------------------------------------------------------
LEMMA TypeUnfolded ==
  TypeOK <=> /\ now \in 0 .. MaxTime
             /\ Live \subseteq Names
             /\ expires \in [Live -> Nat \cup {Forever}]
             /\ table \in Tables
             /\ clearing \in [Clients -> Calls]
             /\ lease \in [Clients -> Names \cup {NoLease}]
  BY DEF TypeOK, Calls

LEMMA IdleIsCall == Idle \in Calls
  BY PlaceAssumption DEF Idle, Calls

(* The names after a Put and after a Drop. *)
LEMMA PutLive ==
  ASSUME NEW n \in Names, NEW t \in Nat \cup {Forever}, TypeOK, Put(n, t)
  PROVE  /\ Live' = Live \cup {n}
         /\ Live' \subseteq Names
         /\ expires' \in [Live' -> Nat \cup {Forever}]
  BY DEF Put, Live, TypeOK

LEMMA DropLive ==
  ASSUME NEW S, TypeOK, Drop(S)
  PROVE  /\ Live' = Live \ S
         /\ Live' \subseteq Names
         /\ expires' \in [Live' -> Nat \cup {Forever}]
  BY DEF Drop, Live, TypeOK

(* Every other call of clear keeps its state, and its old names ahead as   *)
(* long as they are live.                                                  *)
LEMMA ReplacedKeeps ==
  ASSUME NEW S, TypeOK, Scanned, NEW c \in Clients
  PROVE  /\ Replaced(S)[c] \in Calls
         /\ Replaced(S)[c].state = clearing[c].state
         /\ Replaced(S)[c].prefix = clearing[c].prefix
         /\ Replaced(S)[c].cursor = clearing[c].cursor
         /\ Replaced(S)[c].page = clearing[c].page
         /\ Replaced(S)[c].old = clearing[c].old \ S
<1>1. clearing[c] \in Calls
  BY TypeUnfolded
<1> QED
  BY <1>1 DEF Replaced, Calls

(* A step that replaces the values of S and takes no other name away       *)
(* leaves a call of clear on its course.                                   *)
LEMMA ReplacedOnCourse ==
  ASSUME NEW S, TypeOK, Scanned, Live \ S \subseteq Live', NEW c \in Clients
  PROVE  OnCourse(Replaced(S)[c], Live')
  BY ReplacedKeeps DEF Scanned, OnCourse, Ahead

LEMMA ReplacedScanned ==
  ASSUME NEW S, TypeOK, Scanned, clearing' = Replaced(S), Live \ S \subseteq Live'
  PROVE  Scanned' /\ clearing' \in [Clients -> Calls]
<1>1. clearing' \in [Clients -> Calls]
  BY ReplacedKeeps DEF Replaced
<1> QED
  BY <1>1, ReplacedOnCourse DEF Scanned

LEMMA LostGranted ==
  ASSUME NEW S, TypeOK, Granted, lease' = Lost(S), Live \ S \subseteq Live'
  PROVE  Granted' /\ lease' \in [Clients -> Names \cup {NoLease}]
  BY DEF Granted, LeaseHeldAlone, Lost, TypeOK

LEMMA InitInv == Init => IInv
<1> SUFFICES ASSUME Init PROVE IInv
  OBVIOUS
<1>1. Live = {} /\ expires \in [Live -> Nat \cup {Forever}]
  BY DEF Init, Live
<1> QED
  BY <1>1, IdleIsCall, TypeUnfolded, TimeAssumption
     DEF Init, IInv, Scanned, OnCourse, Granted, LeaseHeldAlone, Idle

-----------------------------------------------------------------------------
(* A client that is not in a call of clear asks for one command. *)
LEMMA Command ==
  ASSUME IInv, NEW S, Live \ S \subseteq Live', Live' \subseteq Names,
         expires' \in [Live' -> Nat \cup {Forever}],
         clearing' = Replaced(S), lease' = Lost(S), now' \in 0 .. MaxTime, table' = table
  PROVE  IInv'
<1>1. Scanned' /\ clearing' \in [Clients -> Calls]
  BY ReplacedScanned DEF IInv
<1>2. Granted' /\ lease' \in [Clients -> Names \cup {NoLease}]
  BY LostGranted DEF IInv
<1> QED
  BY <1>1, <1>2 DEF IInv, TypeOK, Calls

LEMMA NameOf ==
  ASSUME NEW p \in CachePrefixes, NEW k \in Keys PROVE makeKey(p, k) \in Names
  BY DEF Names

LEMMA SetStep ==
  ASSUME IInv, NEW c \in Clients, NEW p \in CachePrefixes, NEW k \in Keys,
         NEW life \in Lifetimes, set(c, p, k, life)
  PROVE  IInv'
<1> DEFINE n == makeKey(p, k)
<1>1. n \in Names
  BY NameOf
<1>2. now + life \in Nat /\ now' \in 0 .. MaxTime
  BY TimeAssumption DEF IInv, TypeOK, set
<1>3. /\ Live' = Live \cup {n} /\ Live' \subseteq Names
      /\ expires' \in [Live' -> Nat \cup {Forever}]
  BY <1>1, <1>2, PutLive DEF IInv, set
<1>4. clearing' = Replaced({n}) /\ lease' = Lost({n}) /\ table' = table
  BY DEF set
<1>5. Live \ {n} \subseteq Live'
  BY <1>3
<1> HIDE DEF n
<1> QED
  BY <1>2, <1>3, <1>4, <1>5, Command

LEMMA RemoveStep ==
  ASSUME IInv, NEW c \in Clients, NEW p \in CachePrefixes, NEW k \in Keys,
         removeItem(c, p, k)
  PROVE  IInv'
<1> DEFINE n == makeKey(p, k)
<1>1. /\ Live' = Live \ {n} /\ Live' \subseteq Names
      /\ expires' \in [Live' -> Nat \cup {Forever}]
  BY DropLive DEF IInv, removeItem
<1>2. clearing' = Replaced({n}) /\ lease' = Lost({n}) /\ UNCHANGED <<now, table>>
  BY DEF removeItem
<1>3. now' \in 0 .. MaxTime
  BY <1>2 DEF IInv, TypeOK
<1> HIDE DEF n
<1> QED
  BY <1>1, <1>2, <1>3, Command

(* A new name disturbs neither a clear under way nor the grants of others. *)
LEMMA NewName ==
  ASSUME IInv, NEW n \in Names, n \notin Live, NEW t \in Nat \cup {Forever}, Put(n, t),
         UNCHANGED <<now, table, clearing>>,
         UNCHANGED lease \/ \E c \in Clients : lease' = [lease EXCEPT ![c] = n]
  PROVE  IInv'
<1>1. /\ Live' = Live \cup {n} /\ Live' \subseteq Names
      /\ expires' \in [Live' -> Nat \cup {Forever}]
  BY PutLive DEF IInv
<1>2. Scanned'
  BY <1>1 DEF IInv, Scanned, OnCourse, Ahead
<1>3. Granted' /\ lease' \in [Clients -> Names \cup {NoLease}]
  <2>1. CASE UNCHANGED lease
    BY <2>1, <1>1 DEF IInv, TypeOK, Granted, LeaseHeldAlone
  <2>2. ASSUME NEW c \in Clients, lease' = [lease EXCEPT ![c] = n]
        PROVE  Granted' /\ lease' \in [Clients -> Names \cup {NoLease}]
    <3>1. lease \in [Clients -> Names \cup {NoLease}] /\ \A d \in Clients : lease[d] # n
      BY LeaseAssumption DEF IInv, TypeOK, Granted
    <3>2. /\ lease' \in [Clients -> Names \cup {NoLease}]
          /\ \A d \in Clients : lease'[d] = IF d = c THEN n ELSE lease[d]
      BY <2>2, <3>1
    <3> QED
      BY <1>1, <3>1, <3>2 DEF IInv, Granted, LeaseHeldAlone
  <2> QED
    BY <2>1, <2>2
<1> QED
  BY <1>1, <1>2, <1>3 DEF IInv, TypeOK

LEMMA NxStep ==
  ASSUME IInv, NEW c \in Clients, NEW p \in CachePrefixes, NEW k \in Keys,
         NEW life \in Lifetimes, setWithNx(c, p, k, life)
  PROVE  IInv'
<1> DEFINE n == makeKey(p, k)
<1>1. n \in Names /\ n \notin Live /\ now + life \in Nat \cup {Forever}
  BY NameOf, TimeAssumption DEF IInv, TypeOK, setWithNx
<1>2. /\ Put(n, now + life) /\ UNCHANGED <<now, table, clearing>>
      /\ UNCHANGED lease \/ \E d \in Clients : lease' = [lease EXCEPT ![d] = n]
  BY DEF setWithNx
<1> HIDE DEF n
<1> QED
  BY <1>1, <1>2, NewName

LEMMA IncrementStep ==
  ASSUME IInv, NEW c \in Clients, NEW p \in CachePrefixes, NEW k \in Keys,
         increment(c, p, k)
  PROVE  IInv'
<1> DEFINE n == makeKey(p, k)
<1>1. n \in Names /\ n \notin Live /\ Put(n, Forever) /\ UNCHANGED <<now, table, clearing, lease>>
  BY NameOf DEF increment
<1> HIDE DEF n
<1> QED
  BY <1>1, NewName

LEMMA TickStep ==
  ASSUME IInv, Tick PROVE IInv'
<1> DEFINE dead == {n \in Live : expires[n] = now + 1}
<1>1. /\ Live' = Live \ dead /\ Live' \subseteq Names
      /\ expires' \in [Live' -> Nat \cup {Forever}]
  BY DropLive DEF IInv, Tick
<1>2. clearing' = Replaced(dead) /\ lease' = Lost(dead) /\ table' = table
  BY DEF Tick
<1>3. now' \in 0 .. MaxTime
  BY TimeAssumption DEF IInv, TypeOK, Tick
<1> HIDE DEF dead
<1> QED
  BY <1>1, <1>2, <1>3, Command

-----------------------------------------------------------------------------
(* One call of clear changes, and nothing else. *)
LEMMA OneCall ==
  ASSUME IInv, NEW c \in Clients, NEW call \in Calls, OnCourse(call, Live),
         clearing' = [clearing EXCEPT ![c] = call], UNCHANGED <<now, expires, table, lease>>
  PROVE  IInv'
<1>1. Live' = Live
  BY DEF Live
<1>2. Scanned' /\ clearing' \in [Clients -> Calls]
  BY <1>1, TypeUnfolded DEF IInv, Scanned
<1>3. Granted'
  BY <1>1 DEF IInv, Granted, LeaseHeldAlone
<1> QED
  BY <1>1, <1>2, <1>3 DEF IInv, TypeOK, Calls

LEMMA ClearStep ==
  ASSUME IInv, NEW c \in Clients, NEW p \in CachePrefixes, clear(c, p) PROVE IInv'
<1> DEFINE call == [state |-> "scan", prefix |-> p, cursor |-> 0, page |-> {},
                    old |-> Covered(p)]
<1>1. call \in Calls
  BY PlaceAssumption DEF Calls, Covered, IInv, TypeOK
<1>2. OnCourse(call, Live)
  BY PlaceAssumption DEF OnCourse, Ahead, Covered, IInv, TypeOK
<1>3. clearing' = [clearing EXCEPT ![c] = call] /\ UNCHANGED <<now, expires, table, lease>>
  BY DEF clear
<1> HIDE DEF call
<1> QED
  BY <1>1, <1>2, <1>3, OneCall

LEMMA FailStep ==
  ASSUME IInv, NEW c \in Clients, Fail(c) PROVE IInv'
  BY IdleIsCall, OneCall DEF Fail, Idle, OnCourse

(* What a page leaves of the names ahead is at the next cursor or beyond,  *)
(* whatever size the table has by now.                                     *)
LEMMA PageCovers ==
  ASSUME TypeOK, NEW c \in Clients, NEW next \in NextCursors(clearing[c].cursor),
         NEW n, Ahead(clearing[c], n, Live),
         n \notin PageOf(c, clearing[c].cursor, next)
  PROVE  next # 0 /\ Place[n] >= next
<1> DEFINE from == clearing[c].cursor
<1>1. n \in Covered(clearing[c].prefix) /\ Place[n] >= from
  BY DEF Ahead, Covered
<1>2. n \in Names /\ Place[n] \in 0 .. Places - 1
  BY <1>1, PlaceAssumption DEF Covered, TypeOK
<1>3. from \in 0 .. Places - 1 /\ table \subseteq 0 .. Places - 1
  BY TypeUnfolded, TableAssumption DEF Calls
<1>4. next \in 0 .. Places - 1
  BY <1>3, PlaceAssumption DEF NextCursors
<1>5. \A b \in table : b <= from => b <= Place[n]
  BY <1>1, <1>2, <1>3, PlaceAssumption
<1>6. ~(next = 0 \/ Place[n] < next)
  BY <1>1, <1>5 DEF PageOf
<1> QED
  BY <1>2, <1>4, <1>6, PlaceAssumption

LEMMA ScanStep ==
  ASSUME IInv, NEW c \in Clients, Scan(c) PROVE IInv'
<1> DEFINE call == clearing[c]
<1>1. PICK cursor \in NextCursors(call.cursor) :
        clearing' = [clearing EXCEPT ![c] =
          Paged(call, cursor, PageOf(c, call.cursor, cursor))]
  BY TypeUnfolded DEF Scan, IInv
<1> DEFINE page == PageOf(c, call.cursor, cursor)
           next == Paged(call, cursor, page)
<1>2. call \in Calls /\ call.state = "scan" /\ page \subseteq Names
  BY TypeUnfolded DEF IInv, Scan, PageOf, Covered
<1>3. cursor \in 0 .. Places - 1
  BY TypeUnfolded, TableAssumption, PlaceAssumption DEF IInv, NextCursors
<1>4. \A n \in call.old : Ahead(call, n, Live)
  BY <1>2 DEF IInv, Scanned, OnCourse
<1>5. \A n \in call.old :
        n \in page \/ (cursor # 0 /\ n \in Live /\ IsPrefix(call.prefix, n) /\ Place[n] >= cursor)
  BY <1>4, PageCovers DEF IInv, Ahead
<1>6. next \in Calls /\ OnCourse(next, Live)
  <2> HIDE DEF call, page
  <2>1. CASE page # {}
    BY <2>1, <1>2, <1>3, <1>5 DEF Paged, OnCourse, Ahead, Calls, next
  <2>2. CASE page = {} /\ cursor # 0
    BY <2>2, <1>2, <1>3, <1>5 DEF Paged, Onward, OnCourse, Ahead, Calls, next
  <2>3. CASE page = {} /\ cursor = 0
    BY <2>3, <1>2, <1>3, <1>5, PlaceAssumption
       DEF Paged, Onward, OnCourse, Calls, next, Idle
  <2> QED
    BY <2>1, <2>2, <2>3
<1>7. clearing' = [clearing EXCEPT ![c] = next] /\ UNCHANGED <<now, expires, table, lease>>
  BY <1>1 DEF Scan
<1> HIDE DEF next
<1> QED
  BY <1>6, <1>7, OneCall

LEMMA DeleteStep ==
  ASSUME IInv, NEW c \in Clients, DeletePage(c) PROVE IInv'
<1> DEFINE page == clearing[c].page
           rest == Replaced(page)
           call == rest[c]
           next == Onward(call)
<1>1. TypeOK /\ Scanned /\ Granted
  BY DEF IInv
<1>2. /\ Live' = Live \ page /\ Live' \subseteq Names
      /\ expires' \in [Live' -> Nat \cup {Forever}]
  BY <1>1, DropLive DEF DeletePage
<1>3. /\ call \in Calls /\ call.state = "delete" /\ call.old = clearing[c].old \ page
      /\ call.page = page
  BY <1>1, ReplacedKeeps DEF DeletePage
<1>4. OnCourse(call, Live')
  BY <1>1, <1>2, ReplacedOnCourse
<1>5. next \in Calls /\ OnCourse(next, Live')
  <2> HIDE DEF call, page
  <2>1. \A n \in call.old : call.cursor # 0 /\ Ahead(call, n, Live')
    BY <1>3, <1>4 DEF OnCourse
  <2>2. CASE call.cursor = 0
    BY <2>1, <2>2, <1>3, PlaceAssumption DEF Onward, OnCourse, Calls, Idle, next
  <2>3. CASE call.cursor # 0
    BY <2>1, <2>3, <1>3 DEF Onward, OnCourse, Ahead, Calls, next
  <2> QED
    BY <2>2, <2>3
<1>6. clearing' = [rest EXCEPT ![c] = next]
  BY DEF DeletePage
<1>7. \A d \in Clients : rest[d] \in Calls /\ OnCourse(rest[d], Live')
  BY <1>1, <1>2, ReplacedKeeps, ReplacedOnCourse
<1>8. rest = [d \in Clients |-> rest[d]]
  BY DEF Replaced
<1>9. clearing' \in [Clients -> Calls] /\ \A d \in Clients : OnCourse(clearing'[d], Live')
  <2> HIDE DEF rest, next
  <2> QED
    BY <1>5, <1>6, <1>7, <1>8
<1>10. Granted' /\ lease' \in [Clients -> Names \cup {NoLease}]
  BY <1>1, <1>2, LostGranted DEF DeletePage
<1>11. UNCHANGED <<now, table>>
  BY DEF DeletePage
<1> QED
  BY <1>1, <1>2, <1>9, <1>10, <1>11 DEF IInv, TypeOK, Scanned, Calls

(* A resized table moves no name, and so disturbs no call of clear. *)
LEMMA ResizeStep ==
  ASSUME IInv, Resize PROVE IInv'
<1>1. Live' = Live
  BY DEF Resize, Live
<1> QED
  BY <1>1 DEF Resize, IInv, TypeOK, Scanned, OnCourse, Ahead, Granted, LeaseHeldAlone

LEMMA StepInv == IInv /\ [Next]_vars => IInv'
<1> SUFFICES ASSUME IInv, [Next]_vars PROVE IInv'
  OBVIOUS
<1>1. CASE UNCHANGED vars
  BY <1>1 DEF vars, IInv, TypeOK, Scanned, OnCourse, Ahead, Granted, LeaseHeldAlone, Live
<1>2. CASE Next
  BY <1>2, SetStep, RemoveStep, NxStep, IncrementStep, TickStep, ClearStep, FailStep,
     ScanStep, DeleteStep, ResizeStep DEF Next
<1> QED
  BY <1>1, <1>2

-----------------------------------------------------------------------------
(* Type correctness, for any caches, clients and tables. *)
THEOREM TypeCorrect == Spec => []TypeOK
<1>1. IInv => TypeOK
  BY DEF IInv
<1> QED
  BY <1>1, InitInv, StepInv, PTL DEF Spec

(* clear removes every value of its cache that was there when it was       *)
(* called, whatever others do between its pages.                           *)
THEOREM ClearsTheOld == Spec => []ClearCoversTheOld
<1>1. IInv => ClearCoversTheOld
  BY DEF IInv, Scanned, OnCourse, ClearCoversTheOld
<1> QED
  BY <1>1, InitInv, StepInv, PTL DEF Spec

(* A name that setWithNx granted is granted again only after it was lost. *)
THEOREM GrantedOnce == Spec => []LeaseHeldAlone
<1>1. IInv => LeaseHeldAlone
  BY DEF IInv, Granted
<1> QED
  BY <1>1, InitInv, StepInv, PTL DEF Spec
=============================================================================
