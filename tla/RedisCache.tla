----------------------------- MODULE RedisCache ------------------------------
(***************************************************************************)
(* RedisCache: the processes of a service share one server, each through   *)
(* caches with a prefix of their own.  Every method but clear is a single  *)
(* command; clear walks the server's table page by page and deletes what   *)
(* a page returned in a command of its own, one await after the other,     *)
(* while everybody else goes on.                                           *)
(*                                                                         *)
(* External: the server, which runs one command at a time, forgets a name  *)
(* when it expires and keeps names in a table of buckets; the network,     *)
(* which loses a command or its answer; and clients that use setWithNx and *)
(* removeItem to take and release leases.                                  *)
(*                                                                         *)
(* The table is resized at any moment, also between two pages of a scan.   *)
(* A cursor is a place, not a bucket: names have fixed places, a bucket    *)
(* holds those from its start up to the next one's, and a smaller table    *)
(* has fewer starts.  A bucket that was split is scanned from the cursor   *)
(* on, one that was merged is scanned whole and shows names twice.         *)
(***************************************************************************)
EXTENDS Naturals, Sequences, SequencesExt

CONSTANTS
  Clients,
  CachePrefixes,  \* of the caches: no pattern characters
  Keys,        \* prefixes and keys are sequences of pieces of text
  Places,      \* how many buckets the server's table has at most
  Place,       \* Place[n]: where name n is
  Tables,      \* the table's sizes, each the set of its buckets' starts
  Lifetimes,   \* expirations that are asked for, in ticks
  Forever,
  NoLease,
  MaxTime      \* bound: the clock stops here

makeKey(p, k) == p \o k

Names == {makeKey(p, k) : p \in CachePrefixes, k \in Keys}

ASSUME PlaceAssumption == Places \in Nat \ {0} /\ Place \in [Names -> 0 .. Places - 1]
ASSUME TableAssumption == \A t \in Tables : t \subseteq 0 .. Places - 1 /\ 0 \in t
ASSUME TimeAssumption == MaxTime \in Nat /\ Lifetimes \subseteq Nat \ {0}
ASSUME ForeverAssumption == Forever \notin Nat
ASSUME LeaseAssumption == NoLease \notin Names

VARIABLES
  now,
  expires,   \* the live names with the time they expire
  table,     \* the starts of the table's buckets
  clearing,  \* each client's call of clear
  lease      \* the name each client was granted, while that grant stands

vars == <<now, expires, table, clearing, lease>>

Live == DOMAIN expires

(* `old` are the names whose values were there when the call began. *)
Idle == [state |-> "idle", prefix |-> <<>>, cursor |-> 0, page |-> {}, old |-> {}]

Covered(p) == {n \in Live : IsPrefix(p, n)}

Init ==
  /\ now = 0
  /\ expires = <<>>
  /\ table \in Tables
  /\ clearing = [c \in Clients |-> Idle]
  /\ lease = [c \in Clients |-> NoLease]

-----------------------------------------------------------------------------
(* The values of the names in S are gone, or others: they are no longer    *)
(* old, and the grants they stood for no longer stand, known or not.       *)
Replaced(S) ==
  [c \in Clients |-> [clearing[c] EXCEPT !.old = @ \ S]]

Lost(S) == [c \in Clients |-> IF lease[c] \in S THEN NoLease ELSE lease[c]]

Put(n, time) == expires' = [m \in Live \cup {n} |-> IF m = n THEN time ELSE expires[m]]

Drop(S) == expires' = [m \in Live \ S |-> expires[m]]

Free(c) == clearing[c].state \in {"idle", "done"}

(* SETEX, whatever the name holds. *)
set(c, p, k, life) ==
  LET n == makeKey(p, k)
  IN  /\ Free(c)
      /\ Put(n, now + life)
      /\ clearing' = Replaced({n})
      /\ lease' = Lost({n})
      /\ UNCHANGED <<now, table>>

(* DEL, whoever was granted the name. *)
removeItem(c, p, k) ==
  LET n == makeKey(p, k)
  IN  /\ Free(c)
      /\ Drop({n})
      /\ clearing' = Replaced({n})
      /\ lease' = Lost({n})
      /\ UNCHANGED <<now, table>>

(* Mutant of setWithNx: the condition is not passed on. *)
setWithoutNx(c, p, k, life) ==
  LET n == makeKey(p, k)
  IN  /\ Free(c) /\ lease[c] = NoLease
      /\ Put(n, now + life)
      /\ clearing' = clearing
      /\ lease' = [lease EXCEPT ![c] = n]
      /\ UNCHANGED <<now, table>>

(* SET NX EX: granted if the name is not there.  The answer can be lost,   *)
(* and the client then holds nothing that it knows of.                     *)
setWithNx(c, p, k, life) ==
  LET n == makeKey(p, k)
  IN  /\ Free(c) /\ lease[c] = NoLease
      /\ n \notin Live
      /\ Put(n, now + life)
      /\ \/ lease' = [lease EXCEPT ![c] = n]
         \/ UNCHANGED lease
      /\ UNCHANGED <<now, table, clearing>>

(* INCRBY and DECRBY: a name that is not there is created and never        *)
(* expires; on one that is there nothing changes but a number.             *)
increment(c, p, k) ==
  LET n == makeKey(p, k)
  IN  /\ Free(c)
      /\ n \notin Live
      /\ Put(n, Forever)
      /\ UNCHANGED <<now, table, clearing, lease>>

-----------------------------------------------------------------------------
clear(c, p) ==
  /\ Free(c)
  /\ clearing' = [clearing EXCEPT ![c] =
       [state |-> "scan", prefix |-> p, cursor |-> 0, page |-> {}, old |-> Covered(p)]]
  /\ UNCHANGED <<now, expires, table, lease>>

(* After a page: the next one, or the end when the cursor is zero again. *)
Onward(call) ==
  IF call.cursor = 0 THEN [Idle EXCEPT !.state = "done", !.old = call.old]
  ELSE [call EXCEPT !.state = "scan", !.page = {}]

(* A page with names is deleted first. *)
Paged(call, cursor, page) ==
  LET next == [call EXCEPT !.cursor = cursor, !.page = page]
  IN  IF page = {} THEN Onward(next) ELSE [next EXCEPT !.state = "delete"]

(* A page is of whole buckets: from the start of the cursor's bucket up to *)
(* the start of another one, the next cursor, or to the end.               *)
NextCursors(cursor) == {b \in table : b > cursor} \cup {0}

PageOf(c, cursor, next) ==
  {n \in Covered(clearing[c].prefix) :
     /\ \A b \in table : b <= cursor => b <= Place[n]
     /\ next = 0 \/ Place[n] < next}

(* Mutants of Scan: it ends at the first empty page; each scan begins anew. *)
ScanUntilEmpty(c) ==
  /\ clearing[c].state = "scan"
  /\ \E next \in NextCursors(clearing[c].cursor) :
       LET page == PageOf(c, clearing[c].cursor, next)
       IN  clearing' = [clearing EXCEPT ![c] = Paged(@, IF page = {} THEN 0 ELSE next, page)]
  /\ UNCHANGED <<now, expires, table, lease>>
ScanFromZero(c) ==
  /\ clearing[c].state = "scan"
  /\ \E next \in NextCursors(0) :
       clearing' = [clearing EXCEPT ![c] = Paged(@, next, PageOf(c, 0, next))]
  /\ UNCHANGED <<now, expires, table, lease>>

(* SCAN returns the matching names of a page, and the next cursor. *)
Scan(c) ==
  /\ clearing[c].state = "scan"
  /\ \E next \in NextCursors(clearing[c].cursor) :
       clearing' = [clearing EXCEPT ![c] = Paged(@, next, PageOf(c, @.cursor, next))]
  /\ UNCHANGED <<now, expires, table, lease>>

(* DEL of the page, whatever its names hold by now. *)
DeletePage(c) ==
  LET page == clearing[c].page
  IN  /\ clearing[c].state = "delete"
      /\ Drop(page)
      /\ clearing' = [Replaced(page) EXCEPT ![c] = Onward(@)]
      /\ lease' = Lost(page)
      /\ UNCHANGED <<now, table>>

(* A command of clear fails: it throws, and what it has deleted is gone. *)
Fail(c) ==
  /\ clearing[c].state \in {"scan", "delete"}
  /\ clearing' = [clearing EXCEPT ![c] = Idle]
  /\ UNCHANGED <<now, expires, table, lease>>

Tick ==
  LET dead == {n \in Live : expires[n] = now + 1}
  IN  /\ now < MaxTime
      /\ now' = now + 1
      /\ Drop(dead)
      /\ clearing' = Replaced(dead)
      /\ lease' = Lost(dead)
      /\ UNCHANGED table

(* The server rehashes its names, whoever is scanning. *)
Resize ==
  /\ table' \in Tables \ {table}
  /\ UNCHANGED <<now, expires, clearing, lease>>

Next ==
  \/ \E c \in Clients, p \in CachePrefixes :
       \/ clear(c, p)
       \/ \E k \in Keys :
            \/ removeItem(c, p, k) \/ increment(c, p, k)
            \/ \E life \in Lifetimes : set(c, p, k, life) \/ setWithNx(c, p, k, life)
  \/ \E c \in Clients : Scan(c) \/ DeletePage(c) \/ Fail(c)
  \/ Tick
  \/ Resize

Spec == Init /\ [][Next]_vars

(* The server answers and the event loop goes on; nobody has to call.      *)
FairSpec == Spec /\ \A c \in Clients : WF_vars(Scan(c) \/ DeletePage(c))

-----------------------------------------------------------------------------
(* Every variable holds values of its kind. *)
TypeOK ==
  /\ now \in 0 .. MaxTime
  /\ Live \subseteq Names
  /\ expires \in [Live -> Nat \cup {Forever}]
  /\ table \in Tables
  /\ clearing \in [Clients ->
       [state : {"idle", "scan", "delete", "done"}, prefix : CachePrefixes \cup {<<>>},
        cursor : 0 .. Places - 1, page : SUBSET Names, old : SUBSET Names]]
  /\ lease \in [Clients -> Names \cup {NoLease}]

(* When clear returns, every value of the cache that was there when it was *)
(* called is gone, whatever was set, removed or cleared in between.        *)
ClearCoversTheOld ==
  \A c \in Clients : clearing[c].state = "done" => clearing[c].old = {}

(* setWithNx grants a name to one client at a time: another one gets it    *)
(* only when its time has run out, or when somebody overwrote, removed or  *)
(* cleared it; a late release by an earlier holder is such a removal, for  *)
(* removeItem does not ask whose the name is.                              *)
LeaseHeldAlone ==
  \A c, d \in Clients : c # d /\ lease[c] # NoLease => lease[c] # lease[d]

(* clear ends, however often others add names and the server resizes its   *)
(* table, up and down, between two pages: the cursor only goes forward.    *)
(* The sizes are bounded; the loop has no limit of its own, and ends for   *)
(* this reason alone.                                                      *)
ClearEnds ==
  \A c \in Clients : clearing[c].state = "scan" ~> clearing[c].state \in {"done", "idle"}
=============================================================================
