--------------------------- MODULE RequestLogger ----------------------------
(***************************************************************************)
(* databaseRequestLoggerMiddleware over the life of its responses: the     *)
(* request data is awaited, listeners and body tracker are attached, the   *)
(* application answers, 'finish' and 'close' arrive in any order, and the  *)
(* first of them saves the log entry in the background.                    *)
(*                                                                         *)
(* External: the application behind next(); Express and Node, whose        *)
(* response sends once, accepts a status at any time and throws on a       *)
(* second send; and the writer, which inserts an entry at least once       *)
(* (AtLeastOnce), at most MaxCopies times.                                 *)
(***************************************************************************)
EXTENDS Naturals, Sequences

CONSTANTS
  Requests,
  Whitelisted,   \* requests whose path is on the whitelist
  Malformed,     \* POST requests whose body is no JSON
  Codes, OK, BadRequest,
  Bodies, ErrorBody,
  NoBody,        \* null
  MaxCopies      \* how often a writer may insert one entry

ASSUME RequestsAssumption == Whitelisted \subseteq Requests /\ Malformed \subseteq Requests
ASSUME DataAssumption ==
  /\ {OK, BadRequest} \subseteq Codes
  /\ ErrorBody \in Bodies
  /\ NoBody \notin Bodies
ASSUME WriterAssumption == MaxCopies \in Nat \ {0}

VARIABLES
  stage,      \* how far the middleware is with each request
  statusCode, \* response.statusCode
  tracked,    \* the body tracker's responseBody
  wire,       \* what the client is sent: at most one answer
  touched,    \* responses changed once sent and before there was an entry
  emitted,    \* the events the response has emitted
  hasRun,     \* of the single-execution callback
  saves,      \* the entries passed to saveRequestLog
  saving,     \* the writer's promise
  rows        \* the entry's rows in the log

vars == <<stage, statusCode, tracked, wire, touched, emitted, hasRun, saves, saving, rows>>

Answers == [status : Codes, body : Bodies \cup {NoBody}]
Entries == [status : Codes, body : Bodies \cup {NoBody}, finished : BOOLEAN]

-----------------------------------------------------------------------------
Init ==
  /\ stage = [r \in Requests |-> "arriving"]
  /\ statusCode = [r \in Requests |-> OK]
  /\ tracked = [r \in Requests |-> NoBody]
  /\ wire = [r \in Requests |-> <<>>]
  /\ touched = {}
  /\ emitted = [r \in Requests |-> {}]
  /\ hasRun = [r \in Requests |-> FALSE]
  /\ saves = [r \in Requests |-> <<>>]
  /\ saving = [r \in Requests |-> "idle"]
  /\ rows = [r \in Requests |-> 0]

log == <<hasRun, saves, saving, rows>>

Arrive(r) ==
  /\ stage[r] = "arriving"
  /\ stage' = [stage EXCEPT ![r] = IF r \in Whitelisted THEN "bypassed" ELSE "extracting"]
  /\ UNCHANGED <<statusCode, tracked, wire, touched, emitted, log>>

(* The response sends its first answer; a second send throws. *)
Transmit(r, code, body) ==
  wire' = [wire EXCEPT ![r] = IF @ = <<>> THEN <<[status |-> code, body |-> body]>> ELSE @]

Reject(r) ==
  /\ stage[r] = "extracting" /\ r \in Malformed
  /\ stage' = [stage EXCEPT ![r] = "rejected"]
  /\ statusCode' = [statusCode EXCEPT ![r] = BadRequest]
  /\ Transmit(r, BadRequest, ErrorBody)
  /\ UNCHANGED <<tracked, touched, emitted, log>>

(* Listeners and tracker are attached and next() is called. *)
Attach(r) ==
  /\ stage[r] = "extracting" /\ r \notin Malformed
  /\ stage' = [stage EXCEPT ![r] = "handling"]
  /\ UNCHANGED <<statusCode, tracked, wire, touched, emitted, log>>

(* createServiceContext throws, outside the try block. *)
ContextFails(r) ==
  /\ stage[r] = "extracting" /\ r \notin Malformed
  /\ stage' = [stage EXCEPT ![r] = "threw"]
  /\ UNCHANGED <<statusCode, tracked, wire, touched, emitted, log>>

-----------------------------------------------------------------------------
(* The application, or Express for a middleware that threw. *)
MayAnswer(r) == stage[r] \in {"bypassed", "handling", "threw"}

(* It may answer again, or set another status, when the answer is out. *)
Touch(r) ==
  touched' = IF stage[r] = "handling" /\ wire[r] # <<>> /\ ~hasRun[r]
             THEN touched \cup {r} ELSE touched

SetStatus(r, code) ==
  /\ MayAnswer(r)
  /\ Touch(r)
  /\ statusCode' = [statusCode EXCEPT ![r] = code]
  /\ UNCHANGED <<stage, tracked, wire, emitted, log>>

(* Mutant of Track: the wrappers record nothing. *)
TrackNothing(r, body) == UNCHANGED tracked

(* The wrapped send, json and end record a body before they pass it on. *)
Track(r, body) ==
  tracked' = IF stage[r] = "handling" /\ body # NoBody
             THEN [tracked EXCEPT ![r] = body] ELSE tracked

Send(r, body) ==
  /\ MayAnswer(r)
  /\ Touch(r)
  /\ Track(r, body)
  /\ Transmit(r, statusCode[r], body)
  /\ UNCHANGED <<stage, statusCode, emitted, log>>

-----------------------------------------------------------------------------
(* Mutant of finalizeLog: the flag is set and never looked at. *)
FinalizeEveryTime(r, finished) ==
  /\ hasRun' = [hasRun EXCEPT ![r] = TRUE]
  /\ saves' = [saves EXCEPT ![r] = Append(@, [status |-> statusCode[r],
                 body |-> IF finished THEN tracked[r] ELSE NoBody, finished |-> finished])]
  /\ saving' = [saving EXCEPT ![r] = "pending"]
  /\ UNCHANGED rows
(* Mutant of finalizeLog: a response that closed unfinished is skipped. *)
FinalizeFinishedOnly(r, finished) ==
  /\ hasRun' = [hasRun EXCEPT ![r] = TRUE]
  /\ IF hasRun[r] \/ ~finished THEN UNCHANGED <<saves, saving>>
     ELSE /\ saves' = [saves EXCEPT ![r] = Append(@, [status |-> statusCode[r],
                         body |-> tracked[r], finished |-> TRUE])]
          /\ saving' = [saving EXCEPT ![r] = "pending"]
  /\ UNCHANGED rows

(* createSingleExecutionCallback around the start of saveRequestLog. *)
finalizeLog(r, finished) ==
  /\ hasRun' = [hasRun EXCEPT ![r] = TRUE]
  /\ IF hasRun[r] THEN UNCHANGED <<saves, saving>>
     ELSE /\ saves' = [saves EXCEPT ![r] = Append(@, [status |-> statusCode[r],
                         body |-> IF finished THEN tracked[r] ELSE NoBody,
                         finished |-> finished])]
          /\ saving' = [saving EXCEPT ![r] = "pending"]
  /\ UNCHANGED rows

(* Node emits each event once; 'finish' needs an answer, and 'close' can   *)
(* come before the answer, before the middleware, or before 'finish'.      *)
Emit(r, event) ==
  /\ event \notin emitted[r]
  /\ event = "finish" => wire[r] # <<>>
  /\ emitted' = [emitted EXCEPT ![r] = @ \cup {event}]
  /\ IF stage[r] = "handling" THEN finalizeLog(r, event = "finish") ELSE UNCHANGED log
  /\ UNCHANGED <<stage, statusCode, tracked, wire, touched>>

-----------------------------------------------------------------------------
(* The writer inserts the entry, perhaps after its promise has settled. *)
Insert(r) ==
  /\ saving[r] # "idle"
  /\ rows[r] < MaxCopies
  /\ rows' = [rows EXCEPT ![r] = @ + 1]
  /\ UNCHANGED <<stage, statusCode, tracked, wire, touched, emitted, hasRun, saves, saving>>

(* The promise settles; a failure is logged and forgotten. *)
Settle(r) ==
  /\ saving[r] = "pending"
  /\ \/ rows[r] > 0 /\ saving' = [saving EXCEPT ![r] = "saved"]
     \/ saving' = [saving EXCEPT ![r] = "failed"]
  /\ UNCHANGED <<stage, statusCode, tracked, wire, touched, emitted, hasRun, saves, rows>>

Next == \E r \in Requests :
  \/ Arrive(r) \/ Reject(r) \/ Attach(r) \/ ContextFails(r)
  \/ \E code \in Codes : SetStatus(r, code)
  \/ \E body \in Bodies \cup {NoBody} : Send(r, body)
  \/ \E event \in {"finish", "close"} : Emit(r, event)
  \/ Insert(r) \/ Settle(r)

Spec == Init /\ [][Next]_vars

(* The event loop goes on and every connection closes; the writer owes     *)
(* nothing, and its promise may never settle.                              *)
FairSpec ==
  /\ Spec
  /\ \A r \in Requests :
       /\ WF_vars(Arrive(r)) /\ WF_vars(Reject(r) \/ Attach(r) \/ ContextFails(r))
       /\ WF_vars(Emit(r, "close"))

-----------------------------------------------------------------------------
(* Every variable holds values of its kind; the flag of the single         *)
(* execution is up exactly when an entry was handed over.                  *)
TypeOK ==
  /\ stage \in [Requests -> {"arriving", "extracting", "bypassed", "rejected", "threw", "handling"}]
  /\ statusCode \in [Requests -> Codes]
  /\ tracked \in [Requests -> Bodies \cup {NoBody}]
  /\ wire \in [Requests -> Seq(Answers)]
  /\ touched \subseteq Requests
  /\ emitted \in [Requests -> SUBSET {"finish", "close"}]
  /\ hasRun \in [Requests -> BOOLEAN]
  /\ saves \in [Requests -> Seq(Entries)]
  /\ saving \in [Requests -> {"idle", "pending", "saved", "failed"}]
  /\ rows \in [Requests -> 0 .. MaxCopies]
  /\ \A r \in Requests : hasRun[r] <=> saves[r] # <<>>

(* 'finish' and 'close' both fire for a response that ends well, in either *)
(* order; the entry is saved once, and has rows only if it was.            *)
OneEntryPerResponse ==
  \A r \in Requests :
    /\ Len(saves[r]) <= 1
    /\ rows[r] > 0 => Len(saves[r]) = 1

(* What the log says of a finished response is what the client was sent:   *)
(* its status and its body, though both are read only when 'finish' comes. *)
(* Where it says anything else, the application had answered again or set  *)
(* another status between the answer and 'finish'.                         *)
EntryMatchesAnswer ==
  \A r \in Requests : \A i \in 1 .. Len(saves[r]) :
    saves[r][i].finished =>
      /\ Len(wire[r]) = 1
      /\ r \notin touched
           => wire[r][1] = [status |-> saves[r][i].status, body |-> saves[r][i].body]

(* A request that reached the application while its client was there is    *)
(* handed over to be saved in the end, whatever the application does.      *)
HandledIsSaved ==
  \A r \in Requests :
    (stage[r] = "handling" /\ "close" \notin emitted[r]) ~> Len(saves[r]) = 1
=============================================================================
