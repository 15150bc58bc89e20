--------------------------- MODULE RequestPipeline --------------------------
(***************************************************************************)
(* databaseRequestLoggerMiddleware in front of rateLimiterMiddleware, over *)
(* one database and one table prefix: the rows the limiter counts are the  *)
(* entries the logger saves for the very requests it judges.               *)
(*                                                                         *)
(* The logger opens an entry before next() and saves it when the response  *)
(* finishes or its connection closes, which a client can do at any time,   *)
(* so an entry may be saved from the moment it is open; RequestLogger has  *)
(* the details.  An entry may also stay unsaved for ever.  Left out: the   *)
(* second row of an entry saved twice, which RateLimiter's rows allow for, *)
(* and rules edited or the cache reset while requests run.                 *)
(***************************************************************************)
EXTENDS RateLimiter, RequestData

CONSTANTS
  HttpRequests,  \* what Express hands to the middlewares
  TablePrefix,   \* of both middlewares
  LogWhitelist,  \* paths the logger passes by
  Override       \* the logger's override of productName, or Null

LogTarget(http) ==
  [prefix |-> TablePrefix, path |-> resolveRequestPath(http),
   product |-> applyRequestDefaults(extractRequestData(http), Override)]

LimitTarget(http) ==
  [prefix |-> TablePrefix, path |-> resolveRequestPath(http),
   product |-> extractRequestData(http)]

(* requireRateLimiterArgs, after the extraction. *)
Defects(http) ==
  \/ ExtractionThrows(http)
  \/ resolveRequestPath(http) = Empty
  \/ extractRequestData(http) = Null

ASSUME HttpAssumption ==
  \A http \in HttpRequests :
    /\ ~ExtractionThrows(http) => LogTarget(http) \in Targets
    /\ ~Defects(http) => LimitTarget(http) \in Targets

VARIABLE entry   \* each request's log entry: how far it is, and its row

pipeline == <<vars, entry>>

Entry(stage, target) == [stage |-> stage, target |-> target, id |-> 0, at |-> 0]

-----------------------------------------------------------------------------
PipelineInit ==
  /\ Init
  /\ entry = [r \in Requests |-> Entry("none", NoValue)]

(* The logger cannot read the request: 400, and no entry. *)
Reject(r, http) ==
  /\ request[r].state = "new" /\ entry[r].stage = "none"
  /\ resolveRequestPath(http) \notin LogWhitelist
  /\ ExtractionThrows(http)
  /\ entry' = [entry EXCEPT ![r].stage = "rejected"]
  /\ UNCHANGED vars

(* The logger opens an entry, or passes the request by, and calls next(). *)
OpenEntry(r, http) ==
  /\ entry[r].stage = "none"
  /\ entry' = [entry EXCEPT ![r] =
       IF resolveRequestPath(http) \in LogWhitelist THEN Entry("passed", NoValue)
       ELSE Entry("open", LogTarget(http))]
  /\ resolveRequestPath(http) \in LogWhitelist \/ ~ExtractionThrows(http)

(* The limiter's first steps, for the data it extracts itself. *)
Limit(r, http) ==
  IF resolveRequestPath(http) \in Whitelist
  THEN \E t \in Targets : t.path = resolveRequestPath(http) /\ Bypass(r, t)
  ELSE IF Defects(http) THEN Defective(r) ELSE Arrive(r, LimitTarget(http))

Enter(r, http) == OpenEntry(r, http) /\ Limit(r, http)

(* The entry becomes a row of the log. *)
SaveEntry(r) ==
  /\ entry[r].stage = "open"
  /\ InsertRow(entry[r].target)
  /\ entry' = [entry EXCEPT ![r].stage = "saved",
                            ![r].id = Cardinality(rows), ![r].at = now]

LimiterStep(r) == Step(r) /\ UNCHANGED entry

TimePasses == Tick /\ UNCHANGED entry

PipelineNext ==
  \/ \E r \in Requests, http \in HttpRequests : Reject(r, http) \/ Enter(r, http)
  \/ \E r \in Requests : SaveEntry(r) \/ LimiterStep(r)
  \/ TimePasses

PipelineSpec == PipelineInit /\ [][PipelineNext]_pipeline

(* As for the limiter alone: nothing makes clients or the log go on. *)
FairPipeline == PipelineSpec /\ \A r \in Requests : WF_pipeline(LimiterStep(r))

-----------------------------------------------------------------------------
Admitted(r) == request[r].state = "next" /\ request[r].reason = "within limits"

(* The requests of r's target that were let through, and whose entries had *)
(* been saved long enough before r, within the window r arrived in.        *)
AdmittedBefore(r, w) ==
  {q \in Requests :
     /\ Admitted(q) /\ request[q].target = request[r].target
     /\ entry[q].stage = "saved"
     /\ entry[q].at >= getUtcBoundaries(request[r].arrived)[w]
     /\ entry[q].at + TTL + MaxLatency <= request[r].arrived}

(* No limit is overshot but by requests whose entries were unsaved, or     *)
(* saved for less than TTL + MaxLatency, when the last of them arrived:    *)
(* what one middleware logs is what the other one counts.                  *)
AdmissionsWithinLimit ==
  \A r \in Requests :
    Admitted(r) => \A w \in Windows :
                     Cardinality(AdmittedBefore(r, w)) < ruleFetch[r].value.limits[w]
=============================================================================
