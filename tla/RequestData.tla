----------------------------- MODULE RequestData ----------------------------
(***************************************************************************)
(* What the middlewares read of an Express request, as operators: its      *)
(* path and its product, with and without defaults.  The other product     *)
(* fields take the same way as product_name.  A string is the sequence of  *)
(* its pieces between colons, as in RateLimiter.                           *)
(*                                                                         *)
(* A request is a record: method; path; originalUrl, up to its '?', Null   *)
(* if there is none; query, the values product_name has in the query       *)
(* string; body, Unreadable or the value of its field product_name, Null   *)
(* when there is no such field or no body.                                 *)
(***************************************************************************)
EXTENDS Sequences

CONSTANTS Null, Unreadable

Empty == <<"">>
Root == <<"/">>
Default == <<"DEFAULT">>

(* normalizeNullableString: an empty string is no string. *)
normalizeNullableString(value) == IF value = Empty THEN Null ELSE value

(* ExpressQueryParamsAdapter.get: the first of several values. *)
firstValue(values) == IF values = <<>> THEN Null ELSE Head(values)

resolveRequestPath(http) ==
  IF http.path \notin {Null, Empty} THEN http.path
  ELSE IF http.originalUrl # Null THEN http.originalUrl ELSE Root

(* Only the body of a POST is parsed; JSON.parse throws, or the access to  *)
(* a field of null does.                                                   *)
ExtractionThrows(http) == http.method = "POST" /\ http.body = Unreadable

(* extractRequestData: where the product of a request that does not throw  *)
(* is looked for depends on its method.                                    *)
extractRequestData(http) ==
  CASE http.method = "POST" -> normalizeNullableString(http.body)
    [] http.method = "GET" -> normalizeNullableString(firstValue(http.query))
    [] OTHER -> Null

(* Mutant of applyRequestDefaults: the default comes before what was read. *)
DefaultBeforeExtracted(extracted, override) == IF override # Null THEN override ELSE Default

applyRequestDefaults(extracted, override) ==
  IF override # Null THEN override ELSE IF extracted # Null THEN extracted ELSE Default
=============================================================================
