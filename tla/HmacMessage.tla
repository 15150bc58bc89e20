----------------------------- MODULE HmacMessage -----------------------------
(***************************************************************************)
(* The message an HMAC is computed over, canonical and legacy, of a        *)
(* request [method, path, params, body, headers].                          *)
(*                                                                         *)
(* A path is a kind of text and how often it was percent-encoded, a        *)
(* message the pieces of text it is joined from, without a mark where one  *)
(* part ends and the next begins, and a signature its secret and message.  *)
(***************************************************************************)
EXTENDS Naturals, Sequences, SequencesExt

CONSTANTS
  KeyOrder,      \* the query keys, as compareStrings orders them
  LocaleOrder,   \* and as localeCompare does
  HeaderOrder,   \* header names in lower case, as compareStrings orders them
  LowerCase,     \* each header name in lower case
  RefusedValues  \* header values a custom header's validate refuses

(* The names in HeaderOrder are in lower case and differ. *)
ASSUME OrderAssumption ==
  /\ KeyOrder \in Seq(STRING) /\ LocaleOrder \in Seq(STRING) /\ HeaderOrder \in Seq(STRING)
  /\ \A i \in DOMAIN HeaderOrder : LowerCase[HeaderOrder[i]] = HeaderOrder[i]
  /\ \A i, j \in DOMAIN HeaderOrder : HeaderOrder[i] = HeaderOrder[j] => i = j

-----------------------------------------------------------------------------
Supported == {"GET", "POST", "PATCH", "DELETE"}

(* Paths: "plain" text, with a ":", with one of "!'()*", or with a space;  *)
(* "none" when a URL ends at its host, "root" for "/"; "other" is plain too *)
PathKinds == {"plain", "colon", "bang", "space", "none", "root", "other"}

Path(kind, level) == [kind |-> kind, level |-> level]

RequestRecords ==
  [method : STRING, path : [kind : PathKinds, level : Nat], body : STRING,
   params : Seq([key : STRING, value : STRING]),
   headers : Seq([name : STRING, value : STRING])]

(* What isSafePathByte and encodeURIComponent do not leave alone; an       *)
(* encoded path has a "%", which neither leaves alone.                     *)
Encode(p, unsafe) == IF p.level > 0 \/ p.kind \in unsafe THEN [p EXCEPT !.level = @ + 1] ELSE p

encodeHmacPath(p) == Encode(p, {"bang", "space"})

(* External: what URL makes of a path, and an HTTP client of its target. *)
pathname(p) ==
  CASE p.kind = "none" -> Path("root", 0)
    [] p.kind = "space" /\ p.level = 0 -> Path("space", 1)
    [] OTHER -> p

encodeLegacyPath(p) == Encode(pathname(p), {"colon", "space"})

-----------------------------------------------------------------------------
Only(condition, s) == IF condition THEN s ELSE <<>>

Text(s) == Only(s # "", <<s>>)

PathText(p) ==
  IF p.kind = "none" THEN <<>> ELSE [i \in 1 .. p.level |-> "%"] \o <<p.kind>>

(* The parameters by their keys, which are distinct. *)
SortedEntries(entries, order) ==
  LET keys == {p.key : p \in entries}
      value(k) == (CHOOSE p \in entries : p.key = k).value
  IN  FlattenSeq([i \in DOMAIN order |->
        Only(order[i] \in keys, <<order[i]>> \o Text(value(order[i])))])

buildSortedParams(params, order) == SortedEntries(ToSet(params), order)

(* Mutant of normalizeBody: only a POST has its body signed. *)
bodyOfPost(method, body) == IF method # "POST" THEN "" ELSE body

normalizeBody(method, body) == IF method = "GET" THEN "" ELSE body

(* normalizeHmacHeaders: the values of a name, in the order encountered. *)
headerValues(headers, name) ==
  FlattenSeq([i \in DOMAIN headers |->
    Only(LowerCase[headers[i].name] = name, <<headers[i].value>>)])

normalizeCustomHeaderRules(rules) ==
  LET names == {LowerCase[rules[i]] : i \in DOMAIN rules}
  IN  FlattenSeq([i \in DOMAIN HeaderOrder |->
        Only(HeaderOrder[i] \in names, <<HeaderOrder[i]>>)])

headersAccepted(rules, headers) ==
  \A i \in DOMAIN rules :
    LET values == headerValues(headers, LowerCase[rules[i]])
    IN  values # <<>> /\ values \notin RefusedValues

buildCustomHeadersFragment(rules, headers) ==
  LET names == normalizeCustomHeaderRules(rules)
  IN  FlattenSeq([i \in DOMAIN names |-> <<names[i], ":">> \o headerValues(headers, names[i])])

(* buildHmacMessage throws for a method or a header that is not accepted. *)
Buildable(request, rules) ==
  request.method \in Supported /\ headersAccepted(rules, request.headers)

buildHmacMessage(request, rules) ==
  PathText(encodeHmacPath(request.path)) \o buildSortedParams(request.params, KeyOrder)
    \o Text(normalizeBody(request.method, request.body))
    \o buildCustomHeadersFragment(rules, request.headers)

(* What signLegacyHmac signs. *)
legacyMessage(request) ==
  PathText(encodeLegacyPath(request.path)) \o buildSortedParams(request.params, LocaleOrder)
    \o Text(normalizeBody(request.method, request.body))

Signature(secret, message) == [secret |-> secret, message |-> message]
=============================================================================
