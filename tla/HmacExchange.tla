----------------------------- MODULE HmacExchange -----------------------------
(***************************************************************************)
(* A signed request on its way from a sender to a receiver that loaded     *)
(* their secrets from one provider, each when it first needed them or when *)
(* it started.  The sender is an HmacClient or signs as http_js once did;  *)
(* the receiver is an HmacClient or hmacMiddleware.                        *)
(*                                                                         *)
(* External: HTTP and Node between the two, other middleware that parses   *)
(* the body or changes the request, the handler behind next(), and the     *)
(* provider, which rotates its secrets.  How the calls of one client share *)
(* the loading of its secrets is HmacSecrets' matter; here it is one step. *)
(***************************************************************************)
EXTENDS HmacMessage, HmacKeys

CONSTANTS
  Requests,      \* what a sender may be asked to sign
  ClientRules    \* the custom headers of the two clients, for each of them

Parties == {"sender", "receiver"}

ASSUME RequestsAssumption == Requests \subseteq RequestRecords

(* The two clients agree on the headers, whatever order they list them in. *)
ASSUME RulesAssumption ==
  /\ ClientRules \in [Parties -> Seq(STRING)]
  /\ \A p \in Parties : \A i \in DOMAIN ClientRules[p] :
       LowerCase[ClientRules[p][i]] \in ToSet(HeaderOrder)
  /\ normalizeCustomHeaderRules(ClientRules["sender"])
       = normalizeCustomHeaderRules(ClientRules["receiver"])

VARIABLES
  setup,     \* who sends, who receives, and what parses bodies before it
  held,      \* the secrets each party holds, and the version they are of
  exchange   \* the request under way

exchangeVars == <<setup, version, held, exchange>>

(* A "json" parser leaves an object, "filled" makes one of an absent body, *)
(* and "broken" leaves one that JSON.stringify throws on.                  *)
Setups ==
  {s \in [scheme : {"client", "legacy"}, receiver : {"client", "middleware"},
          parser : {"raw", "json", "filled", "broken"}] :
     s.receiver = "client" => s.scheme = "client" /\ s.parser = "raw"}

Unloaded == [secrets |-> <<>>, at |-> 0]
LoadedAt(v) == [secrets |-> SecretsAt(v), at |-> v]

(* Custom headers are signed between two clients; the middleware has none. *)
Rules(party) == IF setup.receiver = "client" THEN ClientRules[party] ELSE <<>>

NoSignature == [secret |-> 0, message |-> <<>>]

Idle(request) ==
  [stage |-> "idle", request |-> request, received |-> request, signature |-> NoSignature,
   signedAt |-> 0, altered |-> FALSE, reply |-> "none", handler |-> "not called"]

-----------------------------------------------------------------------------
(* What a process that starts holds: a client nothing yet, and the         *)
(* middleware the SECRETS of its environment.                              *)
Started(party, v) ==
  IF party = "receiver" /\ setup.receiver = "middleware" THEN LoadedAt(v) ELSE Unloaded

ExchangeInit ==
  /\ setup \in Setups
  /\ version = 1
  /\ held = [p \in Parties |-> Started(p, 1)]
  /\ \E request \in Requests : exchange = Idle(request)

(* Mutant of Sign: the secrets are asked for first. *)
SignSecretsFirst ==
  /\ exchange.stage = "idle"
  /\ exchange' = [exchange EXCEPT !.stage = "signing"]
  /\ UNCHANGED <<setup, version, held>>

(* sign is called; it throws before it asks for secrets, or awaits them. *)
Sign ==
  /\ exchange.stage = "idle"
  /\ exchange' = [exchange EXCEPT !.stage =
       IF setup.scheme = "client" /\ ~Buildable(exchange.request, Rules("sender"))
       THEN "unsigned" ELSE "signing"]
  /\ UNCHANGED <<setup, version, held>>

AwaitsSecrets(party) ==
  /\ held[party] = Unloaded
  /\ exchange.stage = (IF party = "sender" THEN "signing" ELSE "checking")

Load(party) ==
  /\ AwaitsSecrets(party)
  /\ held' = [held EXCEPT ![party] = LoadedAt(version)]
  /\ UNCHANGED <<setup, version, exchange>>

LoadFails(party) ==
  /\ AwaitsSecrets(party)
  /\ exchange' = [exchange EXCEPT !.stage = IF party = "sender" THEN "unsigned" ELSE "failed"]
  /\ UNCHANGED <<setup, version, held>>

-----------------------------------------------------------------------------
WireHeader(name, values) ==
  [name |-> name, value |-> IF Len(values) = 1 THEN values[1] ELSE "merged"]

WireHeaders(headers) ==
  LET values(n) == headerValues(headers, n)
  IN  FlattenSeq([i \in DOMAIN HeaderOrder |->
        Only(values(HeaderOrder[i]) # <<>>,
             <<WireHeader(HeaderOrder[i], values(HeaderOrder[i]))>>)])

WireParams(params) ==
  [i \in DOMAIN params |-> [params[i] EXCEPT !.value = IF @ = "null" THEN "" ELSE @]]

(* Null is sent as nothing, header names go in lower case, and Node joins  *)
(* repeated values in a way of its own.                                    *)
OverHttp(request) ==
  [request EXCEPT !.path = pathname(@), !.params = WireParams(@), !.headers = WireHeaders(@)]

(* Mutant of signingSecret: the oldest secret signs. *)
oldestSecret(secrets) == secrets[Len(secrets)]

signingSecret(secrets) == secrets[1]

(* sign returns, and the request is sent, its parameters in any order. *)
Send ==
  /\ exchange.stage = "signing" /\ held["sender"] # Unloaded
  /\ LET message == IF setup.scheme = "legacy" THEN legacyMessage(exchange.request)
                    ELSE buildHmacMessage(exchange.request, Rules("sender"))
         wire == OverHttp(exchange.request)
     IN  \E params \in {wire.params, Reverse(wire.params)} :
           exchange' = [exchange EXCEPT
             !.stage = "sent", !.signedAt = held["sender"].at,
             !.signature = Signature(signingSecret(held["sender"].secrets), message),
             !.received = [wire EXCEPT !.params = params]]
  /\ UNCHANGED <<setup, version, held>>

(* Something on the way changes a part of the request or its signature. *)
Alter ==
  /\ exchange.stage = "sent" /\ ~exchange.altered
  /\ \E changed \in {[exchange EXCEPT !.received.method = m] : m \in Supported}
                      \cup {[exchange EXCEPT !.received.path = Path("other", 0)],
                            [exchange EXCEPT !.received.params = <<>>],
                            [exchange EXCEPT !.received.body = "changed"],
                            [exchange EXCEPT !.received.headers = <<>>],
                            [exchange EXCEPT !.signature = NoSignature]} :
       exchange' = [changed EXCEPT !.altered = TRUE]
  /\ UNCHANGED <<setup, version, held>>

-----------------------------------------------------------------------------
Refuse ==
  exchange' = [exchange EXCEPT !.stage = "refused",
    !.reply = IF setup.receiver = "middleware" THEN "401" ELSE "none"]

(* The body adapter of createHmacRequestFromExpress, over a parsed body. *)
ParsedBody(body) ==
  CASE setup.parser \in {"json", "filled"} /\ body = "spaced" -> "json"
    [] setup.parser = "filled" /\ body = "" -> "{}"
    [] OTHER -> body

BodyThrows == setup.parser = "broken" /\ exchange.received.method # "GET"

(* The receiver reads the request, up to its verdict or its secrets. *)
Receive ==
  /\ exchange.stage = "sent"
  /\ IF setup.receiver = "client"
     THEN IF Buildable(exchange.received, Rules("receiver"))
          THEN exchange' = [exchange EXCEPT !.stage = "checking"]
          ELSE Refuse
     ELSE IF exchange.signature = NoSignature \/ exchange.received.method \notin Supported
          THEN Refuse
          ELSE exchange' =
                 IF BodyThrows
                 THEN [exchange EXCEPT !.stage = "failed", !.reply = "next(error)"]
                 ELSE [exchange EXCEPT !.stage = "checking", !.received.body = ParsedBody(@)]
  /\ UNCHANGED <<setup, version, held>>

Signs(message) ==
  \E i \in DOMAIN held["receiver"].secrets :
    exchange.signature = Signature(held["receiver"].secrets[i], message)

LegacyAccepts ==
  /\ setup.receiver = "middleware"
  /\ exchange.received.method \in {"GET", "POST"}
  /\ Signs(legacyMessage(exchange.received))

Verify ==
  /\ exchange.stage = "checking" /\ held["receiver"] # Unloaded
  /\ IF Signs(buildHmacMessage(exchange.received, Rules("receiver"))) \/ LegacyAccepts
     THEN exchange' = [exchange EXCEPT !.stage = "accepted"]
     ELSE Refuse
  /\ UNCHANGED <<setup, version, held>>

Behind == exchange.stage = "accepted" /\ exchange.handler = "not called"

HandlerReturns ==
  /\ Behind
  /\ exchange' = [exchange EXCEPT !.handler = "returned"]
  /\ UNCHANGED <<setup, version, held>>

(* Mutant of HandlerThrows: next() is called inside the try block. *)
HandlerJudged ==
  /\ Behind
  /\ exchange' = [exchange EXCEPT !.handler = "threw", !.reply = "401"]
  /\ UNCHANGED <<setup, version, held>>

(* next() throws, an HMACException perhaps; nobody here catches it. *)
HandlerThrows ==
  /\ Behind
  /\ exchange' = [exchange EXCEPT !.handler = "threw"]
  /\ UNCHANGED <<setup, version, held>>

-----------------------------------------------------------------------------
Over ==
  \/ exchange.stage \in {"unsigned", "refused", "failed"}
  \/ exchange.stage = "accepted" /\ exchange.handler # "not called"

Again ==
  /\ Over
  /\ \E request \in Requests : exchange' = Idle(request)
  /\ UNCHANGED <<setup, version, held>>

RotateUnderway ==
  /\ Rotates
  /\ UNCHANGED <<setup, held, exchange>>

(* A party restarts while it is not at work. *)
Restart(party) ==
  /\ exchange.stage \in (IF party = "sender" THEN {"idle", "sent"} ELSE {"idle", "signing", "sent"})
  /\ held' = [held EXCEPT ![party] = Started(party, version)]
  /\ UNCHANGED <<setup, version, exchange>>

ExchangeNext ==
  \/ Sign \/ Send \/ Alter \/ Receive \/ Verify
  \/ HandlerReturns \/ HandlerThrows \/ Again \/ RotateUnderway
  \/ \E party \in Parties : Load(party) \/ LoadFails(party) \/ Restart(party)

ExchangeSpec == ExchangeInit /\ [][ExchangeNext]_exchangeVars

-----------------------------------------------------------------------------
(* Every variable holds values of its kind; a party's secrets are a list   *)
(* the provider has had, and a client asks for them only if the message    *)
(* they are for can be built.                                              *)
ExchangeTypeOK ==
  /\ setup \in Setups
  /\ version \in 1 .. MaxVersion
  /\ DOMAIN held = Parties
  /\ \A p \in Parties : held[p] \in {Unloaded} \cup {LoadedAt(v) : v \in 1 .. version}
  /\ exchange.stage \in {"idle", "signing", "unsigned", "sent", "checking",
                         "accepted", "refused", "failed"}
  /\ exchange.request \in Requests
  /\ AwaitsSecrets("sender") /\ setup.scheme = "client"
       => Buildable(exchange.request, Rules("sender"))
  /\ AwaitsSecrets("receiver") => Buildable(exchange.received, Rules("receiver"))

(* What HTTP and the parsers before the receiver leave as it was signed.   *)
Faithful ==
  LET r == exchange.request IN
  /\ setup.scheme = "client" => r.path.kind # "none" /\ r.path # Path("space", 0)
  /\ setup.scheme = "legacy" => r.method \in {"GET", "POST"}
  /\ \A i \in DOMAIN r.params : r.params[i].value # "null"
  /\ \A n \in ToSet(normalizeCustomHeaderRules(Rules("sender"))) :
       Len(headerValues(r.headers, n)) = 1
  /\ r.method # "GET" =>
       CASE setup.parser = "raw" -> TRUE
         [] setup.parser = "json" -> r.body # "spaced"
         [] setup.parser = "filled" -> r.body \notin {"spaced", ""}
         [] setup.parser = "broken" -> FALSE

(* A request that nothing on the way changed is accepted just when the     *)
(* receiver's list, however long ago it loaded it, still or already has    *)
(* the sender's newest secret: README, "Verification checks every secret   *)
(* to support rotation".  The order of parameters, of headers and of rules *)
(* and the case of names do not matter, nor does a GET's body, nor, for    *)
(* the legacy scheme, how the path was encoded.                            *)
FaithfulAccepted ==
  exchange.stage \in {"accepted", "refused"} /\ ~exchange.altered /\ Faithful =>
    LET s == exchange.signedAt
        at == held["receiver"].at
    IN  exchange.stage = "accepted" <=> s <= at /\ at < s + Keep

(* A part that was dropped or replaced on the way is noticed: what is      *)
(* accepted has the path, the parameters, the headers the rules name and,  *)
(* but for a GET, the body that were signed, by a secret still held.  The  *)
(* method is not signed: it may have changed, but no body gets in or out   *)
(* of the message with it.                                                 *)
AcceptedIsGenuine ==
  exchange.stage = "accepted" =>
    LET sent == OverHttp(exchange.request)
        got == exchange.received
    IN  /\ exchange.signature.secret \in ToSet(held["receiver"].secrets)
        /\ got.path = sent.path
        /\ ToSet(got.params) = ToSet(sent.params)
        /\ got.method # "GET" => got.body = exchange.request.body
        /\ \A n \in ToSet(normalizeCustomHeaderRules(Rules("receiver"))) :
             headerValues(got.headers, n) = headerValues(sent.headers, n)

(* What it takes for that: the texts of one part are none of another's,    *)
(* since nothing in a message says where a part ends, and the orders have  *)
(* every key.                                                              *)
PathTexts == {"%"} \cup PathKinds
Params == UNION {ToSet(r.params) : r \in Requests}
ParamTexts == {p.key : p \in Params} \cup ({p.value : p \in Params} \ {""})
BodyTexts == ({r.body : r \in Requests} \cup {"changed", "json", "{}"}) \ {""}
HeaderTexts ==
  {":", "merged"} \cup ToSet(HeaderOrder)
    \cup {h.value : h \in UNION {ToSet(r.headers) : r \in Requests}}

PartsApart ==
  /\ PathTexts \cap (ParamTexts \cup BodyTexts \cup HeaderTexts) = {}
  /\ ParamTexts \cap (BodyTexts \cup HeaderTexts) = {}
  /\ BodyTexts \cap HeaderTexts = {}
  /\ \A p \in Params : p.key \in ToSet(KeyOrder) \cap ToSet(LocaleOrder)

(* The handler runs for accepted requests only, and the middleware answers *)
(* for others only: an HMACException of the handler's own is not taken for *)
(* the middleware's.                                                       *)
MiddlewareAnswersForItself ==
  /\ exchange.handler # "not called" => exchange.stage = "accepted" /\ exchange.reply = "none"
  /\ setup.receiver = "middleware" /\ exchange.stage \in {"refused", "failed"}
       => exchange.reply # "none"
=============================================================================
