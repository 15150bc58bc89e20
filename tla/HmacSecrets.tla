----------------------------- MODULE HmacSecrets -----------------------------
(***************************************************************************)
(* createLazyHmacSecretResolver: one promise serves every sign and verify  *)
(* of an HmacClient.  It is made by the first caller, kept when it         *)
(* fulfils, and forgotten from a callback when it rejects, a moment before *)
(* those who await it are told.                                            *)
(*                                                                         *)
(* External: the provider behind resolveSecrets, which rotates its         *)
(* secrets, may answer late with what it held when it was asked, may       *)
(* answer nonsense, reject, or throw before it returns a promise.          *)
(***************************************************************************)
EXTENDS HmacKeys

CONSTANTS Callers,
          MaxCalls      \* bound on the calls of resolver

ASSUME CallsAssumption == MaxCalls \in Nat

VARIABLES
  calls,          \* the calls of resolver, each with the life of its promise
  secretsPromise, \* the call whose promise is kept, 0 for undefined
  caller          \* what each caller awaits or got

vars == <<version, calls, secretsPromise, caller>>

Secrets == Seq(Nat)

Call(state, from, secrets) == [state |-> state, from |-> from, secrets |-> secrets]
Caller(stage, call, secrets) == [stage |-> stage, call |-> call, secrets |-> secrets]

-----------------------------------------------------------------------------
Init ==
  /\ version = 1
  /\ calls = <<>>
  /\ secretsPromise = 0
  /\ caller = [c \in Callers |-> Caller("refused", 0, <<>>)]

Awaits(c) == caller[c].stage = "waiting"

Wait(c, n) == caller' = [caller EXCEPT ![c] = Caller("waiting", n, <<>>)]

(* A caller finds the promise, whatever has become of it. *)
Join(c) ==
  /\ ~Awaits(c)
  /\ secretsPromise # 0
  /\ Wait(c, secretsPromise)
  /\ UNCHANGED <<version, calls, secretsPromise>>

(* Mutant of Ask: the promise is kept only once it has fulfilled. *)
AskWithoutSharing(c) ==
  /\ ~Awaits(c)
  /\ secretsPromise = 0
  /\ Len(calls) < MaxCalls
  /\ calls' = Append(calls, Call("asked", version, <<>>))
  /\ Wait(c, Len(calls) + 1)
  /\ UNCHANGED <<version, secretsPromise>>

(* A caller finds none and makes one. *)
Ask(c) ==
  /\ ~Awaits(c)
  /\ secretsPromise = 0
  /\ Len(calls) < MaxCalls
  /\ calls' = Append(calls, Call("asked", version, <<>>))
  /\ secretsPromise' = Len(calls) + 1
  /\ Wait(c, Len(calls) + 1)
  /\ UNCHANGED version

(* Mutant of AskThrows: a promise is kept before resolver is called. *)
AskThrowsKept(c) ==
  /\ ~Awaits(c)
  /\ secretsPromise = 0
  /\ caller' = [caller EXCEPT ![c] = Caller("refused", 0, <<>>)]
  /\ secretsPromise' = Len(calls) + 1
  /\ UNCHANGED <<version, calls>>

(* resolver throws instead of returning a promise; nothing is kept. *)
AskThrows(c) ==
  /\ ~Awaits(c)
  /\ secretsPromise = 0
  /\ caller' = [caller EXCEPT ![c] = Caller("refused", 0, <<>>)]
  /\ UNCHANGED <<version, calls, secretsPromise>>

-----------------------------------------------------------------------------
Rotate ==
  /\ Rotates
  /\ UNCHANGED <<calls, secretsPromise, caller>>

(* The provider's promise fulfils, with secrets or with nonsense. *)
Reply(n) ==
  /\ calls[n].state = "asked"
  /\ \E secrets \in {SecretsAt(v) : v \in calls[n].from .. version} \cup {<<>>, <<0>>} :
       calls' = [calls EXCEPT ![n] = Call("replied", @.from, secrets)]
  /\ UNCHANGED <<version, secretsPromise, caller>>

Reject(n) ==
  /\ calls[n].state = "asked"
  /\ calls' = [calls EXCEPT ![n].state = "failed"]
  /\ UNCHANGED <<version, secretsPromise, caller>>

(* Mutant of Fulfil: the promise serves those who wait and no one else. *)
FulfilUncached(n) ==
  /\ calls[n].state = "replied" /\ validateHmacSecrets(calls[n].secrets)
  /\ calls' = [calls EXCEPT ![n].state = "fulfilled"]
  /\ secretsPromise' = 0
  /\ UNCHANGED <<version, caller>>

(* then(validateHmacSecrets) passes. *)
Fulfil(n) ==
  /\ calls[n].state = "replied" /\ validateHmacSecrets(calls[n].secrets)
  /\ calls' = [calls EXCEPT ![n].state = "fulfilled"]
  /\ UNCHANGED <<version, secretsPromise, caller>>

(* The provider rejected, or validateHmacSecrets throws. *)
Broken(n) ==
  \/ calls[n].state = "failed"
  \/ calls[n].state = "replied" /\ ~validateHmacSecrets(calls[n].secrets)

(* Mutant of Forget: the catch asks again instead of rejecting. *)
ForgetByRetrying(n) ==
  /\ Broken(n)
  /\ calls' = [calls EXCEPT ![n].state = "asked"]
  /\ UNCHANGED <<version, secretsPromise, caller>>

(* Mutant of Forget: a failure is kept like a success. *)
ForgetNothing(n) ==
  /\ Broken(n)
  /\ calls' = [calls EXCEPT ![n].state = "rejected"]
  /\ UNCHANGED <<version, secretsPromise, caller>>

(* The catch: the promise is forgotten, and then rejects. *)
Forget(n) ==
  /\ Broken(n)
  /\ calls' = [calls EXCEPT ![n].state = "rejected"]
  /\ secretsPromise' = 0
  /\ UNCHANGED <<version, caller>>

(* The await of sign or verify ends. *)
Resume(c) ==
  /\ Awaits(c)
  /\ LET call == calls[caller[c].call] IN
       \/ /\ call.state = "fulfilled"
          /\ caller' = [caller EXCEPT ![c] = Caller("served", 0, call.secrets)]
       \/ /\ call.state = "rejected"
          /\ caller' = [caller EXCEPT ![c] = Caller("refused", 0, <<>>)]
  /\ UNCHANGED <<version, calls, secretsPromise>>

Settle(n) == Reply(n) \/ Reject(n) \/ Fulfil(n) \/ Forget(n)

Next ==
  \/ \E c \in Callers : Join(c) \/ Ask(c) \/ AskThrows(c) \/ Resume(c)
  \/ \E n \in DOMAIN calls : Settle(n)
  \/ Rotate

Spec == Init /\ [][Next]_vars

(* Promise callbacks run, and the provider answers in the end. *)
FairSpec ==
  /\ Spec
  /\ \A c \in Callers : WF_vars(Resume(c))
  /\ \A n \in 1 .. MaxCalls : WF_vars(n \in DOMAIN calls /\ Settle(n))

-----------------------------------------------------------------------------
CallStates == {"asked", "replied", "failed", "fulfilled", "rejected"}

(* Every variable holds values of its kind. *)
TypeOK ==
  /\ version \in Nat
  /\ calls \in Seq([state : CallStates, from : Nat, secrets : Secrets])
  /\ secretsPromise \in 0 .. Len(calls)
  /\ caller \in [Callers ->
       [stage : {"waiting", "served", "refused"}, call : 0 .. Len(calls), secrets : Secrets]]
  /\ \A c \in Callers : Awaits(c) => caller[c].call # 0

Unsettled(n) == calls[n].state \in {"asked", "replied", "failed"}

(* README: "shares one in-flight request, caches successful values": the   *)
(* provider has one question to answer at a time, and none once it has     *)
(* answered well, however failures and callers interleave.                 *)
SingleFlight ==
  \A m, n \in DOMAIN calls :
    calls[m].state # "rejected" /\ calls[n].state # "rejected" => m = n

(* Two callers of a client that were both served hold the same secrets,    *)
(* all of them non-empty, although the provider rotated between them.      *)
ServedAlike ==
  \A c, d \in Callers :
    caller[c].stage = "served" /\ caller[d].stage = "served" =>
      /\ caller[c].secrets = caller[d].secrets
      /\ validateHmacSecrets(caller[c].secrets)

(* "Retries after failures": nobody who asks is given a failure that was   *)
(* already known when they asked.                                          *)
FailureNotKept ==
  [][\A c \in Callers :
       Awaits(c)' /\ ~Awaits(c) => calls'[caller'[c].call].state # "rejected"]_vars

(* Whoever awaits the promise is told, served or refused. *)
EveryCallerTold == \A c \in Callers : Awaits(c) ~> ~Awaits(c)

(* The client's view of it: the secrets are loaded once. *)
Fulfilled(n) == n # 0 /\ calls[n].state = "fulfilled"

LoadedSecrets == IF Fulfilled(secretsPromise) THEN calls[secretsPromise].secrets ELSE <<>>

Outcome(c) ==
  IF Awaits(c)
  THEN [state |-> IF Fulfilled(caller[c].call) THEN "promised" ELSE "waiting", value |-> <<>>]
  ELSE [state |-> IF caller[c].stage = "served" THEN "given" ELSE "denied",
        value |-> IF caller[c].stage = "served" THEN caller[c].secrets ELSE <<>>]

Loaded == INSTANCE OnceLoaded WITH
  Askers <- Callers, Loadable <- {SecretsAt(v) : v \in 1 .. MaxVersion}, Nothing <- <<>>,
  value <- LoadedSecrets, got <- [c \in Callers |-> Outcome(c)]

(* What sign and verify see of it: whoever is given secrets is given the   *)
(* same, a list the provider had, and is not refused once it is loaded.    *)
ImplementsOnceLoaded == Loaded!Spec
=============================================================================
