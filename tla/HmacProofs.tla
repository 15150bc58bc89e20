----------------------------- MODULE HmacProofs ------------------------------
(***************************************************************************)
(* Theorems about HmacSecrets: its type invariant, that the provider has   *)
(* one question at a time, that all callers are served alike, that no      *)
(* caller is given a known failure, and that it implements OnceLoaded.     *)
(* Theorems about HmacExchange: its type invariant, who answers for        *)
(* whom, that an unchanged request is accepted just while the receiver has *)
(* the secret it was signed with, and that whatever is accepted was        *)
(* signed, part by part where texts tell the parts apart.  All of them for *)
(* every number of secrets kept and of rotations, and for all callers,     *)
(* requests and rules.                                                     *)
(***************************************************************************)
EXTENDS HmacSecrets, HmacExchange, SequenceTheorems, WellFoundedInduction, TLAPS

Provided == {SecretsAt(v) : v \in 1 .. MaxVersion}

(* The kept promise is the one that has not rejected. *)
Current ==
  \A n \in DOMAIN calls : calls[n].state # "rejected" <=> n = secretsPromise

(* What the provider answers was its list at some time, or nonsense. *)
Answered ==
  /\ version \in 1 .. MaxVersion
  /\ \A n \in DOMAIN calls :
       /\ calls[n].from \in 1 .. version
       /\ calls[n].state \in {"replied", "fulfilled"}
            => calls[n].secrets \in Provided \cup {<<>>, <<0>>}
       /\ calls[n].state = "fulfilled" => validateHmacSecrets(calls[n].secrets)

(* Whoever was served holds what the kept promise fulfilled with. *)
Served ==
  \A c \in Callers :
    caller[c].stage = "served" =>
      Fulfilled(secretsPromise) /\ caller[c].secrets = calls[secretsPromise].secrets

IInv == TypeOK /\ Current /\ Answered /\ Served

-----------------------------------------------------------------------------
LEMMA SecretsAtType ==
  ASSUME NEW v \in Nat \ {0}
  PROVE  /\ SecretsAt(v) \in Secrets
         /\ validateHmacSecrets(SecretsAt(v))
<1> DEFINE k == IF v < Keep THEN v ELSE Keep
<1>1. k \in Nat \ {0} /\ k <= v
  BY KeepAssumption
<1>2. SecretsAt(v) = [i \in 1 .. k |-> v - i + 1]
  BY DEF SecretsAt
<1> HIDE DEF k
<1>3. \A i \in 1 .. k : v - i + 1 \in Nat \ {0}
  BY <1>1
<1>4. SecretsAt(v) \in Seq(Nat) /\ Len(SecretsAt(v)) = k /\ DOMAIN SecretsAt(v) = 1 .. k
  BY <1>1, <1>2, <1>3
<1>5. SecretsAt(v) # <<>>
  BY <1>1, <1>4
<1> QED
  BY <1>2, <1>3, <1>4, <1>5 DEF Secrets, validateHmacSecrets

LEMMA InitIInv == Init => IInv
<1> SUFFICES ASSUME Init PROVE IInv
  OBVIOUS
<1> USE DEF Init
<1>1. TypeOK
  BY DEF TypeOK, Caller, Awaits, Secrets
<1>2. Current /\ Served
  BY DEF Current, Served, Caller
<1>3. Answered
  BY VersionAssumption DEF Answered
<1> QED
  BY <1>1, <1>2, <1>3 DEF IInv

CallRecord == [state : CallStates, from : Nat, secrets : Secrets]

LEMMA CallsType ==
  ASSUME TypeOK
  PROVE  /\ calls \in Seq(CallRecord)
         /\ Len(calls) \in Nat /\ DOMAIN calls = 1 .. Len(calls)
         /\ \A n \in DOMAIN calls :
              /\ calls[n] \in CallRecord
              /\ calls[n].state \in CallStates
              /\ calls[n].from \in Nat
              /\ calls[n].secrets \in Secrets
<1>1. calls \in Seq(CallRecord)
  BY DEF TypeOK, CallRecord
<1>2. \A n \in DOMAIN calls : calls[n] \in CallRecord
  BY <1>1
<1> QED
  BY <1>1, <1>2 DEF CallRecord

(* Replacing the record of a call. *)
LEMMA UpdateCall ==
  ASSUME NEW s \in Seq(CallRecord), NEW n \in DOMAIN s, NEW r \in CallRecord
  PROVE  LET t == [s EXCEPT ![n] = r]
         IN  /\ t \in Seq(CallRecord) /\ Len(t) = Len(s) /\ DOMAIN t = DOMAIN s
             /\ t[n] = r
             /\ \A m \in DOMAIN s \ {n} : t[m] = s[m]
  OBVIOUS

(* A caller changes nothing the provider's calls depend on. *)
LEMMA WaitSafe ==
  ASSUME IInv, NEW c \in Callers, NEW n \in DOMAIN calls, ~Awaits(c), Wait(c, n),
         UNCHANGED <<version, calls, secretsPromise>>
  PROVE  IInv'
<1> USE DEF IInv
<1>1. n \in 0 .. Len(calls) /\ n # 0
  BY DEF TypeOK
<1>2. TypeOK'
  BY <1>1 DEF TypeOK, Wait, Caller, Awaits, Secrets
<1>3. Current' /\ Answered'
  BY DEF Current, Answered
<1>4. Served'
  BY DEF TypeOK, Served, Wait, Caller, Fulfilled
<1> QED
  BY <1>2, <1>3, <1>4

LEMMA RefuseSafe ==
  ASSUME IInv, NEW c \in Callers,
         caller' = [caller EXCEPT ![c] = Caller("refused", 0, <<>>)],
         UNCHANGED <<version, calls, secretsPromise>>
  PROVE  IInv'
<1> USE DEF IInv
<1>1. TypeOK'
  BY DEF TypeOK, Caller, Awaits, Secrets
<1>2. Current' /\ Answered'
  BY DEF Current, Answered
<1>3. Served'
  BY DEF TypeOK, Served, Caller, Fulfilled
<1> QED
  BY <1>1, <1>2, <1>3

LEMMA AskSafe ==
  ASSUME IInv, NEW c \in Callers, Ask(c)
  PROVE  IInv'
<1> USE DEF IInv
<1> DEFINE n == Len(calls) + 1
           new == Call("asked", version, <<>>)
<1>1. /\ secretsPromise = 0 /\ secretsPromise' = n /\ version' = version
      /\ calls' = Append(calls, new)
      /\ caller' = [caller EXCEPT ![c] = Caller("waiting", n, <<>>)]
  BY DEF Ask, Wait
<1>2. new \in [state : CallStates, from : Nat, secrets : Secrets]
  BY DEF TypeOK, Call, CallStates, Secrets
<1>3. /\ calls \in Seq([state : CallStates, from : Nat, secrets : Secrets])
      /\ Len(calls) \in Nat /\ DOMAIN calls = 1 .. Len(calls)
  BY DEF TypeOK
<1>4. /\ calls' \in Seq([state : CallStates, from : Nat, secrets : Secrets])
      /\ Len(calls') = n /\ DOMAIN calls' = 1 .. n
      /\ \A m \in DOMAIN calls : calls'[m] = calls[m]
      /\ calls'[n] = new
  BY <1>1, <1>2, <1>3
<1> HIDE DEF new
<1>5. TypeOK'
  BY <1>1, <1>3, <1>4 DEF TypeOK, Caller, Awaits, Secrets
<1>6. Current'
  <2>1. new.state = "asked"
    BY DEF new, Call
  <2>2. \A m \in DOMAIN calls : calls'[m].state = "rejected" /\ m # n
    BY <1>1, <1>3, <1>4 DEF Current
  <2> QED
    BY <1>1, <1>3, <1>4, <2>1, <2>2 DEF Current
<1>7. Answered'
  <2>1. new.state = "asked" /\ new.from = version
    BY DEF new, Call
  <2>2. new.from \in 1 .. version
    BY <2>1 DEF Answered
  <2> QED
    BY <1>1, <1>3, <1>4, <2>1, <2>2 DEF Answered
<1>8. Served'
  BY <1>1 DEF TypeOK, Served, Caller, Fulfilled
<1> QED
  BY <1>5, <1>6, <1>7, <1>8

LEMMA ServeSafe ==
  ASSUME IInv, NEW c \in Callers, Awaits(c),
         calls[caller[c].call].state = "fulfilled",
         caller' = [caller EXCEPT ![c] =
                      Caller("served", 0, calls[caller[c].call].secrets)],
         UNCHANGED <<version, calls, secretsPromise>>
  PROVE  IInv'
<1> USE DEF IInv
<1> DEFINE n == caller[c].call
<1>0. n \in 0 .. Len(calls) /\ n # 0
  BY DEF TypeOK
<1>1. n \in DOMAIN calls /\ n # 0 /\ calls[n].secrets \in Secrets
  BY <1>0, CallsType
<1>2. n = secretsPromise
  BY <1>1 DEF Current
<1>3. TypeOK'
  BY <1>1 DEF TypeOK, Caller, Awaits
<1>4. Current' /\ Answered'
  BY DEF Current, Answered
<1>5. Served'
  BY <1>1, <1>2 DEF TypeOK, Served, Caller, Fulfilled
<1> QED
  BY <1>3, <1>4, <1>5

LEMMA RotateSafe ==
  ASSUME IInv, Rotate
  PROVE  IInv'
<1> USE DEF IInv, Rotate, Rotates
<1>1. TypeOK'
  BY DEF TypeOK, Awaits
<1>2. Current' /\ Served'
  BY DEF Current, Served, Fulfilled
<1>3. Answered'
  BY VersionAssumption DEF Answered
<1> QED
  BY <1>1, <1>2, <1>3

(* A call of the provider that has not rejected moves on. *)
Advance(n, r) ==
  /\ calls[n].state # "rejected" /\ calls[n].state # "fulfilled"
  /\ r.from = calls[n].from /\ r.state # "rejected"
  /\ r.state \in {"replied", "fulfilled"} => r.secrets \in Provided \cup {<<>>, <<0>>}
  /\ r.state = "fulfilled" => validateHmacSecrets(r.secrets)
  /\ calls' = [calls EXCEPT ![n] = r]
  /\ UNCHANGED <<version, secretsPromise, caller>>

LEMMA AdvanceSafe ==
  ASSUME IInv, NEW n \in DOMAIN calls, NEW r \in CallRecord, Advance(n, r)
  PROVE  IInv'
<1> USE DEF IInv, Advance
<1>1. calls \in Seq(CallRecord)
  BY CallsType
<1>2. /\ calls' \in Seq(CallRecord)
      /\ DOMAIN calls' = DOMAIN calls /\ Len(calls') = Len(calls)
      /\ \A m \in DOMAIN calls \ {n} : calls'[m] = calls[m]
      /\ calls'[n] = r
  BY <1>1, UpdateCall
<1>3. TypeOK'
  BY <1>2 DEF TypeOK, Awaits, CallRecord
<1>4. Current'
  BY <1>2 DEF Current
<1>5. Answered'
  BY <1>2 DEF Answered
<1>6. Served'
  <2>1. n = secretsPromise
    BY DEF Current
  <2>2. ~Fulfilled(secretsPromise)
    BY <2>1 DEF Fulfilled
  <2> QED
    BY <2>2 DEF Served
<1> QED
  BY <1>3, <1>4, <1>5, <1>6

LEMMA ForgetSafe ==
  ASSUME IInv, NEW n \in DOMAIN calls, Forget(n)
  PROVE  IInv'
<1> USE DEF IInv
<1> DEFINE r == [calls[n] EXCEPT !.state = "rejected"]
<1>1. /\ calls \in Seq(CallRecord) /\ r \in CallRecord
      /\ r.state = "rejected" /\ r.from = calls[n].from
      /\ DOMAIN calls = 1 .. Len(calls) /\ Len(calls) \in Nat
  <2>1. calls[n] \in CallRecord
    BY CallsType
  <2> QED
    BY <2>1, CallsType DEF CallRecord, CallStates
<1>2. /\ calls[n].state \in {"failed", "replied"}
      /\ calls' = [calls EXCEPT ![n] = r]
      /\ secretsPromise' = 0 /\ UNCHANGED <<version, caller>>
  BY DEF Forget, Broken
<1>3. /\ calls' \in Seq([state : CallStates, from : Nat, secrets : Secrets])
      /\ DOMAIN calls' = DOMAIN calls /\ Len(calls') = Len(calls)
      /\ \A m \in DOMAIN calls \ {n} : calls'[m] = calls[m]
      /\ calls'[n].state = "rejected"
      /\ calls'[n].from = calls[n].from
  BY <1>1, <1>2, UpdateCall DEF CallRecord
<1>4. n = secretsPromise /\ ~Fulfilled(secretsPromise)
  BY <1>2 DEF Current, Fulfilled
<1>5. TypeOK'
  BY <1>1, <1>2, <1>3 DEF TypeOK, Awaits
<1>6. Current'
  BY <1>1, <1>2, <1>3, <1>4 DEF Current
<1>7. Answered'
  BY <1>2, <1>3 DEF Answered
<1>8. Served'
  BY <1>2, <1>4 DEF Served
<1> QED
  BY <1>5, <1>6, <1>7, <1>8

LEMMA SettleSafe ==
  ASSUME IInv, NEW n \in DOMAIN calls, Settle(n)
  PROVE  IInv'
<1>1. /\ calls[n] \in CallRecord /\ calls[n].secrets \in Secrets
      /\ DOMAIN calls = 1 .. Len(calls) /\ calls \in Seq(CallRecord)
  BY CallsType DEF IInv
<1>2. CASE Reply(n)
  <2>1. PICK secrets \in {SecretsAt(v) : v \in calls[n].from .. version}
                           \cup {<<>>, <<0>>} :
          calls' = [calls EXCEPT ![n] = Call("replied", @.from, secrets)]
    BY <1>2 DEF Reply
  <2> DEFINE r == Call("replied", calls[n].from, secrets)
  <2>2. \A v \in calls[n].from .. version : v \in 1 .. MaxVersion /\ v \in Nat \ {0}
    BY <1>1, VersionAssumption DEF IInv, Answered
  <2>3. secrets \in Provided \cup {<<>>, <<0>>}
    BY <2>1, <2>2 DEF Provided
  <2>4. secrets \in Secrets
    <3>1. <<>> \in Secrets /\ <<0>> \in Secrets
      BY DEF Secrets
    <3> QED
      BY <2>1, <2>2, <3>1, SecretsAtType
  <2>5. /\ r \in CallRecord /\ r.state = "replied"
        /\ r.from = calls[n].from /\ r.secrets = secrets
    BY <1>1, <2>4 DEF Call, CallRecord, CallStates
  <2>6. calls' = [calls EXCEPT ![n] = r]
    BY <2>1
  <2>7. calls[n].state = "asked" /\ UNCHANGED <<version, secretsPromise, caller>>
    BY <1>2 DEF Reply
  <2> HIDE DEF r
  <2> QED
    BY <2>3, <2>5, <2>6, <2>7, AdvanceSafe DEF Advance
<1>3. CASE Reject(n)
  <2> DEFINE r == [calls[n] EXCEPT !.state = "failed"]
  <2>1. r \in CallRecord /\ r.state = "failed" /\ r.from = calls[n].from
    BY <1>1 DEF CallRecord, CallStates
  <2>2. /\ calls[n].state = "asked" /\ calls' = [calls EXCEPT ![n] = r]
        /\ UNCHANGED <<version, secretsPromise, caller>>
    BY <1>3 DEF Reject
  <2> HIDE DEF r
  <2> QED
    BY <2>1, <2>2, AdvanceSafe DEF Advance
<1>4. CASE Fulfil(n)
  <2> DEFINE r == [calls[n] EXCEPT !.state = "fulfilled"]
  <2>1. /\ r \in CallRecord /\ r.state = "fulfilled"
        /\ r.from = calls[n].from /\ r.secrets = calls[n].secrets
    BY <1>1 DEF CallRecord, CallStates
  <2>2. /\ calls[n].state = "replied" /\ calls' = [calls EXCEPT ![n] = r]
        /\ validateHmacSecrets(calls[n].secrets)
        /\ UNCHANGED <<version, secretsPromise, caller>>
    BY <1>4 DEF Fulfil
  <2>3. calls[n].secrets \in Provided \cup {<<>>, <<0>>}
    BY <2>2 DEF IInv, Answered
  <2> HIDE DEF r
  <2> QED
    BY <2>1, <2>2, <2>3, AdvanceSafe DEF Advance
<1>5. CASE Forget(n)
  BY <1>5, ForgetSafe
<1> QED
  BY <1>2, <1>3, <1>4, <1>5 DEF Settle

LEMMA NextIInv == IInv /\ [Next]_vars => IInv'
<1> SUFFICES ASSUME IInv, [Next]_vars PROVE IInv'
  OBVIOUS
<1>1. ASSUME NEW c \in Callers, Join(c) PROVE IInv'
  <2>1. secretsPromise \in DOMAIN calls
    BY <1>1 DEF Join, IInv, TypeOK
  <2> QED
    BY <1>1, <2>1, WaitSafe DEF Join
<1>2. ASSUME NEW c \in Callers, Ask(c) PROVE IInv'
  BY <1>2, AskSafe
<1>3. ASSUME NEW c \in Callers, AskThrows(c) PROVE IInv'
  BY <1>3, RefuseSafe DEF AskThrows
<1>4. ASSUME NEW c \in Callers, Resume(c) PROVE IInv'
  <2>1. CASE calls[caller[c].call].state = "fulfilled"
    BY <1>4, <2>1, ServeSafe DEF Resume
  <2>2. CASE calls[caller[c].call].state = "rejected"
    BY <1>4, <2>2, RefuseSafe DEF Resume
  <2> QED
    BY <1>4, <2>1, <2>2 DEF Resume
<1>5. ASSUME NEW n \in DOMAIN calls, Settle(n) PROVE IInv'
  BY <1>5, SettleSafe
<1>6. CASE Rotate
  BY <1>6, RotateSafe
<1>7. CASE UNCHANGED vars
  BY <1>7 DEF vars, IInv, TypeOK, Awaits, Current, Answered, Served, Fulfilled
<1> QED
  BY <1>1, <1>2, <1>3, <1>4, <1>5, <1>6, <1>7 DEF Next

-----------------------------------------------------------------------------
LEMMA SpecIInv == Spec => []IInv
<1> QED
  BY InitIInv, NextIInv, PTL DEF Spec

(* The type invariant: callers of sign and verify await a promise that     *)
(* exists, and secretsPromise is undefined or the promise of some call.    *)
THEOREM TypeCorrect == Spec => []TypeOK
<1>1. IInv => TypeOK
  BY DEF IInv
<1> QED
  BY <1>1, SpecIInv, PTL

(* createLazyHmacSecretResolver never asks its provider a second question  *)
(* while it awaits an answer, nor after a good one.                        *)
THEOREM OneQuestion == Spec => []SingleFlight
<1>1. IInv => SingleFlight
  BY DEF IInv, Current, SingleFlight
<1> QED
  BY <1>1, SpecIInv, PTL

(* All callers of sign and verify that are served get the same secrets.    *)
THEOREM AllAlike == Spec => []ServedAlike
<1>1. ASSUME IInv PROVE ServedAlike
  <2> SUFFICES ASSUME NEW c \in Callers, NEW d \in Callers,
                      caller[c].stage = "served", caller[d].stage = "served"
               PROVE  /\ caller[c].secrets = caller[d].secrets
                      /\ validateHmacSecrets(caller[c].secrets)
    BY DEF ServedAlike
  <2>1. /\ Fulfilled(secretsPromise)
        /\ caller[c].secrets = calls[secretsPromise].secrets
        /\ caller[d].secrets = calls[secretsPromise].secrets
    BY <1>1 DEF IInv, Served
  <2>2. secretsPromise \in DOMAIN calls
    BY <1>1, <2>1 DEF IInv, TypeOK, Fulfilled
  <2> QED
    BY <1>1, <2>1, <2>2 DEF IInv, Answered, Fulfilled
<1> QED
  BY <1>1, SpecIInv, PTL

(* Who asks after a failure of the provider does not get that failure.     *)
THEOREM FailureForgotten == Spec => FailureNotKept
<1>1. ASSUME IInv, [Next]_vars, NEW c \in Callers, Awaits(c)', ~Awaits(c)
      PROVE  calls'[caller'[c].call].state # "rejected"
  <2>1. CASE \E d \in Callers : Join(d)
    <3>1. /\ caller'[c].call = secretsPromise /\ calls' = calls
          /\ secretsPromise \in DOMAIN calls
      BY <1>1, <2>1 DEF Join, Wait, Caller, Awaits, IInv, TypeOK
    <3> QED
      BY <1>1, <3>1 DEF IInv, Current
  <2>2. CASE \E d \in Callers : Ask(d)
    <3>1. PICK d \in Callers : Ask(d)
      BY <2>2
    <3>2. /\ caller'[c].call = Len(calls) + 1
          /\ calls' = Append(calls, Call("asked", version, <<>>))
      BY <1>1, <3>1 DEF Ask, Wait, Caller, Awaits, IInv, TypeOK
    <3>3. calls'[Len(calls) + 1] = Call("asked", version, <<>>)
      BY <1>1, <3>2, CallsType DEF IInv
    <3> QED
      BY <3>2, <3>3 DEF Call
  <2>3. CASE \E d \in Callers : AskThrows(d) \/ Resume(d)
    BY <1>1, <2>3 DEF AskThrows, Resume, Caller, Awaits, IInv, TypeOK
  <2>4. CASE UNCHANGED caller
    BY <1>1, <2>4 DEF Awaits
  <2> QED
    BY <1>1, <2>1, <2>2, <2>3, <2>4
    DEF Next, vars, Rotate, Rotates, Settle, Reply, Reject, Fulfil, Forget
<1>2. IInv /\ [Next]_vars =>
        [\A c \in Callers :
           Awaits(c)' /\ ~Awaits(c) => calls'[caller'[c].call].state # "rejected"]_vars
  BY <1>1
<1> QED
  BY <1>2, SpecIInv, PTL DEF Spec, FailureNotKept

-----------------------------------------------------------------------------
(* The secrets are loaded exactly while the kept promise is fulfilled.     *)
LEMMA LoadedType ==
  ASSUME IInv
  PROVE  /\ LoadedSecrets = <<>> <=> ~Fulfilled(secretsPromise)
         /\ Fulfilled(secretsPromise) => LoadedSecrets = calls[secretsPromise].secrets
<1>1. ASSUME Fulfilled(secretsPromise) PROVE calls[secretsPromise].secrets # <<>>
  <2>1. secretsPromise \in DOMAIN calls
    BY <1>1 DEF IInv, TypeOK, Fulfilled
  <2> QED
    BY <1>1, <2>1 DEF IInv, Answered, Fulfilled, validateHmacSecrets
<1> QED
  BY <1>1 DEF LoadedSecrets

(* A step of one caller is that asker's step. *)
LEMMA OutcomeUpdate ==
  ASSUME NEW c \in Callers, \A d \in Callers \ {c} : Outcome(d)' = Outcome(d)
  PROVE  [d \in Callers |-> Outcome(d)]' =
           [[d \in Callers |-> Outcome(d)] EXCEPT ![c] = Outcome(c)']
  OBVIOUS

LEMMA OthersSame ==
  ASSUME IInv, NEW c \in Callers, NEW r, caller' = [caller EXCEPT ![c] = r],
         \A n \in DOMAIN calls : calls'[n].state = calls[n].state
  PROVE  \A d \in Callers \ {c} : Outcome(d)' = Outcome(d)
<1> SUFFICES ASSUME NEW d \in Callers \ {c} PROVE Outcome(d)' = Outcome(d)
  OBVIOUS
<1>1. caller'[d] = caller[d]
  BY DEF IInv, TypeOK
<1>2. Awaits(d) => caller[d].call \in DOMAIN calls
  BY DEF IInv, TypeOK
<1> QED
  BY <1>1, <1>2 DEF Outcome, Awaits, Fulfilled

LEMMA InitLoaded == Init => Loaded!Init
  BY DEF Init, Loaded!Init, Loaded!Denied, LoadedSecrets, Fulfilled, Outcome, Caller, Awaits

(* Every step of the resolver is a step of OnceLoaded or a stutter. *)
LEMMA StepLoaded == IInv /\ [Next]_vars => [Loaded!Next]_(Loaded!vars)
<1> SUFFICES ASSUME IInv, [Next]_vars PROVE [Loaded!Next]_(Loaded!vars)
  OBVIOUS
<1> DEFINE got == [c \in Callers |-> Outcome(c)]
<1>0. /\ LoadedSecrets = <<>> <=> ~Fulfilled(secretsPromise)
      /\ Fulfilled(secretsPromise) => LoadedSecrets = calls[secretsPromise].secrets
  BY LoadedType
<1>1. ASSUME NEW c \in Callers, Join(c) PROVE Loaded!Ask(c)
  <2>1. Outcome(c)' = IF LoadedSecrets = <<>> THEN Loaded!Waiting ELSE Loaded!Promised
    BY <1>0, <1>1 DEF Join, Wait, Caller, IInv, TypeOK, Outcome, Awaits, Fulfilled,
                      Loaded!Waiting, Loaded!Promised
  <2>2. got' = [got EXCEPT ![c] = Outcome(c)']
    BY <1>1, OthersSame, OutcomeUpdate DEF Join, Wait
  <2>3. LoadedSecrets' = LoadedSecrets
    BY <1>1 DEF Join, LoadedSecrets, Fulfilled
  <2>4. ~Loaded!Pending(c)
    BY <1>1 DEF Join, Outcome, Loaded!Pending, Loaded!Waiting, Loaded!Promised
  <2> QED
    BY <2>1, <2>2, <2>3, <2>4 DEF Loaded!Ask
<1>2. ASSUME NEW c \in Callers, Ask(c) PROVE Loaded!Ask(c)
  <2>1. /\ DOMAIN calls = 1 .. Len(calls) /\ Len(calls) \in Nat
        /\ calls'[Len(calls) + 1].state = "asked"
        /\ \A n \in DOMAIN calls : calls'[n] = calls[n]
    BY <1>2, CallsType DEF IInv, Ask, Call
  <2>2. LoadedSecrets = <<>> /\ LoadedSecrets' = <<>>
    BY <1>2, <2>1 DEF Ask, LoadedSecrets, Fulfilled
  <2>3. Outcome(c)' = Loaded!Waiting
    BY <1>2, <2>1 DEF Ask, Wait, Caller, IInv, TypeOK, Outcome, Awaits, Fulfilled,
                      Loaded!Waiting
  <2>4. got' = [got EXCEPT ![c] = Outcome(c)']
    BY <1>2, <2>1, OthersSame, OutcomeUpdate DEF Ask, Wait
  <2>5. ~Loaded!Pending(c)
    BY <1>2 DEF Ask, Outcome, Loaded!Pending, Loaded!Waiting, Loaded!Promised
  <2> QED
    BY <2>2, <2>3, <2>4, <2>5 DEF Loaded!Ask
<1>3. ASSUME NEW c \in Callers, AskThrows(c) PROVE Loaded!Deny(c)
  <2>1. LoadedSecrets = <<>> /\ LoadedSecrets' = LoadedSecrets
    BY <1>3 DEF AskThrows, LoadedSecrets, Fulfilled
  <2>2. Outcome(c)' = Loaded!Denied
    BY <1>3 DEF AskThrows, Caller, IInv, TypeOK, Outcome, Awaits, Loaded!Denied
  <2>3. got' = [got EXCEPT ![c] = Outcome(c)']
    BY <1>3, OthersSame, OutcomeUpdate DEF AskThrows
  <2>4. ~Loaded!Pending(c)
    BY <1>3 DEF AskThrows, Outcome, Loaded!Pending, Loaded!Waiting, Loaded!Promised
  <2> QED
    BY <2>1, <2>2, <2>3, <2>4 DEF Loaded!Deny
<1>4. ASSUME NEW c \in Callers, Resume(c) PROVE Loaded!Give(c) \/ Loaded!Deny(c)
  <2>1. caller[c].call \in DOMAIN calls /\ caller[c].call # 0
    BY <1>4 DEF Resume, IInv, TypeOK
  <2>2. LoadedSecrets' = LoadedSecrets
    BY <1>4 DEF Resume, LoadedSecrets, Fulfilled
  <2>3. got' = [got EXCEPT ![c] = Outcome(c)']
    BY <1>4, OthersSame, OutcomeUpdate DEF Resume
  <2>4. CASE calls[caller[c].call].state = "fulfilled"
    <3>1. caller[c].call = secretsPromise
      BY <2>1, <2>4 DEF IInv, Current
    <3>2. LoadedSecrets = calls[caller[c].call].secrets
      BY <1>0, <2>1, <2>4, <3>1 DEF Fulfilled
    <3>3. Outcome(c) = Loaded!Promised
      BY <1>4, <2>1, <2>4 DEF Resume, Outcome, Fulfilled, Loaded!Promised
    <3>4. Outcome(c)' = Loaded!Given(LoadedSecrets)
      BY <1>4, <2>4, <3>2 DEF Resume, Caller, IInv, TypeOK, Outcome, Awaits, Loaded!Given
    <3> QED
      BY <2>2, <2>3, <3>3, <3>4 DEF Loaded!Give
  <2>5. CASE calls[caller[c].call].state = "rejected"
    <3>1. Outcome(c) = Loaded!Waiting
      BY <1>4, <2>5 DEF Resume, Outcome, Fulfilled, Loaded!Waiting
    <3>2. Outcome(c)' = Loaded!Denied
      BY <1>4, <2>5 DEF Resume, Caller, IInv, TypeOK, Outcome, Awaits, Loaded!Denied
    <3> QED
      BY <2>2, <2>3, <3>1, <3>2 DEF Loaded!Deny
  <2> QED
    BY <1>4, <2>4, <2>5 DEF Resume
<1>5. ASSUME NEW n \in DOMAIN calls, Settle(n) PROVE [Loaded!Next]_(Loaded!vars)
  <2>0. \A c \in Callers : Awaits(c) => caller[c].call \in DOMAIN calls
    BY DEF IInv, TypeOK
  <2>1. CASE Fulfil(n)
    <3> DEFINE lucky == {c \in Callers : Awaits(c) /\ caller[c].call = n}
    <3>1. n = secretsPromise /\ ~Fulfilled(n) /\ n # 0
      BY <2>1, CallsType DEF Fulfil, IInv, Current, Fulfilled
    <3>2. /\ calls'[n].state = "fulfilled" /\ calls'[n].secrets = calls[n].secrets
          /\ \A m \in DOMAIN calls \ {n} : calls'[m] = calls[m]
          /\ UNCHANGED <<secretsPromise, caller>>
      <4>1. calls[n] \in CallRecord /\ calls[n].secrets = calls[n].secrets
        BY CallsType DEF IInv
      <4> QED
        BY <2>1, <4>1 DEF Fulfil, CallRecord
    <3>3. LoadedSecrets = <<>> /\ LoadedSecrets' = calls[n].secrets
      BY <1>0, <3>1, <3>2 DEF LoadedSecrets, Fulfilled
    <3>4. calls[n].secrets \in {SecretsAt(v) : v \in 1 .. MaxVersion}
      <4>1. calls[n].state = "replied" /\ validateHmacSecrets(calls[n].secrets)
        BY <2>1 DEF Fulfil
      <4>2. calls[n].secrets \in Provided \cup {<<>>, <<0>>}
        BY <4>1 DEF IInv, Answered
      <4>3. ~validateHmacSecrets(<<>>) /\ ~validateHmacSecrets(<<0>>)
        BY DEF validateHmacSecrets
      <4> QED
        BY <4>1, <4>2, <4>3 DEF Provided
    <3>5. \A c \in Callers :
            Outcome(c)' = IF c \in lucky /\ Outcome(c) = Loaded!Waiting
                          THEN Loaded!Promised ELSE Outcome(c)
      <4> SUFFICES ASSUME NEW c \in Callers
                   PROVE  Outcome(c)' = IF c \in lucky /\ Outcome(c) = Loaded!Waiting
                                        THEN Loaded!Promised ELSE Outcome(c)
        OBVIOUS
      <4>1. CASE c \in lucky
        BY <3>1, <3>2, <4>1 DEF Outcome, Awaits, Fulfilled, Loaded!Waiting, Loaded!Promised
      <4>2. CASE c \notin lucky
        BY <2>0, <3>2, <4>2 DEF Outcome, Awaits, Fulfilled
      <4> QED
        BY <4>1, <4>2
    <3>6. Loaded!Fix(calls[n].secrets, lucky)
      <4>1. got' = [c \in Callers |-> Outcome(c)']
        OBVIOUS
      <4> QED
        BY <3>3, <3>5, <4>1 DEF Loaded!Fix
    <3> QED
      BY <3>4, <3>6 DEF Loaded!Next
  <2>2. CASE Reply(n) \/ Reject(n) \/ Forget(n)
    <3>1. /\ calls[n].state \notin {"fulfilled", "rejected"}
          /\ calls'[n].state # "fulfilled"
          /\ \A m \in DOMAIN calls \ {n} : calls'[m] = calls[m]
          /\ caller' = caller
      BY <2>2, CallsType DEF Reply, Reject, Forget, Broken, Call, CallRecord, IInv
    <3>2. n = secretsPromise /\ secretsPromise' \in {0, n}
      BY <2>2, <3>1 DEF Reply, Reject, Forget, IInv, Current
    <3>3. LoadedSecrets = <<>> /\ LoadedSecrets' = <<>>
      BY <3>1, <3>2 DEF LoadedSecrets, Fulfilled
    <3>4. \A c \in Callers : Outcome(c)' = Outcome(c)
      BY <2>0, <3>1 DEF Outcome, Awaits, Fulfilled
    <3> QED
      BY <3>3, <3>4 DEF Loaded!vars
  <2> QED
    BY <1>5, <2>1, <2>2 DEF Settle
<1>6. CASE UNCHANGED <<calls, secretsPromise, caller>>
  <2>1. LoadedSecrets' = LoadedSecrets /\ got' = got
    BY <1>6 DEF LoadedSecrets, Fulfilled, Outcome, Awaits
  <2> QED
    BY <2>1 DEF Loaded!vars
<1> QED
  BY <1>1, <1>2, <1>3, <1>4, <1>5, <1>6 DEF Next, Rotate, Rotates, vars, Loaded!Next

(* The lazy resolver is a value that is loaded once: sign and verify are   *)
(* given the same secrets of the provider, and once these are loaded no    *)
(* call of theirs is refused.                                              *)
THEOREM IsLoadedOnce == Spec => ImplementsOnceLoaded
<1> QED
  BY SpecIInv, InitLoaded, StepLoaded, PTL DEF Spec, ImplementsOnceLoaded, Loaded!Spec

-----------------------------------------------------------------------------
(* Data: what the folds over sequences make of them, by induction.         *)
LEMMA LeastElement ==
  ASSUME NEW T \in SUBSET Nat, T # {}
  PROVE  \E x \in T : \A y \in T : x <= y
<1>1. PICK x \in T : \A y \in T : ~(<<y, x>> \in OpToRel(<, Nat))
  BY NatLessThanWellFounded, WFMin
<1>2. \A y \in T : ~(y < x)
  BY <1>1 DEF OpToRel
<1> QED
  BY <1>2

LEMMA Induction ==
  ASSUME NEW T \in SUBSET Nat, 0 \in T, \A n \in T : n + 1 \in T
  PROVE  T = Nat
<1>1. SUFFICES ASSUME Nat \ T # {} PROVE FALSE
  OBVIOUS
<1>2. PICK x \in Nat \ T : \A y \in Nat \ T : x <= y
  BY <1>1, LeastElement
<1>3. x # 0 /\ x - 1 \in Nat /\ (x - 1) + 1 = x
  OBVIOUS
<1> QED
  BY <1>2, <1>3

(* The recursion of FlattenSeq, up to n.                                   *)
Flattens(s, g, n) ==
  g = [i \in 1 .. n |-> IF i = 1 THEN s[i] ELSE g[i - 1] \o s[i]]

LEMMA FlattenExists ==
  ASSUME NEW s, NEW n \in Nat
  PROVE  \E g : Flattens(s, g, n)
<1> DEFINE S == {k \in Nat : \E g : Flattens(s, g, k)}
<1>1. 0 \in S
  <2>1. Flattens(s, [i \in 1 .. 0 |-> s], 0)
    BY DEF Flattens
  <2> QED
    BY <2>1
<1>2. ASSUME NEW k \in S PROVE k + 1 \in S
  <2>1. PICK g : Flattens(s, g, k)
    OBVIOUS
  <2> DEFINE last == IF k = 0 THEN s[1] ELSE g[k] \o s[k + 1]
             h == [i \in 1 .. k + 1 |-> IF i = k + 1 THEN last ELSE g[i]]
  <2>2. ASSUME NEW i \in 1 .. k + 1
        PROVE  h[i] = IF i = 1 THEN s[i] ELSE h[i - 1] \o s[i]
    <3>1. CASE i = k + 1
      BY <3>1
    <3>2. CASE i # k + 1
      <4>1. i \in 1 .. k /\ h[i] = g[i] /\ (i # 1 => h[i - 1] = g[i - 1])
        BY <3>2
      <4>2. g[i] = IF i = 1 THEN s[i] ELSE g[i - 1] \o s[i]
        BY <2>1, <4>1 DEF Flattens
      <4> QED
        BY <4>1, <4>2
    <3> QED
      BY <3>1, <3>2
  <2>3. Flattens(s, h, k + 1)
    BY <2>2 DEF Flattens
  <2> HIDE DEF h
  <2> QED
    BY <2>3
<1> HIDE DEF S
<1>3. S \in SUBSET Nat
  BY DEF S
<1>4. S = Nat
  BY <1>1, <1>2, <1>3, Induction
<1> QED
  BY <1>4 DEF S

LEMMA FlattenIs ==
  ASSUME NEW T, NEW s \in Seq(T), s # <<>>
  PROVE  \E g : Flattens(s, g, Len(s)) /\ FlattenSeq(s) = g[Len(s)]
<1> DEFINE g == CHOOSE g : Flattens(s, g, Len(s))
<1>1. Len(s) \in Nat /\ Len(s) # 0
  OBVIOUS
<1>2. Flattens(s, g, Len(s))
  <2>1. \E f : Flattens(s, f, Len(s))
    BY <1>1, FlattenExists
  <2> QED
    BY <2>1
<1>3. FlattenSeq(s) = g[Len(s)]
  BY <1>1 DEF FlattenSeq, Flattens
<1> QED
  BY <1>2, <1>3

LEMMA FlattenStep ==
  ASSUME NEW T, NEW s \in Seq(Seq(T)), NEW e \in Seq(T)
  PROVE  FlattenSeq(s) \in Seq(T) => FlattenSeq(Append(s, e)) = FlattenSeq(s) \o e
<1> DEFINE n == Len(s)
           t == Append(s, e)
<1>1. /\ n \in Nat /\ t \in Seq(Seq(T)) /\ Len(t) = n + 1 /\ t # <<>>
      /\ t[n + 1] = e /\ \A i \in 1 .. n : t[i] = s[i]
  <2> DEFINE Q == Seq(T)
  <2>1. s \in Seq(Q) /\ e \in Q
    OBVIOUS
  <2> HIDE DEF Q
  <2>2. /\ n \in Nat /\ t \in Seq(Q) /\ Len(t) = n + 1 /\ t # <<>>
        /\ t[n + 1] = e /\ \A i \in 1 .. n : t[i] = s[i]
    BY <2>1
  <2> QED
    BY <2>2 DEF Q
<1>2. PICK h : Flattens(t, h, n + 1) /\ FlattenSeq(t) = h[n + 1]
  BY <1>1, FlattenIs
<1> HIDE DEF t
<1>3. CASE s = <<>>
  <2>1. h[1] = e
    BY <1>1, <1>2, <1>3 DEF Flattens
  <2>2. FlattenSeq(s) = <<>>
    BY <1>3 DEF FlattenSeq
  <2> QED
    BY <1>2, <1>3, <2>1, <2>2 DEF t
<1>4. CASE s # <<>>
  <2>1. PICK g : Flattens(s, g, n) /\ FlattenSeq(s) = g[n]
    BY <1>4, FlattenIs
  <2> DEFINE S == {k \in Nat : k + 1 \in 1 .. n => h[k + 1] = g[k + 1]}
  <2>2. 0 \in S
    BY <1>1, <1>2, <2>1 DEF Flattens
  <2>3. ASSUME NEW k \in S PROVE k + 1 \in S
    <3> SUFFICES ASSUME k + 2 \in 1 .. n PROVE h[k + 2] = g[k + 2]
      BY <1>1
    <3>1. k \in Nat /\ k + 1 \in 1 .. n /\ k + 2 \in 1 .. n + 1 /\ k + 2 # 1 /\ (k + 2) - 1 = k + 1
      BY <1>1
    <3>2. h[k + 2] = h[k + 1] \o t[k + 2]
      BY <1>2, <3>1 DEF Flattens
    <3>3. g[k + 2] = g[k + 1] \o s[k + 2]
      BY <2>1, <3>1 DEF Flattens
    <3> QED
      BY <1>1, <3>1, <3>2, <3>3
  <2> HIDE DEF S
  <2>4. S \in SUBSET Nat
    BY DEF S
  <2>5. S = Nat
    BY <2>2, <2>3, <2>4, Induction
  <2>6. n - 1 \in S /\ n - 1 + 1 = n /\ n \in 1 .. n /\ n + 1 # 1 /\ n + 1 \in 1 .. n + 1
    BY <1>1, <1>4, <2>5
  <2>7. h[n] = g[n]
    BY <2>6 DEF S
  <2>8. (n + 1) - 1 = n
    BY <1>1
  <2>9. h[n + 1] = h[n] \o t[n + 1]
    BY <1>2, <2>6, <2>8 DEF Flattens
  <2> QED
    BY <1>1, <1>2, <2>1, <2>7, <2>9 DEF t
<1> QED
  BY <1>3, <1>4

(* A sequence, one element after another.                                  *)
LEMMA ElementByElement ==
  ASSUME NEW T, NEW s \in Seq(T)
  PROVE  /\ SubSeq(s, 1, 0) = <<>> /\ SubSeq(s, 1, Len(s)) = s /\ Len(s) \in Nat
         /\ \A n \in Nat : n + 1 <= Len(s) =>
              /\ SubSeq(s, 1, n) \in Seq(T) /\ s[n + 1] \in T
              /\ SubSeq(s, 1, n + 1) = Append(SubSeq(s, 1, n), s[n + 1])
<1>1. SubSeq(s, 1, 0) = <<>> /\ SubSeq(s, 1, Len(s)) = s /\ Len(s) \in Nat
  OBVIOUS
<1>2. ASSUME NEW n \in Nat, n + 1 <= Len(s)
      PROVE  /\ SubSeq(s, 1, n) \in Seq(T) /\ s[n + 1] \in T
             /\ SubSeq(s, 1, n + 1) = Append(SubSeq(s, 1, n), s[n + 1])
  <2>1. n + 1 \in 1 .. Len(s) /\ n <= Len(s)
    BY <1>1, <1>2
  <2>2. SubSeq(s, 1, n) \in Seq(T) /\ s[n + 1] \in T
    BY <2>1
  <2> QED
    BY <2>1, <2>2
<1> QED
  BY <1>1, <1>2

LEMMA FlattenType ==
  ASSUME NEW T, NEW s \in Seq(Seq(T))
  PROVE  FlattenSeq(s) \in Seq(T)
<1> DEFINE u(n) == SubSeq(s, 1, n)
           S == {n \in Nat : n <= Len(s) => FlattenSeq(u(n)) \in Seq(T)}
<1>1. u(0) = <<>> /\ u(Len(s)) = s /\ Len(s) \in Nat
  BY ElementByElement
<1>2. \A n \in Nat : n + 1 <= Len(s) =>
        u(n) \in Seq(Seq(T)) /\ s[n + 1] \in Seq(T) /\ u(n + 1) = Append(u(n), s[n + 1])
  BY ElementByElement
<1> HIDE DEF u
<1>3. 0 \in S
  <2>1. FlattenSeq(<<>>) = <<>>
    BY DEF FlattenSeq
  <2>2. FlattenSeq(u(0)) = <<>>
    BY <1>1, <2>1
  <2>3. <<>> \in Seq(T)
    OBVIOUS
  <2> QED
    BY <2>2, <2>3
<1>4. ASSUME NEW n \in S PROVE n + 1 \in S
  <2> SUFFICES ASSUME n + 1 <= Len(s) PROVE FlattenSeq(u(n + 1)) \in Seq(T)
    OBVIOUS
  <2>1. n \in Nat /\ FlattenSeq(u(n)) \in Seq(T)
    BY <1>1
  <2> DEFINE e == s[n + 1]
  <2>2. u(n) \in Seq(Seq(T)) /\ e \in Seq(T) /\ u(n + 1) = Append(u(n), e)
    BY <1>2, <2>1
  <2> HIDE DEF e
  <2>3. FlattenSeq(u(n + 1)) = FlattenSeq(u(n)) \o e
    BY <2>1, <2>2, FlattenStep
  <2>4. FlattenSeq(u(n)) \o e \in Seq(T)
    BY <2>1, <2>2, ConcatProperties
  <2> QED
    BY <2>3, <2>4
<1> HIDE DEF S
<1>5. S \in SUBSET Nat
  BY DEF S
<1>6. S = Nat
  BY <1>3, <1>4, <1>5, Induction
<1> QED
  BY <1>1, <1>6 DEF S

LEMMA Flattened ==
  ASSUME NEW T, NEW s \in Seq(Seq(T))
  PROVE  /\ FlattenSeq(s) \in Seq(T)
         /\ \A e \in Seq(T) : FlattenSeq(Append(s, e)) = FlattenSeq(s) \o e
BY FlattenType, FlattenStep

LEMMA FlattenFew ==
  /\ FlattenSeq(<<>>) = <<>>
  /\ \A T : \A e \in Seq(T) : FlattenSeq(<<e>>) = e
<1>1. FlattenSeq(<<>>) = <<>>
  BY DEF FlattenSeq
<1>2. ASSUME NEW T, NEW e \in Seq(T) PROVE FlattenSeq(<<e>>) = e
  <2>1. <<>> \in Seq(Seq(T)) /\ Append(<<>>, e) = <<e>> /\ <<>> \o e = e
    OBVIOUS
  <2> QED
    BY <1>1, <2>1, Flattened
<1> QED
  BY <1>1, <1>2

LEMMA FlattenConcat ==
  ASSUME NEW T, NEW s \in Seq(Seq(T)), NEW t \in Seq(Seq(T))
  PROVE  FlattenSeq(s \o t) = FlattenSeq(s) \o FlattenSeq(t)
<1> DEFINE u(n) == SubSeq(t, 1, n)
           S == {n \in Nat : n <= Len(t) =>
                   FlattenSeq(s \o u(n)) = FlattenSeq(s) \o FlattenSeq(u(n))}
<1>1. u(0) = <<>> /\ u(Len(t)) = t /\ Len(t) \in Nat
  BY ElementByElement
<1>2. \A n \in Nat : n + 1 <= Len(t) =>
        u(n) \in Seq(Seq(T)) /\ t[n + 1] \in Seq(T) /\ u(n + 1) = Append(u(n), t[n + 1])
  BY ElementByElement
<1> HIDE DEF u
<1>3. 0 \in S
  <2>1. s \o <<>> = s
    OBVIOUS
  <2>2. FlattenSeq(s) \o <<>> = FlattenSeq(s)
    BY FlattenType
  <2> QED
    BY <1>1, <2>1, <2>2, FlattenFew
<1>4. ASSUME NEW n \in S PROVE n + 1 \in S
  <2> SUFFICES ASSUME n + 1 <= Len(t)
               PROVE  FlattenSeq(s \o u(n + 1)) = FlattenSeq(s) \o FlattenSeq(u(n + 1))
    OBVIOUS
  <2> DEFINE e == t[n + 1]
  <2>1. n \in Nat /\ FlattenSeq(s \o u(n)) = FlattenSeq(s) \o FlattenSeq(u(n))
    BY <1>1
  <2>2. u(n) \in Seq(Seq(T)) /\ e \in Seq(T) /\ u(n + 1) = Append(u(n), e)
    BY <1>2, <2>1
  <2> HIDE DEF e
  <2>3. s \o u(n) \in Seq(Seq(T))
    BY <2>2
  <2>4. s \o u(n + 1) = Append(s \o u(n), e)
    <3> DEFINE Q == Seq(T)
    <3>1. s \in Seq(Q) /\ u(n) \in Seq(Q) /\ e \in Q
      BY <2>2
    <3> HIDE DEF Q
    <3>2. s \o Append(u(n), e) = Append(s \o u(n), e)
      BY <3>1
    <3> QED
      BY <2>2, <3>2
  <2>5. /\ FlattenSeq(s \o u(n + 1)) = (FlattenSeq(s) \o FlattenSeq(u(n))) \o e
        /\ FlattenSeq(u(n + 1)) = FlattenSeq(u(n)) \o e
    BY <2>1, <2>2, <2>3, <2>4, Flattened
  <2>6. FlattenSeq(s) \in Seq(T) /\ FlattenSeq(u(n)) \in Seq(T)
    BY <2>2, Flattened
  <2>7. (FlattenSeq(s) \o FlattenSeq(u(n))) \o e = FlattenSeq(s) \o (FlattenSeq(u(n)) \o e)
    <3> DEFINE x == FlattenSeq(s)
               y == FlattenSeq(u(n))
    <3>1. x \in Seq(T) /\ y \in Seq(T) /\ e \in Seq(T)
      BY <2>2, <2>6
    <3> HIDE DEF x, y, S
    <3>2. (x \o y) \o e = x \o (y \o e)
      BY <3>1, ConcatAssociative
    <3> QED
      BY <3>2 DEF x, y
  <2> QED
    BY <2>5, <2>7
<1> HIDE DEF S
<1>5. S \in SUBSET Nat
  BY DEF S
<1>6. S = Nat
  BY <1>3, <1>4, <1>5, Induction
<1>7. FlattenSeq(s \o u(Len(t))) = FlattenSeq(s) \o FlattenSeq(u(Len(t)))
  <2>1. Len(t) \in S
    BY <1>1, <1>6
  <2> QED
    BY <1>1, <2>1 DEF S
<1> QED
  BY <1>1, <1>7

LEMMA MembersOfConcat ==
  ASSUME NEW T, NEW x \in Seq(T), NEW y \in Seq(T)
  PROVE  ToSet(x \o y) = ToSet(x) \cup ToSet(y)
<1>1. /\ Len(x) \in Nat /\ DOMAIN x = 1 .. Len(x) /\ Len(y) \in Nat /\ DOMAIN y = 1 .. Len(y)
      /\ DOMAIN (x \o y) = 1 .. Len(x) + Len(y)
      /\ \A i \in 1 .. Len(x) : (x \o y)[i] = x[i]
      /\ \A i \in 1 .. Len(y) : (x \o y)[Len(x) + i] = y[i]
  OBVIOUS
<1>2. ASSUME NEW e \in ToSet(x \o y) PROVE e \in ToSet(x) \cup ToSet(y)
  <2>1. PICK i \in 1 .. Len(x) + Len(y) : e = (x \o y)[i]
    BY <1>1 DEF ToSet
  <2>2. CASE i <= Len(x)
    BY <1>1, <2>1, <2>2 DEF ToSet
  <2>3. CASE i > Len(x)
    <3>1. i - Len(x) \in 1 .. Len(y) /\ Len(x) + (i - Len(x)) = i
      BY <1>1, <2>3
    <3> QED
      BY <1>1, <2>1, <3>1 DEF ToSet
  <2> QED
    BY <1>1, <2>2, <2>3
<1>3. ASSUME NEW i \in 1 .. Len(x) PROVE x[i] \in ToSet(x \o y)
  BY <1>1 DEF ToSet
<1>4. ASSUME NEW i \in 1 .. Len(y) PROVE y[i] \in ToSet(x \o y)
  <2>1. Len(x) + i \in 1 .. Len(x) + Len(y)
    BY <1>1
  <2> QED
    BY <1>1, <2>1 DEF ToSet
<1>5. ToSet(x) \subseteq ToSet(x \o y) /\ ToSet(y) \subseteq ToSet(x \o y)
  BY <1>1, <1>3, <1>4 DEF ToSet
<1> QED
  BY <1>2, <1>5

(* A flattened sequence has the members of its parts, no more. *)
LEMMA FlattenMembers ==
  ASSUME NEW T, NEW s \in Seq(Seq(T))
  PROVE  \A x : x \in ToSet(FlattenSeq(s)) <=> \E i \in DOMAIN s : x \in ToSet(s[i])
<1> DEFINE u(n) == SubSeq(s, 1, n)
           Upto(n) == \A x : x \in ToSet(FlattenSeq(u(n))) <=> \E i \in 1 .. n : x \in ToSet(s[i])
           S == {n \in Nat : n <= Len(s) => Upto(n)}
<1>1. u(0) = <<>> /\ u(Len(s)) = s /\ Len(s) \in Nat /\ DOMAIN s = 1 .. Len(s)
  BY ElementByElement
<1>2. \A n \in Nat : n + 1 <= Len(s) =>
        u(n) \in Seq(Seq(T)) /\ s[n + 1] \in Seq(T) /\ u(n + 1) = Append(u(n), s[n + 1])
  BY ElementByElement
<1> HIDE DEF u
<1>3. 0 \in S
  <2>1. FlattenSeq(u(0)) = <<>>
    BY <1>1, FlattenFew
  <2>2. ToSet(FlattenSeq(u(0))) = {}
    BY <2>1 DEF ToSet
  <2>3. Upto(0)
    BY <2>2
  <2> HIDE DEF Upto
  <2> QED
    BY <2>3
<1>4. ASSUME NEW n \in S PROVE n + 1 \in S
  <2> HIDE DEF Upto
  <2> SUFFICES ASSUME n + 1 <= Len(s) PROVE Upto(n + 1)
    OBVIOUS
  <2> DEFINE e == s[n + 1]
  <2>1. n \in Nat /\ Upto(n)
    BY <1>1
  <2> HIDE DEF S
  <2>2. u(n) \in Seq(Seq(T)) /\ e \in Seq(T) /\ u(n + 1) = Append(u(n), e)
    BY <1>2, <2>1
  <2>3. 1 .. n + 1 = (1 .. n) \cup {n + 1} /\ ToSet(s[n + 1]) = ToSet(e)
    BY <2>1
  <2> HIDE DEF e
  <2>4. FlattenSeq(u(n + 1)) = FlattenSeq(u(n)) \o e /\ FlattenSeq(u(n)) \in Seq(T)
    BY <2>2, Flattened
  <2>5. ToSet(FlattenSeq(u(n + 1))) = ToSet(FlattenSeq(u(n))) \cup ToSet(e)
    BY <2>2, <2>4, MembersOfConcat
  <2> QED
    BY <2>1, <2>3, <2>5, Zenon DEF Upto
<1> HIDE DEF Upto
<1>5. S \in SUBSET Nat /\ S = Nat
  <2> HIDE DEF S
  <2>1. S \in SUBSET Nat
    BY DEF S
  <2> QED
    BY <1>3, <1>4, <2>1, Induction
<1>6. Upto(Len(s))
  BY <1>1, <1>5
<1> QED
  BY <1>1, <1>6 DEF Upto

-----------------------------------------------------------------------------
(* Headers: what HTTP leaves of a name that has one value.                 *)
HeaderValues == STRING \cup {"merged"}
HeaderRecords == [name : STRING, value : HeaderValues]

LEMMA OnlyType ==
  ASSUME NEW T, NEW x \in T, NEW condition \in BOOLEAN
  PROVE  Only(condition, <<x>>) \in Seq(T)
<1>1. <<>> \in Seq(T) /\ <<x>> \in Seq(T)
  OBVIOUS
<1> QED
  BY <1>1 DEF Only

LEMMA ValuesType ==
  ASSUME NEW h \in Seq(HeaderRecords), NEW n
  PROVE  /\ [i \in DOMAIN h |-> Only(LowerCase[h[i].name] = n, <<h[i].value>>)] \in Seq(Seq(HeaderValues))
         /\ headerValues(h, n) \in Seq(HeaderValues)
<1> DEFINE p == [i \in DOMAIN h |-> Only(LowerCase[h[i].name] = n, <<h[i].value>>)]
<1>1. ASSUME NEW i \in DOMAIN h
      PROVE  Only(LowerCase[h[i].name] = n, <<h[i].value>>) \in Seq(HeaderValues)
  <2>1. h[i] \in HeaderRecords
    OBVIOUS
  <2>2. h[i].value \in HeaderValues
    BY <2>1 DEF HeaderRecords
  <2> QED
    BY <2>2, OnlyType
<1>2. p \in Seq(Seq(HeaderValues))
  <2> DEFINE Q == Seq(HeaderValues)
  <2>1. DOMAIN p = DOMAIN h /\ DOMAIN h = 1 .. Len(h) /\ Len(h) \in Nat
    OBVIOUS
  <2>2. \A i \in DOMAIN p : p[i] \in Q
    BY <1>1
  <2>3. p = [i \in 1 .. Len(h) |-> p[i]]
    BY <2>1
  <2> HIDE DEF p, Q
  <2>4. p \in Seq(Q)
    BY <2>1, <2>2, <2>3
  <2> QED
    BY <2>4 DEF Q
<1>3. headerValues(h, n) = FlattenSeq(p)
  BY DEF headerValues
<1> HIDE DEF p
<1>4. FlattenSeq(p) \in Seq(HeaderValues)
  BY <1>2, FlattenType
<1> QED
  BY <1>2, <1>3, <1>4 DEF p

LEMMA ValuesOfFew ==
  ASSUME NEW n
  PROVE  /\ headerValues(<<>>, n) = <<>>
         /\ \A w \in HeaderRecords :
              headerValues(<<w>>, n) = Only(LowerCase[w.name] = n, <<w.value>>)
<1>1. headerValues(<<>>, n) = <<>>
  <2>1. [i \in DOMAIN <<>> |-> Only(LowerCase[<<>>[i].name] = n, <<<<>>[i].value>>)] = <<>>
    OBVIOUS
  <2> QED
    BY <2>1, FlattenFew DEF headerValues
<1>2. ASSUME NEW w \in HeaderRecords
      PROVE  headerValues(<<w>>, n) = Only(LowerCase[w.name] = n, <<w.value>>)
  <2> DEFINE h == <<w>>
             e == Only(LowerCase[w.name] = n, <<w.value>>)
             p == [i \in DOMAIN h |-> Only(LowerCase[h[i].name] = n, <<h[i].value>>)]
  <2>1. e \in Seq(HeaderValues)
    <3>1. w.value \in HeaderValues
      BY DEF HeaderRecords
    <3> QED
      BY <3>1, OnlyType
  <2>2. DOMAIN h = {1} /\ h[1] = w
    OBVIOUS
  <2> HIDE DEF h
  <2>3. DOMAIN p = {1} /\ p[1] = e /\ p = [i \in {1} |-> p[i]]
    BY <2>2
  <2>4. headerValues(h, n) = FlattenSeq(p)
    BY DEF headerValues
  <2> HIDE DEF p, e
  <2>5. p = <<e>>
    BY <2>3
  <2>6. FlattenSeq(p) = e
    BY <2>1, <2>5, FlattenFew
  <2> QED
    BY <2>4, <2>6 DEF h, e
<1> QED
  BY <1>1, <1>2

LEMMA ValuesOfConcat ==
  ASSUME NEW g \in Seq(HeaderRecords), NEW h \in Seq(HeaderRecords), NEW n
  PROVE  headerValues(g \o h, n) = headerValues(g, n) \o headerValues(h, n)
<1> DEFINE one(w) == Only(LowerCase[w.name] = n, <<w.value>>)
           p(x) == [i \in DOMAIN x |-> one(x[i])]
<1>1. p(g) \in Seq(Seq(HeaderValues)) /\ p(h) \in Seq(Seq(HeaderValues))
  BY ValuesType
<1>2. \A x : headerValues(x, n) = FlattenSeq(p(x))
  BY DEF headerValues
<1>3. p(g \o h) = p(g) \o p(h)
  <2> HIDE DEF one
  <2>1. /\ Len(g) \in Nat /\ DOMAIN g = 1 .. Len(g) /\ Len(h) \in Nat /\ DOMAIN h = 1 .. Len(h)
        /\ DOMAIN (g \o h) = 1 .. Len(g) + Len(h)
        /\ \A i \in 1 .. Len(g) + Len(h) :
             (g \o h)[i] = IF i <= Len(g) THEN g[i] ELSE h[i - Len(g)]
    BY ConcatProperties
  <2> DEFINE x == p(g)
             y == p(h)
             z == p(g \o h)
  <2>2. x \in Seq(Seq(HeaderValues)) /\ y \in Seq(Seq(HeaderValues)) /\ Len(x) = Len(g) /\ Len(y) = Len(h)
    BY <1>1, <2>1
  <2>3. /\ DOMAIN (x \o y) = 1 .. Len(g) + Len(h)
        /\ \A i \in 1 .. Len(g) + Len(h) :
             (x \o y)[i] = IF i <= Len(g) THEN x[i] ELSE y[i - Len(g)]
        /\ x \o y = [i \in 1 .. Len(g) + Len(h) |-> (x \o y)[i]]
    <3> DEFINE Q == Seq(HeaderValues)
    <3>1. x \in Seq(Q) /\ y \in Seq(Q)
      BY <2>2
    <3> HIDE DEF Q, x, y
    <3>2. x \o y \in Seq(Q) /\ Len(x \o y) = Len(g) + Len(h)
      <4>1. x \o y \in Seq(Q) /\ Len(x \o y) = Len(x) + Len(y)
        BY <3>1
      <4>2. Len(x) = Len(g) /\ Len(y) = Len(h)
        BY <2>2
      <4> QED
        BY <4>1, <4>2
    <3>3. \A i \in 1 .. Len(g) + Len(h) :
            (x \o y)[i] = IF i <= Len(g) THEN x[i] ELSE y[i - Len(g)]
      <4>1. \A i \in 1 .. Len(x) + Len(y) :
              (x \o y)[i] = IF i <= Len(x) THEN x[i] ELSE y[i - Len(x)]
        BY <3>1, ConcatProperties
      <4> QED
        BY <2>2, <4>1
    <3> DEFINE b == x \o y
    <3>4. b \in Seq(Q) /\ Len(b) = Len(g) + Len(h)
      BY <3>2
    <3> HIDE DEF b
    <3>5. DOMAIN b = 1 .. Len(g) + Len(h) /\ b = [i \in 1 .. Len(g) + Len(h) |-> b[i]]
      BY <3>4
    <3> QED
      BY <3>3, <3>5 DEF b
  <2>4. /\ \A i \in 1 .. Len(g) : x[i] = one(g[i])
        /\ \A i \in 1 .. Len(h) : y[i] = one(h[i])
        /\ z = [i \in 1 .. Len(g) + Len(h) |-> one((g \o h)[i])]
    BY <2>1
  <2> HIDE DEF x, y, z
  <2>5. ASSUME NEW i \in 1 .. Len(g) + Len(h) PROVE one((g \o h)[i]) = (x \o y)[i]
    <3>1. CASE i <= Len(g)
      <4>1. i \in 1 .. Len(g) /\ (g \o h)[i] = g[i] /\ (x \o y)[i] = x[i]
        BY <2>1, <2>3, <3>1
      <4> QED
        BY <2>4, <4>1
    <3>2. CASE ~(i <= Len(g))
      <4>1. i - Len(g) \in 1 .. Len(h) /\ (g \o h)[i] = h[i - Len(g)] /\ (x \o y)[i] = y[i - Len(g)]
        BY <2>1, <2>3, <3>2
      <4> QED
        BY <2>4, <4>1
    <3> QED
      BY <3>1, <3>2
  <2>6. z = x \o y
    BY <2>3, <2>4, <2>5
  <2> QED
    BY <2>6 DEF x, y, z
<1> HIDE DEF p
<1>4. FlattenSeq(p(g) \o p(h)) = FlattenSeq(p(g)) \o FlattenSeq(p(h))
  BY <1>1, FlattenConcat
<1>5. /\ headerValues(g \o h, n) = FlattenSeq(p(g \o h))
      /\ headerValues(g, n) = FlattenSeq(p(g)) /\ headerValues(h, n) = FlattenSeq(p(h))
  BY <1>2
<1> QED
  BY <1>3, <1>4, <1>5

LEMMA OneElement ==
  ASSUME NEW T, NEW v \in Seq(T), Len(v) = 1
  PROVE  v # <<>> /\ v = <<v[1]>> /\ v[1] \in T
OBVIOUS

(* A name's one value arrives, whatever becomes of the other names.        *)
LEMMA OneValueArrives ==
  ASSUME NEW h \in Seq(HeaderRecords), NEW n \in ToSet(HeaderOrder),
         Len(headerValues(h, n)) = 1
  PROVE  headerValues(WireHeaders(h), n) = headerValues(h, n)
<1> DEFINE values(m) == headerValues(h, m)
           piece(i) == Only(values(HeaderOrder[i]) # <<>>,
                            <<WireHeader(HeaderOrder[i], values(HeaderOrder[i]))>>)
           pieces == [i \in DOMAIN HeaderOrder |-> piece(i)]
           Q == Seq(HeaderRecords)
<1>1. /\ Len(HeaderOrder) \in Nat /\ DOMAIN HeaderOrder = 1 .. Len(HeaderOrder)
      /\ \A i \in 1 .. Len(HeaderOrder) : HeaderOrder[i] \in STRING
      /\ \A i \in 1 .. Len(HeaderOrder) : LowerCase[HeaderOrder[i]] = HeaderOrder[i]
      /\ \A i, j \in 1 .. Len(HeaderOrder) : HeaderOrder[i] = HeaderOrder[j] => i = j
  BY OrderAssumption
<1>2. \A m : values(m) \in Seq(HeaderValues)
  BY ValuesType
<1> HIDE DEF values
<1>3. \A i \in 1 .. Len(HeaderOrder) :
        WireHeader(HeaderOrder[i], values(HeaderOrder[i])) \in HeaderRecords
  <2> TAKE i \in 1 .. Len(HeaderOrder)
  <2> DEFINE v == values(HeaderOrder[i])
  <2>1. v \in Seq(HeaderValues) /\ HeaderOrder[i] \in STRING
    BY <1>1, <1>2
  <2> HIDE DEF v
  <2>2. (IF Len(v) = 1 THEN v[1] ELSE "merged") \in HeaderValues
    <3>1. Len(v) = 1 => v[1] \in HeaderValues
      BY <2>1, OneElement
    <3>2. "merged" \in HeaderValues
      BY DEF HeaderValues
    <3> QED
      BY <3>1, <3>2, Zenon
  <2>3. WireHeader(HeaderOrder[i], v) \in HeaderRecords
    BY <2>1, <2>2 DEF WireHeader, HeaderRecords
  <2> QED
    BY <2>3 DEF v
<1>4. \A i \in 1 .. Len(HeaderOrder) : piece(i) \in Q
  BY <1>3, OnlyType
<1>5. pieces \in Seq(Q) /\ Len(pieces) = Len(HeaderOrder)
  <2> HIDE DEF Q, piece
  <2> QED
    BY <1>1, <1>4
<1>6. WireHeaders(h) = FlattenSeq(pieces)
  BY DEF WireHeaders, values
<1>7. PICK k \in 1 .. Len(HeaderOrder) : HeaderOrder[k] = n
  BY <1>1 DEF ToSet
<1>8. headerValues(<<>>, n) = <<>>
  BY ValuesOfFew
<1>9. ASSUME NEW i \in 1 .. Len(HeaderOrder)
      PROVE  headerValues(piece(i), n) = IF i = k THEN values(n) ELSE <<>>
  <2> DEFINE w == WireHeader(HeaderOrder[i], values(HeaderOrder[i]))
  <2>1. w \in HeaderRecords /\ w.name = HeaderOrder[i]
    BY <1>3 DEF WireHeader
  <2>2. headerValues(<<w>>, n) = Only(HeaderOrder[i] = n, <<w.value>>)
    <3> HIDE DEF w
    <3>1. headerValues(<<w>>, n) = Only(LowerCase[w.name] = n, <<w.value>>)
      BY <2>1, ValuesOfFew
    <3>2. LowerCase[w.name] = HeaderOrder[i]
      BY <1>1, <2>1
    <3> QED
      BY <3>1, <3>2
  <2>3. CASE i # k
    <3>1. HeaderOrder[i] # n
      BY <1>1, <1>7, <2>3
    <3>2. headerValues(<<w>>, n) = <<>>
      BY <2>2, <3>1 DEF Only
    <3> QED
      BY <1>8, <2>3, <3>2 DEF Only
  <2>4. CASE i = k
    <3>1. HeaderOrder[i] = n /\ values(n) \in Seq(HeaderValues) /\ Len(values(n)) = 1
      BY <1>2, <1>7, <2>4 DEF values
    <3>2. values(n) # <<>> /\ values(n) = <<values(n)[1]>>
      <4> DEFINE v == values(n)
      <4>1. v \in Seq(HeaderValues) /\ Len(v) = 1
        BY <3>1
      <4> HIDE DEF v
      <4>2. v # <<>> /\ v = <<v[1]>>
        BY <4>1, OneElement
      <4> QED
        BY <4>2 DEF v
    <3>3. w.value = values(n)[1]
      BY <3>1 DEF WireHeader
    <3>4. piece(i) = <<w>>
      BY <3>1, <3>2 DEF Only
    <3>5. headerValues(<<w>>, n) = <<values(n)[1]>>
      BY <2>2, <3>1, <3>3 DEF Only
    <3> HIDE DEF w, piece
    <3> QED
      BY <2>4, <3>2, <3>4, <3>5
  <2> QED
    BY <2>3, <2>4
<1> HIDE DEF pieces, piece
<1>10. \A i \in 1 .. Len(HeaderOrder) : pieces[i] = piece(i)
  BY <1>1 DEF pieces
<1> DEFINE u(j) == SubSeq(pieces, 1, j)
           Upto(j) == headerValues(FlattenSeq(u(j)), n) = IF j < k THEN <<>> ELSE values(n)
           S == {j \in Nat : j <= Len(pieces) => Upto(j)}
<1>11. u(0) = <<>> /\ u(Len(pieces)) = pieces
  <2> HIDE DEF Q
  <2> QED
    BY <1>5, ElementByElement
<1>12. \A j \in Nat : j + 1 <= Len(pieces) =>
         u(j) \in Seq(Q) /\ pieces[j + 1] \in Q /\ u(j + 1) = Append(u(j), pieces[j + 1])
  <2> HIDE DEF Q
  <2> QED
    BY <1>5, ElementByElement
<1> HIDE DEF u, Upto
<1>13. Upto(0)
  BY <1>7, <1>8, <1>11, FlattenFew DEF Upto
<1>14. ASSUME NEW j \in Nat, j + 1 <= Len(pieces), Upto(j)
       PROVE  Upto(j + 1)
  <2> DEFINE e == pieces[j + 1]
             before == FlattenSeq(u(j))
  <2>1. u(j) \in Seq(Q) /\ e \in Q /\ u(j + 1) = Append(u(j), e)
    BY <1>12, <1>14
  <2>2. j + 1 \in 1 .. Len(HeaderOrder) /\ e = piece(j + 1)
    BY <1>1, <1>5, <1>10, <1>14
  <2> HIDE DEF e
  <2>3. FlattenSeq(u(j + 1)) = before \o e /\ before \in Seq(HeaderRecords)
    BY <2>1, Flattened
  <2> HIDE DEF before
  <2>4. headerValues(before \o e, n) = headerValues(before, n) \o headerValues(e, n)
    BY <2>1, <2>3, ValuesOfConcat
  <2>5. headerValues(e, n) = IF j + 1 = k THEN values(n) ELSE <<>>
    BY <1>9, <2>2
  <2>6. headerValues(before, n) = IF j < k THEN <<>> ELSE values(n)
    BY <1>14 DEF Upto, before
  <2>7. values(n) \o <<>> = values(n) /\ <<>> \o values(n) = values(n) /\ <<>> \o <<>> = <<>>
    BY <1>2, ConcatEmptySeq
  <2>8. k \in Nat /\ (j + 1 = k => j < k) /\ (j < k /\ j + 1 # k => j + 1 < k)
        /\ (~(j < k) => j + 1 # k /\ ~(j + 1 < k)) /\ (j + 1 = k => ~(j + 1 < k))
    BY <1>1, <1>7
  <2> QED
    BY <2>3, <2>4, <2>5, <2>6, <2>7, <2>8 DEF Upto
<1>15. S = Nat
  <2>1. 0 \in S
    BY <1>13
  <2>2. \A j \in S : j + 1 \in S
    BY <1>5, <1>1, <1>14
  <2> HIDE DEF S
  <2>3. S \in SUBSET Nat
    BY DEF S
  <2> QED
    BY <2>1, <2>2, <2>3, Induction
<1>16. Upto(Len(pieces))
  BY <1>1, <1>5, <1>15
<1>17. ~(Len(pieces) < k)
  BY <1>1, <1>5, <1>7
<1> QED
  BY <1>6, <1>11, <1>16, <1>17 DEF Upto, values

(* The names the rules come to are theirs, in lower case and in order.     *)
LEMMA NormalizedNames ==
  ASSUME NEW rules
  PROVE  /\ normalizeCustomHeaderRules(rules) \in Seq(STRING)
         /\ \A n : n \in ToSet(normalizeCustomHeaderRules(rules)) <=>
              n \in ToSet(HeaderOrder) /\ \E j \in DOMAIN rules : LowerCase[rules[j]] = n
<1> DEFINE names == {LowerCase[rules[j]] : j \in DOMAIN rules}
           pieces == [i \in DOMAIN HeaderOrder |->
                        Only(HeaderOrder[i] \in names, <<HeaderOrder[i]>>)]
           Q == Seq(STRING)
<1>1. /\ Len(HeaderOrder) \in Nat /\ DOMAIN HeaderOrder = 1 .. Len(HeaderOrder)
      /\ \A i \in 1 .. Len(HeaderOrder) : HeaderOrder[i] \in STRING
  BY OrderAssumption
<1>2. normalizeCustomHeaderRules(rules) = FlattenSeq(pieces)
  BY DEF normalizeCustomHeaderRules
<1>3. \A n : n \in names <=> \E j \in DOMAIN rules : LowerCase[rules[j]] = n
  OBVIOUS
<1> HIDE DEF names
<1>4. ASSUME NEW i \in 1 .. Len(HeaderOrder)
      PROVE  Only(HeaderOrder[i] \in names, <<HeaderOrder[i]>>) \in Q
  <2>1. HeaderOrder[i] \in STRING /\ (HeaderOrder[i] \in names) \in BOOLEAN
    BY <1>1
  <2> QED
    BY <2>1, OnlyType
<1>5. pieces \in Seq(Q)
  <2> HIDE DEF Q
  <2> QED
    BY <1>1, <1>4
<1>6. DOMAIN pieces = 1 .. Len(HeaderOrder)
  BY <1>1
<1>7. \A i \in 1 .. Len(HeaderOrder) : \A n :
        n \in ToSet(pieces[i]) <=> n = HeaderOrder[i] /\ n \in names
  <2> TAKE i \in 1 .. Len(HeaderOrder)
  <2>1. pieces[i] = IF HeaderOrder[i] \in names THEN <<HeaderOrder[i]>> ELSE <<>>
    BY <1>1 DEF Only
  <2> HIDE DEF pieces
  <2>2. ToSet(<<HeaderOrder[i]>>) = {HeaderOrder[i]} /\ ToSet(<<>>) = {}
    BY DEF ToSet
  <2> QED
    BY <2>1, <2>2
<1> HIDE DEF pieces
<1>8. \A n : n \in ToSet(FlattenSeq(pieces)) <=> \E i \in DOMAIN pieces : n \in ToSet(pieces[i])
  BY <1>5, FlattenMembers
<1>9. \A n : n \in ToSet(HeaderOrder) <=> \E i \in 1 .. Len(HeaderOrder) : n = HeaderOrder[i]
  BY <1>1 DEF ToSet
<1>10. FlattenSeq(pieces) \in Seq(STRING)
  BY <1>5, FlattenType
<1> QED
  BY <1>2, <1>3, <1>6, <1>7, <1>8, <1>9, <1>10

LEMMA FragmentAlike ==
  ASSUME NEW rules, NEW others, NEW g, NEW h,
         normalizeCustomHeaderRules(rules) = normalizeCustomHeaderRules(others),
         \A n \in ToSet(normalizeCustomHeaderRules(rules)) :
           headerValues(g, n) = headerValues(h, n)
  PROVE  buildCustomHeadersFragment(rules, g) = buildCustomHeadersFragment(others, h)
<1> DEFINE names == normalizeCustomHeaderRules(rules)
           of(x) == [i \in DOMAIN names |-> <<names[i], ":">> \o headerValues(x, names[i])]
<1>1. /\ buildCustomHeadersFragment(rules, g) = FlattenSeq(of(g))
      /\ buildCustomHeadersFragment(others, h) = FlattenSeq(of(h))
  BY DEF buildCustomHeadersFragment
<1>2. \A i \in DOMAIN names : names[i] \in ToSet(names)
  BY DEF ToSet
<1>3. \A i \in DOMAIN names : headerValues(g, names[i]) = headerValues(h, names[i])
  BY <1>2
<1> HIDE DEF names
<1>4. of(g) = of(h)
  BY <1>3
<1> QED
  BY <1>1, <1>4

(* Paths: pathname leaves alone what a message is built from, unless it    *)
(* has to supply a "/" or to encode a space.                               *)
LEMMA PathsAlike ==
  ASSUME NEW p \in [kind : PathKinds, level : Nat]
  PROVE  /\ p.kind # "none" /\ p # Path("space", 0) => pathname(p) = p
         /\ pathname(pathname(p)) = pathname(p)
<1>1. p = [kind |-> p.kind, level |-> p.level]
  OBVIOUS
<1>2. p # Path("space", 0) => ~(p.kind = "space" /\ p.level = 0)
  BY <1>1 DEF Path
<1>3. pathname(Path("root", 0)) = Path("root", 0)
  BY DEF pathname, Path
<1>4. pathname(Path("space", 1)) = Path("space", 1)
  BY DEF pathname, Path
<1>5. pathname(p) \in {Path("root", 0), Path("space", 1), p}
  BY DEF pathname
<1>6. p.kind # "none" /\ p # Path("space", 0) => pathname(p) = p
  BY <1>2 DEF pathname
<1> QED
  BY <1>3, <1>4, <1>5, <1>6

(* The parameters of a message are in an order of their own.               *)
LEMMA ParamsAlike ==
  ASSUME NEW T, NEW params \in Seq(T), NEW order
  PROVE  /\ ToSet(Reverse(params)) = ToSet(params)
         /\ buildSortedParams(Reverse(params), order) = buildSortedParams(params, order)
<1>1. ToSet(Reverse(params)) = ToSet(params)
  <2>1. Len(params) \in Nat /\ DOMAIN params = 1 .. Len(params)
    OBVIOUS
  <2>2. /\ DOMAIN Reverse(params) = 1 .. Len(params)
        /\ \A i \in 1 .. Len(params) : Reverse(params)[i] = params[Len(params) - i + 1]
    BY <2>1 DEF Reverse
  <2>3. \A i \in 1 .. Len(params) :
          /\ Len(params) - i + 1 \in 1 .. Len(params)
          /\ Len(params) - (Len(params) - i + 1) + 1 = i
    BY <2>1
  <2>4. \A i \in 1 .. Len(params) : \E j \in 1 .. Len(params) : Reverse(params)[i] = params[j]
    BY <2>2, <2>3
  <2>5. \A i \in 1 .. Len(params) : \E j \in 1 .. Len(params) : params[i] = Reverse(params)[j]
    BY <2>2, <2>3
  <2> DEFINE back == Reverse(params)
  <2>6. DOMAIN back = 1 .. Len(params)
    BY <2>2
  <2> HIDE DEF back
  <2>7. ToSet(back) \subseteq ToSet(params)
    BY <2>1, <2>4, <2>6 DEF ToSet, back
  <2>8. ToSet(params) \subseteq ToSet(back)
    BY <2>1, <2>5, <2>6 DEF ToSet, back
  <2> QED
    BY <2>7, <2>8 DEF back
<1> QED
  BY <1>1 DEF buildSortedParams

LEMMA ParamsArrive ==
  ASSUME NEW request \in RequestRecords,
         \A i \in DOMAIN request.params : request.params[i].value # "null"
  PROVE  WireParams(request.params) = request.params
<1> DEFINE params == request.params
           R == [key : STRING, value : STRING]
           sent == [i \in DOMAIN params |->
                      [params[i] EXCEPT !.value = IF @ = "null" THEN "" ELSE @]]
<1>1. params \in Seq(R)
  BY DEF RequestRecords
<1>2. WireParams(params) = sent
  BY DEF WireParams
<1>3. ASSUME NEW i \in DOMAIN params PROVE sent[i] = params[i]
  <2>1. params[i] \in R
    <3> HIDE DEF params, R
    <3> QED
      BY <1>1
  <2>2. params[i] = [key |-> params[i].key, value |-> params[i].value]
    BY <2>1
  <2>3. sent[i] = [params[i] EXCEPT !.value = params[i].value]
    OBVIOUS
  <2> QED
    BY <2>1, <2>2, <2>3
<1>4. params = [i \in DOMAIN params |-> params[i]]
  BY <1>1
<1>5. sent = params
  BY <1>3, <1>4
<1> QED
  BY <1>2, <1>5

-----------------------------------------------------------------------------
(* The exchange.  What is signed, what a verdict says, and what arrives if *)
(* nothing on the way changes it, but for what the parsers do to the body. *)
Signed ==
  IF setup.scheme = "legacy" THEN legacyMessage(exchange.request)
  ELSE buildHmacMessage(exchange.request, Rules("sender"))

Verdict == Signs(buildHmacMessage(exchange.received, Rules("receiver"))) \/ LegacyAccepts

Arrived ==
  /\ exchange.signedAt \in 1 .. version
  /\ exchange.signature = Signature(signingSecret(SecretsAt(exchange.signedAt)), Signed)
  /\ exchange.received.method = exchange.request.method
  /\ exchange.received.path = pathname(exchange.request.path)
  /\ exchange.received.params \in {WireParams(exchange.request.params),
                                   Reverse(WireParams(exchange.request.params))}
  /\ exchange.received.headers = WireHeaders(exchange.request.headers)

(* A secret is in the list of version v if it came in by then and less     *)
(* than Keep rotations before.                                             *)
LEMMA StillHeld ==
  ASSUME NEW s \in Nat \ {0}, NEW v \in Nat \ {0}
  PROVE  /\ signingSecret(SecretsAt(s)) = s
         /\ (\E i \in DOMAIN SecretsAt(v) : SecretsAt(v)[i] = s) <=> s <= v /\ v < s + Keep
<1>1. Keep \in Nat \ {0}
  BY KeepAssumption
<1>2. signingSecret(SecretsAt(s)) = s
  BY <1>1 DEF signingSecret, SecretsAt
<1> DEFINE k == IF v < Keep THEN v ELSE Keep
<1>3. DOMAIN SecretsAt(v) = 1 .. k /\ \A i \in 1 .. k : SecretsAt(v)[i] = v - i + 1
  BY DEF SecretsAt
<1>4. ASSUME NEW i \in 1 .. k, v - i + 1 = s PROVE s <= v /\ v < s + Keep
  BY <1>1, <1>4
<1>5. ASSUME s <= v /\ v < s + Keep PROVE \E i \in 1 .. k : v - i + 1 = s
  <2>1. v - s + 1 \in 1 .. k /\ v - (v - s + 1) + 1 = s
    BY <1>1, <1>5
  <2> QED
    BY <2>1
<1> HIDE DEF k
<1> QED
  BY <1>2, <1>3, <1>4, <1>5

(* Both clients have the rules the same way, and the middleware has none.  *)
LEMMA RulesAgree ==
  ASSUME setup \in Setups
  PROVE  /\ normalizeCustomHeaderRules(Rules("receiver")) = normalizeCustomHeaderRules(Rules("sender"))
         /\ \A i \in DOMAIN Rules("receiver") :
              LowerCase[Rules("receiver")[i]] \in ToSet(HeaderOrder)
<1>1. CASE setup.receiver = "client"
  BY <1>1, RulesAssumption DEF Rules, Parties
<1>2. CASE setup.receiver # "client"
  <2>1. Rules("receiver") = <<>> /\ Rules("sender") = <<>>
    BY <1>2 DEF Rules
  <2>2. DOMAIN <<>> = {}
    OBVIOUS
  <2> QED
    BY <2>1, <2>2
<1> QED
  BY <1>1, <1>2

(* The headers that are signed arrive as they were signed.                 *)
LEMMA HeadersArrive ==
  ASSUME setup \in Setups, exchange.request \in Requests, Faithful
  PROVE  \A n \in ToSet(normalizeCustomHeaderRules(Rules("receiver"))) :
           headerValues(WireHeaders(exchange.request.headers), n)
             = headerValues(exchange.request.headers, n)
<1> DEFINE h == exchange.request.headers
<1>1. h \in Seq(HeaderRecords)
  <2>1. exchange.request \in RequestRecords
    BY RequestsAssumption
  <2> DEFINE R == [name : STRING, value : STRING]
  <2>2. h \in Seq(R)
    BY <2>1 DEF RequestRecords
  <2>3. R \subseteq HeaderRecords
    BY DEF HeaderRecords, HeaderValues
  <2> HIDE DEF h, R
  <2> QED
    BY <2>2, <2>3
<1> TAKE n \in ToSet(normalizeCustomHeaderRules(Rules("receiver")))
<1>2. n \in ToSet(HeaderOrder)
  BY NormalizedNames
<1>3. n \in ToSet(normalizeCustomHeaderRules(Rules("sender")))
  BY RulesAgree
<1>4. Len(headerValues(h, n)) = 1
  BY <1>3 DEF Faithful
<1> HIDE DEF h
<1>5. headerValues(WireHeaders(h), n) = headerValues(h, n)
  BY <1>1, <1>2, <1>4, OneValueArrives
<1> QED
  BY <1>5 DEF h

(* A request a client could sign is one the receiver can build a message   *)
(* of, when it arrives unchanged.                                          *)
LEMMA StillBuildable ==
  ASSUME setup \in Setups, exchange.request \in Requests, Faithful, Arrived,
         Buildable(exchange.request, Rules("sender"))
  PROVE  Buildable(exchange.received, Rules("receiver"))
<1> DEFINE h == exchange.request.headers
           g == exchange.received.headers
           theirs == Rules("receiver")
           ours == Rules("sender")
<1>1. exchange.received.method \in Supported
  BY DEF Arrived, Buildable
<1>2. g = WireHeaders(h)
  BY DEF Arrived
<1>3. \A n \in ToSet(normalizeCustomHeaderRules(theirs)) : headerValues(g, n) = headerValues(h, n)
  BY <1>2, HeadersArrive
<1>4. headersAccepted(ours, h)
  BY DEF Buildable
<1> HIDE DEF g, h
<1>5. ASSUME NEW i \in DOMAIN theirs
      PROVE  /\ headerValues(g, LowerCase[theirs[i]]) # <<>>
             /\ headerValues(g, LowerCase[theirs[i]]) \notin RefusedValues
  <2> DEFINE n == LowerCase[theirs[i]]
  <2>1. n \in ToSet(normalizeCustomHeaderRules(theirs))
    BY RulesAgree, NormalizedNames
  <2>2. n \in ToSet(normalizeCustomHeaderRules(ours))
    BY <2>1, RulesAgree
  <2> HIDE DEF ours, n
  <2>3. PICK j \in DOMAIN ours : LowerCase[ours[j]] = n
    BY <2>2, NormalizedNames
  <2>4. headerValues(h, n) # <<>> /\ headerValues(h, n) \notin RefusedValues
    BY <1>4, <2>3 DEF headersAccepted
  <2> QED
    BY <1>3, <2>1, <2>4 DEF n
<1>6. headersAccepted(theirs, g)
  BY <1>5 DEF headersAccepted
<1> QED
  BY <1>1, <1>6 DEF Buildable, g

(* The receiver computes the message that was signed, in the scheme it was *)
(* signed in.                                                              *)
LEMMA SameMessage ==
  ASSUME setup \in Setups, exchange.request \in Requests, Faithful, Arrived,
         exchange.received.body = ParsedBody(exchange.request.body)
  PROVE  /\ setup.scheme = "client" =>
              buildHmacMessage(exchange.received, Rules("receiver")) = Signed
         /\ setup.scheme = "legacy" =>
              /\ legacyMessage(exchange.received) = Signed
              /\ setup.receiver = "middleware" /\ exchange.received.method \in {"GET", "POST"}
<1> DEFINE r == exchange.request
           g == exchange.received
<1>1. r \in RequestRecords
  BY RequestsAssumption
<1>2. r.path \in [kind : PathKinds, level : Nat]
  BY <1>1 DEF RequestRecords
<1>3. r.params \in Seq([key : STRING, value : STRING])
  BY <1>1 DEF RequestRecords
<1>4. g.method = r.method /\ g.path = pathname(r.path)
  BY DEF Arrived
<1>5. \A order : buildSortedParams(g.params, order) = buildSortedParams(r.params, order)
  <2>1. \A i \in DOMAIN r.params : r.params[i].value # "null"
    BY DEF Faithful
  <2>2. WireParams(r.params) = r.params
    BY <1>1, <2>1, ParamsArrive
  <2>3. g.params \in {r.params, Reverse(r.params)}
    BY <2>2 DEF Arrived
  <2> HIDE DEF r, g
  <2> QED
    BY <1>3, <2>3, ParamsAlike
<1>6. normalizeBody(g.method, g.body) = normalizeBody(r.method, r.body)
  <2>1. CASE r.method = "GET"
    BY <1>4, <2>1 DEF normalizeBody
  <2>2. CASE r.method # "GET"
    <3>1. setup.parser \in {"raw", "json", "filled", "broken"}
      BY DEF Setups
    <3>2. ParsedBody(r.body) = r.body
      BY <2>2, <3>1 DEF Faithful, ParsedBody
    <3> QED
      BY <1>4, <3>2
  <2> QED
    BY <2>1, <2>2
<1>7. buildCustomHeadersFragment(Rules("receiver"), g.headers)
        = buildCustomHeadersFragment(Rules("sender"), r.headers)
  <2>1. g.headers = WireHeaders(r.headers)
    BY DEF Arrived
  <2>2. \A n \in ToSet(normalizeCustomHeaderRules(Rules("receiver"))) :
          headerValues(g.headers, n) = headerValues(r.headers, n)
    BY <2>1, HeadersArrive
  <2> HIDE DEF r, g
  <2> QED
    BY <2>2, RulesAgree, FragmentAlike
<1>8. setup.scheme = "client" =>
        buildHmacMessage(g, Rules("receiver")) = buildHmacMessage(r, Rules("sender"))
  <2> SUFFICES ASSUME setup.scheme = "client"
               PROVE  buildHmacMessage(g, Rules("receiver")) = buildHmacMessage(r, Rules("sender"))
    OBVIOUS
  <2>1. pathname(r.path) = r.path
    BY <1>2, PathsAlike DEF Faithful
  <2>2. g.path = r.path
    BY <1>4, <2>1
  <2> HIDE DEF r, g
  <2> QED
    BY <1>5, <1>6, <1>7, <2>2 DEF buildHmacMessage
<1>9. legacyMessage(g) = legacyMessage(r)
  <2>1. encodeLegacyPath(g.path) = encodeLegacyPath(r.path)
    BY <1>2, <1>4, PathsAlike DEF encodeLegacyPath
  <2> HIDE DEF r, g
  <2> QED
    BY <1>5, <1>6, <2>1 DEF legacyMessage
<1>10. setup.scheme = "legacy" => setup.receiver = "middleware" /\ g.method \in {"GET", "POST"}
  <2>1. setup.scheme = "legacy" => setup.receiver = "middleware"
    BY DEF Setups
  <2>2. setup.scheme = "legacy" => r.method \in {"GET", "POST"}
    BY DEF Faithful
  <2> QED
    BY <1>4, <2>1, <2>2
<1>11. setup.scheme \in {"client", "legacy"}
  BY DEF Setups
<1> QED
  BY <1>8, <1>9, <1>10, <1>11 DEF Signed

-----------------------------------------------------------------------------
(* The inductive invariant, in parts.                                      *)
ExchangeFields ==
  {"stage", "request", "received", "signature", "signedAt", "altered", "reply", "handler"}

MessageFields == {"method", "path", "params", "body", "headers"}

WellFormed ==
  /\ ExchangeTypeOK
  /\ DOMAIN exchange = ExchangeFields /\ DOMAIN exchange.received = MessageFields
  /\ setup.receiver = "middleware" => held["receiver"] # Unloaded

(* No client gets beyond a message it cannot build.                        *)
Built ==
  /\ exchange.stage \notin {"idle", "unsigned"} /\ setup.scheme = "client"
       => Buildable(exchange.request, Rules("sender"))
  /\ exchange.stage = "checking" /\ setup.receiver = "client"
       => Buildable(exchange.received, Rules("receiver"))

(* What nothing changed is what was sent, and was not refused early.       *)
Unaltered ==
  ~exchange.altered =>
    /\ exchange.stage \in {"sent", "checking", "accepted", "refused"} => Arrived
    /\ exchange.stage = "sent" => exchange.received.body = exchange.request.body
    /\ \/ exchange.stage \in {"checking", "accepted"}
       \/ exchange.stage = "refused" /\ Faithful
       => exchange.received.body = ParsedBody(exchange.request.body)

(* A signature under way is the sender's for this request, or none at all. *)
UnderWay == {"sent", "checking", "accepted"}

Authentic ==
  exchange.stage \in UnderWay =>
    exchange.signature \in {NoSignature} \cup {Signature(s, Signed) : s \in Nat \ {0}}

Judged ==
  /\ exchange.stage = "accepted" => held["receiver"] # Unloaded /\ Verdict
  /\ exchange.stage = "refused" /\ ~exchange.altered /\ Faithful
       => held["receiver"] # Unloaded /\ ~Verdict

Answers ==
  /\ MiddlewareAnswersForItself
  /\ exchange.stage \notin {"refused", "failed"} => exchange.reply = "none"

ExchangeInv == WellFormed /\ Built /\ Unaltered /\ Authentic /\ Judged /\ Answers

(* Whatever leaves the request alone leaves what is signed.                *)
LEMMA RequestFrame ==
  ASSUME setup' = setup, exchange'.request = exchange.request
  PROVE  /\ Signed' = Signed /\ (Faithful' <=> Faithful)
         /\ Rules("sender")' = Rules("sender") /\ Rules("receiver")' = Rules("receiver")
         /\ ParsedBody(exchange.request.body)' = ParsedBody(exchange.request.body)
<1>1. Rules("sender")' = Rules("sender") /\ Rules("receiver")' = Rules("receiver")
  BY DEF Rules
<1>2. Signed' = Signed
  BY <1>1 DEF Signed
<1>3. Faithful' <=> Faithful
  BY <1>1 DEF Faithful
<1>4. ParsedBody(exchange.request.body)' = ParsedBody(exchange.request.body)
  BY DEF ParsedBody
<1> QED
  BY <1>1, <1>2, <1>3, <1>4

LEMMA ArrivedFrame ==
  ASSUME setup' = setup, version' \in {version, version + 1}, version \in Nat,
         exchange'.request = exchange.request, exchange'.received.method = exchange.received.method,
         exchange'.received.path = exchange.received.path,
         exchange'.received.params = exchange.received.params,
         exchange'.received.headers = exchange.received.headers,
         exchange'.signature = exchange.signature, exchange'.signedAt = exchange.signedAt,
         Arrived
  PROVE  Arrived'
<1>1. Signed' = Signed
  BY RequestFrame
<1>2. exchange'.signedAt \in 1 .. version'
  BY DEF Arrived
<1> QED
  BY <1>1, <1>2 DEF Arrived

LEMMA AuthenticFrame ==
  ASSUME setup' = setup, exchange'.request = exchange.request,
         exchange'.signature \in {exchange.signature, NoSignature},
         exchange'.stage \in UnderWay => exchange.stage \in UnderWay,
         Authentic
  PROVE  Authentic'
<1>1. Signed' = Signed
  BY RequestFrame
<1> QED
  BY <1>1 DEF Authentic

LEMMA VerdictFrame ==
  ASSUME setup' = setup, held'["receiver"] = held["receiver"],
         exchange'.request = exchange.request, exchange'.received = exchange.received,
         exchange'.signature = exchange.signature
  PROVE  Verdict' <=> Verdict
<1>1. Rules("receiver")' = Rules("receiver")
  BY RequestFrame
<1> QED
  BY <1>1 DEF Verdict, Signs, LegacyAccepts

LEMMA LoadedIsNot == ASSUME NEW v \in Nat \ {0} PROVE LoadedAt(v) # Unloaded
<1>1. LoadedAt(v).at # Unloaded.at
  BY DEF LoadedAt, Unloaded
<1> QED
  BY <1>1

LEMMA ExchangeInitInv == ExchangeInit => ExchangeInv
<1> SUFFICES ASSUME ExchangeInit PROVE ExchangeInv
  OBVIOUS
<1>1. PICK request \in Requests : exchange = Idle(request)
  BY DEF ExchangeInit
<1>2. request \in RequestRecords
  BY RequestsAssumption
<1>3. /\ setup \in Setups /\ version = 1 /\ held = [p \in Parties |-> Started(p, 1)]
      /\ exchange.stage = "idle" /\ exchange.reply = "none" /\ exchange.handler = "not called"
      /\ exchange.request = request /\ exchange.received = request
      /\ DOMAIN exchange = ExchangeFields
  BY <1>1 DEF ExchangeInit, Idle, ExchangeFields
<1>4. DOMAIN request = MessageFields
  BY <1>2 DEF RequestRecords, MessageFields
<1>5. 1 \in 1 .. MaxVersion
  BY VersionAssumption
<1>6. ASSUME NEW p \in Parties
      PROVE  held[p] \in {Unloaded, LoadedAt(1)}
  BY <1>3 DEF Started
<1>7. setup.receiver = "middleware" => held["receiver"] # Unloaded
  <2>1. "receiver" \in Parties
    BY DEF Parties
  <2>2. setup.receiver = "middleware" => held["receiver"] = LoadedAt(1)
    BY <1>3, <2>1 DEF Started
  <2> QED
    BY <2>2, LoadedIsNot
<1>8. ExchangeTypeOK
  <2>1. 1 \in 1 .. version
    <3>1. version = 1
      BY <1>3
    <3>2. 1 \in 1 .. 1
      OBVIOUS
    <3> QED
      BY <3>1, <3>2
  <2>2. ~AwaitsSecrets("sender") /\ ~AwaitsSecrets("receiver")
    BY <1>3 DEF AwaitsSecrets
  <2>3. \A p \in Parties : held[p] \in {Unloaded} \cup {LoadedAt(v) : v \in 1 .. version}
    BY <1>6, <2>1
  <2> QED
    BY <1>3, <1>5, <2>2, <2>3 DEF ExchangeTypeOK
<1> QED
  BY <1>3, <1>4, <1>7, <1>8
  DEF ExchangeInv, WellFormed, Built, Unaltered, Authentic, UnderWay, Judged, Answers, MiddlewareAnswersForItself

(* What the actions on one stage of the exchange have in common: the       *)
(* values of setup, version and held are of their kinds.                   *)
LEMMA HeldType ==
  ASSUME WellFormed
  PROVE  /\ setup \in Setups /\ version \in 1 .. MaxVersion /\ version \in Nat \ {0}
         /\ exchange.request \in Requests
         /\ \A p \in Parties : held[p] # Unloaded =>
              /\ held[p].at \in 1 .. version
              /\ held[p].secrets = SecretsAt(held[p].at)
<1>1. setup \in Setups /\ version \in 1 .. MaxVersion /\ exchange.request \in Requests
  BY DEF WellFormed, ExchangeTypeOK
<1>2. version \in Nat \ {0}
  BY <1>1, VersionAssumption
<1>3. ASSUME NEW p \in Parties, held[p] # Unloaded
      PROVE  held[p].at \in 1 .. version /\ held[p].secrets = SecretsAt(held[p].at)
  <2>1. PICK v \in 1 .. version : held[p] = LoadedAt(v)
    BY <1>3 DEF WellFormed, ExchangeTypeOK
  <2> QED
    BY <2>1 DEF LoadedAt
<1> QED
  BY <1>1, <1>2, <1>3

LEMMA SignSafe == ASSUME ExchangeInv, Sign PROVE ExchangeInv'
<1> DEFINE next == IF setup.scheme = "client" /\ ~Buildable(exchange.request, Rules("sender"))
                   THEN "unsigned" ELSE "signing"
<1> USE DEF ExchangeInv
<1>1. /\ setup' = setup /\ version' = version /\ held' = held
      /\ exchange.stage = "idle" /\ exchange' = [exchange EXCEPT !.stage = next]
  BY DEF Sign
<1> HIDE DEF next
<1>2. /\ DOMAIN exchange' = ExchangeFields /\ exchange'.stage = next
      /\ exchange'.request = exchange.request /\ exchange'.received = exchange.received
      /\ exchange'.altered = exchange.altered /\ exchange'.reply = exchange.reply
      /\ exchange'.handler = exchange.handler
  BY <1>1 DEF WellFormed, ExchangeFields
<1>3. Rules("sender")' = Rules("sender")
  BY <1>1, <1>2, RequestFrame
<1>4. next \in {"unsigned", "signing"}
  BY DEF next
<1>5. next = "signing" /\ setup.scheme = "client" => Buildable(exchange.request, Rules("sender"))
  BY DEF next
<1>6. WellFormed'
  BY <1>1, <1>2, <1>3, <1>4, <1>5 DEF WellFormed, ExchangeTypeOK, AwaitsSecrets
<1>7. Built'
  BY <1>1, <1>2, <1>3, <1>4, <1>5 DEF Built
<1>8. Unaltered' /\ Authentic' /\ Judged'
  BY <1>2, <1>4 DEF Unaltered, Authentic, UnderWay, Judged
<1>9. Answers'
  BY <1>1, <1>2, <1>4 DEF Answers, MiddlewareAnswersForItself
<1> QED
  BY <1>6, <1>7, <1>8, <1>9

LEMMA SendSafe == ASSUME ExchangeInv, Send PROVE ExchangeInv'
<1> DEFINE wire == OverHttp(exchange.request)
           message == IF setup.scheme = "legacy" THEN legacyMessage(exchange.request)
                      ELSE buildHmacMessage(exchange.request, Rules("sender"))
           signature == Signature(signingSecret(held["sender"].secrets), message)
<1>1. PICK params \in {wire.params, Reverse(wire.params)} :
        exchange' = [exchange EXCEPT
          !.stage = "sent", !.signedAt = held["sender"].at, !.signature = signature,
          !.received = [wire EXCEPT !.params = params]]
  BY DEF Send
<1>2. /\ setup' = setup /\ version' = version /\ held' = held
      /\ exchange.stage = "signing" /\ held["sender"] # Unloaded
  BY DEF Send
<1>3. /\ setup \in Setups /\ exchange.request \in RequestRecords /\ version \in Nat
      /\ held["sender"].at \in 1 .. version
      /\ held["sender"].secrets = SecretsAt(held["sender"].at)
  BY <1>2, HeldType, RequestsAssumption DEF ExchangeInv, Parties
<1>4. /\ DOMAIN wire = MessageFields
      /\ wire.method = exchange.request.method /\ wire.body = exchange.request.body
      /\ wire.path = pathname(exchange.request.path)
      /\ wire.params = WireParams(exchange.request.params)
      /\ wire.headers = WireHeaders(exchange.request.headers)
  <2> DEFINE r == exchange.request
  <2>1. DOMAIN r = MessageFields
    BY <1>3 DEF RequestRecords, MessageFields
  <2> HIDE DEF r
  <2>2. /\ DOMAIN OverHttp(r) = MessageFields
        /\ OverHttp(r).method = r.method /\ OverHttp(r).body = r.body
        /\ OverHttp(r).path = pathname(r.path)
        /\ OverHttp(r).params = WireParams(r.params)
        /\ OverHttp(r).headers = WireHeaders(r.headers)
    BY <2>1 DEF OverHttp, MessageFields
  <2> QED
    BY <2>2 DEF r
<1> HIDE DEF wire, signature
<1>5. /\ DOMAIN exchange' = ExchangeFields /\ exchange'.stage = "sent"
      /\ exchange'.request = exchange.request /\ exchange'.altered = exchange.altered
      /\ exchange'.reply = exchange.reply /\ exchange'.handler = exchange.handler
      /\ exchange'.signature = signature /\ exchange'.signedAt = held["sender"].at
      /\ exchange'.received = [wire EXCEPT !.params = params]
  BY <1>1 DEF ExchangeInv, WellFormed, ExchangeFields
<1>6. /\ DOMAIN exchange'.received = MessageFields /\ exchange'.received.params = params
      /\ exchange'.received.method = exchange.request.method
      /\ exchange'.received.body = exchange.request.body
      /\ exchange'.received.path = pathname(exchange.request.path)
      /\ exchange'.received.headers = WireHeaders(exchange.request.headers)
  BY <1>4, <1>5 DEF MessageFields
<1>7. Signed' = message /\ Rules("sender")' = Rules("sender")
  BY <1>2, <1>5, RequestFrame DEF Signed
<1>8. Arrived'
  BY <1>1, <1>2, <1>3, <1>4, <1>5, <1>6, <1>7 DEF Arrived, signature
<1>9. WellFormed'
  BY <1>2, <1>5, <1>6 DEF ExchangeInv, WellFormed, ExchangeTypeOK, AwaitsSecrets
<1>10. Built'
  BY <1>2, <1>5, <1>7 DEF ExchangeInv, Built
<1>11. Unaltered' /\ Judged'
  BY <1>5, <1>6, <1>8 DEF Unaltered, Judged
<1>13. Authentic'
  <2>1. held["sender"].at \in Nat \ {0}
    BY <1>3
  <2>2. exchange'.signature = Signature(held["sender"].at, Signed')
    BY <1>3, <1>5, <1>7, <2>1, StillHeld DEF signature
  <2> QED
    BY <2>1, <2>2 DEF Authentic
<1>12. Answers'
  BY <1>2, <1>5 DEF ExchangeInv, Answers, MiddlewareAnswersForItself
<1> QED
  BY <1>9, <1>10, <1>11, <1>12, <1>13 DEF ExchangeInv

LEMMA AlterSafe == ASSUME ExchangeInv, Alter PROVE ExchangeInv'
<1>1. PICK changed \in {[exchange EXCEPT !.received.method = m] : m \in Supported}
                         \cup {[exchange EXCEPT !.received.path = Path("other", 0)],
                               [exchange EXCEPT !.received.params = <<>>],
                               [exchange EXCEPT !.received.body = "changed"],
                               [exchange EXCEPT !.received.headers = <<>>],
                               [exchange EXCEPT !.signature = NoSignature]} :
        exchange' = [changed EXCEPT !.altered = TRUE]
  BY DEF Alter
<1>2. setup' = setup /\ version' = version /\ held' = held /\ exchange.stage = "sent"
  BY DEF Alter
<1>3. DOMAIN exchange = ExchangeFields /\ DOMAIN exchange.received = MessageFields
  BY DEF ExchangeInv, WellFormed
<1>4. /\ DOMAIN changed = ExchangeFields /\ DOMAIN changed.received = MessageFields
      /\ changed.stage = "sent" /\ changed.request = exchange.request
      /\ changed.reply = exchange.reply /\ changed.handler = exchange.handler
      /\ changed.signature \in {exchange.signature, NoSignature}
  BY <1>2, <1>3 DEF ExchangeFields, MessageFields
<1>5. /\ DOMAIN exchange' = ExchangeFields /\ DOMAIN exchange'.received = MessageFields
      /\ exchange'.stage = "sent" /\ exchange'.request = exchange.request
      /\ exchange'.reply = exchange.reply /\ exchange'.handler = exchange.handler
      /\ exchange'.altered = TRUE
      /\ exchange'.signature \in {exchange.signature, NoSignature}
  BY <1>1, <1>4 DEF ExchangeFields
<1>6. Rules("sender")' = Rules("sender")
  BY <1>2, <1>5, RequestFrame
<1>7. WellFormed'
  BY <1>2, <1>5 DEF ExchangeInv, WellFormed, ExchangeTypeOK, AwaitsSecrets
<1>8. Built'
  BY <1>2, <1>5, <1>6 DEF ExchangeInv, Built
<1>9. Unaltered' /\ Judged'
  BY <1>5 DEF Unaltered, Judged
<1>10. Answers'
  BY <1>2, <1>5 DEF ExchangeInv, Answers, MiddlewareAnswersForItself
<1>11. Authentic'
  BY <1>2, <1>5, AuthenticFrame DEF ExchangeInv, UnderWay
<1> QED
  BY <1>7, <1>8, <1>9, <1>10, <1>11 DEF ExchangeInv

LEMMA ReceiveSafe == ASSUME ExchangeInv, Receive PROVE ExchangeInv'
<1> DEFINE refused == [exchange EXCEPT !.stage = "refused",
                         !.reply = IF setup.receiver = "middleware" THEN "401" ELSE "none"]
           client == setup.receiver = "client"
           can == Buildable(exchange.received, Rules("receiver"))
           known == exchange.signature # NoSignature /\ exchange.received.method \in Supported
           failed == [exchange EXCEPT !.stage = "failed", !.reply = "next(error)"]
           parsed == [exchange EXCEPT !.stage = "checking", !.received.body = ParsedBody(@)]
<1>1. /\ setup' = setup /\ version' = version /\ held' = held /\ exchange.stage = "sent"
      /\ \/ ((client /\ ~can) \/ (~client /\ ~known)) /\ exchange' = refused
         \/ client /\ can /\ exchange' = [exchange EXCEPT !.stage = "checking"]
         \/ ~client /\ known /\ exchange' \in {failed, parsed}
  <2>1. setup' = setup /\ version' = version /\ held' = held /\ exchange.stage = "sent"
    BY DEF Receive
  <2>2. CASE client
    <3>1. CASE can
      BY <2>1, <2>2, <3>1 DEF Receive
    <3>2. CASE ~can
      <4>1. Refuse
        BY <2>2, <3>2 DEF Receive
      <4>2. exchange' = refused
        BY <4>1 DEF Refuse
      <4> HIDE DEF refused, failed, parsed, can
      <4> QED
        BY <2>1, <2>2, <3>2, <4>2
    <3> QED
      BY <3>1, <3>2
  <2>3. CASE ~client
    <3>1. CASE ~known
      BY <2>3, <3>1 DEF Receive, Refuse
    <3>2. CASE known
      BY <2>3, <3>2 DEF Receive
    <3> QED
      BY <2>1, <2>3, <3>1, <3>2
  <2> QED
    BY <2>1, <2>2, <2>3
<1> HIDE DEF refused, failed, parsed
<1>2. /\ DOMAIN exchange = ExchangeFields /\ DOMAIN exchange.received = MessageFields
      /\ exchange.reply = "none" /\ exchange.handler = "not called"
      /\ setup \in Setups /\ exchange.request \in Requests /\ version \in Nat
  BY <1>1, HeldType DEF ExchangeInv, WellFormed, Answers, MiddlewareAnswersForItself
<1>3. /\ DOMAIN exchange' = ExchangeFields /\ DOMAIN exchange'.received = MessageFields
      /\ exchange'.stage \in {"refused", "checking", "failed"}
      /\ exchange'.request = exchange.request /\ exchange'.altered = exchange.altered
      /\ exchange'.signature = exchange.signature /\ exchange'.signedAt = exchange.signedAt
      /\ exchange'.handler = exchange.handler
      /\ exchange'.received.method = exchange.received.method
      /\ exchange'.received.path = exchange.received.path
      /\ exchange'.received.params = exchange.received.params
      /\ exchange'.received.headers = exchange.received.headers
  <2>1. CASE exchange' \in {refused, [exchange EXCEPT !.stage = "checking"], failed}
    BY <1>2, <2>1 DEF refused, failed, ExchangeFields
  <2>2. CASE exchange' = parsed
    <3>1. exchange'.received = [exchange.received EXCEPT !.body = ParsedBody(@)]
      BY <1>2, <2>2 DEF parsed, ExchangeFields
    <3>2. /\ DOMAIN exchange' = ExchangeFields /\ exchange'.stage = "checking"
          /\ exchange'.request = exchange.request /\ exchange'.altered = exchange.altered
          /\ exchange'.signature = exchange.signature /\ exchange'.signedAt = exchange.signedAt
          /\ exchange'.handler = exchange.handler
      BY <1>2, <2>2 DEF parsed, ExchangeFields
    <3> QED
      BY <1>2, <3>1, <3>2 DEF MessageFields
  <2> QED
    BY <1>1, <2>1, <2>2
<1>4. /\ exchange'.stage = "checking" => exchange'.reply = "none"
      /\ exchange'.stage \in {"refused", "failed"} /\ setup.receiver = "middleware"
           => exchange'.reply # "none"
  BY <1>1, <1>2 DEF refused, failed, parsed, ExchangeFields
<1>5. /\ exchange'.stage = "checking" /\ client => can /\ exchange'.received = exchange.received
      /\ exchange'.stage = "checking" /\ ~client
           => exchange'.received.body = ParsedBody(exchange.received.body)
      /\ exchange'.stage = "refused" => (client /\ ~can) \/ (~client /\ ~known)
  BY <1>1, <1>2 DEF refused, failed, parsed, ExchangeFields, MessageFields
<1>6. /\ Rules("sender")' = Rules("sender") /\ Rules("receiver")' = Rules("receiver")
      /\ ParsedBody(exchange.request.body)' = ParsedBody(exchange.request.body)
      /\ Faithful' <=> Faithful
  BY <1>1, <1>3, RequestFrame
<1>7. ~exchange.altered => Arrived /\ Arrived' /\ exchange.received.body = exchange.request.body
  <2> SUFFICES ASSUME ~exchange.altered
               PROVE  Arrived /\ Arrived' /\ exchange.received.body = exchange.request.body
    OBVIOUS
  <2>1. Arrived /\ exchange.received.body = exchange.request.body
    BY <1>1 DEF ExchangeInv, Unaltered
  <2> QED
    BY <1>1, <1>2, <1>3, <2>1, ArrivedFrame
<1>8. ASSUME ~exchange.altered, Faithful PROVE exchange'.stage # "refused"
  <2>1. CASE client
    <3>1. setup.scheme = "client"
      BY <1>2, <2>1 DEF Setups
    <3>2. Buildable(exchange.request, Rules("sender"))
      BY <1>1, <3>1 DEF ExchangeInv, Built
    <3>3. can
      BY <1>2, <1>7, <1>8, <3>2, StillBuildable
    <3> QED
      BY <1>5, <2>1, <3>3
  <2>2. CASE ~client
    <3>1. exchange.received.method \in Supported
      <4>1. setup.scheme = "client" => exchange.request.method \in Supported
        BY <1>1 DEF ExchangeInv, Built, Buildable
      <4>2. setup.scheme = "legacy" => exchange.request.method \in Supported
        BY <1>8 DEF Faithful, Supported
      <4>3. setup.scheme \in {"client", "legacy"}
        BY <1>2 DEF Setups
      <4> QED
        BY <1>7, <1>8, <4>1, <4>2, <4>3 DEF Arrived
    <3>2. exchange.signature # NoSignature
      <4>1. exchange.signedAt \in Nat \ {0} /\ exchange.signature.secret = exchange.signedAt
        <5>1. exchange.signedAt \in 1 .. version
          BY <1>7, <1>8 DEF Arrived
        <5>2. exchange.signedAt \in Nat \ {0}
          <6>1. version \in Nat
            BY <1>2
          <6> QED
            BY <5>1, <6>1
        <5>3. exchange.signature.secret = signingSecret(SecretsAt(exchange.signedAt))
          BY <1>7, <1>8 DEF Arrived, Signature
        <5> QED
          BY <5>2, <5>3, StillHeld
      <4> QED
        BY <4>1 DEF NoSignature
    <3> QED
      BY <1>5, <2>2, <3>1, <3>2
  <2> QED
    BY <2>1, <2>2
<1>9. exchange'.stage = "checking" /\ ~exchange.altered
        => exchange'.received.body = ParsedBody(exchange.request.body)
  <2>1. client => setup.parser = "raw"
    BY <1>2 DEF Setups
  <2>2. client => ParsedBody(exchange.request.body) = exchange.request.body
    BY <2>1 DEF ParsedBody
  <2> QED
    BY <1>5, <1>7, <2>2
<1>10. exchange'.stage = "checking" /\ setup'.receiver = "client"
         => Buildable(exchange.received, Rules("receiver"))'
  BY <1>1, <1>5, <1>6
<1>11. WellFormed'
  <2>1. AwaitsSecrets("receiver")' => Buildable(exchange.received, Rules("receiver"))'
    <3>1. AwaitsSecrets("receiver")' => exchange'.stage = "checking" /\ held["receiver"] = Unloaded
      BY <1>1 DEF AwaitsSecrets
    <3>2. held["receiver"] = Unloaded => setup.receiver = "client"
      BY <1>2 DEF ExchangeInv, WellFormed, Setups
    <3> QED
      BY <1>1, <1>10, <3>1, <3>2
  <2>2. ~AwaitsSecrets("sender")'
    BY <1>3 DEF AwaitsSecrets
  <2> QED
    BY <1>1, <1>3, <2>1, <2>2 DEF ExchangeInv, WellFormed, ExchangeTypeOK
<1>12. Built'
  BY <1>1, <1>3, <1>6, <1>10 DEF ExchangeInv, Built
<1>13. Unaltered'
  BY <1>3, <1>6, <1>7, <1>8, <1>9 DEF Unaltered
<1>14. Judged'
  BY <1>3, <1>6, <1>8 DEF Judged
<1>15. Answers'
  BY <1>1, <1>2, <1>3, <1>4 DEF Answers, MiddlewareAnswersForItself
<1>16. Authentic'
  BY <1>1, <1>3, AuthenticFrame DEF ExchangeInv, UnderWay
<1> QED
  BY <1>11, <1>12, <1>13, <1>14, <1>15, <1>16 DEF ExchangeInv

LEMMA VerifySafe == ASSUME ExchangeInv, Verify PROVE ExchangeInv'
<1> DEFINE accepted == [exchange EXCEPT !.stage = "accepted"]
           refused == [exchange EXCEPT !.stage = "refused",
                         !.reply = IF setup.receiver = "middleware" THEN "401" ELSE "none"]
<1>1. /\ setup' = setup /\ version' = version /\ held' = held
      /\ exchange.stage = "checking" /\ held["receiver"] # Unloaded
  BY DEF Verify
<1>2. \/ Verdict /\ exchange' = accepted
      \/ ~Verdict /\ exchange' = refused
  BY DEF Verify, Verdict, Refuse
<1>3. /\ DOMAIN exchange = ExchangeFields /\ version \in Nat
      /\ exchange.reply = "none" /\ exchange.handler = "not called"
  BY <1>1, HeldType DEF ExchangeInv, WellFormed, Answers, MiddlewareAnswersForItself
<1>4. /\ DOMAIN exchange' = ExchangeFields
      /\ exchange'.request = exchange.request /\ exchange'.received = exchange.received
      /\ exchange'.altered = exchange.altered /\ exchange'.handler = exchange.handler
      /\ exchange'.signature = exchange.signature /\ exchange'.signedAt = exchange.signedAt
  BY <1>2, <1>3 DEF ExchangeFields
<1>5. \/ Verdict /\ exchange'.stage = "accepted" /\ exchange'.reply = "none"
      \/ /\ ~Verdict /\ exchange'.stage = "refused"
         /\ setup.receiver = "middleware" => exchange'.reply # "none"
  BY <1>2, <1>3 DEF ExchangeFields
<1> HIDE DEF accepted, refused
<1>6. /\ Rules("sender")' = Rules("sender") /\ (Verdict' <=> Verdict)
      /\ ParsedBody(exchange.request.body)' = ParsedBody(exchange.request.body)
  BY <1>1, <1>4, RequestFrame, VerdictFrame
<1>7. ~exchange.altered
        => Arrived' /\ exchange.received.body = ParsedBody(exchange.request.body)
  <2>1. ~exchange.altered
          => Arrived /\ exchange.received.body = ParsedBody(exchange.request.body)
    BY <1>1 DEF ExchangeInv, Unaltered
  <2> QED
    BY <1>1, <1>3, <1>4, <2>1, ArrivedFrame
<1>8. WellFormed'
  BY <1>1, <1>4, <1>5 DEF ExchangeInv, WellFormed, ExchangeTypeOK, AwaitsSecrets
<1>9. Built'
  BY <1>1, <1>4, <1>5, <1>6 DEF ExchangeInv, Built
<1>10. Unaltered'
  BY <1>4, <1>5, <1>6, <1>7 DEF Unaltered
<1>11. Judged'
  BY <1>1, <1>5, <1>6 DEF Judged
<1>12. Answers'
  BY <1>1, <1>3, <1>4, <1>5 DEF Answers, MiddlewareAnswersForItself
<1>13. Authentic'
  BY <1>1, <1>4, AuthenticFrame DEF ExchangeInv, UnderWay
<1> QED
  BY <1>8, <1>9, <1>10, <1>11, <1>12, <1>13 DEF ExchangeInv

LEMMA HandlerSafe == ASSUME ExchangeInv, HandlerReturns \/ HandlerThrows PROVE ExchangeInv'
<1>1. PICK h \in {"returned", "threw"} : exchange' = [exchange EXCEPT !.handler = h]
  BY DEF HandlerReturns, HandlerThrows
<1>2. /\ setup' = setup /\ version' = version /\ held' = held /\ exchange.stage = "accepted"
  BY DEF HandlerReturns, HandlerThrows, Behind
<1>3. DOMAIN exchange = ExchangeFields /\ version \in Nat
  BY HeldType DEF ExchangeInv, WellFormed
<1>4. /\ DOMAIN exchange' = ExchangeFields /\ exchange'.stage = "accepted"
      /\ exchange'.request = exchange.request /\ exchange'.received = exchange.received
      /\ exchange'.altered = exchange.altered /\ exchange'.reply = exchange.reply
      /\ exchange'.signature = exchange.signature /\ exchange'.signedAt = exchange.signedAt
  BY <1>1, <1>2, <1>3 DEF ExchangeFields
<1>5. /\ Rules("sender")' = Rules("sender") /\ (Verdict' <=> Verdict)
      /\ ParsedBody(exchange.request.body)' = ParsedBody(exchange.request.body)
  BY <1>2, <1>4, RequestFrame, VerdictFrame
<1>6. ~exchange.altered => Arrived'
  <2>1. ~exchange.altered => Arrived
    BY <1>2 DEF ExchangeInv, Unaltered
  <2> QED
    BY <1>2, <1>3, <1>4, <2>1, ArrivedFrame
<1>7. WellFormed'
  BY <1>2, <1>4 DEF ExchangeInv, WellFormed, ExchangeTypeOK, AwaitsSecrets
<1>8. Built'
  BY <1>2, <1>4, <1>5 DEF ExchangeInv, Built
<1>9. Unaltered'
  BY <1>2, <1>4, <1>5, <1>6 DEF ExchangeInv, Unaltered
<1>10. Judged'
  BY <1>2, <1>4, <1>5 DEF ExchangeInv, Judged
<1>11. Answers'
  BY <1>2, <1>4 DEF ExchangeInv, Answers, MiddlewareAnswersForItself
<1>12. Authentic'
  BY <1>2, <1>4, AuthenticFrame DEF ExchangeInv, UnderWay
<1> QED
  BY <1>7, <1>8, <1>9, <1>10, <1>11, <1>12 DEF ExchangeInv

LEMMA AgainSafe == ASSUME ExchangeInv, Again PROVE ExchangeInv'
<1>1. PICK request \in Requests : exchange' = Idle(request)
  BY DEF Again
<1>2. setup' = setup /\ version' = version /\ held' = held
  BY DEF Again
<1>3. request \in RequestRecords
  BY RequestsAssumption
<1>4. /\ exchange'.stage = "idle" /\ exchange'.reply = "none" /\ exchange'.handler = "not called"
      /\ exchange'.request = request /\ exchange'.received = request
      /\ DOMAIN exchange' = ExchangeFields
  BY <1>1 DEF Idle, ExchangeFields
<1>5. DOMAIN request = MessageFields
  BY <1>3 DEF RequestRecords, MessageFields
<1>6. WellFormed'
  BY <1>2, <1>4, <1>5 DEF ExchangeInv, WellFormed, ExchangeTypeOK, AwaitsSecrets
<1> QED
  BY <1>4, <1>6
  DEF ExchangeInv, Built, Unaltered, Authentic, UnderWay, Judged, Answers, MiddlewareAnswersForItself

LEMMA UnderwaySafe == ASSUME ExchangeInv, RotateUnderway PROVE ExchangeInv'
<1>1. /\ setup' = setup /\ held' = held /\ exchange' = exchange
      /\ version < MaxVersion /\ version' = version + 1
  BY DEF RotateUnderway, Rotates
<1>2. version \in 1 .. MaxVersion /\ version \in Nat /\ MaxVersion \in Nat
  BY HeldType, VersionAssumption DEF ExchangeInv
<1>3. version' \in 1 .. MaxVersion /\ 1 .. version \subseteq 1 .. version'
  BY <1>1, <1>2
<1>4. /\ Rules("sender")' = Rules("sender") /\ Rules("receiver")' = Rules("receiver")
      /\ ParsedBody(exchange.request.body)' = ParsedBody(exchange.request.body)
      /\ (Verdict' <=> Verdict) /\ (Faithful' <=> Faithful)
  BY <1>1, RequestFrame, VerdictFrame
<1>5. Arrived => Arrived'
  BY <1>1, <1>2, ArrivedFrame
<1>6. WellFormed'
  <2>1. \A p \in Parties : held'[p] \in {Unloaded} \cup {LoadedAt(v) : v \in 1 .. version'}
    BY <1>1, <1>3 DEF ExchangeInv, WellFormed, ExchangeTypeOK
  <2> QED
    BY <1>1, <1>3, <1>4, <2>1 DEF ExchangeInv, WellFormed, ExchangeTypeOK, AwaitsSecrets
<1>7. Built'
  BY <1>1, <1>4 DEF ExchangeInv, Built
<1>8. Unaltered'
  BY <1>1, <1>4, <1>5 DEF ExchangeInv, Unaltered
<1>9. Judged'
  BY <1>1, <1>4 DEF ExchangeInv, Judged
<1>10. Answers'
  BY <1>1 DEF ExchangeInv, Answers, MiddlewareAnswersForItself
<1>11. Authentic'
  BY <1>1, AuthenticFrame DEF ExchangeInv
<1> QED
  BY <1>6, <1>7, <1>8, <1>9, <1>10, <1>11 DEF ExchangeInv

LEMMA AnswersFrame ==
  ASSUME Answers, setup' = setup, exchange' = exchange
  PROVE  Answers'
BY DEF Answers, MiddlewareAnswersForItself

(* A party's secrets change while no verdict rests on them.                *)
LEMMA HoldSafe ==
  ASSUME ExchangeInv, NEW party \in Parties, NEW secrets,
         held' = [held EXCEPT ![party] = secrets],
         secrets \in {Unloaded} \cup {LoadedAt(v) : v \in 1 .. version},
         party = "receiver" => exchange.stage \notin {"accepted", "refused"},
         party = "receiver" /\ setup.receiver = "middleware" => secrets # Unloaded,
         UNCHANGED <<setup, version, exchange>>
  PROVE  ExchangeInv'
<1>1. setup' = setup /\ version' = version /\ exchange' = exchange /\ DOMAIN held = Parties
  BY DEF ExchangeInv, WellFormed, ExchangeTypeOK
<1>2. /\ DOMAIN held' = Parties /\ held'[party] = secrets
      /\ \A p \in Parties \ {party} : held'[p] = held[p]
  BY <1>1
<1>3. "sender" \in Parties /\ "receiver" \in Parties /\ version \in Nat
  BY HeldType DEF ExchangeInv, Parties
<1>4. /\ Rules("sender")' = Rules("sender") /\ Rules("receiver")' = Rules("receiver")
      /\ ParsedBody(exchange.request.body)' = ParsedBody(exchange.request.body)
      /\ Faithful' <=> Faithful
  BY <1>1, RequestFrame
<1>5. Arrived => Arrived'
  BY <1>1, <1>3, ArrivedFrame
<1>6. exchange.stage \in {"accepted", "refused"} =>
        held'["receiver"] = held["receiver"] /\ (Verdict' <=> Verdict)
  <2> SUFFICES ASSUME exchange.stage \in {"accepted", "refused"}
               PROVE  held'["receiver"] = held["receiver"] /\ (Verdict' <=> Verdict)
    OBVIOUS
  <2>1. held'["receiver"] = held["receiver"]
    BY <1>2, <1>3
  <2> QED
    BY <1>1, <2>1, VerdictFrame
<1>7. Built'
  BY <1>1, <1>4 DEF ExchangeInv, Built
<1>8. WellFormed'
  <2>1. \A p \in Parties : held'[p] \in {Unloaded} \cup {LoadedAt(v) : v \in 1 .. version}
    BY <1>2 DEF ExchangeInv, WellFormed, ExchangeTypeOK
  <2>2. setup.receiver = "middleware" => held'["receiver"] # Unloaded
    BY <1>2, <1>3 DEF ExchangeInv, WellFormed
  <2>3. AwaitsSecrets("sender")' /\ setup.scheme = "client"
          => Buildable(exchange.request, Rules("sender"))
    BY <1>1 DEF ExchangeInv, Built, AwaitsSecrets
  <2>4. AwaitsSecrets("receiver")' => Buildable(exchange.received, Rules("receiver"))
    <3>1. AwaitsSecrets("receiver")' => exchange.stage = "checking" /\ setup.receiver # "middleware"
      BY <1>1, <2>2 DEF AwaitsSecrets
    <3>2. setup.receiver \in {"client", "middleware"}
      BY DEF ExchangeInv, WellFormed, ExchangeTypeOK, Setups
    <3> QED
      BY <3>1, <3>2 DEF ExchangeInv, Built
  <2> QED
    BY <1>1, <1>2, <1>4, <2>1, <2>2, <2>3, <2>4 DEF ExchangeInv, WellFormed, ExchangeTypeOK
<1>9. Unaltered'
  BY <1>1, <1>4, <1>5 DEF ExchangeInv, Unaltered
<1>10. Judged'
  BY <1>1, <1>4, <1>6 DEF ExchangeInv, Judged
<1>11. Answers'
  BY <1>1, AnswersFrame DEF ExchangeInv
<1>12. Authentic'
  BY <1>1, AuthenticFrame DEF ExchangeInv
<1> QED
  BY <1>7, <1>8, <1>9, <1>10, <1>11, <1>12 DEF ExchangeInv

LEMMA RestartSafe ==
  ASSUME ExchangeInv, NEW party \in Parties, Restart(party)
  PROVE  ExchangeInv'
<1> DEFINE secrets == Started(party, version)
<1>1. held' = [held EXCEPT ![party] = secrets] /\ UNCHANGED <<setup, version, exchange>>
  BY DEF Restart
<1>2. version \in Nat \ {0} /\ version \in 1 .. version
  BY HeldType DEF ExchangeInv
<1>3. secrets \in {Unloaded} \cup {LoadedAt(v) : v \in 1 .. version}
  BY <1>2 DEF Started
<1>4. party = "receiver" => exchange.stage \notin {"accepted", "refused"}
  BY DEF Restart
<1>5. party = "receiver" /\ setup.receiver = "middleware" => secrets # Unloaded
  BY <1>2, LoadedIsNot DEF Started
<1> HIDE DEF secrets
<1> QED
  BY <1>1, <1>3, <1>4, <1>5, HoldSafe

LEMMA LoadSafe ==
  ASSUME ExchangeInv, NEW party \in Parties, Load(party)
  PROVE  ExchangeInv'
<1> DEFINE secrets == LoadedAt(version)
<1>1. held' = [held EXCEPT ![party] = secrets] /\ UNCHANGED <<setup, version, exchange>>
  BY DEF Load
<1>2. version \in Nat \ {0} /\ version \in 1 .. version
  BY HeldType DEF ExchangeInv
<1>3. secrets \in {Unloaded} \cup {LoadedAt(v) : v \in 1 .. version} /\ secrets # Unloaded
  BY <1>2, LoadedIsNot
<1>4. party = "receiver" => exchange.stage \notin {"accepted", "refused"}
  BY DEF Load, AwaitsSecrets
<1> HIDE DEF secrets
<1> QED
  BY <1>1, <1>3, <1>4, HoldSafe

LEMMA LoadFailsSafe ==
  ASSUME ExchangeInv, NEW party \in Parties, LoadFails(party)
  PROVE  ExchangeInv'
<1> DEFINE next == IF party = "sender" THEN "unsigned" ELSE "failed"
<1>1. /\ setup' = setup /\ version' = version /\ held' = held
      /\ exchange' = [exchange EXCEPT !.stage = next]
      /\ exchange.stage = (IF party = "sender" THEN "signing" ELSE "checking")
      /\ held[party] = Unloaded
  BY DEF LoadFails, AwaitsSecrets
<1>2. DOMAIN exchange = ExchangeFields
  BY DEF ExchangeInv, WellFormed
<1>3. /\ DOMAIN exchange' = ExchangeFields /\ exchange'.stage = next
      /\ exchange'.request = exchange.request /\ exchange'.received = exchange.received
      /\ exchange'.reply = exchange.reply /\ exchange'.handler = exchange.handler
  BY <1>1, <1>2 DEF ExchangeFields
<1>4. next = "unsigned" \/ (next = "failed" /\ setup.receiver # "middleware")
  BY <1>1 DEF ExchangeInv, WellFormed, Parties
<1>5. Rules("sender")' = Rules("sender")
  BY <1>1, <1>3, RequestFrame
<1>6. WellFormed'
  BY <1>1, <1>3, <1>4 DEF ExchangeInv, WellFormed, ExchangeTypeOK, AwaitsSecrets
<1>7. Built'
  BY <1>1, <1>3, <1>4, <1>5 DEF ExchangeInv, Built
<1>8. Unaltered' /\ Authentic' /\ Judged'
  BY <1>3, <1>4 DEF Unaltered, Authentic, UnderWay, Judged
<1>9. Answers'
  BY <1>1, <1>3, <1>4 DEF ExchangeInv, Answers, MiddlewareAnswersForItself
<1> QED
  BY <1>6, <1>7, <1>8, <1>9 DEF ExchangeInv

LEMMA ExchangeStepInv == ExchangeInv /\ [ExchangeNext]_exchangeVars => ExchangeInv'
<1> SUFFICES ASSUME ExchangeInv, [ExchangeNext]_exchangeVars PROVE ExchangeInv'
  OBVIOUS
<1>1. CASE UNCHANGED exchangeVars
  <2>1. setup' = setup /\ version' = version /\ held' = held /\ exchange' = exchange
    BY <1>1 DEF exchangeVars
  <2>2. version \in Nat
    BY HeldType DEF ExchangeInv
  <2>3. /\ Rules("sender")' = Rules("sender") /\ Rules("receiver")' = Rules("receiver")
        /\ ParsedBody(exchange.request.body)' = ParsedBody(exchange.request.body)
        /\ (Verdict' <=> Verdict) /\ (Faithful' <=> Faithful)
    BY <2>1, RequestFrame, VerdictFrame
  <2>4. Arrived => Arrived'
    BY <2>1, <2>2, ArrivedFrame
  <2>5. WellFormed'
    BY <2>1, <2>3 DEF ExchangeInv, WellFormed, ExchangeTypeOK, AwaitsSecrets
  <2>6. Built' /\ Judged'
    BY <2>1, <2>3 DEF ExchangeInv, Built, Judged
  <2>7. Unaltered'
    BY <2>1, <2>3, <2>4 DEF ExchangeInv, Unaltered
  <2>8. Authentic'
    BY <2>1, AuthenticFrame DEF ExchangeInv
  <2> QED
    BY <2>1, <2>5, <2>6, <2>7, <2>8, AnswersFrame DEF ExchangeInv
<1>2. CASE \E party \in Parties : Load(party) \/ LoadFails(party) \/ Restart(party)
  BY <1>2, LoadSafe, LoadFailsSafe, RestartSafe
<1>3. CASE Sign \/ Send \/ Alter \/ Receive \/ Verify
  BY <1>3, SignSafe, SendSafe, AlterSafe, ReceiveSafe, VerifySafe
<1>4. CASE HandlerReturns \/ HandlerThrows \/ Again \/ RotateUnderway
  BY <1>4, HandlerSafe, AgainSafe, UnderwaySafe
<1> QED
  BY <1>1, <1>2, <1>3, <1>4 DEF ExchangeNext

LEMMA ExchangeSpecInv == ExchangeSpec => []ExchangeInv
<1> QED
  BY ExchangeInitInv, ExchangeStepInv, PTL DEF ExchangeSpec

(* Every variable of the exchange holds values of its kind; a party's      *)
(* secrets are a list the provider has had, and no client asks for secrets *)
(* before it knows that it can build the message they are for.             *)
THEOREM ExchangeTypeCorrect == ExchangeSpec => []ExchangeTypeOK
<1>1. ExchangeInv => ExchangeTypeOK
  BY DEF ExchangeInv, WellFormed
<1> QED
  BY <1>1, ExchangeSpecInv, PTL

(* The middleware of requireHmacSignature answers for what it refuses or   *)
(* cannot read, and never for what the handler behind next() throws.       *)
THEOREM AnswersForItself == ExchangeSpec => []MiddlewareAnswersForItself
<1>1. ExchangeInv => MiddlewareAnswersForItself
  BY DEF ExchangeInv, Answers
<1> QED
  BY <1>1, ExchangeSpecInv, PTL

LEMMA VerdictIsWindow == ExchangeInv => FaithfulAccepted
<1> DEFINE s == exchange.signedAt
           at == held["receiver"].at
           list == held["receiver"].secrets
<1> SUFFICES ASSUME ExchangeInv, exchange.stage \in {"accepted", "refused"},
                    ~exchange.altered, Faithful
             PROVE  exchange.stage = "accepted" <=> s <= at /\ at < s + Keep
  BY DEF FaithfulAccepted
<1>1. /\ Arrived /\ exchange.received.body = ParsedBody(exchange.request.body)
      /\ held["receiver"] # Unloaded /\ (exchange.stage = "accepted" <=> Verdict)
  BY DEF ExchangeInv, Unaltered, Judged
<1>2. setup \in Setups /\ exchange.request \in Requests /\ version \in Nat
  BY HeldType DEF ExchangeInv
<1>3. at \in 1 .. version /\ list = SecretsAt(at)
  BY <1>1, HeldType DEF ExchangeInv, Parties
<1>4. s \in 1 .. version /\ exchange.signature = Signature(signingSecret(SecretsAt(s)), Signed)
  BY <1>1 DEF Arrived
<1>5. s \in Nat \ {0} /\ at \in Nat \ {0}
  <2> HIDE DEF s, at
  <2> QED
    BY <1>2, <1>3, <1>4
<1> HIDE DEF s, at, list
<1>6. exchange.signature = Signature(s, Signed)
  BY <1>4, <1>5, StillHeld
<1>7. (\E i \in DOMAIN list : list[i] = s) <=> s <= at /\ at < s + Keep
  BY <1>3, <1>5, StillHeld
<1>8. ASSUME NEW message
      PROVE  Signs(message) <=> message = Signed /\ \E i \in DOMAIN list : list[i] = s
  <2>1. Signs(message) <=> \E i \in DOMAIN list : Signature(s, Signed) = Signature(list[i], message)
    BY <1>6 DEF Signs, list
  <2>2. \A i \in DOMAIN list :
          Signature(s, Signed) = Signature(list[i], message) <=> list[i] = s /\ message = Signed
    BY DEF Signature
  <2> QED
    BY <2>1, <2>2
<1>9. Verdict <=> \E i \in DOMAIN list : list[i] = s
  <2>1. Verdict => \E i \in DOMAIN list : list[i] = s
    BY <1>8 DEF Verdict, LegacyAccepts
  <2>2. setup.scheme \in {"client", "legacy"}
    BY <1>2 DEF Setups
  <2>3. setup.scheme = "client" => buildHmacMessage(exchange.received, Rules("receiver")) = Signed
    BY <1>1, <1>2, SameMessage
  <2>4. setup.scheme = "legacy" =>
          /\ legacyMessage(exchange.received) = Signed
          /\ setup.receiver = "middleware" /\ exchange.received.method \in {"GET", "POST"}
    BY <1>1, <1>2, SameMessage
  <2>5. (\E i \in DOMAIN list : list[i] = s) => Verdict
    BY <1>8, <2>2, <2>3, <2>4 DEF Verdict, LegacyAccepts
  <2> QED
    BY <2>1, <2>5
<1> QED
  BY <1>1, <1>7, <1>9 DEF s, at

(* A request that nothing on the way changed is accepted just when the     *)
(* secret that signed it is in the receiver's list, be that older or newer *)
(* than the sender's: whatever the requests, the rules the clients agree   *)
(* on, the number of secrets kept and of rotations.                        *)
THEOREM AcceptedInTheWindow == ExchangeSpec => []FaithfulAccepted
<1> QED
  BY ExchangeSpecInv, VerdictIsWindow, PTL

(* What AcceptedIsGenuine rests on: whatever is accepted, by a client or   *)
(* the middleware and in either scheme, the message computed of what       *)
(* arrived is the very one the sender signed, under a secret that is still *)
(* in the receiver's list.                                                 *)
AcceptedAsSigned ==
  exchange.stage = "accepted" =>
    /\ exchange.signature.secret \in ToSet(held["receiver"].secrets)
    /\ Signed \in {buildHmacMessage(exchange.received, Rules("receiver")),
                   legacyMessage(exchange.received)}

LEMMA WasSigned == ExchangeInv => AcceptedAsSigned
<1> SUFFICES ASSUME ExchangeInv, exchange.stage = "accepted"
             PROVE  /\ exchange.signature.secret \in ToSet(held["receiver"].secrets)
                    /\ Signed \in {buildHmacMessage(exchange.received, Rules("receiver")),
                                   legacyMessage(exchange.received)}
  BY DEF AcceptedAsSigned
<1> DEFINE list == held["receiver"].secrets
           canonical == buildHmacMessage(exchange.received, Rules("receiver"))
           legacy == legacyMessage(exchange.received)
<1>1. PICK message \in {canonical, legacy} : Signs(message)
  BY DEF ExchangeInv, Judged, Verdict, LegacyAccepts
<1>2. PICK i \in DOMAIN list : exchange.signature = Signature(list[i], message)
  BY <1>1 DEF Signs
<1>3. exchange.signature.secret = list[i] /\ exchange.signature.message = message
  BY <1>2 DEF Signature
<1>4. list[i] # 0
  <2>1. /\ held["receiver"] # Unloaded /\ version \in Nat
        /\ held["receiver"].at \in 1 .. version
        /\ list = SecretsAt(held["receiver"].at)
    BY HeldType DEF ExchangeInv, Judged, Parties
  <2>2. held["receiver"].at \in Nat \ {0}
    BY <2>1
  <2>3. validateHmacSecrets(list)
    BY <2>1, <2>2, SecretsAtType
  <2> QED
    BY <2>3 DEF validateHmacSecrets
<1>5. exchange.signature # NoSignature
  BY <1>3, <1>4 DEF NoSignature
<1>6. exchange.signature.message = Signed
  BY <1>5 DEF ExchangeInv, Authentic, UnderWay, Signature
<1>7. exchange.signature.secret \in ToSet(list)
  BY <1>3 DEF ToSet
<1> QED
  BY <1>1, <1>3, <1>6, <1>7

(* Every request that is accepted, altered on the way or not, was signed   *)
(* as it is read, canonically or as http_js once did.                      *)
THEOREM AcceptedWasSigned == ExchangeSpec => []AcceptedAsSigned
BY WasSigned, ExchangeSpecInv, PTL

-----------------------------------------------------------------------------
(* Where a message has but one reading, what was accepted is what was      *)
(* signed, part by part.                                                   *)
LEMMA SplitAlike ==
  ASSUME NEW A, NEW B, A \cap B = {},
         NEW x \in Seq(A), NEW y \in Seq(A), NEW u \in Seq(B), NEW v \in Seq(B),
         x \o u = y \o v
  PROVE  x = y /\ u = v
<1>1. /\ Len(x) \in Nat /\ Len(y) \in Nat /\ Len(u) \in Nat /\ Len(v) \in Nat
      /\ \A i \in 1 .. Len(x) : x[i] \in A
      /\ \A i \in 1 .. Len(y) : y[i] \in A
      /\ \A i \in 1 .. Len(u) : u[i] \in B
      /\ \A i \in 1 .. Len(v) : v[i] \in B
  OBVIOUS
<1>2. /\ Len(x \o u) = Len(x) + Len(u) /\ Len(y \o v) = Len(y) + Len(v)
      /\ \A i \in 1 .. Len(x) : (x \o u)[i] = x[i]
      /\ \A i \in 1 .. Len(y) : (y \o v)[i] = y[i]
      /\ \A i \in 1 .. Len(u) : (x \o u)[Len(x) + i] = u[i]
      /\ \A i \in 1 .. Len(v) : (y \o v)[Len(y) + i] = v[i]
  OBVIOUS
<1>3. Len(x) + Len(u) = Len(y) + Len(v)
  BY <1>2
<1>4. ~(Len(x) < Len(y))
  <2> SUFFICES ASSUME Len(x) < Len(y) PROVE FALSE
    OBVIOUS
  <2>1. 1 \in 1 .. Len(u) /\ Len(x) + 1 \in 1 .. Len(y)
    BY <1>1, <1>3
  <2>2. (x \o u)[Len(x) + 1] \in B /\ (y \o v)[Len(x) + 1] \in A
    BY <1>1, <1>2, <2>1
  <2> QED
    BY <2>2
<1>5. ~(Len(y) < Len(x))
  <2> SUFFICES ASSUME Len(y) < Len(x) PROVE FALSE
    OBVIOUS
  <2>1. 1 \in 1 .. Len(v) /\ Len(y) + 1 \in 1 .. Len(x)
    BY <1>1, <1>3
  <2>2. (y \o v)[Len(y) + 1] \in B /\ (x \o u)[Len(y) + 1] \in A
    BY <1>1, <1>2, <2>1
  <2> QED
    BY <2>2
<1>6. Len(x) = Len(y) /\ Len(u) = Len(v)
  BY <1>1, <1>3, <1>4, <1>5
<1>7. \A i \in 1 .. Len(x) : x[i] = y[i]
  BY <1>2, <1>6
<1>8. \A i \in 1 .. Len(u) : u[i] = v[i]
  BY <1>2, <1>6
<1> QED
  BY <1>6, <1>7, <1>8, SeqEqual

(* The same for four parts, over names the provers leave alone.            *)
Made(x, S) == x \in Seq(S)
Joined(a, b) == a \o b
Apart(A, B) == A \cap B = {}

LEMMA PairAlike ==
  ASSUME NEW A, NEW B, Apart(A, B),
         NEW x, NEW y, NEW u, NEW v, Made(x, A), Made(y, A), Made(u, B), Made(v, B),
         Joined(x, u) = Joined(y, v)
  PROVE  x = y /\ u = v
<1>1. x \in Seq(A) /\ y \in Seq(A) /\ u \in Seq(B) /\ v \in Seq(B)
  BY DEF Made
<1>2. A \cap B = {} /\ x \o u = y \o v
  BY DEF Apart, Joined
<1> QED
  BY <1>1, <1>2, SplitAlike, Zenon

LEMMA JoinedType ==
  ASSUME NEW A, NEW B, NEW C, A \cup B = C, NEW x, NEW y, Made(x, A), Made(y, B)
  PROVE  Made(Joined(x, y), C)
<1>1. x \in Seq(A) /\ y \in Seq(B) /\ A \subseteq C /\ B \subseteq C
  BY DEF Made
<1>2. x \in Seq(C) /\ y \in Seq(C)
  BY <1>1
<1>3. x \o y \in Seq(C)
  BY <1>2
<1> QED
  BY <1>3 DEF Made, Joined

Four(s, q, x, h) == Joined(Joined(Joined(s, q), x), h)
FourApart(A, B, C, D) ==
  /\ Apart(A, B) /\ Apart(A, C) /\ Apart(A, D)
  /\ Apart(B, C) /\ Apart(B, D) /\ Apart(C, D)
FourMade(s, q, x, h, A, B, C, D) == Made(s, A) /\ Made(q, B) /\ Made(x, C) /\ Made(h, D)

LEMMA FourAlike ==
  ASSUME NEW A, NEW B, NEW C, NEW D, FourApart(A, B, C, D),
         NEW s, NEW q, NEW x, NEW h, FourMade(s, q, x, h, A, B, C, D),
         NEW t, NEW r, NEW y, NEW g, FourMade(t, r, y, g, A, B, C, D),
         Four(s, q, x, h) = Four(t, r, y, g)
  PROVE  s = t /\ q = r /\ x = y
<1>1. PICK AB : AB = A \cup B
  OBVIOUS
<1>2. PICK ABC : ABC = AB \cup C
  OBVIOUS
<1>3. Apart(A, B) /\ Apart(AB, C) /\ Apart(ABC, D)
  BY <1>1, <1>2 DEF FourApart, Apart
<1>4. /\ Made(s, A) /\ Made(q, B) /\ Made(x, C) /\ Made(h, D)
      /\ Made(t, A) /\ Made(r, B) /\ Made(y, C) /\ Made(g, D)
  BY DEF FourMade
<1>5. Made(Joined(s, q), AB) /\ Made(Joined(t, r), AB)
  BY <1>1, <1>4, JoinedType
<1>6. Made(Joined(Joined(s, q), x), ABC) /\ Made(Joined(Joined(t, r), y), ABC)
  BY <1>2, <1>4, <1>5, JoinedType
<1>7. Joined(Joined(s, q), x) = Joined(Joined(t, r), y)
  <2>1. Joined(Joined(Joined(s, q), x), h) = Joined(Joined(Joined(t, r), y), g)
    BY DEF Four
  <2> QED
    BY <1>3, <1>4, <1>6, <2>1, PairAlike
<1>8. Joined(s, q) = Joined(t, r) /\ x = y
  BY <1>3, <1>4, <1>5, <1>7, PairAlike
<1>9. s = t /\ q = r
  BY <1>3, <1>4, <1>8, PairAlike
<1> QED
  BY <1>8, <1>9

LEMMA FewPieces ==
  ASSUME NEW S
  PROVE  <<>> \in Seq(S) /\ \A d \in S : <<d>> \in Seq(S)
  OBVIOUS

LEMMA TextType ==
  ASSUME NEW S, NEW d \in S \cup {""}
  PROVE  Text(d) \in Seq(S)
<1>1. CASE d = ""
  <2>1. Text(d) = <<>>
    BY <1>1 DEF Text, Only
  <2> QED
    BY <2>1, FewPieces
<1>2. CASE d # ""
  <2>1. Text(d) = <<d>>
    BY <1>2 DEF Text, Only
  <2>2. d \in S
    BY <1>2
  <2> QED
    BY <2>1, <2>2, FewPieces
<1> QED
  BY <1>1, <1>2

LEMMA TextAlike ==
  ASSUME NEW b, NEW c, Text(b) = Text(c)
  PROVE  b = c
<1>1. \A d : Text(d) = IF d = "" THEN <<>> ELSE <<d>>
  BY DEF Text, Only
<1>2. \A d : <<d>> # <<>> /\ <<d>>[1] = d
  OBVIOUS
<1> QED
  BY <1>1, <1>2

(* The pieces of a message: of its path, its parameters, its body, and     *)
(* its headers.                                                            *)
PathRecords == [kind : PathKinds, level : Nat]
ParamPieces == [key : ParamTexts, value : ParamTexts \cup {""}]
HeaderPieces == [name : STRING, value : HeaderTexts]

Told(x) ==
  /\ x.path \in PathRecords /\ x.params \in Seq(ParamPieces)
  /\ x.body \in BodyTexts \cup {""} /\ x.headers \in Seq(HeaderPieces)

HasParts(message, p, q, b) ==
  /\ PathText(p) \in Seq(PathTexts) /\ q \in Seq(ParamTexts) /\ b \in BodyTexts \cup {""}
  /\ \E h \in Seq(HeaderTexts) : message = ((PathText(p) \o q) \o Text(b)) \o h

LEMMA PartsAlike ==
  ASSUME PartsApart, NEW message,
         NEW p, NEW q, NEW b, NEW o, NEW r, NEW c,
         HasParts(message, p, q, b), HasParts(message, o, r, c)
  PROVE  PathText(p) = PathText(o) /\ q = r /\ b = c
<1>1. PICK h \in Seq(HeaderTexts) : message = ((PathText(p) \o q) \o Text(b)) \o h
  BY DEF HasParts
<1>2. PICK g \in Seq(HeaderTexts) : message = ((PathText(o) \o r) \o Text(c)) \o g
  BY DEF HasParts
<1>3. /\ PathText(p) \in Seq(PathTexts) /\ PathText(o) \in Seq(PathTexts)
      /\ q \in Seq(ParamTexts) /\ r \in Seq(ParamTexts)
      /\ Text(b) \in Seq(BodyTexts) /\ Text(c) \in Seq(BodyTexts)
  <2>1. b \in BodyTexts \cup {""} /\ c \in BodyTexts \cup {""}
    BY DEF HasParts
  <2> QED
    BY <2>1, TextType DEF HasParts
<1>4. ((PathText(p) \o q) \o Text(b)) \o h = ((PathText(o) \o r) \o Text(c)) \o g
  BY <1>1, <1>2
<1>5. FourApart(PathTexts, ParamTexts, BodyTexts, HeaderTexts)
  BY DEF PartsApart, FourApart, Apart
<1>6. /\ FourMade(PathText(p), q, Text(b), h, PathTexts, ParamTexts, BodyTexts, HeaderTexts)
      /\ FourMade(PathText(o), r, Text(c), g, PathTexts, ParamTexts, BodyTexts, HeaderTexts)
  BY <1>3 DEF FourMade, Made
<1>7. Four(PathText(p), q, Text(b), h) = Four(PathText(o), r, Text(c), g)
  BY <1>4 DEF Four, Joined
<1>8. PathText(p) = PathText(o) /\ q = r /\ Text(b) = Text(c)
  BY <1>5, <1>6, <1>7, FourAlike
<1>9. b = c
  BY <1>8, TextAlike
<1> QED
  BY <1>8, <1>9

-----------------------------------------------------------------------------
(* The parts of a message are made of the texts of their kinds.            *)
LEMMA FlattenPieces ==
  ASSUME NEW T, NEW n \in Nat, NEW s, s = [i \in 1 .. n |-> s[i]], \A i \in 1 .. n : s[i] \in Seq(T)
  PROVE  s \in Seq(Seq(T)) /\ FlattenSeq(s) \in Seq(T)
<1> DEFINE Q == Seq(T)
<1>1. \A i \in 1 .. n : s[i] \in Q
  OBVIOUS
<1> HIDE DEF Q
<1>2. s \in Seq(Q)
  BY <1>1
<1>3. s \in Seq(Seq(T))
  BY <1>2 DEF Q
<1> QED
  BY <1>3, FlattenType

LEMMA ValuesAmong ==
  ASSUME NEW V, NEW h \in Seq([name : STRING, value : V]), NEW n
  PROVE  headerValues(h, n) \in Seq(V)
<1> DEFINE p == [i \in DOMAIN h |-> Only(LowerCase[h[i].name] = n, <<h[i].value>>)]
           R == [name : STRING, value : V]
<1>1. \A i \in DOMAIN h : h[i].value \in V
  <2>1. \A w \in R : w.value \in V
    OBVIOUS
  <2>2. \A i \in DOMAIN h : h[i] \in R
    <3> HIDE DEF R
    <3>1. h \in Seq(R)
      BY DEF R
    <3> QED
      BY <3>1
  <2> QED
    BY <2>1, <2>2
<1>2. DOMAIN h = 1 .. Len(h) /\ Len(h) \in Nat
  OBVIOUS
<1>3. \A i \in 1 .. Len(h) : p[i] \in Seq(V)
  BY <1>1, <1>2, OnlyType
<1>4. p = [i \in 1 .. Len(h) |-> p[i]]
  BY <1>2
<1>5. headerValues(h, n) = FlattenSeq(p)
  BY DEF headerValues
<1> HIDE DEF p
<1> QED
  BY <1>2, <1>3, <1>4, <1>5, FlattenPieces

LEMMA WireType ==
  ASSUME NEW h \in Seq(HeaderPieces)
  PROVE  WireHeaders(h) \in Seq(HeaderPieces)
<1> DEFINE v(n) == headerValues(h, n)
           e(n) == Only(v(n) # <<>>, <<WireHeader(n, v(n))>>)
           p == [i \in DOMAIN HeaderOrder |-> e(HeaderOrder[i])]
<1>1. /\ Len(HeaderOrder) \in Nat /\ DOMAIN HeaderOrder = 1 .. Len(HeaderOrder)
      /\ \A i \in 1 .. Len(HeaderOrder) : HeaderOrder[i] \in STRING
  BY OrderAssumption
<1>2. ASSUME NEW n \in STRING PROVE e(n) \in Seq(HeaderPieces)
  <2>1. v(n) \in Seq(HeaderTexts)
    BY ValuesAmong DEF HeaderPieces
  <2> HIDE DEF v
  <2>2. "merged" \in HeaderTexts
    BY DEF HeaderTexts
  <2>3. Len(v(n)) = 1 => v(n)[1] \in HeaderTexts
    BY <2>1, OneElement
  <2>4. WireHeader(n, v(n)) \in HeaderPieces
    BY <2>2, <2>3 DEF WireHeader, HeaderPieces
  <2> QED
    BY <2>4, OnlyType
<1>3. WireHeaders(h) = FlattenSeq(p)
  BY DEF WireHeaders
<1>4. /\ p = [i \in 1 .. Len(HeaderOrder) |-> p[i]]
      /\ \A i \in 1 .. Len(HeaderOrder) : p[i] = e(HeaderOrder[i])
  BY <1>1
<1> HIDE DEF p, e
<1> QED
  BY <1>1, <1>2, <1>3, <1>4, FlattenPieces

LEMMA FragmentType ==
  ASSUME NEW rules, NEW h \in Seq(HeaderPieces)
  PROVE  buildCustomHeadersFragment(rules, h) \in Seq(HeaderTexts)
<1> DEFINE names == normalizeCustomHeaderRules(rules)
           e(n) == <<n, ":">> \o headerValues(h, n)
           p == [i \in DOMAIN names |-> e(names[i])]
<1>1. names \in Seq(STRING) /\ \A n \in ToSet(names) : n \in ToSet(HeaderOrder)
  BY NormalizedNames
<1>2. buildCustomHeadersFragment(rules, h) = FlattenSeq(p)
  BY DEF buildCustomHeadersFragment
<1> HIDE DEF names
<1>3. Len(names) \in Nat /\ DOMAIN names = 1 .. Len(names)
  BY <1>1
<1>4. \A i \in 1 .. Len(names) : names[i] \in HeaderTexts
  <2>1. \A i \in 1 .. Len(names) : names[i] \in ToSet(names)
    BY <1>3 DEF ToSet
  <2>2. ToSet(HeaderOrder) \subseteq HeaderTexts
    BY DEF HeaderTexts
  <2> QED
    BY <1>1, <2>1, <2>2
<1>5. ASSUME NEW n \in HeaderTexts PROVE e(n) \in Seq(HeaderTexts)
  <2>1. ":" \in HeaderTexts
    BY DEF HeaderTexts
  <2>2. <<n, ":">> \in Seq(HeaderTexts)
    BY <2>1
  <2>3. headerValues(h, n) \in Seq(HeaderTexts)
    BY ValuesAmong DEF HeaderPieces
  <2> QED
    BY <2>2, <2>3
<1>6. p = [i \in 1 .. Len(names) |-> p[i]] /\ \A i \in 1 .. Len(names) : p[i] = e(names[i])
  BY <1>3
<1> HIDE DEF p, e
<1> QED
  BY <1>2, <1>3, <1>4, <1>5, <1>6, FlattenPieces

(* The parameters as they are signed are texts of parameters, and the keys *)
(* the order has are among them.                                           *)
LEMMA SortedParts ==
  ASSUME NEW entries, entries \subseteq ParamPieces,
         NEW order \in {KeyOrder, LocaleOrder}
  PROVE  /\ SortedEntries(entries, order) \in Seq(ParamTexts)
         /\ \A p \in entries : p.key \in ToSet(order)
              => p.key \in ToSet(SortedEntries(entries, order))
<1> DEFINE keys == {p.key : p \in entries}
           value(k) == (CHOOSE p \in entries : p.key = k).value
           e(k) == Only(k \in keys, <<k>> \o Text(value(k)))
           s == [i \in DOMAIN order |-> e(order[i])]
<1>1. Len(order) \in Nat /\ DOMAIN order = 1 .. Len(order)
  BY OrderAssumption
<1>2. SortedEntries(entries, order) = FlattenSeq(s)
  BY DEF SortedEntries
<1>3. \A k \in keys : k \in ParamTexts /\ value(k) \in ParamTexts \cup {""}
  <2>1. \A p \in entries : p.key \in ParamTexts /\ p.value \in ParamTexts \cup {""}
    BY DEF ParamPieces
  <2>2. \A k \in keys : \E p \in entries : p.key = k
    OBVIOUS
  <2>3. \A k \in keys : (CHOOSE p \in entries : p.key = k) \in entries
    BY <2>2
  <2>4. \A k \in keys : value(k) \in ParamTexts \cup {""}
    BY <2>1, <2>3
  <2>5. \A k \in keys : k \in ParamTexts
    BY <2>1, <2>2
  <2> QED
    BY <2>4, <2>5
<1>4. \A p \in entries : p.key \in keys
  OBVIOUS
<1> HIDE DEF keys, value
<1>5. ASSUME NEW k
      PROVE  e(k) \in Seq(ParamTexts) /\ (k \in keys => k \in ToSet(e(k)))
  <2>1. CASE k \notin keys
    <3>1. e(k) = <<>>
      BY <2>1 DEF Only
    <3> QED
      BY <2>1, <3>1, FewPieces
  <2>2. CASE k \in keys
    <3>1. <<k>> \in Seq(ParamTexts) /\ Text(value(k)) \in Seq(ParamTexts)
      BY <1>3, <2>2, FewPieces, TextType
    <3>2. e(k) = <<k>> \o Text(value(k))
      BY <2>2 DEF Only
    <3> DEFINE t == Text(value(k))
    <3> HIDE DEF t
    <3>3. <<k>> \o t \in Seq(ParamTexts)
      BY <3>1 DEF t
    <3>4. ToSet(<<k>> \o t) = ToSet(<<k>>) \cup ToSet(t)
      BY <3>1, MembersOfConcat DEF t
    <3>5. k \in ToSet(<<k>>)
      BY DEF ToSet
    <3> QED
      BY <3>2, <3>3, <3>4, <3>5 DEF t
  <2> QED
    BY <2>1, <2>2
<1>6. s = [i \in 1 .. Len(order) |-> s[i]] /\ \A i \in 1 .. Len(order) : s[i] = e(order[i])
  BY <1>1
<1> HIDE DEF s, e
<1>7. s \in Seq(Seq(ParamTexts)) /\ FlattenSeq(s) \in Seq(ParamTexts)
  BY <1>1, <1>5, <1>6, FlattenPieces
<1>8. ASSUME NEW p \in entries, p.key \in ToSet(order) PROVE p.key \in ToSet(FlattenSeq(s))
  <2>1. PICK i \in 1 .. Len(order) : order[i] = p.key
    BY <1>1, <1>8 DEF ToSet
  <2>2. p.key \in ToSet(s[i])
    BY <1>4, <1>5, <1>6, <2>1
  <2>3. i \in DOMAIN s
    BY <1>6
  <2> QED
    BY <1>7, <2>2, <2>3, FlattenMembers
<1> QED
  BY <1>2, <1>7, <1>8

LEMMA NothingSorted ==
  ASSUME NEW order
  PROVE  order \in {KeyOrder, LocaleOrder} => buildSortedParams(<<>>, order) = <<>>
<1> SUFFICES ASSUME order \in {KeyOrder, LocaleOrder} PROVE buildSortedParams(<<>>, order) = <<>>
  OBVIOUS
<1> DEFINE q == buildSortedParams(<<>>, order)
           s == [i \in DOMAIN order |-> <<>>]
<1>1. Len(order) \in Nat /\ DOMAIN order = 1 .. Len(order)
  BY OrderAssumption
<1>2. ToSet(<<>>) = {}
  BY DEF ToSet
<1>3. q = FlattenSeq(s)
  BY <1>2 DEF buildSortedParams, SortedEntries, Only
<1>4. s = [i \in 1 .. Len(order) |-> s[i]] /\ \A i \in 1 .. Len(order) : s[i] = <<>>
  BY <1>1
<1> HIDE DEF q, s
<1>5. FlattenSeq(s) \in Seq({})
  BY <1>1, <1>4, FewPieces, FlattenPieces
<1> QED
  BY <1>3, <1>5 DEF q

(* A path's text has a "%" for each time the path was encoded.             *)
LEMMA PathPieces ==
  ASSUME NEW p \in PathRecords
  PROVE  /\ PathText(p) \in Seq(PathTexts)
         /\ pathname(p) \in PathRecords
         /\ encodeHmacPath(p) \in PathRecords /\ encodeLegacyPath(p) \in PathRecords
<1>1. ASSUME NEW o \in PathRecords, NEW unsafe PROVE Encode(o, unsafe) \in PathRecords
  BY DEF Encode, PathRecords
<1>2. pathname(p) \in PathRecords
  BY DEF pathname, Path, PathRecords, PathKinds
<1>3. PathText(p) \in Seq(PathTexts)
  <2>1. p.level \in Nat /\ p.kind \in PathTexts /\ "%" \in PathTexts
    BY DEF PathRecords, PathTexts
  <2>2. [i \in 1 .. p.level |-> "%"] \in Seq(PathTexts) /\ <<p.kind>> \in Seq(PathTexts)
    BY <2>1
  <2> DEFINE a == [i \in 1 .. p.level |-> "%"]
             b == <<p.kind>>
  <2>3. PathText(p) \in {<<>>, a \o b}
    BY DEF PathText
  <2>4. a \in Seq(PathTexts) /\ b \in Seq(PathTexts)
    BY <2>2
  <2> HIDE DEF a, b
  <2>5. a \o b \in Seq(PathTexts)
    BY <2>4
  <2> QED
    BY <2>3, <2>5, FewPieces
<1> QED
  BY <1>1, <1>2, <1>3 DEF encodeHmacPath, encodeLegacyPath

Other == Path("other", 0)

LEMMA OtherAlone ==
  ASSUME NEW p \in PathRecords
  PROVE  /\ PathText(p) = PathText(Other) => p = Other
         /\ \A unsafe : Encode(p, unsafe) = Other => p = Other
         /\ pathname(Other) = Other
         /\ encodeHmacPath(Other) = Other /\ encodeLegacyPath(Other) = Other
<1>1. p = [kind |-> p.kind, level |-> p.level] /\ p.level \in Nat /\ p.kind \in PathKinds
  BY DEF PathRecords
<1>2. PathText(Other) = <<"other">>
  <2>1. [i \in 1 .. 0 |-> "%"] = <<>>
    OBVIOUS
  <2>2. <<>> \o <<"other">> = <<"other">>
    OBVIOUS
  <2> QED
    BY <2>1, <2>2 DEF PathText, Other, Path
<1>3. ASSUME PathText(p) = <<"other">> PROVE p = Other
  <2>1. p.kind # "none"
    BY <1>3 DEF PathText
  <2> DEFINE a == [i \in 1 .. p.level |-> "%"]
  <2>2. a \o <<p.kind>> = <<"other">>
    BY <1>3, <2>1 DEF PathText
  <2>3. a \in Seq({"%"}) /\ Len(a) = p.level
    BY <1>1
  <2> HIDE DEF a
  <2>4. Len(a \o <<p.kind>>) = p.level + 1 /\ (a \o <<p.kind>>)[p.level + 1] = p.kind
    BY <1>1, <2>3
  <2>5. p.level = 0 /\ p.kind = "other"
    <3>1. Len(<<"other">>) = 1 /\ <<"other">>[1] = "other"
      OBVIOUS
    <3>2. p.level + 1 = 1
      BY <2>2, <2>4, <3>1
    <3>3. p.level = 0
      BY <1>1, <3>2
    <3> QED
      BY <2>2, <2>4, <3>1, <3>2, <3>3
  <2> QED
    BY <1>1, <2>5 DEF Other, Path
<1>4. ASSUME NEW unsafe, Encode(p, unsafe) = Other PROVE p = Other
  <2>1. Encode(p, unsafe).level = 0
    BY <1>4 DEF Other, Path
  <2> QED
    BY <1>1, <1>4, <2>1 DEF Encode
<1>5. pathname(Other) = Other
  BY DEF pathname, Other, Path
<1>6. encodeHmacPath(Other) = Other /\ encodeLegacyPath(Other) = Other
  BY <1>5 DEF encodeHmacPath, encodeLegacyPath, Encode, Other, Path
<1> QED
  BY <1>2, <1>3, <1>4, <1>5, <1>6

(* A message has the parts of the request it is built from, and no other   *)
(* request's that differ.                                                  *)
PartsOf(message, x) ==
  \E order \in {KeyOrder, LocaleOrder}, p \in {encodeHmacPath(x.path), encodeLegacyPath(x.path)} :
    HasParts(message, p, buildSortedParams(x.params, order), normalizeBody(x.method, x.body))

LEMMA ToldParts ==
  ASSUME NEW x, Told(x)
  PROVE  /\ \A p \in {encodeHmacPath(x.path), encodeLegacyPath(x.path)} :
              p \in PathRecords /\ PathText(p) \in Seq(PathTexts)
         /\ \A order \in {KeyOrder, LocaleOrder} :
              buildSortedParams(x.params, order) \in Seq(ParamTexts)
         /\ normalizeBody(x.method, x.body) \in BodyTexts \cup {""}
<1>1. x.path \in PathRecords /\ x.params \in Seq(ParamPieces) /\ x.body \in BodyTexts \cup {""}
  BY DEF Told
<1>2. \A p \in {encodeHmacPath(x.path), encodeLegacyPath(x.path)} :
        p \in PathRecords /\ PathText(p) \in Seq(PathTexts)
  BY <1>1, PathPieces
<1>3. ToSet(x.params) \subseteq ParamPieces
  <2> DEFINE s == x.params
  <2>1. s \in Seq(ParamPieces)
    BY <1>1
  <2> HIDE DEF s
  <2>2. \A i \in DOMAIN s : s[i] \in ParamPieces
    BY <2>1
  <2>3. ToSet(s) \subseteq ParamPieces
    BY <2>2 DEF ToSet
  <2> QED
    BY <2>3 DEF s
<1>4. \A order \in {KeyOrder, LocaleOrder} : buildSortedParams(x.params, order) \in Seq(ParamTexts)
  BY <1>3, SortedParts DEF buildSortedParams
<1>5. normalizeBody(x.method, x.body) \in BodyTexts \cup {""}
  BY <1>1 DEF normalizeBody
<1> QED
  BY <1>2, <1>4, <1>5

LEMMA MessageParts ==
  ASSUME NEW x, Told(x), NEW rules
  PROVE  PartsOf(buildHmacMessage(x, rules), x) /\ PartsOf(legacyMessage(x), x)
<1> DEFINE h == buildCustomHeadersFragment(rules, x.headers)
           b == normalizeBody(x.method, x.body)
           p == encodeHmacPath(x.path)
           o == encodeLegacyPath(x.path)
           q == buildSortedParams(x.params, KeyOrder)
           r == buildSortedParams(x.params, LocaleOrder)
<1>1. h \in Seq(HeaderTexts)
  BY FragmentType DEF Told
<1>2. /\ PathText(o) \in Seq(PathTexts) /\ r \in Seq(ParamTexts) /\ Text(b) \in Seq(BodyTexts)
  BY ToldParts, TextType
<1>3. /\ buildHmacMessage(x, rules) = ((PathText(p) \o q) \o Text(b)) \o h
      /\ legacyMessage(x) = (PathText(o) \o r) \o Text(b)
  BY DEF buildHmacMessage, legacyMessage
<1> DEFINE m == legacyMessage(x)
           All == PathTexts \cup ParamTexts \cup BodyTexts
<1>4. m = m \o <<>>
  <2> HIDE DEF p, q, h, o, r, b
  <2> DEFINE s == PathText(o)
             t == Text(b)
  <2>1. s \in Seq(All) /\ r \in Seq(All) /\ t \in Seq(All)
    BY <1>2
  <2> HIDE DEF s, t, All
  <2>2. (s \o r) \o t \in Seq(All)
    BY <2>1
  <2>3. m = (s \o r) \o t
    BY <1>3 DEF s, t
  <2> HIDE DEF m
  <2>4. m \in Seq(All)
    BY <2>2, <2>3
  <2> QED
    BY <2>4
<1>5. <<>> \in Seq(HeaderTexts)
  BY FewPieces
<1>6. /\ PathText(p) \in Seq(PathTexts) /\ PathText(o) \in Seq(PathTexts)
      /\ q \in Seq(ParamTexts) /\ r \in Seq(ParamTexts) /\ b \in BodyTexts \cup {""}
  BY ToldParts
<1> HIDE DEF h, b, p, o, q, r, m
<1>7. HasParts(buildHmacMessage(x, rules), p, q, b)
  BY <1>1, <1>3, <1>6, Zenon DEF HasParts
<1>8. HasParts(m, o, r, b)
  <2>1. m = ((PathText(o) \o r) \o Text(b)) \o <<>>
    BY <1>3, <1>4 DEF m
  <2> QED
    BY <1>5, <1>6, <2>1, Zenon DEF HasParts
<1> QED
  BY <1>7, <1>8 DEF PartsOf, h, b, p, o, q, r, m

LEMMA OneReading ==
  ASSUME PartsApart, NEW message, NEW x, NEW y, Told(x), Told(y),
         PartsOf(message, x), PartsOf(message, y)
  PROVE  /\ \E p \in {encodeHmacPath(x.path), encodeLegacyPath(x.path)},
               o \in {encodeHmacPath(y.path), encodeLegacyPath(y.path)} : PathText(p) = PathText(o)
         /\ \E k, l \in {KeyOrder, LocaleOrder} :
              buildSortedParams(x.params, k) = buildSortedParams(y.params, l)
         /\ normalizeBody(x.method, x.body) = normalizeBody(y.method, y.body)
<1> DEFINE b == normalizeBody(x.method, x.body)
           c == normalizeBody(y.method, y.body)
<1>1. PICK k \in {KeyOrder, LocaleOrder}, p \in {encodeHmacPath(x.path), encodeLegacyPath(x.path)} :
        HasParts(message, p, buildSortedParams(x.params, k), b)
  BY DEF PartsOf
<1>2. PICK l \in {KeyOrder, LocaleOrder}, o \in {encodeHmacPath(y.path), encodeLegacyPath(y.path)} :
        HasParts(message, o, buildSortedParams(y.params, l), c)
  BY DEF PartsOf
<1> DEFINE q == buildSortedParams(x.params, k)
           r == buildSortedParams(y.params, l)
<1>3. HasParts(message, p, q, b) /\ HasParts(message, o, r, c)
  BY <1>1, <1>2
<1> HIDE DEF q, r, b, c
<1>4. PathText(p) = PathText(o) /\ q = r /\ b = c
  BY <1>3, PartsAlike
<1> QED
  BY <1>4 DEF q, r, b, c

-----------------------------------------------------------------------------
(* What the receiver reads is what the sender sent, but for one part.      *)
Carried ==
  LET r == exchange.request
      g == exchange.received
  IN  /\ exchange.stage \in UnderWay =>
           /\ g.method \in {r.method} \cup Supported
           /\ g.path \in {pathname(r.path), Other}
           /\ g.params \in {WireParams(r.params), Reverse(WireParams(r.params)), <<>>}
           /\ g.body \in {r.body, "changed", "json", "{}"}
           /\ g.headers \in {WireHeaders(r.headers), <<>>}
      /\ exchange.stage \in {"checking", "accepted"} /\ setup.receiver = "client"
           => Buildable(g, Rules("receiver"))

LEMMA RequestTold ==
  ASSUME NEW r \in Requests
  PROVE  Told(r) /\ \A p \in ToSet(r.params) : p \in Params
<1>1. /\ r.path \in PathRecords /\ r.body \in STRING
      /\ r.params \in Seq([key : STRING, value : STRING])
      /\ r.headers \in Seq([name : STRING, value : STRING])
  BY RequestsAssumption DEF RequestRecords, PathRecords
<1>2. r.body \in BodyTexts \cup {""}
  BY DEF BodyTexts
<1>3. \A p \in ToSet(r.params) : p \in Params
  BY DEF Params
<1>4. r.params \in Seq(ParamPieces)
  <2> DEFINE s == r.params
             R == [key : STRING, value : STRING]
  <2>1. s \in Seq(R)
    BY <1>1
  <2>2. \A p \in R : p \in Params => p \in ParamPieces
    BY DEF ParamPieces, ParamTexts
  <2>3. \A i \in DOMAIN s : s[i] \in Params
    BY <1>3 DEF ToSet
  <2> HIDE DEF s, R
  <2>4. \A i \in DOMAIN s : s[i] \in ParamPieces
    BY <2>1, <2>2, <2>3
  <2>5. s \in Seq(ParamPieces)
    BY <2>1, <2>4
  <2> QED
    BY <2>5 DEF s
<1>5. r.headers \in Seq(HeaderPieces)
  <2> DEFINE s == r.headers
             R == [name : STRING, value : STRING]
  <2>1. s \in Seq(R)
    BY <1>1
  <2>2. \A p \in ToSet(s) : p.value \in HeaderTexts
    BY DEF HeaderTexts
  <2>3. \A p \in R : p.value \in HeaderTexts => p \in HeaderPieces
    BY DEF HeaderPieces
  <2>4. \A i \in DOMAIN s : s[i] \in ToSet(s)
    BY DEF ToSet
  <2> HIDE DEF s, R
  <2>5. \A i \in DOMAIN s : s[i] \in HeaderPieces
    BY <2>1, <2>2, <2>3, <2>4
  <2>6. s \in Seq(HeaderPieces)
    BY <2>1, <2>5
  <2> QED
    BY <2>6 DEF s
<1> QED
  BY <1>1, <1>2, <1>3, <1>4, <1>5 DEF Told

LEMMA WireParamsType ==
  ASSUME NEW s \in Seq(ParamPieces)
  PROVE  /\ WireParams(s) \in Seq(ParamPieces) /\ Reverse(WireParams(s)) \in Seq(ParamPieces)
         /\ s = <<>> => WireParams(s) = <<>>
<1> DEFINE w == WireParams(s)
           e(p) == [p EXCEPT !.value = IF @ = "null" THEN "" ELSE @]
<1>1. Len(s) \in Nat /\ DOMAIN s = 1 .. Len(s) /\ \A i \in 1 .. Len(s) : s[i] \in ParamPieces
  OBVIOUS
<1>2. \A p \in ParamPieces : e(p) \in ParamPieces
  BY DEF ParamPieces
<1>3. w = [i \in 1 .. Len(s) |-> e(s[i])]
  BY <1>1 DEF WireParams
<1> HIDE DEF w, e
<1>4. w \in Seq(ParamPieces) /\ Len(w) = Len(s)
  BY <1>1, <1>2, <1>3
<1>5. Reverse(w) \in Seq(ParamPieces)
  BY <1>4 DEF Reverse
<1>6. s = <<>> => w = <<>>
  BY <1>4
<1> QED
  BY <1>4, <1>5, <1>6 DEF w

LEMMA ReceivedTold ==
  ASSUME exchange.request \in Requests, Carried, exchange.stage \in UnderWay
  PROVE  Told(exchange.received)
<1> DEFINE r == exchange.request
           g == exchange.received
<1>1. Told(r)
  BY RequestTold
<1>2. r.path \in PathRecords /\ r.params \in Seq(ParamPieces) /\ r.headers \in Seq(HeaderPieces)
  BY <1>1 DEF Told
<1>3. g.path \in PathRecords
  <2>1. Other \in PathRecords
    BY DEF Other, Path, PathRecords, PathKinds
  <2> QED
    BY <1>2, <2>1, PathPieces DEF Carried
<1>4. g.params \in Seq(ParamPieces)
  BY <1>2, WireParamsType, FewPieces DEF Carried
<1>5. g.body \in BodyTexts \cup {""}
  <2>1. r.body \in BodyTexts \cup {""}
    BY <1>1 DEF Told
  <2>2. {"changed", "json", "{}"} \subseteq BodyTexts
    BY DEF BodyTexts
  <2> QED
    BY <2>1, <2>2 DEF Carried
<1>6. g.headers \in Seq(HeaderPieces)
  BY <1>2, WireType, FewPieces DEF Carried
<1> QED
  BY <1>3, <1>4, <1>5, <1>6 DEF Told

LEMMA CarriedElsewhere == ASSUME exchange'.stage \notin UnderWay PROVE Carried'
BY DEF Carried, UnderWay

LEMMA CarriedFrame ==
  ASSUME Carried, setup' = setup,
         exchange'.request = exchange.request, exchange'.received = exchange.received,
         \/ exchange'.stage = exchange.stage
         \/ exchange.stage = "checking" /\ exchange'.stage = "accepted"
  PROVE  Carried'
<1>1. Rules("receiver")' = Rules("receiver")
  BY RequestFrame
<1>2. /\ exchange'.stage \in UnderWay => exchange.stage \in UnderWay
      /\ exchange'.stage \in {"checking", "accepted"} => exchange.stage \in {"checking", "accepted"}
  BY DEF UnderWay
<1> QED
  BY <1>1, <1>2 DEF Carried

LEMMA CarriedSent == ASSUME ExchangeInv, Send PROVE Carried'
<1> DEFINE r == exchange.request
           wire == OverHttp(r)
           message == IF setup.scheme = "legacy" THEN legacyMessage(r)
                      ELSE buildHmacMessage(r, Rules("sender"))
           signature == Signature(signingSecret(held["sender"].secrets), message)
<1>1. PICK params \in {wire.params, Reverse(wire.params)} :
        exchange' = [exchange EXCEPT
          !.stage = "sent", !.signedAt = held["sender"].at, !.signature = signature,
          !.received = [wire EXCEPT !.params = params]]
  BY DEF Send
<1>2. DOMAIN r = MessageFields
  <2>1. r \in RequestRecords
    BY HeldType, RequestsAssumption DEF ExchangeInv
  <2> QED
    BY <2>1 DEF RequestRecords, MessageFields
<1> HIDE DEF r, signature
<1>3. /\ DOMAIN wire = MessageFields /\ wire.method = r.method /\ wire.body = r.body
      /\ wire.path = pathname(r.path) /\ wire.params = WireParams(r.params)
      /\ wire.headers = WireHeaders(r.headers)
  BY <1>2 DEF OverHttp, MessageFields
<1> HIDE DEF wire
<1>4. /\ exchange'.stage = "sent" /\ exchange'.request = r
      /\ exchange'.received = [wire EXCEPT !.params = params]
  BY <1>1 DEF ExchangeInv, WellFormed, ExchangeFields, r
<1>5. /\ exchange'.received.method = r.method /\ exchange'.received.body = r.body
      /\ exchange'.received.path = pathname(r.path)
      /\ exchange'.received.params \in {WireParams(r.params), Reverse(WireParams(r.params))}
      /\ exchange'.received.headers = WireHeaders(r.headers)
  BY <1>1, <1>3, <1>4 DEF MessageFields
<1> QED
  BY <1>4, <1>5 DEF Carried

LEMMA CarriedAltered == ASSUME ExchangeInv, Carried, Alter PROVE Carried'
<1>1. PICK changed \in {[exchange EXCEPT !.received.method = m] : m \in Supported}
                         \cup {[exchange EXCEPT !.received.path = Path("other", 0)],
                               [exchange EXCEPT !.received.params = <<>>],
                               [exchange EXCEPT !.received.body = "changed"],
                               [exchange EXCEPT !.received.headers = <<>>],
                               [exchange EXCEPT !.signature = NoSignature]} :
        exchange' = [changed EXCEPT !.altered = TRUE]
  BY DEF Alter
<1>2. exchange.stage = "sent"
  BY DEF Alter
<1>3. DOMAIN exchange = ExchangeFields /\ DOMAIN exchange.received = MessageFields
  BY DEF ExchangeInv, WellFormed
<1> DEFINE g == exchange.received
           c == changed.received
<1>4. /\ DOMAIN changed = ExchangeFields /\ changed.stage = "sent"
      /\ changed.request = exchange.request
      /\ c.method \in {g.method} \cup Supported
      /\ c.path \in {g.path, Other} /\ c.params \in {g.params, <<>>}
      /\ c.body \in {g.body, "changed"} /\ c.headers \in {g.headers, <<>>}
  BY <1>2, <1>3 DEF ExchangeFields, MessageFields, Other
<1>5. /\ exchange'.stage = "sent" /\ exchange'.request = exchange.request
      /\ exchange'.received = changed.received
  BY <1>1, <1>4 DEF ExchangeFields
<1>6. exchange.stage \in UnderWay
  BY <1>2 DEF UnderWay
<1> QED
  BY <1>4, <1>5, <1>6 DEF Carried

LEMMA CarriedReceived == ASSUME ExchangeInv, Carried, Receive PROVE Carried'
<1>1. exchange.stage = "sent" /\ setup' = setup
  BY DEF Receive
<1>2. DOMAIN exchange = ExchangeFields /\ DOMAIN exchange.received = MessageFields
  BY DEF ExchangeInv, WellFormed
<1>3. CASE exchange' = [exchange EXCEPT !.stage = "refused",
                         !.reply = IF setup.receiver = "middleware" THEN "401" ELSE "none"]
  <2>1. exchange'.stage = "refused"
    BY <1>2, <1>3 DEF ExchangeFields
  <2> QED
    BY <2>1, CarriedElsewhere DEF UnderWay
<1>4. CASE exchange' = [exchange EXCEPT !.stage = "failed", !.reply = "next(error)"]
  <2>1. exchange'.stage = "failed"
    BY <1>2, <1>4 DEF ExchangeFields
  <2> QED
    BY <2>1, CarriedElsewhere DEF UnderWay
<1>5. CASE setup.receiver = "client" /\ Buildable(exchange.received, Rules("receiver"))
             /\ exchange' = [exchange EXCEPT !.stage = "checking"]
  <2>1. /\ exchange'.stage = "checking" /\ exchange'.request = exchange.request
        /\ exchange'.received = exchange.received
    BY <1>2, <1>5 DEF ExchangeFields
  <2>2. Rules("receiver")' = Rules("receiver")
    BY <1>1, <2>1, RequestFrame
  <2> QED
    BY <1>1, <1>5, <2>1, <2>2 DEF Carried, UnderWay
<1>6. CASE setup.receiver # "client"
             /\ exchange' = [exchange EXCEPT !.stage = "checking", !.received.body = ParsedBody(@)]
  <2>1. /\ exchange'.stage = "checking" /\ exchange'.request = exchange.request
        /\ exchange'.received = [exchange.received EXCEPT !.body = ParsedBody(@)]
    BY <1>2, <1>6 DEF ExchangeFields
  <2>2. ParsedBody(exchange.received.body) \in {exchange.received.body, "json", "{}"}
    BY DEF ParsedBody
  <2>3. /\ exchange'.received.method = exchange.received.method
        /\ exchange'.received.path = exchange.received.path
        /\ exchange'.received.params = exchange.received.params
        /\ exchange'.received.headers = exchange.received.headers
        /\ exchange'.received.body \in {exchange.received.body, "json", "{}"}
    BY <1>2, <2>1, <2>2 DEF MessageFields
  <2>4. exchange.stage \in UnderWay
    BY <1>1 DEF UnderWay
  <2> QED
    BY <1>1, <1>6, <2>1, <2>3, <2>4 DEF Carried
<1> QED
  BY <1>3, <1>4, <1>5, <1>6 DEF Receive, Refuse

LEMMA CarriedStep == ASSUME ExchangeInv, Carried, [ExchangeNext]_exchangeVars PROVE Carried'
<1>1. DOMAIN exchange = ExchangeFields
  BY DEF ExchangeInv, WellFormed
<1>2. CASE Sign
  <2>1. exchange'.stage \in {"unsigned", "signing"}
    BY <1>1, <1>2 DEF Sign, ExchangeFields
  <2> QED
    BY <2>1, CarriedElsewhere DEF UnderWay
<1>3. CASE Verify
  <2>1. setup' = setup /\ exchange.stage = "checking"
    BY <1>3 DEF Verify
  <2>2. \/ exchange' = [exchange EXCEPT !.stage = "accepted"]
        \/ Refuse
    BY <1>3 DEF Verify
  <2>3. CASE exchange' = [exchange EXCEPT !.stage = "accepted"]
    <3>1. /\ exchange'.stage = "accepted" /\ exchange'.request = exchange.request
          /\ exchange'.received = exchange.received
      BY <1>1, <2>3 DEF ExchangeFields
    <3> QED
      BY <2>1, <3>1, CarriedFrame
  <2>4. CASE Refuse
    <3>1. exchange'.stage = "refused"
      BY <1>1, <2>4 DEF Refuse, ExchangeFields
    <3> QED
      BY <3>1, CarriedElsewhere DEF UnderWay
  <2> QED
    BY <2>2, <2>3, <2>4
<1>4. CASE HandlerReturns \/ HandlerThrows
  <2>1. /\ setup' = setup /\ exchange'.request = exchange.request
        /\ exchange'.received = exchange.received /\ exchange'.stage = exchange.stage
    BY <1>1, <1>4 DEF HandlerReturns, HandlerThrows, ExchangeFields
  <2> QED
    BY <2>1, CarriedFrame
<1>5. CASE Again
  <2>1. PICK request \in Requests : exchange' = Idle(request)
    BY <1>5 DEF Again
  <2>2. exchange'.stage = "idle"
    BY <2>1 DEF Idle
  <2> QED
    BY <2>2, CarriedElsewhere DEF UnderWay
<1>6. CASE \E party \in Parties : LoadFails(party)
  <2>1. exchange'.stage \in {"unsigned", "failed"}
    BY <1>1, <1>6 DEF LoadFails, ExchangeFields
  <2> QED
    BY <2>1, CarriedElsewhere DEF UnderWay
<1>7. CASE setup' = setup /\ exchange' = exchange
  BY <1>7, CarriedFrame
<1>8. CASE \E party \in Parties : Load(party) \/ Restart(party)
  BY <1>7, <1>8 DEF Load, Restart
<1>9. CASE RotateUnderway \/ UNCHANGED exchangeVars
  BY <1>7, <1>9 DEF RotateUnderway, exchangeVars
<1> QED
  BY <1>2, <1>3, <1>4, <1>5, <1>6, <1>8, <1>9, CarriedSent, CarriedAltered, CarriedReceived
  DEF ExchangeNext

LEMMA SpecCarried == ExchangeSpec => []Carried
<1>1. ExchangeInit => Carried
  <2> SUFFICES ASSUME ExchangeInit PROVE Carried
    OBVIOUS
  <2>1. PICK request \in Requests : exchange = Idle(request)
    BY DEF ExchangeInit
  <2>2. exchange.stage = "idle"
    BY <2>1 DEF Idle
  <2> QED
    BY <2>2 DEF Carried, UnderWay
<1>2. ExchangeInv /\ Carried /\ [ExchangeNext]_exchangeVars => Carried'
  BY CarriedStep
<1> QED
  BY <1>1, <1>2, ExchangeSpecInv, PTL DEF ExchangeSpec

-----------------------------------------------------------------------------
(* Part by part: what is accepted is what was sent.                        *)
LEMMA PathGenuine ==
  ASSUME NEW r, r.path \in PathRecords, NEW path \in {pathname(r.path), Other},
         NEW p \in {encodeHmacPath(path), encodeLegacyPath(path)},
         NEW o \in {encodeHmacPath(r.path), encodeLegacyPath(r.path)},
         PathText(p) = PathText(o)
  PROVE  path = pathname(r.path)
<1> SUFFICES ASSUME path = Other PROVE pathname(r.path) = Other
  OBVIOUS
<1>1. /\ pathname(r.path) \in PathRecords /\ encodeHmacPath(r.path) \in PathRecords
      /\ encodeLegacyPath(r.path) \in PathRecords
  BY PathPieces
<1>2. p = Other
  BY OtherAlone
<1>3. o = Other
  BY <1>1, <1>2, OtherAlone
<1>4. r.path = Other => pathname(r.path) = Other
  BY OtherAlone
<1>5. CASE o = encodeHmacPath(r.path)
  <2>1. Encode(r.path, {"bang", "space"}) = Other
    BY <1>3, <1>5 DEF encodeHmacPath
  <2> QED
    BY <1>4, <2>1, OtherAlone
<1>6. CASE o = encodeLegacyPath(r.path)
  <2>1. Encode(pathname(r.path), {"colon", "space"}) = Other
    BY <1>3, <1>6 DEF encodeLegacyPath
  <2> QED
    BY <1>1, <2>1, OtherAlone
<1> QED
  BY <1>5, <1>6

LEMMA ParamsGenuine ==
  ASSUME PartsApart, NEW r \in Requests,
         NEW params \in {WireParams(r.params), Reverse(WireParams(r.params)), <<>>},
         NEW k \in {KeyOrder, LocaleOrder}, NEW l \in {KeyOrder, LocaleOrder},
         buildSortedParams(params, k) = buildSortedParams(r.params, l)
  PROVE  ToSet(params) = ToSet(WireParams(r.params))
<1> DEFINE s == r.params
           w == WireParams(s)
<1>1. s \in Seq(ParamPieces) /\ \A p \in ToSet(s) : p \in Params
  BY RequestTold DEF Told
<1>2. w \in Seq(ParamPieces) /\ (s = <<>> => w = <<>>)
  BY <1>1, WireParamsType
<1>3. CASE params \in {w, Reverse(w)}
  BY <1>2, <1>3, ParamsAlike
<1>4. CASE params = <<>>
  <2>1. buildSortedParams(s, l) = <<>>
    BY <1>4, NothingSorted
  <2> HIDE DEF s, w
  <2>2. ToSet(s) \subseteq ParamPieces
    <3>1. \A i \in DOMAIN s : s[i] \in ParamPieces
      BY <1>1
    <3> QED
      BY <3>1 DEF ToSet
  <2>3. ToSet(<<>>) = {}
    BY DEF ToSet
  <2>4. ASSUME NEW p \in ToSet(s) PROVE FALSE
    <3>1. p.key \in ToSet(l)
      BY <1>1 DEF PartsApart
    <3>2. p.key \in ToSet(SortedEntries(ToSet(s), l))
      BY <2>2, <3>1, SortedParts
    <3> QED
      BY <2>1, <2>3, <3>2 DEF buildSortedParams
  <2>5. DOMAIN s = {}
    BY <2>4 DEF ToSet
  <2>6. s = <<>>
    BY <1>1, <2>5
  <2> QED
    BY <1>2, <1>4, <2>6 DEF s, w
<1> QED
  BY <1>3, <1>4

LEMMA HeadersGenuine ==
  ASSUME ExchangeInv, Carried, exchange.stage = "accepted",
         NEW n \in ToSet(normalizeCustomHeaderRules(Rules("receiver")))
  PROVE  exchange.received.headers = WireHeaders(exchange.request.headers)
<1> DEFINE rules == Rules("receiver")
           headers == exchange.received.headers
<1>1. PICK j \in DOMAIN rules : LowerCase[rules[j]] = n
  BY NormalizedNames
<1>2. setup.receiver = "client"
  BY <1>1 DEF Rules
<1>3. headerValues(headers, n) # <<>>
  <2>1. headersAccepted(rules, headers)
    BY <1>2 DEF Carried, Buildable
  <2> QED
    BY <1>1, <2>1 DEF headersAccepted
<1>4. headers # <<>>
  BY <1>3, ValuesOfFew
<1> QED
  BY <1>4 DEF Carried, UnderWay

LEMMA AllGenuine == ASSUME PartsApart, ExchangeInv, Carried PROVE AcceptedIsGenuine
<1> DEFINE r == exchange.request
           g == exchange.received
           wire == OverHttp(r)
<1> SUFFICES ASSUME exchange.stage = "accepted"
             PROVE  /\ exchange.signature.secret \in ToSet(held["receiver"].secrets)
                    /\ g.path = wire.path /\ ToSet(g.params) = ToSet(wire.params)
                    /\ g.method # "GET" => g.body = r.body
                    /\ \A n \in ToSet(normalizeCustomHeaderRules(Rules("receiver"))) :
                         headerValues(g.headers, n) = headerValues(wire.headers, n)
  BY DEF AcceptedIsGenuine
<1>1. exchange.stage \in UnderWay /\ r \in Requests
  BY HeldType DEF UnderWay, ExchangeInv
<1>2. /\ g.body \in {r.body, "changed", "json", "{}"} /\ g.path \in {pathname(r.path), Other}
      /\ g.params \in {WireParams(r.params), Reverse(WireParams(r.params)), <<>>}
  BY <1>1 DEF Carried
<1>3. Told(r) /\ Told(g)
  BY <1>1, RequestTold, ReceivedTold
<1>4. /\ wire.path = pathname(r.path) /\ wire.params = WireParams(r.params)
      /\ wire.headers = WireHeaders(r.headers)
  <2>1. DOMAIN r = MessageFields
    BY <1>1, RequestsAssumption DEF RequestRecords, MessageFields
  <2> HIDE DEF r
  <2> QED
    BY <2>1 DEF OverHttp, MessageFields
<1>5. PartsOf(Signed, r) /\ PartsOf(Signed, g)
  <2>1. Signed \in {legacyMessage(r), buildHmacMessage(r, Rules("sender"))}
    BY DEF Signed
  <2>2. Signed \in {legacyMessage(g), buildHmacMessage(g, Rules("receiver"))}
    BY WasSigned DEF AcceptedAsSigned
  <2> QED
    BY <1>3, <2>1, <2>2, MessageParts
<1> HIDE DEF r, g, wire
<1>6. /\ \E p \in {encodeHmacPath(g.path), encodeLegacyPath(g.path)},
           o \in {encodeHmacPath(r.path), encodeLegacyPath(r.path)} : PathText(p) = PathText(o)
      /\ \E k, l \in {KeyOrder, LocaleOrder} :
           buildSortedParams(g.params, k) = buildSortedParams(r.params, l)
      /\ normalizeBody(g.method, g.body) = normalizeBody(r.method, r.body)
  BY <1>3, <1>5, OneReading
<1>7. exchange.signature.secret \in ToSet(held["receiver"].secrets)
  BY WasSigned DEF AcceptedAsSigned
<1>8. g.path = wire.path
  <2>1. r.path \in PathRecords
    BY <1>3 DEF Told
  <2> QED
    BY <1>2, <1>4, <1>6, <2>1, PathGenuine
<1>9. ToSet(g.params) = ToSet(wire.params)
  <2>1. PICK k, l \in {KeyOrder, LocaleOrder} :
          buildSortedParams(g.params, k) = buildSortedParams(r.params, l)
    BY <1>6
  <2>2. r \in Requests
    BY <1>1 DEF r
  <2> QED
    BY <1>2, <1>4, <2>1, <2>2, ParamsGenuine
<1>10. g.method # "GET" => g.body = r.body
  BY <1>2, <1>6 DEF normalizeBody
<1>11. \A n \in ToSet(normalizeCustomHeaderRules(Rules("receiver"))) :
         headerValues(g.headers, n) = headerValues(wire.headers, n)
  <2> TAKE n \in ToSet(normalizeCustomHeaderRules(Rules("receiver")))
  <2>1. g.headers = wire.headers
    BY <1>4, HeadersGenuine DEF g, r
  <2> QED
    BY <2>1
<1> QED
  BY <1>7, <1>8, <1>9, <1>10, <1>11

(* A part that was dropped or replaced on the way is noticed, whatever the *)
(* requests, the rules and the rotations, as long as the texts of a part   *)
(* are none of another's: nothing else in the message tells them apart.    *)
THEOREM Genuine ==
  ASSUME PartsApart
  PROVE  ExchangeSpec => []AcceptedIsGenuine
<1>1. ExchangeInv /\ Carried => AcceptedIsGenuine
  BY AllGenuine
<1> QED
  BY <1>1, ExchangeSpecInv, SpecCarried, PTL

=============================================================================
