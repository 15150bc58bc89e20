------------------------ MODULE RequestLoggerProofs -------------------------
(***************************************************************************)
(* Theorems about RequestLogger: its type invariant, one entry for each    *)
(* response, and that a finished entry says what the client was sent,      *)
(* unless the application touched the response in between.                 *)
(***************************************************************************)
EXTENDS RequestLogger, SequenceTheorems, TLAPS

(* The flag guards the one entry, and what the writer did follows it. *)
Once ==
  \A r \in Requests :
    /\ Len(saves[r]) <= 1
    /\ saving[r] # "idle" => hasRun[r]
    /\ rows[r] > 0 => hasRun[r]

OnceInv == TypeOK /\ Once

(* A response that was sent and not touched is as it was sent, until there *)
(* is an entry; and an entry made of it says the same ever after.          *)
SentIsFrozen(r) ==
  /\ Len(wire[r]) <= 1
  /\ stage[r] \in {"arriving", "extracting"} => wire[r] = <<>>
  /\ wire[r] = <<>> => tracked[r] = NoBody
  /\ stage[r] = "handling" /\ wire[r] # <<>> /\ r \notin touched /\ ~hasRun[r]
       => wire[r][1] = [status |-> statusCode[r], body |-> tracked[r]]

EntryIsSent(r) ==
  \A i \in 1 .. Len(saves[r]) :
    saves[r][i].finished =>
      /\ hasRun[r] /\ wire[r] # <<>>
      /\ r \notin touched
           => wire[r][1] = [status |-> saves[r][i].status, body |-> saves[r][i].body]

MatchInv == OnceInv /\ \A r \in Requests : SentIsFrozen(r) /\ EntryIsSent(r)

-----------------------------------------------------------------------------
LEMMA OnceInit == Init => OnceInv
  BY DataAssumption, WriterAssumption
  DEF Init, OnceInv, TypeOK, Once, Answers, Entries

LEMMA AppendToEmpty ==
  ASSUME NEW S, NEW s \in Seq(S), NEW e \in S, s = <<>>
  PROVE  /\ Append(s, e) \in Seq(S)
         /\ Len(Append(s, e)) = 1 /\ Len(Append(s, e)) <= 1
         /\ Append(s, e) # <<>>
         /\ Append(s, e)[1] = e
  OBVIOUS

LEMMA Singleton ==
  ASSUME NEW S, NEW e \in S
  PROVE  <<e>> \in Seq(S) /\ Len(<<e>>) = 1 /\ <<e>> # <<>> /\ <<e>>[1] = e
  OBVIOUS

LEMMA OneElement ==
  ASSUME NEW S, NEW s \in Seq(S), s # <<>>, Len(s) <= 1
  PROVE  Len(s) = 1
<1>1. Len(s) \in Nat \ {0}
  BY EmptySeq
<1> QED
  BY <1>1

LEMMA OnceStep == OnceInv /\ [Next]_vars => OnceInv'
<1> SUFFICES ASSUME OnceInv, [Next]_vars PROVE OnceInv'
  OBVIOUS
<1> USE DataAssumption, WriterAssumption DEF OnceInv, Once, TypeOK
<1>1. CASE UNCHANGED vars
  BY <1>1 DEF vars
<1>2. CASE Next
  <2> PICK r \in Requests :
        \/ Arrive(r) \/ Reject(r) \/ Attach(r) \/ ContextFails(r)
        \/ \E code \in Codes : SetStatus(r, code)
        \/ \E body \in Bodies \cup {NoBody} : Send(r, body)
        \/ \E event \in {"finish", "close"} : Emit(r, event)
        \/ Insert(r) \/ Settle(r)
    BY <1>2 DEF Next
  <2>1. CASE Arrive(r)
    BY <2>1 DEF Arrive, log
  <2>2. CASE Reject(r)
    <3>1. [status |-> BadRequest, body |-> ErrorBody] \in Answers
      BY DEF Answers
    <3> QED
      BY <2>2, <3>1, Singleton DEF Reject, Transmit, log
  <2>3. CASE Attach(r)
    BY <2>3 DEF Attach, log
  <2>4. CASE ContextFails(r)
    BY <2>4 DEF ContextFails, log
  <2>5. ASSUME NEW code \in Codes, SetStatus(r, code) PROVE OnceInv'
    BY <2>5 DEF SetStatus, Touch, log
  <2>6. ASSUME NEW body \in Bodies \cup {NoBody}, Send(r, body) PROVE OnceInv'
    <3>1. [status |-> statusCode[r], body |-> body] \in Answers
      BY DEF Answers
    <3>2. wire' \in [Requests -> Seq(Answers)]
      BY <2>6, <3>1, Singleton DEF Send, Transmit
    <3>3. tracked' \in [Requests -> Bodies \cup {NoBody}]
      BY <2>6 DEF Send, Track
    <3> QED
      BY <2>6, <3>2, <3>3 DEF Send, Touch, log
  <2>7. ASSUME NEW event \in {"finish", "close"}, Emit(r, event) PROVE OnceInv'
    <3>1. emitted' \in [Requests -> SUBSET {"finish", "close"}]
      BY <2>7 DEF Emit
    <3>2. CASE stage[r] # "handling"
      BY <2>7, <3>1, <3>2 DEF Emit, log
    <3>3. CASE stage[r] = "handling" /\ hasRun[r]
      <4>1. /\ UNCHANGED <<stage, statusCode, tracked, wire, touched, saves, saving, rows>>
            /\ hasRun' = [hasRun EXCEPT ![r] = TRUE]
        BY <2>7, <3>3 DEF Emit, finalizeLog
      <4>2. hasRun' = hasRun
        BY ONLY <4>1, <3>3, TypeOK DEF TypeOK
      <4> QED
        BY <3>1, <4>1, <4>2
    <3>4. CASE stage[r] = "handling" /\ ~hasRun[r]
      <4> DEFINE b == IF event = "finish" THEN tracked[r] ELSE NoBody
                 e == [status |-> statusCode[r], body |-> b,
                       finished |-> (event = "finish")]
      <4>0. e \in Entries
        <5>1. statusCode[r] \in Codes /\ b \in Bodies \cup {NoBody}
                /\ (event = "finish") \in BOOLEAN
          OBVIOUS
        <5> QED
          BY ONLY <5>1 DEF Entries
      <4>1. saves' = [saves EXCEPT ![r] = Append(@, e)]
        BY <2>7, <3>4 DEF Emit, finalizeLog
      <4> HIDE DEF e
      <4>2. /\ hasRun' = [hasRun EXCEPT ![r] = TRUE]
            /\ saving' = [saving EXCEPT ![r] = "pending"]
            /\ UNCHANGED <<rows, stage, statusCode, tracked, wire, touched>>
        BY <2>7, <3>4 DEF Emit, finalizeLog
      <4>3. saves' \in [Requests -> Seq(Entries)]
        BY <4>0, <4>1, <3>4, AppendToEmpty
      <4>4. Len(saves'[r]) <= 1 /\ saves'[r] # <<>>
        BY <4>0, <4>1, <3>4, AppendToEmpty
      <4>5. \A q \in Requests : q # r => saves'[q] = saves[q]
        BY <4>1
      <4>6. TypeOK'
        BY <3>1, <4>2, <4>3, <4>4, <4>5
      <4>7. Once'
        <5> SUFFICES ASSUME NEW q \in Requests
                     PROVE  /\ Len(saves'[q]) <= 1
                            /\ saving'[q] # "idle" => hasRun'[q]
                            /\ rows'[q] > 0 => hasRun'[q]
          OBVIOUS
        <5>1. CASE q = r
          <6>1. hasRun'[r]
            BY ONLY <4>2, TypeOK DEF TypeOK
          <6>2. Len(saves'[q]) <= 1
            BY ONLY <4>4, <5>1, Zenon
          <6>3. hasRun'[q]
            BY ONLY <5>1, <6>1, Zenon
          <6> QED
            BY ONLY <6>2, <6>3
        <5>2. CASE q # r
          BY <4>2, <4>5, <5>2
        <5> QED
          BY <5>1, <5>2
      <4> QED
        BY <4>6, <4>7
    <3> QED
      BY <3>2, <3>3, <3>4
  <2>8. CASE Insert(r)
    BY <2>8 DEF Insert
  <2>9. CASE Settle(r)
    BY <2>9 DEF Settle
  <2> QED
    BY <2>1, <2>2, <2>3, <2>4, <2>5, <2>6, <2>7, <2>8, <2>9
<1> QED
  BY <1>1, <1>2

(* Type correctness: every variable keeps to its values, for all requests, *)
(* codes and bodies, and the flag says whether an entry was handed over.   *)
THEOREM TypeCorrect == Spec => []TypeOK
<1>1. OnceInv => TypeOK
  BY DEF OnceInv
<1> QED
  BY <1>1, OnceInit, OnceStep, PTL DEF Spec

(* One entry for each response, however 'finish' and 'close' arrive. *)
THEOREM SavedOnce == Spec => []OneEntryPerResponse
<1>1. OnceInv => OneEntryPerResponse
  <2> SUFFICES ASSUME OnceInv, NEW r \in Requests
               PROVE  Len(saves[r]) <= 1 /\ (rows[r] > 0 => Len(saves[r]) = 1)
    BY DEF OneEntryPerResponse
  <2>1. saves[r] \in Seq(Entries) /\ Len(saves[r]) <= 1
    BY DEF OnceInv, TypeOK, Once
  <2>2. rows[r] > 0 => saves[r] # <<>>
    BY DEF OnceInv, TypeOK, Once
  <2>3. saves[r] # <<>> => Len(saves[r]) = 1
    BY ONLY <2>1, OneElement
  <2> QED
    BY <2>1, <2>2, <2>3
<1> QED
  BY <1>1, OnceInit, OnceStep, PTL DEF Spec

-----------------------------------------------------------------------------
LEMMA MatchInit == Init => MatchInv
  BY OnceInit DEF Init, MatchInv, SentIsFrozen, EntryIsSent

LEMMA MatchStep == MatchInv /\ [Next]_vars => MatchInv'
<1> SUFFICES ASSUME MatchInv, [Next]_vars PROVE MatchInv'
  OBVIOUS
<1>0. OnceInv'
  BY OnceStep DEF MatchInv
<1> SUFFICES ASSUME NEW q \in Requests PROVE SentIsFrozen(q)' /\ EntryIsSent(q)'
  BY <1>0 DEF MatchInv
<1>a. SentIsFrozen(q) /\ EntryIsSent(q)
  BY DEF MatchInv
<1> USE <1>a, DataAssumption, WriterAssumption DEF SentIsFrozen, EntryIsSent
<1>t. TypeOK /\ Len(saves[q]) <= 1
  BY DEF MatchInv, OnceInv, Once
<1>1. CASE UNCHANGED vars
  BY <1>1 DEF vars
<1>2. CASE Next
  <2> PICK r \in Requests :
        \/ Arrive(r) \/ Reject(r) \/ Attach(r) \/ ContextFails(r)
        \/ \E code \in Codes : SetStatus(r, code)
        \/ \E body \in Bodies \cup {NoBody} : Send(r, body)
        \/ \E event \in {"finish", "close"} : Emit(r, event)
        \/ Insert(r) \/ Settle(r)
    BY <1>2 DEF Next
  <2>1. CASE Arrive(r)
    BY <1>t, <2>1 DEF Arrive, log, TypeOK
  <2>2. CASE Reject(r)
    BY <1>t, <2>2 DEF Reject, Transmit, log, TypeOK
  <2>3. CASE Attach(r)
    BY <1>t, <2>3 DEF Attach, log, TypeOK
  <2>4. CASE ContextFails(r)
    BY <1>t, <2>4 DEF ContextFails, log, TypeOK
  <2>5. ASSUME NEW code \in Codes, SetStatus(r, code)
        PROVE  SentIsFrozen(q)' /\ EntryIsSent(q)'
    BY <1>t, <2>5 DEF SetStatus, MayAnswer, Touch, log, TypeOK
  <2>6. ASSUME NEW body \in Bodies \cup {NoBody}, Send(r, body)
        PROVE  SentIsFrozen(q)' /\ EntryIsSent(q)'
    BY <1>t, <2>6 DEF Send, MayAnswer, Touch, Track, Transmit, log, TypeOK
  <2>7. ASSUME NEW event \in {"finish", "close"}, Emit(r, event)
        PROVE  SentIsFrozen(q)' /\ EntryIsSent(q)'
    <3>1. UNCHANGED <<stage, statusCode, tracked, wire, touched>>
      BY <2>7 DEF Emit
    <3>5. hasRun'[q] \in BOOLEAN /\ (hasRun[q] => hasRun'[q])
      BY <1>t, <2>7 DEF Emit, finalizeLog, log, TypeOK
    <3>2. SentIsFrozen(q)'
      BY <3>1, <3>5
    <3>3. CASE r # q \/ stage[r] # "handling" \/ hasRun[r]
      <4>1. saves'[q] = saves[q]
        BY <1>t, <2>7, <3>3 DEF Emit, finalizeLog, log, TypeOK
      <4> QED
        BY <3>1, <3>2, <3>5, <4>1
    <3>4. CASE r = q /\ stage[q] = "handling" /\ ~hasRun[q]
      <4> DEFINE b == IF event = "finish" THEN tracked[q] ELSE NoBody
                 e == [status |-> statusCode[q], body |-> b,
                       finished |-> (event = "finish")]
      <4>0. e \in Entries
        <5>1. statusCode[q] \in Codes /\ b \in Bodies \cup {NoBody}
                /\ (event = "finish") \in BOOLEAN
          BY <1>t DEF TypeOK
        <5> QED
          BY ONLY <5>1 DEF Entries
      <4>1. saves'[q] = Append(saves[q], e)
        BY <1>t, <2>7, <3>4 DEF Emit, finalizeLog, TypeOK
      <4>2. saves[q] \in Seq(Entries) /\ saves[q] = <<>>
        BY <1>t, <3>4 DEF TypeOK
      <4>3. Len(saves'[q]) = 1 /\ saves'[q][1] = e
        BY <4>0, <4>1, <4>2, AppendToEmpty
      <4>4. e.finished => wire[q] # <<>>
        BY <2>7, <3>4 DEF Emit
      <4>5. e.finished => e.status = statusCode[q] /\ e.body = tracked[q]
        OBVIOUS
      <4>6. hasRun'[q]
        BY <1>t, <2>7, <3>4 DEF Emit, finalizeLog, TypeOK
      <4> HIDE DEF e
      <4>7. e.finished /\ q \notin touched => wire[q][1] = [status |-> e.status, body |-> e.body]
        BY <3>4, <4>4, <4>5
      <4> QED
        BY <3>1, <3>2, <4>3, <4>4, <4>6, <4>7
    <3> QED
      BY <3>3, <3>4
  <2>8. CASE Insert(r)
    BY <2>8 DEF Insert
  <2>9. CASE Settle(r)
    BY <2>9 DEF Settle
  <2> QED
    BY <2>1, <2>2, <2>3, <2>4, <2>5, <2>6, <2>7, <2>8, <2>9
<1> QED
  BY <1>1, <1>2

(* The log of a finished response is true: the entry made when 'finish'    *)
(* comes has the status and the body the client was sent, unless the       *)
(* application touched the response between the two.                       *)
THEOREM LogIsTrue == Spec => []EntryMatchesAnswer
<1>1. MatchInv => EntryMatchesAnswer
  <2> SUFFICES ASSUME MatchInv, NEW r \in Requests, NEW i \in 1 .. Len(saves[r]),
                      saves[r][i].finished
               PROVE  /\ Len(wire[r]) = 1
                      /\ r \notin touched
                           => wire[r][1] = [status |-> saves[r][i].status,
                                            body |-> saves[r][i].body]
    BY DEF EntryMatchesAnswer
  <2>1. wire[r] \in Seq(Answers) /\ SentIsFrozen(r) /\ EntryIsSent(r)
    BY DEF MatchInv, OnceInv, TypeOK
  <2>2. wire[r] # <<>> => Len(wire[r]) = 1
    <3>1. Len(wire[r]) <= 1
      BY <2>1 DEF SentIsFrozen
    <3> QED
      BY ONLY <2>1, <3>1, OneElement
  <2> QED
    BY <2>1, <2>2 DEF SentIsFrozen, EntryIsSent
<1>2. Init => MatchInv
  BY MatchInit
<1>3. MatchInv /\ [Next]_vars => MatchInv'
  BY MatchStep
<1> QED
  BY <1>1, <1>2, <1>3, PTL DEF Spec
=============================================================================
