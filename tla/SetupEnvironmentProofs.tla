----------------------- MODULE SetupEnvironmentProofs -----------------------
(***************************************************************************)
(* Theorems about SetupEnvironment: its type invariant, that it does what  *)
(* its arguments ask for, that no signal separates us from a running       *)
(* command, and that we exit with zero only for a success; for any         *)
(* arguments, environments, secrets, signals and exit codes.  Theorems     *)
(* about the application that it starts: what its getters return is        *)
(* complete and never changes, and the variables it sees are set by the    *)
(* shell, the dotenv files, the secrets and its own files in this order.   *)
(***************************************************************************)
EXTENDS ServiceStart, SequenceTheorems, WellFoundedInduction, TLAPS

(* Where the command is, by our phase; its events come after its end, and  *)
(* until they have all come nothing but an error can have settled us.      *)
Stages ==
  /\ phase \in {"starting", "fetching"} => child = "none"
  /\ child \in {"none", "running"} => events = <<>>
  /\ child = "ended" <=> ending # None
  /\ phase = "spawned" => child # "none"
  /\ phase \in {"spawned", "supervising"} /\ child \in {"failed", "ended"}
       /\ process = "alive" => events # <<>>

(* While we are alive and the command runs, we listen to every signal.     *)
Guarded ==
  child = "running" =>
    /\ phase = "supervising" /\ process = "alive" => listening = Signals
    /\ phase = "settled" => killsRefused
    /\ process = "exited" => FALSE
    /\ process = "killed" => phase = "spawned" \/ killsRefused

(* What a code of zero, or an exit without a code, stands for.             *)
Honest ==
  /\ exitCode = 0 =>
       \/ mode = "help"
       \/ mode = "write" /\ AllFetched
       \/ child = "ended" /\ ending = 0 /\ receivedSignal = None
  /\ process = "exited" => phase = "settled"
  /\ phase = "settled" => pending = {}

IInv == TypeOK /\ Stages /\ Guarded /\ Honest

-----------------------------------------------------------------------------
LEMMA EventTuples ==
  /\ Head(<<"error", "close">>) = "error" /\ Tail(<<"error", "close">>) = <<"close">>
  /\ Head(<<"close">>) = "close" /\ Tail(<<"close">>) = <<>>
  /\ Append(<<>>, "close") = <<"close">>
  /\ <<"error", "close">> # <<>> /\ <<"close">> # <<>>
  OBVIOUS

(* An 'error' leaves the 'close' to come; a 'close' is the last event. *)
LEMMA Emitted ==
  ASSUME TypeOK, NEW e, Emit(e)
  PROVE  /\ e = "error" => events' = <<"close">>
         /\ e = "close" => events' = <<>>
         /\ events # <<>>
         /\ process = "alive" /\ phase \in {"supervising", "settled"}
  BY EventTuples DEF TypeOK, Emit

LEMMA InitInv == Init => IInv
  BY ConfigAssumption DEF Init, IInv, TypeOK, Stages, Guarded, Honest

(* What reading the environment does to the rest of the state. *)
LEMMA EnvironmentRead ==
  ASSUME NEW shell, NEW files, ReadEnvironment(shell, files)
  PROVE  /\ process = "alive" /\ phase = "starting" /\ mode' \in {"write", "run"}
         /\ \/ phase' = "settled" /\ exitCode' = 1
            \/ phase' = "fetching" /\ exitCode' = exitCode
         /\ UNCHANGED <<killsRefused, fetched, listening, pending, receivedSignal,
                        process, child, ending, signalled, events>>
<1> DEFINE asked == IF args.writeTo # <<>> THEN "write" ELSE "run"
<1>1. Parse(asked) /\ UNCHANGED answers
  BY DEF ReadEnvironment
<1>2. asked \in {"write", "run"}
  OBVIOUS
<1>3. IF secretNames' = <<>> THEN Resolve(1) ELSE phase' = "fetching" /\ exitCode' = exitCode
  BY DEF ReadEnvironment
<1> HIDE DEF asked
<1>4. process = "alive" /\ phase = "starting" /\ mode' = asked
  BY <1>1 DEF Parse
<1>5. UNCHANGED <<killsRefused, fetched, listening, pending, receivedSignal,
                  process, child, ending, signalled, events>>
  BY <1>1 DEF Parse, answers, command
<1> QED
  BY <1>2, <1>3, <1>4, <1>5 DEF Resolve

LEMMA StepInv == IInv /\ [Next]_vars => IInv'
<1> SUFFICES ASSUME IInv, [Next]_vars PROVE IInv'
  OBVIOUS
<1> USE ConfigAssumption DEF inputs, answers, main, command, IInv, TypeOK, Stages, Guarded, Honest
<1>1. CASE UNCHANGED vars
  BY <1>1 DEF vars, AllFetched
<1>2. CASE ShowHelp \/ RefuseArguments \/ FailToRead
  BY <1>2 DEF ShowHelp, RefuseArguments, FailToRead, Parse, Resolve, AllFetched
<1>3. ASSUME NEW shell, NEW files, ReadEnvironment(shell, files) PROVE IInv'
  BY <1>3, EnvironmentRead DEF AllFetched
<1>4. ASSUME NEW payload \in Payloads, Fetch(payload) PROVE IInv'
  BY <1>4 DEF Fetch, AllFetched
<1>5. CASE FetchFails \/ WriteFile
  BY <1>5 DEF FetchFails, WriteFile, Resolve, AllFetched
<1>6. CASE Spawn
  BY <1>6, EventTuples DEF Spawn, Resolve, AllFetched
<1>7. CASE AddSignalListeners
  BY <1>7, EventTuples DEF AddSignalListeners, AllFetched
<1>8. ASSUME NEW s \in Signals, OnSignal(s) PROVE IInv'
  BY <1>8 DEF OnSignal, finish, Resolve, removeSignalHandlers, AllFetched
<1>9. ASSUME NEW s \in Signals, Signal(s) PROVE IInv'
  BY <1>9 DEF Signal, AllFetched
<1>10. CASE OnError
  <2>1. /\ events' = <<"close">> /\ events # <<>>
        /\ process = "alive" /\ phase \in {"supervising", "settled"}
    BY <1>10, Emitted DEF OnError
  <2> QED
    BY <1>10, <2>1, EventTuples DEF OnError, finish, Resolve, removeSignalHandlers, AllFetched
<1>11. CASE OnClose
  <2>1. /\ events' = <<>> /\ events # <<>>
        /\ process = "alive" /\ phase \in {"supervising", "settled"}
    BY <1>11, Emitted DEF OnClose
  <2> QED
    BY <1>11, <2>1 DEF OnClose, finish, Resolve, removeSignalHandlers, AllFetched,
                      signalToPropagate
<1>12. CASE Exit
  BY <1>12 DEF Exit, AllFetched
<1>13. ASSUME NEW how \in Codes \cup Deadly, CommandEnds(how) PROVE IInv'
  BY <1>13, EventTuples DEF CommandEnds, AllFetched
<1> QED
  BY <1>1, <1>2, <1>3, <1>4, <1>5, <1>6, <1>7, <1>8, <1>9, <1>10, <1>11, <1>12,
     <1>13 DEF Next

(* Type correctness, for all arguments, secrets, signals and codes. *)
THEOREM TypeCorrect == Spec => []TypeOK
<1>1. IInv => TypeOK
  BY DEF IInv
<1> QED
  BY <1>1, InitInv, StepInv, PTL DEF Spec

(* No signal separates us from a running command once the listeners stand. *)
THEOREM NeverOrphaned == Spec => []NoOrphan
<1>1. IInv => NoOrphan
  BY DEF IInv, TypeOK, Guarded, NoOrphan
<1> QED
  BY <1>1, InitInv, StepInv, PTL DEF Spec

(* We exit with zero only for a success, and never for want of a code. *)
THEOREM ExitsHonestly == Spec => []ZeroIsSuccess
<1>1. IInv => ZeroIsSuccess
  BY ConfigAssumption DEF IInv, TypeOK, Honest, ZeroIsSuccess
<1> QED
  BY <1>1, InitInv, StepInv, PTL DEF Spec

-----------------------------------------------------------------------------
(* The application's own state is no part of the CLI's: started by it or   *)
(* not, the CLI behaves as specified.                                      *)
THEOREM ApplicationApart == ServiceSpec => Spec
<1>1. ServiceInit => Init
  BY DEF ServiceInit
<1>2. [ServiceNext]_service => [Next]_vars
  BY DEF ServiceNext, CreateInApplication, InitializeInApplication,
         AssignInApplication, service
<1> QED
  BY <1>1, <1>2, PTL DEF ServiceSpec, Spec

(* An instance as the code makes them, with values that are complete once  *)
(* it is initialized.                                                      *)
Sound(instance) ==
  /\ {"config", "initialized", "values", "source"} \subseteq DOMAIN instance
  /\ instance.config \in Configs
  /\ instance.initialized =>
       \A m \in DOMAIN instance.config :
         LET variable == instance.config[m]
         IN /\ instance.values[m] = Value(instance.source, variable)
            /\ instance.values[m] # Thrown
            /\ variable.required => instance.values[m] # Undefined

AllSound ==
  /\ \E S : instances \in Seq(S)
  /\ \A i \in DOMAIN instances : Sound(instances[i])

LEMMA NewIsSound ==
  ASSUME NEW config \in Configs, NEW ownCallback
  PROVE  Sound(Env(config, ownCallback))
  BY DEF Sound, Env

LEMMA InitializedIsSound ==
  ASSUME NEW instance, Sound(instance), NEW source
  PROVE  Sound(initializeSync(instance, source))
<1> DEFINE config == instance.config
           values == processEnvValues(instance, source)
           ready == Parses(source, config, Len(config)) /\ validate(config, values)
           now == [instance EXCEPT !.values = values, !.initialized = ready,
                                   !.source = source]
<1>1. Initialized(instance, source) = now
  BY DEF Initialized
<1>2. ASSUME ready, NEW m \in DOMAIN config
      PROVE  /\ values[m] = Value(source, config[m])
             /\ values[m] # Thrown
             /\ config[m].required => values[m] # Undefined
  <2>1. m \in 1 .. Len(config) /\ Len(config) \in Nat
    BY ConfigsAreSequences DEF Sound
  <2>2. Parses(source, config, m) /\ Value(source, config[m]) # Thrown
    BY <1>2, <2>1 DEF Parses
  <2> QED
    BY <1>2, <2>2 DEF processEnvValues, validate
<1>3. Sound(now)
  <2> HIDE DEF ready, values
  <2>1. /\ now.config = config /\ now.values = values
        /\ now.initialized = ready /\ now.source = source
        /\ DOMAIN now = DOMAIN instance
    BY DEF Sound
  <2> QED
    BY <1>2, <2>1 DEF Sound
<1> QED
  BY <1>1, <1>3 DEF initializeSync

LEMMA AppendedIsSound ==
  ASSUME AllSound, NEW instance, Sound(instance), instances' = Append(instances, instance)
  PROVE  AllSound'
<1>1. PICK S : instances \in Seq(S)
  BY DEF AllSound
<1>2. instances' \in Seq(S \cup {instance})
  BY <1>1
<1>3. ASSUME NEW i \in DOMAIN instances' PROVE Sound(instances'[i])
  BY <1>1, <1>3 DEF AllSound
<1> QED
  BY <1>2, <1>3 DEF AllSound

LEMMA ReplacedIsSound ==
  ASSUME AllSound, NEW i \in DOMAIN instances, NEW instance, Sound(instance),
         instances' = [instances EXCEPT ![i] = instance]
  PROVE  AllSound'
<1>1. PICK S : instances \in Seq(S)
  BY DEF AllSound
<1>2. instances' \in Seq(S \cup {instance})
  BY <1>1
<1>3. ASSUME NEW k \in DOMAIN instances' PROVE Sound(instances'[k])
  BY <1>1, <1>3 DEF AllSound
<1> QED
  BY <1>2, <1>3 DEF AllSound

LEMMA Constructed ==
  ASSUME AllSound, NEW files, NEW override, CreateInstance(files, override)
  PROVE  AllSound'
<1>1. PICK config \in Configs, ownCallback \in BOOLEAN :
        \/ NewEnv(config, ownCallback, files, override)
        \/ \E isSingleton \in BOOLEAN :
             createEnvironment(config, isSingleton, ownCallback, files, override)
  BY DEF CreateInstance
<1>2. CASE NewEnv(config, ownCallback, files, override)
  BY <1>2, NewIsSound, AppendedIsSound DEF NewEnv
<1>3. ASSUME NEW isSingleton,
             createEnvironment(config, isSingleton, ownCallback, files, override)
      PROVE  AllSound'
  <2>1. PICK source : LET instance == initializeSync(Env(config, ownCallback), source)
                      IN IF isSingleton \/ instance.initialized
                         THEN instances' = Append(instances, instance)
                         ELSE instances' = instances
    BY <1>3 DEF createEnvironment
  <2>2. Sound(initializeSync(Env(config, ownCallback), source))
    BY NewIsSound, InitializedIsSound
  <2>3. CASE instances' = instances
    BY <2>3 DEF AllSound
  <2>4. CASE instances' = Append(instances, initializeSync(Env(config, ownCallback), source))
    BY <2>2, <2>4, AppendedIsSound
  <2> QED
    BY <2>1, <2>3, <2>4
<1> QED
  BY <1>1, <1>2, <1>3

LEMMA Initializing ==
  ASSUME AllSound, InitializeInstance
  PROVE  AllSound'
<1>1. PICK i \in DOMAIN instances : InitializeAgain(i)
  BY DEF InitializeInstance
<1>2. PICK source : instances' = [instances EXCEPT ![i] = initializeSync(instances[i], source)]
  BY <1>1 DEF InitializeAgain
<1>3. Sound(initializeSync(instances[i], source))
  BY InitializedIsSound DEF AllSound
<1> QED
  BY <1>2, <1>3, ReplacedIsSound

LEMMA SoundStep == AllSound /\ [ServiceNext]_service => AllSound'
<1> SUFFICES ASSUME AllSound, [ServiceNext]_service PROVE AllSound'
  OBVIOUS
<1>1. CASE UNCHANGED instances
  BY <1>1 DEF AllSound
<1>2. CASE instances' = <<>>
  <2>1. instances' \in Seq({}) /\ DOMAIN instances' = {}
    BY <1>2
  <2> QED
    BY <2>1 DEF AllSound
<1>3. ASSUME NEW files, NEW override, CreateInApplication(files, override) PROVE AllSound'
  BY <1>3, Constructed DEF CreateInApplication
<1>4. CASE InitializeInApplication
  BY <1>4, Initializing DEF InitializeInApplication
<1>5. CASE Memory
  BY <1>5, <1>1, <1>2 DEF Memory, environment
<1>6. ASSUME NEW setting, AssignInApplication(setting) PROVE AllSound'
  BY <1>6, <1>1 DEF AssignInApplication
<1>7. CASE UNCHANGED service
  BY <1>7, <1>1 DEF service, environment
<1> QED
  BY <1>3, <1>4, <1>5, <1>6, <1>7 DEF ServiceNext

LEMMA SoundAtFirst == ServiceInit => AllSound
<1> SUFFICES ASSUME ServiceInit PROVE AllSound
  OBVIOUS
<1>1. instances \in Seq({}) /\ DOMAIN instances = {}
  BY DEF ServiceInit, NoEnvironment
<1> QED
  BY <1>1 DEF AllSound

(* A getter's values are complete and of one reading, for all              *)
(* configurations, environments and callbacks.                             *)
THEOREM CompleteGetters == ServiceSpec => []GettersComplete
<1>1. AllSound => GettersComplete
  BY DEF AllSound, Sound, GettersComplete
<1> QED
  BY <1>1, SoundAtFirst, SoundStep, PTL DEF ServiceSpec

(* What an initialized instance holds it holds as long as it is there.     *)
THEOREM StableGetters == ServiceSpec => ValuesNeverChange
<1> DEFINE Kept == \A i \in DOMAIN instances \cap DOMAIN instances' :
                     instances[i].initialized => instances'[i].values = instances[i].values
<1>1. AllSound /\ [ServiceNext]_service => [Kept]_environment
  <2> SUFFICES ASSUME AllSound, [ServiceNext]_service PROVE Kept
    OBVIOUS
  <2>1. PICK S : instances \in Seq(S)
    BY DEF AllSound
  <2>2. CASE UNCHANGED instances
    BY <2>2
  <2>3. CASE instances' = <<>>
    BY <2>3
  <2>4. ASSUME NEW instance, instances' = Append(instances, instance) PROVE Kept
    BY <2>1, <2>4
  <2>5. ASSUME NEW files, NEW override, CreateInApplication(files, override) PROVE Kept
    BY <2>5, <2>2, <2>4 DEF CreateInApplication, CreateInstance, NewEnv, createEnvironment
  <2>6. CASE InitializeInApplication
    <3>1. PICK i \in DOMAIN instances : InitializeAgain(i)
      BY <2>6 DEF InitializeInApplication, InitializeInstance
    <3>2. PICK source :
            instances' = [instances EXCEPT ![i] = initializeSync(instances[i], source)]
      BY <3>1 DEF InitializeAgain
    <3>3. instances[i].initialized => initializeSync(instances[i], source) = instances[i]
      BY DEF initializeSync
    <3> QED
      BY <2>1, <3>2, <3>3
  <2>7. CASE Memory
    BY <2>7, <2>2, <2>3 DEF Memory, environment
  <2>8. ASSUME NEW setting, AssignInApplication(setting) PROVE Kept
    BY <2>8, <2>2 DEF AssignInApplication
  <2>9. CASE UNCHANGED service
    BY <2>9, <2>2 DEF service, environment
  <2> QED
    BY <2>5, <2>6, <2>7, <2>8, <2>9 DEF ServiceNext
<1> QED
  BY <1>1, SoundAtFirst, SoundStep, PTL DEF ServiceSpec, ValuesNeverChange

-----------------------------------------------------------------------------
(* A non-empty set of naturals has a least element, and one that holds     *)
(* zero and every successor holds them all.                                *)
LEMMA LeastElement ==
  ASSUME NEW T \in SUBSET Nat, T # {}
  PROVE  \E x \in T : \A y \in T : x <= y
<1>1. PICK x \in T : \A y \in T : ~(<<y, x>> \in OpToRel(<, Nat))
  BY NatLessThanWellFounded, WFMin
<1>2. \A y \in T : ~(y < x)
  BY <1>1 DEF OpToRel
<1> QED
  BY <1>2

LEMMA Induction ==
  ASSUME NEW T \in SUBSET Nat, 0 \in T, \A n \in T : n + 1 \in T
  PROVE  T = Nat
<1>1. SUFFICES ASSUME Nat \ T # {} PROVE FALSE
  OBVIOUS
<1>2. PICK x \in Nat \ T : \A y \in Nat \ T : x <= y
  BY <1>1, LeastElement
<1>3. x # 0 /\ x - 1 \in Nat /\ (x - 1) + 1 = x
  OBVIOUS
<1> QED
  BY <1>2, <1>3

(* An environment gives what a list of environments gives, the first that  *)
(* sets a variable before the others.                                      *)
Sequential(list) == \E T : list \in Seq(T)

Gives(env, list) ==
  /\ DOMAIN env = UNION {DOMAIN list[j] : j \in DOMAIN list}
  /\ \A j \in DOMAIN list : \A key \in DOMAIN list[j] :
       (\A k \in 1 .. j - 1 : key \notin DOMAIN list[k]) => env[key] = list[j][key]

LEMMA Single == ASSUME NEW env PROVE Sequential(<<env>>) /\ Gives(env, <<env>>)
<1>1. <<env>> \in Seq({env}) /\ DOMAIN <<env>> = {1} /\ <<env>>[1] = env
  OBVIOUS
<1> QED
  BY <1>1 DEF Sequential, Gives

LEMMA Concatenated ==
  ASSUME NEW s, NEW t, Sequential(s), Sequential(t)
  PROVE  /\ Sequential(s \o t)
         /\ Len(s) \in Nat /\ DOMAIN s = 1 .. Len(s)
         /\ Len(t) \in Nat /\ DOMAIN t = 1 .. Len(t)
         /\ DOMAIN (s \o t) = 1 .. Len(s) + Len(t)
         /\ \A j \in 1 .. Len(s) : (s \o t)[j] = s[j]
         /\ \A j \in 1 .. Len(t) : (s \o t)[Len(s) + j] = t[j]
<1>1. PICK T : s \in Seq(T)
  BY DEF Sequential
<1>2. PICK U : t \in Seq(U)
  BY DEF Sequential
<1>3. s \in Seq(T \cup U) /\ t \in Seq(T \cup U)
  BY <1>1, <1>2
<1> QED
  BY <1>3 DEF Sequential

LEMMA Joined ==
  ASSUME NEW s, NEW t, Sequential(s), Sequential(t),
         NEW first, NEW then, Gives(first, s), Gives(then, t)
  PROVE  Sequential(s \o t) /\ Gives(Assign(then, first), s \o t)
<1> DEFINE both == s \o t
           env == Assign(then, first)
<1>1. /\ Sequential(both)
      /\ Len(s) \in Nat /\ DOMAIN s = 1 .. Len(s) /\ Len(t) \in Nat /\ DOMAIN t = 1 .. Len(t)
      /\ DOMAIN both = 1 .. Len(s) + Len(t)
      /\ \A j \in 1 .. Len(s) : both[j] = s[j]
      /\ \A j \in 1 .. Len(t) : both[Len(s) + j] = t[j]
  BY Concatenated
<1>2. /\ DOMAIN env = DOMAIN first \cup DOMAIN then
      /\ \A key \in DOMAIN first : env[key] = first[key]
      /\ \A key \in DOMAIN then \ DOMAIN first : env[key] = then[key]
  BY DEF Assign
<1> HIDE DEF both, env
<1>3. \A j \in DOMAIN both :
        \/ j \in DOMAIN s /\ both[j] = s[j]
        \/ j > Len(s) /\ j - Len(s) \in DOMAIN t /\ both[j] = t[j - Len(s)]
  <2>1. ASSUME NEW j \in 1 .. Len(s) + Len(t), j > Len(s)
        PROVE  j - Len(s) \in 1 .. Len(t) /\ j = Len(s) + (j - Len(s))
    BY <1>1, <2>1
  <2> QED
    BY <1>1, <2>1
<1>4. DOMAIN env = UNION {DOMAIN both[j] : j \in DOMAIN both}
  <2>1. ASSUME NEW key \in DOMAIN env
        PROVE  \E j \in DOMAIN both : key \in DOMAIN both[j]
    <3>1. CASE key \in DOMAIN first
      <4>1. PICK j \in DOMAIN s : key \in DOMAIN s[j]
        BY <3>1 DEF Gives
      <4>2. j \in DOMAIN both /\ both[j] = s[j]
        BY <1>1
      <4> QED
        BY <4>1, <4>2
    <3>2. CASE key \in DOMAIN then
      <4>1. PICK j \in DOMAIN t : key \in DOMAIN t[j]
        BY <3>2 DEF Gives
      <4>2. Len(s) + j \in DOMAIN both /\ both[Len(s) + j] = t[j]
        BY <1>1
      <4> QED
        BY <4>1, <4>2
    <3> QED
      BY <1>2, <3>1, <3>2
  <2>2. ASSUME NEW j \in DOMAIN both, NEW key \in DOMAIN both[j]
        PROVE  key \in DOMAIN env
    BY <1>2, <1>3 DEF Gives
  <2> QED
    BY <2>1, <2>2
<1>5. ASSUME NEW j \in DOMAIN both, NEW key \in DOMAIN both[j],
             \A k \in 1 .. j - 1 : key \notin DOMAIN both[k]
      PROVE  env[key] = both[j][key]
  <2>1. CASE j \in DOMAIN s /\ both[j] = s[j]
    <3>1. \A k \in 1 .. j - 1 : key \notin DOMAIN s[k]
      <4>1. \A k \in 1 .. j - 1 : k \in 1 .. Len(s)
        BY <1>1, <2>1
      <4> QED
        BY <1>1, <1>5, <4>1
    <3>2. key \in DOMAIN first /\ first[key] = s[j][key]
      BY <1>5, <2>1, <3>1 DEF Gives
    <3> QED
      BY <1>2, <2>1, <3>2
  <2>2. CASE j > Len(s) /\ j - Len(s) \in DOMAIN t /\ both[j] = t[j - Len(s)]
    <3>1. key \notin DOMAIN first
      <4>1. \A k \in DOMAIN s : k \in 1 .. j - 1 /\ both[k] = s[k]
        BY <1>1, <2>2
      <4> QED
        BY <1>5, <4>1 DEF Gives
    <3>2. \A k \in 1 .. (j - Len(s)) - 1 : key \notin DOMAIN t[k]
      <4>1. ASSUME NEW k \in 1 .. (j - Len(s)) - 1
            PROVE  Len(s) + k \in 1 .. j - 1 /\ k \in 1 .. Len(t)
        BY <1>1, <2>2
      <4> QED
        BY <1>1, <1>5, <4>1
    <3>3. key \in DOMAIN then /\ then[key] = t[j - Len(s)][key]
      BY <1>5, <2>2, <3>2 DEF Gives
    <3> QED
      BY <1>2, <2>2, <3>1, <3>3
  <2> QED
    BY <1>3, <2>1, <2>2
<1> QED
  BY <1>1, <1>4, <1>5 DEF Gives, both, env

(* A list in reverse, and what one more at its end makes of that. *)
LEMMA Reversed ==
  ASSUME NEW T, NEW s \in Seq(T)
  PROVE  /\ Sequential(Reverse(s))
         /\ \A e \in T : Reverse(Append(s, e)) = <<e>> \o Reverse(s)
<1>1. Reverse(s) = [i \in 1 .. Len(s) |-> s[Len(s) - i + 1]] /\ Len(s) \in Nat
  BY DEF Reverse
<1>2. Reverse(s) \in Seq(T) /\ Len(Reverse(s)) = Len(s)
  <2>1. \A i \in 1 .. Len(s) : Len(s) - i + 1 \in 1 .. Len(s)
    BY <1>1
  <2> QED
    BY <1>1, <2>1
<1>3. ASSUME NEW e \in T
      PROVE  Reverse(Append(s, e)) = <<e>> \o Reverse(s)
  <2> DEFINE t == Append(s, e)
             r == <<e>> \o Reverse(s)
  <2>1. /\ t \in Seq(T) /\ Len(t) = Len(s) + 1 /\ t[Len(s) + 1] = e
        /\ \A i \in 1 .. Len(s) : t[i] = s[i]
    OBVIOUS
  <2>2. /\ r \in Seq(T) /\ Len(r) = Len(s) + 1 /\ r[1] = e
        /\ \A i \in 1 .. Len(s) : r[i + 1] = Reverse(s)[i]
    BY <1>2
  <2>3. Reverse(t) = [i \in 1 .. Len(s) + 1 |-> t[Len(s) + 1 - i + 1]]
    BY <2>1 DEF Reverse
  <2> HIDE DEF t, r
  <2>4. ASSUME NEW i \in 1 .. Len(s) + 1 PROVE t[Len(s) + 1 - i + 1] = r[i]
    <3>1. CASE i = 1
      BY <1>1, <2>1, <2>2, <3>1
    <3>2. CASE i # 1
      <4>1. /\ i - 1 \in 1 .. Len(s) /\ i = (i - 1) + 1
            /\ Len(s) + 1 - i + 1 = Len(s) - (i - 1) + 1
            /\ Len(s) - (i - 1) + 1 \in 1 .. Len(s)
        BY <1>1, <3>2
      <4> QED
        BY <1>1, <2>1, <2>2, <4>1
    <3> QED
      BY <3>1, <3>2
  <2>5. r = [i \in 1 .. Len(s) + 1 |-> r[i]]
    BY <2>2
  <2> QED
    BY <2>3, <2>4, <2>5 DEF t, r
<1> QED
  BY <1>2, <1>3 DEF Sequential

(* Dotenv files give what the last that sets a variable gives it: the loop *)
(* of loadDotEnvFilesSync, by induction over the files it has read.        *)
LEMMA MergedGives ==
  ASSUME NEW files, Sequential(files)
  PROVE  Gives(Merged(files), Reverse(files))
<1> DEFINE next(g, n) == IF n = 0 THEN <<>> ELSE Assign(g[n - 1], files[n])
           Upto(g, n) == g = [m \in 0 .. n |-> next(g, m)]
<1>1. PICK T : files \in Seq(T)
  BY DEF Sequential
<1>2. \A n \in Nat : \E g : Upto(g, n)
  <2> DEFINE S == {n \in Nat : \E g : Upto(g, n)}
  <2>1. 0 \in S
    <3>1. Upto([m \in 0 .. 0 |-> <<>>], 0)
      OBVIOUS
    <3> QED
      BY <3>1
  <2>2. ASSUME NEW n \in S PROVE n + 1 \in S
    <3>1. PICK g : Upto(g, n)
      OBVIOUS
    <3> DEFINE h == [m \in 0 .. n + 1 |-> IF m = n + 1 THEN next(g, n + 1) ELSE g[m]]
    <3>2. ASSUME NEW m \in 0 .. n + 1 PROVE h[m] = next(h, m)
      <4>1. m = 0 \/ h[m - 1] = g[m - 1]
        OBVIOUS
      <4>2. h[m] = next(g, m)
        BY <3>1
      <4> QED
        BY <4>1, <4>2
    <3>3. Upto(h, n + 1)
      BY <3>2
    <3> HIDE DEF Upto, h
    <3> QED
      BY <3>3
  <2> HIDE DEF S
  <2>3. S \in SUBSET Nat
    BY DEF S
  <2>4. S = Nat
    BY <2>1, <2>2, <2>3, Induction
  <2> QED
    BY <2>4 DEF S
<1> DEFINE g == CHOOSE g : Upto(g, Len(files))
<1>3. Upto(g, Len(files)) /\ Merged(files) = g[Len(files)]
  <2>1. Merged(files) = g[Len(files)]
    BY DEF Merged
  <2>2. \E f : Upto(f, Len(files))
    BY <1>1, <1>2
  <2> HIDE DEF Upto
  <2> QED
    BY <2>1, <2>2
<1> HIDE DEF g
<1> DEFINE prefix(n) == SubSeq(files, 1, n)
           S == {n \in Nat : n <= Len(files) => Gives(g[n], Reverse(prefix(n)))}
<1>4. 0 \in S
  <2>1. g[0] = <<>> /\ prefix(0) = <<>> /\ Reverse(prefix(0)) = <<>>
    BY <1>1, <1>3 DEF Reverse
  <2> QED
    BY <2>1 DEF Gives
<1>5. ASSUME NEW n \in S PROVE n + 1 \in S
  <2> SUFFICES ASSUME n + 1 <= Len(files)
               PROVE  Gives(g[n + 1], Reverse(prefix(n + 1)))
    OBVIOUS
  <2>1. /\ n \in Nat /\ Len(files) \in Nat /\ n + 1 \in 0 .. Len(files) /\ n <= Len(files)
        /\ n + 1 # 0 /\ (n + 1) - 1 = n
    BY <1>1
  <2>2. g[n + 1] = Assign(g[n], files[n + 1])
    BY <1>3, <2>1
  <2>3. Gives(g[n], Reverse(prefix(n)))
    BY <2>1
  <2>4. prefix(n) \in Seq(T) /\ files[n + 1] \in T
    BY <1>1, <2>1
  <2>5. prefix(n + 1) = Append(prefix(n), files[n + 1])
    BY <1>1, <2>1
  <2> HIDE DEF prefix
  <2>6. /\ Reverse(prefix(n + 1)) = <<files[n + 1]>> \o Reverse(prefix(n))
        /\ Sequential(Reverse(prefix(n)))
    BY <2>4, <2>5, Reversed
  <2> QED
    BY <2>2, <2>3, <2>6, Single, Joined
<1>6. S = Nat
  <2> HIDE DEF S
  <2>1. S \in SUBSET Nat
    BY DEF S
  <2> QED
    BY <1>4, <1>5, <2>1, Induction
<1>7. Len(files) \in Nat /\ prefix(Len(files)) = files
  BY <1>1
<1> HIDE DEF prefix
<1>8. Gives(g[Len(files)], Reverse(prefix(Len(files))))
  BY <1>6, <1>7
<1> QED
  BY <1>3, <1>7, <1>8

(* The local environment gives what the shell and the files give, and the  *)
(* secrets what the payloads do.                                           *)
Precedence ==
  /\ Sequential(local) /\ Gives(localEnv, local)
  /\ Gives(secrets, Reverse(fetched))

(* The application's process.env is what it was started with, under what   *)
(* it sets itself and over what its files add.                             *)
Layered ==
  /\ child = "running" => processEnv = Assign(below, Assign(childEnv, above))
  /\ child # "running" => above = <<>> /\ below = <<>>

LEMMA PrecedenceStep == IInv /\ Precedence /\ [Next]_vars => Precedence'
<1> SUFFICES ASSUME IInv, Precedence, [Next]_vars PROVE Precedence'
  OBVIOUS
<1>1. CASE UNCHANGED <<localEnv, local, secrets, fetched>>
  BY <1>1 DEF Precedence
<1>2. ASSUME NEW shell, NEW files \in DotEnvs, ReadEnvironment(shell, files)
      PROVE  Precedence'
  <2>1. /\ localEnv' = Assign(Merged(files), shell)
        /\ local' = <<shell>> \o Reverse(files)
        /\ UNCHANGED <<secrets, fetched>>
    BY <1>2 DEF ReadEnvironment, loadDotEnvFilesSync, answers
  <2>2. files \in Seq(ToSet(files)) /\ Sequential(files)
    BY DotEnvsAreSequences DEF Sequential
  <2>3. Gives(Merged(files), Reverse(files)) /\ Sequential(Reverse(files))
    BY <2>2, MergedGives, Reversed
  <2>4. Sequential(local') /\ Gives(localEnv', local')
    BY <2>1, <2>3, Single, Joined
  <2> QED
    BY <2>1, <2>4 DEF Precedence
<1>3. ASSUME NEW payload \in Payloads, Fetch(payload) PROVE Precedence'
  <2>1. /\ secrets' = Assign(secrets, payload) /\ fetched' = Append(fetched, payload)
        /\ UNCHANGED <<localEnv, local>>
    BY <1>3 DEF Fetch, inputs
  <2>2. Reverse(fetched') = <<payload>> \o Reverse(fetched) /\ Sequential(Reverse(fetched))
    BY <2>1, Reversed DEF IInv, TypeOK
  <2>3. Gives(secrets', Reverse(fetched'))
    BY <2>1, <2>2, Single, Joined DEF Precedence
  <2> QED
    BY <2>1, <2>3 DEF Precedence
<1> QED
  BY <1>1, <1>2, <1>3 DEF Next, vars, main, inputs, answers, command, ShowHelp, RefuseArguments,
     FailToRead, FetchFails, WriteFile, Spawn, AddSignalListeners, OnSignal, Signal, OnError,
     OnClose, Exit, CommandEnds

LEMMA Assigned ==
  /\ \A e, f, g : Assign(e, Assign(f, g)) = Assign(Assign(e, f), g)
  /\ \A e, f : Assign(<<>>, Assign(Assign(e, f), <<>>)) = Assign(e, f)
<1>1. DOMAIN <<>> = {}
  OBVIOUS
<1> QED
  BY <1>1 DEF Assign

LEMMA LayeredStep == IInv /\ Layered /\ [ServiceNext]_service => Layered'
<1> SUFFICES ASSUME IInv, Layered, [ServiceNext]_service PROVE Layered'
  OBVIOUS
<1> USE DEF Layered
<1>1. CASE Next /\ Memory
  <2>1. child = "none" \/ UNCHANGED <<localEnv, secrets>>
    BY <1>1 DEF IInv, Stages, Next, Parse, Fetch, FetchFails, WriteFile, Spawn,
       AddSignalListeners, OnSignal, Signal, OnError, OnClose, Exit, CommandEnds, main, inputs,
       answers, ShowHelp, RefuseArguments, FailToRead, ReadEnvironment
  <2>2. CASE child = "none" /\ child' = "running"
    <3>1. Spawn
      BY <1>1, <2>2 DEF Next, Parse, Fetch, FetchFails, WriteFile,
         AddSignalListeners, OnSignal, Signal, OnError, OnClose, Exit, CommandEnds, main, inputs,
         answers, command, ShowHelp, RefuseArguments, FailToRead, ReadEnvironment
    <3>2. processEnv' = childEnv /\ childEnv' = childEnv /\ above' = <<>> /\ below' = <<>>
      BY <1>1, <2>2, <3>1 DEF Memory, Spawn, childEnv, answers
    <3> QED
      BY <2>2, <3>2, Assigned DEF childEnv
  <2>3. CASE child = "running" /\ child' = "running"
    BY <1>1, <2>1, <2>3 DEF Memory, childEnv, environment
  <2>4. CASE child' # "running"
    <3>1. child = "running" => child' = "ended"
      BY <1>1, <2>4 DEF IInv, Stages, Next, Parse, Fetch, FetchFails, WriteFile, Spawn,
         AddSignalListeners, OnSignal, Signal, OnError, OnClose, Exit, CommandEnds, main, inputs,
         answers, command, ShowHelp, RefuseArguments, FailToRead, ReadEnvironment
    <3> QED
      BY <1>1, <2>4, <3>1 DEF Memory
  <2> QED
    BY <1>1, <2>2, <2>3, <2>4 DEF Memory
<1>2. ASSUME NEW files, NEW override \in BOOLEAN, CreateInApplication(files, override)
      PROVE  Layered'
  <2>1. /\ child = "running" /\ child' = child /\ childEnv' = childEnv
        /\ processEnv' = loadDotEnvFilesSync(processEnv, files, override)
    BY <1>2 DEF CreateInApplication, CreateInstance, NewEnv, createEnvironment, Construct,
       vars, main, inputs, answers, command, childEnv
  <2>2. CASE override
    <3>1. processEnv' = Assign(processEnv, Merged(files)) /\ above' = Assign(above, Merged(files))
          /\ below' = below
      BY <1>2, <2>1, <2>2 DEF CreateInApplication, loadDotEnvFilesSync
    <3> QED
      BY <2>1, <3>1, Assigned
  <2>3. CASE ~override
    <3>1. processEnv' = Assign(Merged(files), processEnv) /\ below' = Assign(Merged(files), below)
          /\ above' = above
      BY <1>2, <2>1, <2>3 DEF CreateInApplication, loadDotEnvFilesSync
    <3> QED
      BY <2>1, <3>1, Assigned
  <2> QED
    BY <2>2, <2>3
<1>3. CASE InitializeInApplication
  BY <1>3 DEF InitializeInApplication, InitializeInstance, InitializeAgain, childEnv,
     vars, main, inputs, answers, command
<1>4. ASSUME NEW setting, AssignInApplication(setting)
      PROVE  Layered'
  <2>1. /\ child = "running" /\ child' = child /\ childEnv' = childEnv
        /\ processEnv' = Assign(processEnv, setting) /\ above' = Assign(above, setting)
        /\ below' = below
    BY <1>4 DEF AssignInApplication, childEnv, vars, main, inputs, answers, command
  <2> QED
    BY <2>1, Assigned
<1>5. CASE UNCHANGED service
  BY <1>5 DEF service, environment, vars, main, inputs, answers, command, childEnv
<1> QED
  BY <1>1, <1>2, <1>3, <1>4, <1>5 DEF ServiceNext

LEMMA PrecedenceShown == IInv /\ Precedence /\ Layered => LocalWinsThenSecrets
<1> SUFFICES ASSUME IInv, Precedence, Layered, child = "running" PROVE LocalWinsThenSecrets
  BY DEF LocalWinsThenSecrets
<1> DEFINE given == <<above>> \o local \o Reverse(fetched) \o <<below>>
           first(key) == CHOOSE j \in DOMAIN given :
             key \in DOMAIN given[j] /\ \A k \in 1 .. j - 1 : key \notin DOMAIN given[k]
<1>1. Sequential(local) /\ Sequential(Reverse(fetched))
  BY Reversed DEF Precedence, IInv, TypeOK
<1>2. Gives(processEnv, given) /\ Sequential(given)
  <2>1. /\ Sequential(<<above>> \o local)
        /\ Gives(Assign(localEnv, above), <<above>> \o local)
    BY <1>1, Single, Joined DEF Precedence
  <2>2. /\ Sequential(<<above>> \o local \o Reverse(fetched))
        /\ Gives(Assign(secrets, Assign(localEnv, above)), <<above>> \o local \o Reverse(fetched))
    BY <1>1, <2>1, Joined DEF Precedence
  <2>3. /\ Sequential(given)
        /\ Gives(Assign(below, Assign(secrets, Assign(localEnv, above))), given)
    BY <2>2, Single, Joined
  <2>4. processEnv = Assign(below, Assign(secrets, Assign(localEnv, above)))
    BY Assigned DEF Layered, childEnv
  <2> QED
    BY <2>3, <2>4
<1> HIDE DEF given
<1>3. ASSUME NEW key \in DOMAIN processEnv
      PROVE  processEnv[key] = given[first(key)][key]
  <2> DEFINE holders == {j \in DOMAIN given : key \in DOMAIN given[j]}
  <2>1. DOMAIN given \subseteq Nat /\ \A j \in DOMAIN given : 1 .. j - 1 \subseteq DOMAIN given
    BY <1>2 DEF Sequential
  <2>2. holders # {} /\ holders \in SUBSET Nat
    BY <1>2, <2>1 DEF Gives
  <2>3. PICK j \in holders : \A k \in holders : j <= k
    <3> HIDE DEF holders
    <3> QED
      BY <2>2, LeastElement
  <2>4. \A k \in 1 .. j - 1 : key \notin DOMAIN given[k]
    BY <2>1, <2>3
  <2>5. /\ first(key) \in DOMAIN given /\ key \in DOMAIN given[first(key)]
        /\ \A k \in 1 .. first(key) - 1 : key \notin DOMAIN given[k]
    BY <2>3, <2>4
  <2> HIDE DEF first
  <2> QED
    BY <1>2, <2>5 DEF Gives
<1>4. DOMAIN processEnv = UNION {DOMAIN given[j] : j \in DOMAIN given}
  BY <1>2 DEF Gives
<1> QED
  BY <1>3, <1>4 DEF LocalWinsThenSecrets, given

(* A variable of the application has its value from the first that sets it:*)
(* itself, the shell, the dotenv files from the last on, the secrets from  *)
(* the last on, its own files (loadDotEnvFilesSync, runSetupEnv).          *)
THEOREM LocalWins == ServiceSpec => []LocalWinsThenSecrets
<1>1. ServiceInit => IInv /\ Precedence /\ Layered
  <2> SUFFICES ASSUME ServiceInit PROVE IInv /\ Precedence /\ Layered
    OBVIOUS
  <2>1. Init /\ above = <<>> /\ below = <<>>
    BY DEF ServiceInit
  <2>2. /\ <<>> \in Seq({}) /\ DOMAIN <<>> = {} /\ Reverse(<<>>) = <<>>
    BY DEF Reverse
  <2>3. Sequential(<<>>) /\ Gives(<<>>, <<>>)
    BY <2>2 DEF Sequential, Gives
  <2> QED
    BY <2>1, <2>2, <2>3, InitInv DEF Init, Precedence, Layered
<1>2. [ServiceNext]_service => [Next]_vars
  BY DEF ServiceNext, CreateInApplication, InitializeInApplication, AssignInApplication, service
<1>3. IInv /\ Precedence /\ Layered /\ [ServiceNext]_service => (IInv /\ Precedence /\ Layered)'
  BY <1>2, StepInv, PrecedenceStep, LayeredStep
<1> QED
  BY <1>1, <1>3, PrecedenceShown, PTL DEF ServiceSpec

-----------------------------------------------------------------------------
(* The recursion of FlattenSeq, up to n.                                   *)
Flattens(s, g, n) ==
  g = [i \in 1 .. n |-> IF i = 1 THEN s[i] ELSE g[i - 1] \o s[i]]

LEMMA FlattenExists ==
  ASSUME NEW s, NEW n \in Nat
  PROVE  \E g : Flattens(s, g, n)
<1> DEFINE S == {k \in Nat : \E g : Flattens(s, g, k)}
<1>1. 0 \in S
  <2>1. Flattens(s, [i \in 1 .. 0 |-> s], 0)
    BY DEF Flattens
  <2> QED
    BY <2>1
<1>2. ASSUME NEW k \in S PROVE k + 1 \in S
  <2>1. PICK g : Flattens(s, g, k)
    OBVIOUS
  <2> DEFINE last == IF k = 0 THEN s[1] ELSE g[k] \o s[k + 1]
             h == [i \in 1 .. k + 1 |-> IF i = k + 1 THEN last ELSE g[i]]
  <2>2. ASSUME NEW i \in 1 .. k + 1
        PROVE  h[i] = IF i = 1 THEN s[i] ELSE h[i - 1] \o s[i]
    <3>1. CASE i = k + 1
      BY <3>1
    <3>2. CASE i # k + 1
      <4>1. i \in 1 .. k /\ h[i] = g[i] /\ (i # 1 => h[i - 1] = g[i - 1])
        BY <3>2
      <4>2. g[i] = IF i = 1 THEN s[i] ELSE g[i - 1] \o s[i]
        BY <2>1, <4>1 DEF Flattens
      <4> QED
        BY <4>1, <4>2
    <3> QED
      BY <3>1, <3>2
  <2>3. Flattens(s, h, k + 1)
    BY <2>2 DEF Flattens
  <2> HIDE DEF h
  <2> QED
    BY <2>3
<1> HIDE DEF S
<1>3. S \in SUBSET Nat
  BY DEF S
<1>4. S = Nat
  BY <1>1, <1>2, <1>3, Induction
<1> QED
  BY <1>4 DEF S

LEMMA FlattenIs ==
  ASSUME NEW T, NEW s \in Seq(T), s # <<>>
  PROVE  \E g : Flattens(s, g, Len(s)) /\ FlattenSeq(s) = g[Len(s)]
<1> DEFINE g == CHOOSE g : Flattens(s, g, Len(s))
<1>1. Len(s) \in Nat /\ Len(s) # 0
  OBVIOUS
<1>2. Flattens(s, g, Len(s))
  <2>1. \E f : Flattens(s, f, Len(s))
    BY <1>1, FlattenExists
  <2> QED
    BY <2>1
<1>3. FlattenSeq(s) = g[Len(s)]
  BY <1>1 DEF FlattenSeq, Flattens
<1> QED
  BY <1>2, <1>3

LEMMA FlattenStep ==
  ASSUME NEW T, NEW s \in Seq(Seq(T)), NEW e \in Seq(T)
  PROVE  FlattenSeq(s) \in Seq(T) => FlattenSeq(Append(s, e)) = FlattenSeq(s) \o e
<1> DEFINE n == Len(s)
           t == Append(s, e)
<1>1. /\ n \in Nat /\ t \in Seq(Seq(T)) /\ Len(t) = n + 1 /\ t # <<>>
      /\ t[n + 1] = e /\ \A i \in 1 .. n : t[i] = s[i]
  <2> DEFINE Q == Seq(T)
  <2>1. s \in Seq(Q) /\ e \in Q
    OBVIOUS
  <2> HIDE DEF Q
  <2>2. /\ n \in Nat /\ t \in Seq(Q) /\ Len(t) = n + 1 /\ t # <<>>
        /\ t[n + 1] = e /\ \A i \in 1 .. n : t[i] = s[i]
    BY <2>1
  <2> QED
    BY <2>2 DEF Q
<1>2. PICK h : Flattens(t, h, n + 1) /\ FlattenSeq(t) = h[n + 1]
  BY <1>1, FlattenIs
<1> HIDE DEF t
<1>3. CASE s = <<>>
  <2>1. h[1] = e
    BY <1>1, <1>2, <1>3 DEF Flattens
  <2>2. FlattenSeq(s) = <<>>
    BY <1>3 DEF FlattenSeq
  <2> QED
    BY <1>2, <1>3, <2>1, <2>2 DEF t
<1>4. CASE s # <<>>
  <2>1. PICK g : Flattens(s, g, n) /\ FlattenSeq(s) = g[n]
    BY <1>4, FlattenIs
  <2> DEFINE S == {k \in Nat : k + 1 \in 1 .. n => h[k + 1] = g[k + 1]}
  <2>2. 0 \in S
    BY <1>1, <1>2, <2>1 DEF Flattens
  <2>3. ASSUME NEW k \in S PROVE k + 1 \in S
    <3> SUFFICES ASSUME k + 2 \in 1 .. n PROVE h[k + 2] = g[k + 2]
      BY <1>1
    <3>1. k \in Nat /\ k + 1 \in 1 .. n /\ k + 2 \in 1 .. n + 1 /\ k + 2 # 1 /\ (k + 2) - 1 = k + 1
      BY <1>1
    <3>2. h[k + 2] = h[k + 1] \o t[k + 2]
      BY <1>2, <3>1 DEF Flattens
    <3>3. g[k + 2] = g[k + 1] \o s[k + 2]
      BY <2>1, <3>1 DEF Flattens
    <3> QED
      BY <1>1, <3>1, <3>2, <3>3
  <2> HIDE DEF S
  <2>4. S \in SUBSET Nat
    BY DEF S
  <2>5. S = Nat
    BY <2>2, <2>3, <2>4, Induction
  <2>6. n - 1 \in S /\ n - 1 + 1 = n /\ n \in 1 .. n /\ n + 1 # 1 /\ n + 1 \in 1 .. n + 1
    BY <1>1, <1>4, <2>5
  <2>7. h[n] = g[n]
    BY <2>6 DEF S
  <2>8. (n + 1) - 1 = n
    BY <1>1
  <2>9. h[n + 1] = h[n] \o t[n + 1]
    BY <1>2, <2>6, <2>8 DEF Flattens
  <2> QED
    BY <1>1, <1>2, <2>1, <2>7, <2>9 DEF t
<1> QED
  BY <1>3, <1>4

(* A sequence, one element after another.                                  *)
LEMMA ElementByElement ==
  ASSUME NEW T, NEW s \in Seq(T)
  PROVE  /\ SubSeq(s, 1, 0) = <<>> /\ SubSeq(s, 1, Len(s)) = s /\ Len(s) \in Nat
         /\ \A n \in Nat : n + 1 <= Len(s) =>
              /\ SubSeq(s, 1, n) \in Seq(T) /\ s[n + 1] \in T
              /\ SubSeq(s, 1, n + 1) = Append(SubSeq(s, 1, n), s[n + 1])
<1>1. SubSeq(s, 1, 0) = <<>> /\ SubSeq(s, 1, Len(s)) = s /\ Len(s) \in Nat
  OBVIOUS
<1>2. ASSUME NEW n \in Nat, n + 1 <= Len(s)
      PROVE  /\ SubSeq(s, 1, n) \in Seq(T) /\ s[n + 1] \in T
             /\ SubSeq(s, 1, n + 1) = Append(SubSeq(s, 1, n), s[n + 1])
  <2>1. n + 1 \in 1 .. Len(s) /\ n <= Len(s)
    BY <1>1, <1>2
  <2>2. SubSeq(s, 1, n) \in Seq(T) /\ s[n + 1] \in T
    BY <2>1
  <2> QED
    BY <2>1, <2>2
<1> QED
  BY <1>1, <1>2

LEMMA FlattenType ==
  ASSUME NEW T, NEW s \in Seq(Seq(T))
  PROVE  FlattenSeq(s) \in Seq(T)
<1> DEFINE u(n) == SubSeq(s, 1, n)
           S == {n \in Nat : n <= Len(s) => FlattenSeq(u(n)) \in Seq(T)}
<1>1. u(0) = <<>> /\ u(Len(s)) = s /\ Len(s) \in Nat
  BY ElementByElement
<1>2. \A n \in Nat : n + 1 <= Len(s) =>
        u(n) \in Seq(Seq(T)) /\ s[n + 1] \in Seq(T) /\ u(n + 1) = Append(u(n), s[n + 1])
  BY ElementByElement
<1> HIDE DEF u
<1>3. 0 \in S
  <2>1. FlattenSeq(<<>>) = <<>>
    BY DEF FlattenSeq
  <2>2. FlattenSeq(u(0)) = <<>>
    BY <1>1, <2>1
  <2>3. <<>> \in Seq(T)
    OBVIOUS
  <2> QED
    BY <2>2, <2>3
<1>4. ASSUME NEW n \in S PROVE n + 1 \in S
  <2> SUFFICES ASSUME n + 1 <= Len(s) PROVE FlattenSeq(u(n + 1)) \in Seq(T)
    OBVIOUS
  <2>1. n \in Nat /\ FlattenSeq(u(n)) \in Seq(T)
    BY <1>1
  <2> DEFINE e == s[n + 1]
  <2>2. u(n) \in Seq(Seq(T)) /\ e \in Seq(T) /\ u(n + 1) = Append(u(n), e)
    BY <1>2, <2>1
  <2> HIDE DEF e
  <2>3. FlattenSeq(u(n + 1)) = FlattenSeq(u(n)) \o e
    BY <2>1, <2>2, FlattenStep
  <2>4. FlattenSeq(u(n)) \o e \in Seq(T)
    BY <2>1, <2>2, ConcatProperties
  <2> QED
    BY <2>3, <2>4
<1> HIDE DEF S
<1>5. S \in SUBSET Nat
  BY DEF S
<1>6. S = Nat
  BY <1>3, <1>4, <1>5, Induction
<1> QED
  BY <1>1, <1>6 DEF S

LEMMA Flattened ==
  ASSUME NEW T, NEW s \in Seq(Seq(T))
  PROVE  /\ FlattenSeq(s) \in Seq(T)
         /\ \A e \in Seq(T) : FlattenSeq(Append(s, e)) = FlattenSeq(s) \o e
BY FlattenType, FlattenStep

LEMMA FlattenFew ==
  /\ FlattenSeq(<<>>) = <<>>
  /\ \A T : \A e \in Seq(T) : FlattenSeq(<<e>>) = e
<1>1. FlattenSeq(<<>>) = <<>>
  BY DEF FlattenSeq
<1>2. ASSUME NEW T, NEW e \in Seq(T) PROVE FlattenSeq(<<e>>) = e
  <2>1. <<>> \in Seq(Seq(T)) /\ Append(<<>>, e) = <<e>> /\ <<>> \o e = e
    OBVIOUS
  <2> QED
    BY <1>1, <2>1, Flattened
<1> QED
  BY <1>1, <1>2

LEMMA FlattenConcat ==
  ASSUME NEW T, NEW s \in Seq(Seq(T)), NEW t \in Seq(Seq(T))
  PROVE  FlattenSeq(s \o t) = FlattenSeq(s) \o FlattenSeq(t)
<1> DEFINE u(n) == SubSeq(t, 1, n)
           S == {n \in Nat : n <= Len(t) =>
                   FlattenSeq(s \o u(n)) = FlattenSeq(s) \o FlattenSeq(u(n))}
<1>1. u(0) = <<>> /\ u(Len(t)) = t /\ Len(t) \in Nat
  BY ElementByElement
<1>2. \A n \in Nat : n + 1 <= Len(t) =>
        u(n) \in Seq(Seq(T)) /\ t[n + 1] \in Seq(T) /\ u(n + 1) = Append(u(n), t[n + 1])
  BY ElementByElement
<1> HIDE DEF u
<1>3. 0 \in S
  <2>1. s \o <<>> = s
    OBVIOUS
  <2>2. FlattenSeq(s) \o <<>> = FlattenSeq(s)
    BY FlattenType
  <2> QED
    BY <1>1, <2>1, <2>2, FlattenFew
<1>4. ASSUME NEW n \in S PROVE n + 1 \in S
  <2> SUFFICES ASSUME n + 1 <= Len(t)
               PROVE  FlattenSeq(s \o u(n + 1)) = FlattenSeq(s) \o FlattenSeq(u(n + 1))
    OBVIOUS
  <2> DEFINE e == t[n + 1]
  <2>1. n \in Nat /\ FlattenSeq(s \o u(n)) = FlattenSeq(s) \o FlattenSeq(u(n))
    BY <1>1
  <2>2. u(n) \in Seq(Seq(T)) /\ e \in Seq(T) /\ u(n + 1) = Append(u(n), e)
    BY <1>2, <2>1
  <2> HIDE DEF e
  <2>3. s \o u(n) \in Seq(Seq(T))
    BY <2>2
  <2>4. s \o u(n + 1) = Append(s \o u(n), e)
    <3> DEFINE Q == Seq(T)
    <3>1. s \in Seq(Q) /\ u(n) \in Seq(Q) /\ e \in Q
      BY <2>2
    <3> HIDE DEF Q
    <3>2. s \o Append(u(n), e) = Append(s \o u(n), e)
      BY <3>1
    <3> QED
      BY <2>2, <3>2
  <2>5. /\ FlattenSeq(s \o u(n + 1)) = (FlattenSeq(s) \o FlattenSeq(u(n))) \o e
        /\ FlattenSeq(u(n + 1)) = FlattenSeq(u(n)) \o e
    BY <2>1, <2>2, <2>3, <2>4, Flattened
  <2>6. FlattenSeq(s) \in Seq(T) /\ FlattenSeq(u(n)) \in Seq(T)
    BY <2>2, Flattened
  <2>7. (FlattenSeq(s) \o FlattenSeq(u(n))) \o e = FlattenSeq(s) \o (FlattenSeq(u(n)) \o e)
    <3> DEFINE x == FlattenSeq(s)
               y == FlattenSeq(u(n))
    <3>1. x \in Seq(T) /\ y \in Seq(T) /\ e \in Seq(T)
      BY <2>2, <2>6
    <3> HIDE DEF x, y, S
    <3>2. (x \o y) \o e = x \o (y \o e)
      BY <3>1, ConcatAssociative
    <3> QED
      BY <3>2 DEF x, y
  <2> QED
    BY <2>5, <2>7
<1> HIDE DEF S
<1>5. S \in SUBSET Nat
  BY DEF S
<1>6. S = Nat
  BY <1>3, <1>4, <1>5, Induction
<1>7. FlattenSeq(s \o u(Len(t))) = FlattenSeq(s) \o FlattenSeq(u(Len(t)))
  <2>1. Len(t) \in S
    BY <1>1, <1>6
  <2> QED
    BY <1>1, <2>1 DEF S
<1> QED
  BY <1>1, <1>7

-----------------------------------------------------------------------------
(* The arguments: their parsing goes down from the last token.             *)
Listed(line) == UNION {ToSet(token.word) : token \in {t \in ToSet(line) : t.word # None}}

Tokens(line) == line \in Seq(ToSet(line)) /\ \A i \in DOMAIN line : IsToken(line[i])

LEMMA NamesType ==
  ASSUME NEW T, NEW word \in Seq(T)
  PROVE  parseSecretNames(word) \in Seq(T)
<1> DEFINE p == [i \in DOMAIN word |-> IF word[i] = Blank THEN <<>> ELSE <<word[i]>>]
           Q == Seq(T)
<1>1. \A i \in DOMAIN p : p[i] \in Q
  OBVIOUS
<1>2. DOMAIN p = 1 .. Len(word) /\ Len(word) \in Nat
  OBVIOUS
<1>3. p = [i \in 1 .. Len(word) |-> p[i]]
  BY <1>2
<1>4. parseSecretNames(word) = FlattenSeq(p)
  BY DEF parseSecretNames
<1> HIDE DEF p, Q
<1>5. p \in Seq(Q)
  BY <1>1, <1>2, <1>3
<1>6. p \in Seq(Seq(T))
  BY <1>5 DEF Q
<1> QED
  BY <1>4, <1>6, FlattenType

LEMMA TokenAt ==
  ASSUME NEW line, Tokens(line), NEW i \in 1 .. Len(line)
  PROVE  /\ Len(line) \in Nat /\ line[i] \in ToSet(line)
         /\ line[i].word # None => line[i].word \in Seq(Listed(line))
         /\ Plain(line[i]) => line[i].word \in Seq(Listed(line))
<1>1. line \in Seq(ToSet(line)) /\ IsToken(line[i])
  BY DEF Tokens
<1>2. line[i] \in ToSet(line) /\ Len(line) \in Nat
  BY <1>1
<1>3. ASSUME line[i].word # None PROVE line[i].word \in Seq(Listed(line))
  <2>1. line[i].word \in Seq(ToSet(line[i].word))
    BY <1>1, <1>3 DEF IsToken
  <2>2. ToSet(line[i].word) \subseteq Listed(line)
    BY <1>2, <1>3 DEF Listed
  <2> QED
    BY <2>1, <2>2
<1>4. Plain(line[i]) => line[i].word # None
  BY <1>1 DEF IsToken
<1> QED
  BY <1>2, <1>3, <1>4

LEMMA ValueType ==
  ASSUME NEW line, Tokens(line), NEW i \in 1 .. Len(line)
  PROVE  parseFlagValue(line, i) \in Seq(Listed(line))
<1>1. CASE line[i].word # None
  BY <1>1, TokenAt DEF parseFlagValue
<1>2. CASE line[i].word = None /\ i < Len(line) /\ Plain(line[i + 1])
  <2>1. i + 1 \in 1 .. Len(line)
    BY <1>2, TokenAt
  <2>2. line[i + 1].word \in Seq(Listed(line))
    BY <1>2, <2>1, TokenAt
  <2> QED
    BY <1>2, <2>2 DEF parseFlagValue
<1>3. CASE line[i].word = None /\ ~(i < Len(line) /\ Plain(line[i + 1]))
  BY <1>3 DEF parseFlagValue
<1> QED
  BY <1>1, <1>2, <1>3

LEMMA GivenType ==
  ASSUME NEW line, Tokens(line), NEW i \in 1 .. Len(line)
  PROVE  NamesGiven(line, i) \in Seq(Listed(line))
<1>1. line[i].word # None => line[i].word \in Seq(Listed(line))
  BY TokenAt
<1>2. ValueOfFlag(line, i) => line[i].word \in Seq(Listed(line))
  BY TokenAt DEF ValueOfFlag
<1>3. line[i].word \in Seq(Listed(line)) => parseSecretNames(line[i].word) \in Seq(Listed(line))
  BY NamesType
<1> QED
  BY <1>1, <1>2, <1>3 DEF NamesGiven

(* The names that the tokens from the ith to the nth give. *)
NamesBetween(line, i, n) ==
  FlattenSeq([j \in 1 .. n - i + 1 |-> NamesGiven(line, i + j - 1)])

LEMMA GivenBetween ==
  ASSUME NEW line, Tokens(line), NEW i \in 1 .. Len(line) + 1, NEW n \in i - 1 .. Len(line)
  PROVE  /\ [j \in 1 .. n - i + 1 |-> NamesGiven(line, i + j - 1)] \in Seq(Seq(Listed(line)))
         /\ NamesBetween(line, i, n) \in Seq(Listed(line))
<1> DEFINE Q == Seq(Listed(line))
           p == [j \in 1 .. n - i + 1 |-> NamesGiven(line, i + j - 1)]
<1>1. Len(line) \in Nat
  BY DEF Tokens
<1>2. ASSUME NEW j \in 1 .. n - i + 1 PROVE NamesGiven(line, i + j - 1) \in Q
  <2>1. i + j - 1 \in 1 .. Len(line)
    BY <1>1
  <2> QED
    BY <2>1, GivenType
<1> HIDE DEF Q
<1>3. n - i + 1 \in Nat /\ p \in Seq(Q)
  BY <1>1, <1>2
<1>4. p \in Seq(Seq(Listed(line)))
  BY <1>3 DEF Q
<1> HIDE DEF p
<1>5. FlattenSeq(p) \in Seq(Listed(line))
  BY <1>4, FlattenType
<1> QED
  BY <1>4, <1>5 DEF p, NamesBetween

LEMMA BetweenStep ==
  ASSUME NEW line, Tokens(line), NEW i \in 1 .. Len(line), NEW n \in i .. Len(line)
  PROVE  NamesBetween(line, i, n) = NamesGiven(line, i) \o NamesBetween(line, i + 1, n)
<1> DEFINE T == Listed(line)
           e == NamesGiven(line, i)
           p == [j \in 1 .. n - i + 1 |-> NamesGiven(line, i + j - 1)]
           q == [j \in 1 .. n - (i + 1) + 1 |-> NamesGiven(line, (i + 1) + j - 1)]
<1>1. Len(line) \in Nat /\ i \in 1 .. Len(line) + 1 /\ i + 1 \in 1 .. Len(line) + 1
      /\ n \in i - 1 .. Len(line) /\ n \in (i + 1) - 1 .. Len(line)
  BY DEF Tokens
<1>2. e \in Seq(T)
  BY GivenType
<1>3. q \in Seq(Seq(T))
  BY <1>1, GivenBetween
<1>4. p = <<e>> \o q
  <2>1. DOMAIN p = 1 .. n - i + 1 /\ DOMAIN q = 1 .. n - i /\ n - i \in Nat
    BY <1>1
  <2>2. Len(q) = n - i
    BY <2>1, <1>3
  <2>3. p[1] = e
    BY <2>1, <1>1
  <2>4. ASSUME NEW j \in 2 .. n - i + 1 PROVE p[j] = q[j - 1]
    <3>1. j - 1 \in 1 .. n - (i + 1) + 1 /\ j \in 1 .. n - i + 1
          /\ (i + 1) + (j - 1) - 1 = i + j - 1
      BY <1>1
    <3> QED
      BY <3>1
  <2>5. p = [j \in 1 .. n - i + 1 |-> p[j]]
    BY <2>1
  <2> DEFINE Q == Seq(T)
  <2>6. q \in Seq(Q) /\ e \in Q
    BY <1>2, <1>3
  <2> HIDE DEF p, q, e, Q
  <2>7. <<e>> \o q = [j \in 1 .. n - i + 1 |-> IF j = 1 THEN e ELSE q[j - 1]]
    BY <2>1, <2>2, <2>6
  <2>8. \A j \in 1 .. n - i + 1 : p[j] = IF j = 1 THEN e ELSE q[j - 1]
    BY <2>1, <2>3, <2>4
  <2> QED
    BY <2>5, <2>7, <2>8
<1> HIDE DEF p, q, e, T
<1>5. <<e>> \in Seq(Seq(T))
  <2> DEFINE Q == Seq(T)
  <2>1. e \in Q
    BY <1>2
  <2> HIDE DEF Q
  <2>2. <<e>> \in Seq(Q)
    BY <2>1
  <2> QED
    BY <2>2 DEF Q
<1>6. FlattenSeq(p) = FlattenSeq(<<e>>) \o FlattenSeq(q)
  BY <1>3, <1>4, <1>5, FlattenConcat
<1>7. FlattenSeq(<<e>>) = e
  BY <1>2, FlattenFew
<1> QED
  BY <1>6, <1>7 DEF p, q, e, NamesBetween

(* The recursion of Parsed, from k on.                                     *)
ParsedBackTo(line, g, k) ==
  g = [i \in k .. Len(line) + 1 |->
         IF i > Len(line) THEN NothingParsed
         ELSE ParsedToken(line, i, g[i + 1], g[nextIndex(line, i)])]

LEMMA NextIndexGrows ==
  ASSUME NEW line, Tokens(line), NEW i \in 1 .. Len(line)
  PROVE  /\ nextIndex(line, i) \in {i + 1, i + 2}
         /\ nextIndex(line, i) \in i + 1 .. Len(line) + 1
         /\ nextIndex(line, i) = i + 2 =>
              line[i].word = None /\ i + 1 \in 1 .. Len(line) /\ Plain(line[i + 1])
<1>1. Len(line) \in Nat
  BY DEF Tokens
<1> QED
  BY <1>1 DEF nextIndex

LEMMA ParsesExists ==
  ASSUME NEW line, Tokens(line)
  PROVE  \E g : ParsedBackTo(line, g, 1)
<1> DEFINE n == Len(line)
           S == {m \in Nat : m <= n => \E g : ParsedBackTo(line, g, n + 1 - m)}
<1>1. n \in Nat
  BY DEF Tokens
<1>2. 0 \in S
  <2> DEFINE g == [i \in n + 1 .. n + 1 |-> NothingParsed]
  <2>1. ParsedBackTo(line, g, n + 1)
    BY <1>1 DEF ParsedBackTo
  <2> HIDE DEF g
  <2> QED
    BY <1>1, <2>1
<1>3. ASSUME NEW m \in S PROVE m + 1 \in S
  <2> SUFFICES ASSUME m + 1 <= n PROVE \E h : ParsedBackTo(line, h, n + 1 - (m + 1))
    OBVIOUS
  <2> DEFINE k == n + 1 - (m + 1)
  <2>1. PICK g : ParsedBackTo(line, g, k + 1)
    <3>1. n + 1 - m = k + 1 /\ m <= n
      BY <1>1
    <3> QED
      BY <3>1
  <2>2. m \in Nat /\ k \in 1 .. n
    BY <1>1
  <2> DEFINE here == ParsedToken(line, k, g[k + 1], g[nextIndex(line, k)])
             h == [i \in k .. n + 1 |-> IF i = k THEN here ELSE g[i]]
  <2> HIDE DEF k, S, here
  <2>3. ASSUME NEW i \in k .. n + 1
        PROVE  h[i] = IF i > n THEN NothingParsed
                      ELSE ParsedToken(line, i, h[i + 1], h[nextIndex(line, i)])
    <3>1. \A j \in k + 1 .. n + 1 : h[j] = g[j]
      BY <1>1, <2>2
    <3>2. i <= n => i \in 1 .. n /\ i + 1 \in k + 1 .. n + 1 /\ nextIndex(line, i) \in k + 1 .. n + 1
      BY <1>1, <2>2, NextIndexGrows
    <3>3. CASE i = k
      <4>1. h[i] = here /\ i <= n
        BY <1>1, <2>2, <3>3
      <4> QED
        BY <1>1, <2>2, <3>1, <3>2, <3>3, <4>1 DEF here
    <3>4. CASE i # k
      <4>1. i \in k + 1 .. n + 1
        BY <1>1, <2>2, <3>4
      <4>2. g[i] = IF i > n THEN NothingParsed
                   ELSE ParsedToken(line, i, g[i + 1], g[nextIndex(line, i)])
        BY <2>1, <4>1 DEF ParsedBackTo
      <4> HIDE DEF h
      <4>3. CASE i > n
        BY <3>1, <4>1, <4>2, <4>3
      <4>4. CASE i <= n
        BY <1>1, <2>2, <3>1, <3>2, <4>1, <4>2, <4>4
      <4> QED
        BY <1>1, <2>2, <4>3, <4>4
    <3> QED
      BY <3>3, <3>4
  <2>4. ParsedBackTo(line, h, k)
    BY <2>3 DEF ParsedBackTo
  <2> HIDE DEF h
  <2> QED
    BY <2>4 DEF k
<1> HIDE DEF S
<1>4. S \in SUBSET Nat
  BY DEF S
<1>5. n \in S
  BY <1>1, <1>2, <1>3, <1>4, Induction
<1>6. n + 1 - n = 1
  BY <1>1
<1> QED
  BY <1>1, <1>5, <1>6 DEF S

LEMMA ParsedBy ==
  ASSUME NEW line, Tokens(line)
  PROVE  \E g : ParsedBackTo(line, g, 1) /\ Parsed(line) = g[1]
<1> DEFINE g == CHOOSE g : ParsedBackTo(line, g, 1)
<1>1. ParsedBackTo(line, g, 1)
  BY ParsesExists
<1>2. Parsed(line) = g[1]
  BY DEF Parsed, ParsedBackTo
<1> HIDE DEF g
<1> QED
  BY <1>1, <1>2

(* What is made of the tokens from i on is what a reader of the usage text *)
(* would make of them.                                                     *)
ParseRecords(line) ==
  [showHelp : BOOLEAN, secretNames : Seq(Listed(line)), writeTo : Seq(Listed(line)),
   cliCommand : Seq(ToSet(line)), error : BOOLEAN]

Ours(line, n, j) ==
  \/ ValueOfFlag(line, j) /\ line[j - 1].option \in SecretFlags \cup {"--write-to"}
  \/ line[j].option \in SecretFlags \cup {"--write-to"}
  \/ line[j].option = "--" /\ j = n /\ n < Len(line)

ReadAs(line, r, i, n) ==
  /\ r.cliCommand = SubSeq(line, n + 1, Len(line))
  /\ \A j \in i .. n : Ours(line, n, j)
  /\ r.secretNames = NamesBetween(line, i, n)

Reads(line, r, i) ==
  /\ r \in ParseRecords(line)
  /\ ~r.showHelp /\ ~r.error => \E n \in i - 1 .. Len(line) : ReadAs(line, r, i, n)

LEMMA NothingBetween ==
  ASSUME NEW line, Tokens(line), NEW i \in 1 .. Len(line) + 1
  PROVE  NamesBetween(line, i, i - 1) = <<>>
<1>1. Len(line) \in Nat /\ (i - 1) - i + 1 = 0
  BY DEF Tokens
<1>2. [j \in 1 .. 0 |-> NamesGiven(line, i + j - 1)] = <<>>
  OBVIOUS
<1> QED
  BY <1>1, <1>2, FlattenFew DEF NamesBetween

LEMMA CommandReads ==
  ASSUME NEW line, Tokens(line), NEW i \in 1 .. Len(line) + 1, NEW n \in i - 1 .. Len(line),
         \A j \in i .. n : Ours(line, n, j) /\ NamesGiven(line, j) = <<>>, n <= i
  PROVE  Reads(line, [NothingParsed EXCEPT !.cliCommand = SubSeq(line, n + 1, Len(line))], i)
<1> DEFINE r == [NothingParsed EXCEPT !.cliCommand = SubSeq(line, n + 1, Len(line))]
<1>1. line \in Seq(ToSet(line)) /\ Len(line) \in Nat
  BY DEF Tokens
<1>2. SubSeq(line, n + 1, Len(line)) \in Seq(ToSet(line))
  BY <1>1
<1>3. r \in ParseRecords(line) /\ r.cliCommand = SubSeq(line, n + 1, Len(line))
      /\ r.secretNames = <<>>
  <2> DEFINE c == SubSeq(line, n + 1, Len(line))
             Q == Seq(Listed(line))
             C == Seq(ToSet(line))
  <2>1. <<>> \in Q /\ c \in C
    BY <1>2
  <2>2. r = [NothingParsed EXCEPT !.cliCommand = c]
    OBVIOUS
  <2> HIDE DEF c, Q, C, r
  <2>3. r \in [showHelp : BOOLEAN, secretNames : Q, writeTo : Q, cliCommand : C, error : BOOLEAN]
        /\ r.cliCommand = c /\ r.secretNames = <<>>
    BY <2>1, <2>2 DEF NothingParsed
  <2> QED
    BY <2>3 DEF c, Q, C, ParseRecords
<1>4. NamesBetween(line, i, n) = <<>>
  <2>1. CASE n = i - 1
    BY <2>1, NothingBetween
  <2>2. CASE n = i
    <3>1. /\ i \in 1 .. Len(line) /\ i + 1 \in 1 .. Len(line) + 1 /\ n \in i .. Len(line)
          /\ n = (i + 1) - 1
      BY <1>1, <2>2
    <3>2. NamesBetween(line, i, n) = NamesGiven(line, i) \o NamesBetween(line, i + 1, n)
      BY <3>1, BetweenStep
    <3>3. NamesGiven(line, i) = <<>> /\ NamesBetween(line, i + 1, n) = <<>>
      BY <2>2, <3>1, NothingBetween
    <3> QED
      BY <3>2, <3>3
  <2> QED
    BY <1>1, <2>1, <2>2
<1>5. ReadAs(line, r, i, n)
  BY <1>3, <1>4 DEF ReadAs
<1> HIDE DEF r
<1>6. Reads(line, r, i)
  BY <1>3, <1>5 DEF Reads
<1> QED
  BY <1>6 DEF r

(* A flag before what was read right: its names come first. *)
LEMMA FlagReads ==
  ASSUME NEW line, Tokens(line), NEW i \in 1 .. Len(line), NEW rest,
         Reads(line, rest, nextIndex(line, i)),
         line[i].option \in SecretFlags \cup {"--write-to"},
         NEW names \in Seq(Listed(line)), NEW r \in ParseRecords(line),
         r.cliCommand = rest.cliCommand, r.showHelp = rest.showHelp, r.error = rest.error,
         r.secretNames = names \o rest.secretNames,
         names = IF line[i].option \in SecretFlags
                 THEN parseSecretNames(parseFlagValue(line, i)) ELSE <<>>,
         parseFlagValue(line, i) # <<>>
  PROVE  Reads(line, r, i)
<1> SUFFICES ASSUME ~r.showHelp, ~r.error
             PROVE  \E n \in i - 1 .. Len(line) : ReadAs(line, r, i, n)
  BY DEF Reads
<1> DEFINE k == nextIndex(line, i)
<1>1. /\ Len(line) \in Nat /\ k \in {i + 1, i + 2} /\ k \in i + 1 .. Len(line) + 1
      /\ k = i + 2 => line[i].word = None /\ i + 1 \in 1 .. Len(line) /\ Plain(line[i + 1])
  BY NextIndexGrows DEF Tokens
<1>2. PICK n \in k - 1 .. Len(line) : ReadAs(line, rest, k, n)
  BY DEF Reads
<1>3. ~Plain(line[i])
  BY DEF Plain, SecretFlags
<1>4. n \in i .. Len(line) /\ n \in i - 1 .. Len(line)
  BY <1>1, <1>2
<1>5. r.cliCommand = SubSeq(line, n + 1, Len(line))
  BY <1>2 DEF ReadAs
<1>6. ASSUME NEW j \in i .. n PROVE Ours(line, n, j)
  <2>1. CASE j = i
    BY <2>1 DEF Ours
  <2>2. CASE j = i + 1 /\ k = i + 2
    <3>1. j > 1 /\ j - 1 = i /\ ValueOfFlag(line, j)
      BY <1>1, <2>2 DEF ValueOfFlag
    <3> QED
      BY <3>1 DEF Ours
  <2>3. CASE j \in k .. n
    BY <1>2, <2>3 DEF ReadAs
  <2> QED
    BY <1>1, <1>4, <2>1, <2>2, <2>3
<1>7. rest.secretNames = NamesBetween(line, k, n)
  BY <1>2 DEF ReadAs
<1>8. k \in 1 .. Len(line) + 1 /\ NamesBetween(line, k, n) \in Seq(Listed(line))
  <2>1. k \in 1 .. Len(line) + 1
    BY <1>1
  <2> HIDE DEF k
  <2> QED
    BY <2>1, <1>2, GivenBetween
<1>9. NamesBetween(line, i, n) = NamesGiven(line, i) \o NamesBetween(line, i + 1, n)
  BY <1>4, BetweenStep
<1>10. NamesBetween(line, i, n) = names \o NamesBetween(line, k, n)
  <2>1. CASE k = i + 1
    <3>1. NamesGiven(line, i) = names
      <4>1. CASE line[i].word # None
        BY <1>3, <4>1 DEF NamesGiven, ValueOfFlag, parseFlagValue
      <4>2. CASE line[i].word = None
        <5>1. ~(i < Len(line) /\ Plain(line[i + 1]))
          BY <1>1, <2>1, <4>2 DEF nextIndex
        <5> QED
          BY <4>2, <5>1 DEF parseFlagValue
      <4> QED
        BY <4>1, <4>2
    <3> QED
      BY <1>9, <2>1, <3>1
  <2>2. CASE k = i + 2
    <3>1. /\ line[i].word = None /\ i + 1 \in 1 .. Len(line) /\ Plain(line[i + 1])
          /\ i + 1 > 1 /\ (i + 1) - 1 = i /\ i < Len(line)
      BY <1>1, <2>2
    <3>2. NamesGiven(line, i) = <<>>
      BY <1>3, <3>1 DEF NamesGiven, ValueOfFlag
    <3>3. ValueOfFlag(line, i + 1) /\ parseFlagValue(line, i) = line[i + 1].word
      BY <3>1 DEF ValueOfFlag, parseFlagValue
    <3>4. line[i + 1].option \notin SecretFlags
      BY <3>1 DEF Plain, SecretFlags
    <3>5. NamesGiven(line, i + 1) = names
      BY <3>1, <3>3, <3>4 DEF NamesGiven
    <3>6. (i + 1) + 1 = k /\ n \in i + 1 .. Len(line)
      BY <1>1, <1>2, <2>2
    <3>7. NamesBetween(line, i + 1, n) = names \o NamesBetween(line, k, n)
      BY <3>1, <3>5, <3>6, BetweenStep
    <3>8. NamesBetween(line, i + 1, n) \in Seq(Listed(line))
      <4>1. i + 1 \in 1 .. Len(line) + 1 /\ n \in (i + 1) - 1 .. Len(line)
        BY <1>1, <1>4, <3>6
      <4> QED
        BY <4>1, GivenBetween
    <3>9. <<>> \o NamesBetween(line, i + 1, n) = NamesBetween(line, i + 1, n)
      BY <3>8
    <3> QED
      BY <1>9, <3>2, <3>7, <3>9
  <2> QED
    BY <1>1, <2>1, <2>2
<1>11. ReadAs(line, r, i, n)
  BY <1>5, <1>6, <1>7, <1>10 DEF ReadAs
<1> QED
  BY <1>4, <1>11

LEMMA TokenReads ==
  ASSUME NEW line, Tokens(line), NEW i \in 1 .. Len(line), NEW next, NEW rest,
         Reads(line, next, i + 1), Reads(line, rest, nextIndex(line, i))
  PROVE  Reads(line, ParsedToken(line, i, next, rest), i)
<1> DEFINE value == parseFlagValue(line, i)
           names == parseSecretNames(value)
           option == line[i].option
           r == ParsedToken(line, i, next, rest)
           L == Seq(Listed(line))
           C == Seq(ToSet(line))
           R == [showHelp : BOOLEAN, secretNames : L, writeTo : L, cliCommand : C, error : BOOLEAN]
<1>1. Len(line) \in Nat /\ i \in 1 .. Len(line) + 1
  BY DEF Tokens
<1>2. value \in L /\ names \in L /\ <<>> \in L /\ <<>> \in C
  BY ValueType, NamesType
<1>3. next \in R /\ rest \in R /\ R = ParseRecords(line)
  BY DEF Reads, ParseRecords
<1>4. CASE Plain(line[i])
  <2>1. r = [NothingParsed EXCEPT !.cliCommand = SubSeq(line, i, Len(line))]
    BY <1>4 DEF ParsedToken, Plain, SecretFlags
  <2>2. i - 1 \in i - 1 .. Len(line) /\ (i - 1) + 1 = i /\ i - 1 <= i /\ i .. i - 1 = {}
    BY <1>1
  <2> HIDE DEF r
  <2>3. Reads(line, [NothingParsed EXCEPT !.cliCommand = SubSeq(line, (i - 1) + 1, Len(line))], i)
    BY <1>1, <2>2, CommandReads
  <2> QED
    BY <2>1, <2>2, <2>3 DEF r
<1>5. CASE ~Plain(line[i]) /\ option = "--help"
  <2>1. r = [next EXCEPT !.showHelp = TRUE]
    BY <1>5 DEF ParsedToken, Plain, SecretFlags
  <2> HIDE DEF r, L, C
  <2>2. r \in R /\ r.showHelp
    BY <1>3, <2>1
  <2> QED
    BY <1>3, <2>2 DEF Reads, r
<1>6. CASE r = ParsingError
  <2> HIDE DEF r, L, C
  <2>1. r \in R /\ r.error
    BY <1>2, <1>6 DEF ParsingError, NothingParsed
  <2> QED
    BY <1>3, <2>1 DEF Reads, r
<1>7. CASE ~Plain(line[i]) /\ option = "--" /\ r # ParsingError
  <2>1. i # Len(line) /\ r = [NothingParsed EXCEPT !.cliCommand = SubSeq(line, i + 1, Len(line))]
    BY <1>7 DEF ParsedToken, Plain, SecretFlags
  <2>2. i \in i - 1 .. Len(line) /\ i < Len(line) /\ i <= i
    BY <1>1, <2>1
  <2>3. \A j \in i .. i : Ours(line, i, j) /\ NamesGiven(line, j) = <<>>
    BY <1>7, <2>2 DEF Ours, NamesGiven, ValueOfFlag, SecretFlags
  <2> HIDE DEF r
  <2>4. Reads(line, [NothingParsed EXCEPT !.cliCommand = SubSeq(line, i + 1, Len(line))], i)
    BY <1>1, <2>2, <2>3, CommandReads
  <2> QED
    BY <2>1, <2>4 DEF r
<1>8. CASE ~Plain(line[i]) /\ option \in SecretFlags /\ r # ParsingError
  <2>1. names # <<>> /\ r = [rest EXCEPT !.secretNames = names \o @]
    BY <1>8 DEF ParsedToken, SecretFlags
  <2>2. value # <<>>
    <3>1. parseSecretNames(<<>>) = <<>>
      <4>1. [i_ \in DOMAIN <<>> |-> IF <<>>[i_] = Blank THEN <<>> ELSE <<<<>>[i_]>>] = <<>>
        OBVIOUS
      <4> QED
        BY <4>1, FlattenFew DEF parseSecretNames
    <3> QED
      BY <2>1, <3>1
  <2>3. rest.secretNames \in L /\ names \o rest.secretNames \in L
    BY <1>2, <1>3, ConcatProperties
  <2> HIDE DEF r, L, C
  <2>4. r \in R /\ r.cliCommand = rest.cliCommand /\ r.showHelp = rest.showHelp
        /\ r.error = rest.error /\ r.secretNames = names \o rest.secretNames
    BY <1>3, <2>1, <2>3
  <2>5. names \in Seq(Listed(line)) /\ r \in ParseRecords(line)
    BY <1>2, <1>3, <2>4 DEF L
  <2> HIDE DEF names, value
  <2>6. names = IF option \in SecretFlags THEN parseSecretNames(parseFlagValue(line, i)) ELSE <<>>
    BY <1>8 DEF names, value
  <2>7. parseFlagValue(line, i) # <<>>
    BY <2>2 DEF value
  <2>8. Reads(line, r, i)
    BY <1>8, <2>4, <2>5, <2>6, <2>7, FlagReads
  <2> QED
    BY <2>8 DEF r
<1>9. CASE ~Plain(line[i]) /\ option = "--write-to" /\ r # ParsingError
  <2>1. value # <<>> /\ r = [rest EXCEPT !.writeTo = IF @ = <<>> THEN value ELSE @]
    BY <1>9 DEF ParsedToken, SecretFlags
  <2>2. rest.secretNames \in L /\ <<>> \o rest.secretNames = rest.secretNames
    BY <1>3
  <2> HIDE DEF r, L, C
  <2>3. r \in R /\ r.cliCommand = rest.cliCommand /\ r.showHelp = rest.showHelp
        /\ r.error = rest.error /\ r.secretNames = <<>> \o rest.secretNames
    BY <1>2, <1>3, <2>1, <2>2
  <2>4. <<>> \in Seq(Listed(line)) /\ r \in ParseRecords(line)
    BY <1>2, <1>3, <2>3 DEF L
  <2>5. <<>> = IF option \in SecretFlags THEN parseSecretNames(parseFlagValue(line, i)) ELSE <<>>
    BY <1>9 DEF SecretFlags
  <2> HIDE DEF value
  <2>6. parseFlagValue(line, i) # <<>>
    BY <2>1 DEF value
  <2>7. Reads(line, r, i)
    BY <1>9, <2>3, <2>4, <2>5, <2>6, FlagReads
  <2> QED
    BY <2>7 DEF r
<1>10. CASE ~Plain(line[i]) /\ option \notin SecretFlags \cup {"--help", "--", "--write-to"}
  <2>1. r = ParsingError
    BY <1>10 DEF ParsedToken
  <2> QED
    BY <1>6, <2>1
<1> QED
  BY <1>4, <1>5, <1>6, <1>7, <1>8, <1>9, <1>10

LEMMA ParsedReads ==
  ASSUME NEW line, Tokens(line)
  PROVE  Reads(line, Parsed(line), 1)
<1> DEFINE n == Len(line)
<1>1. n \in Nat
  BY DEF Tokens
<1>2. PICK g : ParsedBackTo(line, g, 1) /\ Parsed(line) = g[1]
  BY ParsedBy
<1> DEFINE S == {m \in Nat : m <= n => \A i \in n + 1 - m .. n + 1 : Reads(line, g[i], i)}
<1>3. 0 \in S
  <2>1. g[n + 1] = NothingParsed
    BY <1>1, <1>2 DEF ParsedBackTo
  <2>2. /\ n + 1 \in 1 .. n + 1 /\ n \in (n + 1) - 1 .. n /\ n + 1 .. n = {} /\ n <= n + 1
        /\ line \in Seq(ToSet(line))
    BY <1>1 DEF Tokens
  <2>3. Reads(line, [NothingParsed EXCEPT !.cliCommand = SubSeq(line, n + 1, n)], n + 1)
    BY <2>2, CommandReads
  <2>4. SubSeq(line, n + 1, n) = <<>>
    BY <1>1, <2>2
  <2>5. [NothingParsed EXCEPT !.cliCommand = <<>>] = NothingParsed
    BY DEF NothingParsed
  <2>6. Reads(line, g[n + 1], n + 1)
    BY <2>1, <2>3, <2>4, <2>5
  <2>7. n + 1 - 0 .. n + 1 = {n + 1}
    BY <1>1
  <2> QED
    BY <2>6, <2>7
<1>4. ASSUME NEW m \in S PROVE m + 1 \in S
  <2> SUFFICES ASSUME m + 1 <= n
               PROVE  \A i \in n + 1 - (m + 1) .. n + 1 : Reads(line, g[i], i)
    OBVIOUS
  <2> DEFINE k == n + 1 - (m + 1)
  <2>1. m \in Nat /\ k \in 1 .. n /\ k + 1 = n + 1 - m /\ m <= n
    BY <1>1
  <2>2. \A i \in k + 1 .. n + 1 : Reads(line, g[i], i)
    BY <2>1
  <2> HIDE DEF k, S
  <2>3. g[k] = ParsedToken(line, k, g[k + 1], g[nextIndex(line, k)])
    BY <1>1, <1>2, <2>1 DEF ParsedBackTo
  <2>4. Reads(line, g[k + 1], k + 1) /\ Reads(line, g[nextIndex(line, k)], nextIndex(line, k))
    <3>1. k + 1 \in k + 1 .. n + 1 /\ nextIndex(line, k) \in k + 1 .. n + 1
      BY <1>1, <2>1, NextIndexGrows
    <3> QED
      BY <2>2, <3>1
  <2>5. Reads(line, ParsedToken(line, k, g[k + 1], g[nextIndex(line, k)]), k)
    BY <2>1, <2>4, TokenReads
  <2>6. Reads(line, g[k], k)
    BY <2>3, <2>5
  <2>7. \A i \in k .. n + 1 : i = k \/ i \in k + 1 .. n + 1
    BY <1>1, <2>1
  <2>8. \A i \in k .. n + 1 : Reads(line, g[i], i)
    BY <2>2, <2>6, <2>7
  <2> QED
    BY <2>8 DEF k
<1> HIDE DEF S
<1>5. S \in SUBSET Nat
  BY DEF S
<1>6. n \in S
  BY <1>1, <1>3, <1>4, <1>5, Induction
<1>7. 1 \in n + 1 - n .. n + 1
  BY <1>1
<1>8. Reads(line, g[1], 1)
  BY <1>1, <1>6, <1>7 DEF S
<1> QED
  BY <1>2, <1>8

(* Until they are parsed the arguments are those we were called with.      *)
Unparsed == phase = "starting" => argv \in Arguments

LEMMA UnparsedStep == Unparsed /\ [Next]_vars => Unparsed'
<1> SUFFICES ASSUME Unparsed, [Next]_vars, phase' = "starting" PROVE argv' \in Arguments
  BY DEF Unparsed
<1> USE DEF Unparsed, inputs, answers, main, command
<1>1. CASE UNCHANGED vars
  BY <1>1 DEF vars
<1>2. CASE ShowHelp \/ RefuseArguments \/ FailToRead
  BY <1>2 DEF ShowHelp, RefuseArguments, FailToRead, Resolve
<1>3. ASSUME NEW shell, NEW files, ReadEnvironment(shell, files) PROVE FALSE
  BY <1>3, EnvironmentRead
<1>4. ASSUME NEW payload \in Payloads, Fetch(payload) PROVE argv' \in Arguments
  BY <1>4 DEF Fetch
<1>5. CASE FetchFails \/ WriteFile
  BY <1>5 DEF FetchFails, WriteFile, Resolve
<1>6. CASE Spawn \/ AddSignalListeners
  BY <1>6 DEF Spawn, AddSignalListeners, Resolve
<1>7. ASSUME NEW s \in Signals, OnSignal(s) \/ Signal(s) PROVE argv' \in Arguments
  BY <1>7 DEF OnSignal, Signal, finish, Resolve
<1>8. CASE OnError \/ OnClose \/ Exit
  BY <1>8 DEF OnError, OnClose, Exit, finish, Resolve
<1>9. ASSUME NEW how \in Codes \cup Deadly, CommandEnds(how) PROVE argv' \in Arguments
  BY <1>9 DEF CommandEnds
<1> QED
  BY <1>1, <1>2, <1>3, <1>4, <1>5, <1>6, <1>7, <1>8, <1>9 DEF Next

(* What was asked for, whatever its length: of what AsAsked says of a step *)
(* that reads the environment.                                             *)
LEMMA ReadAsAsked ==
  ASSUME Unparsed, NEW shell, NEW files, ReadEnvironment(shell, files), phase' = "fetching"
  PROVE  LET n == Len(argv) - Len(argv')
             listed == {key \in DOMAIN localEnv' \cap {"SECRET_NAMES", "SECRET_NAME"} :
                          parseSecretNames(localEnv'[key]) # <<>>}
         IN /\ argv' = SubSeq(argv, n + 1, Len(argv))
            /\ OnlyFlags(argv, n)
            /\ mode' = "run" <=> argv' # <<>>
            /\ listed = {} => secretNames' = NamesIn(argv, n)
<1> DEFINE parsed == Parsed(argv)
           n == Len(argv) - Len(argv')
           listed == {key \in DOMAIN localEnv' \cap {"SECRET_NAMES", "SECRET_NAME"} :
                        parseSecretNames(localEnv'[key]) # <<>>}
<1>1. Tokens(argv) /\ argv \in Seq(ToSet(argv)) /\ Len(argv) \in Nat
  <2>1. argv \in Arguments
    BY EnvironmentRead DEF Unparsed
  <2> QED
    BY <2>1, ArgumentsAreTokens DEF Tokens
<1>2. Reads(argv, parsed, 1)
  BY <1>1, ParsedReads
<1>3. /\ ~args.showHelp /\ ~args.error /\ ~TwoModes
      /\ Parse(IF args.writeTo # <<>> THEN "write" ELSE "run")
      /\ argv' = args.cliCommand /\ secretNames' = resolveSecretNames(args.secretNames, localEnv')
  BY DEF ReadEnvironment
<1>4. /\ args.showHelp = parsed.showHelp /\ args.cliCommand = parsed.cliCommand
      /\ args.secretNames = parsed.secretNames /\ args.writeTo = parsed.writeTo
      /\ args.error =
           \/ parsed.error
           \/ (/\ (parsed.cliCommand = <<>> /\ ~parsed.error)
               /\ ~parsed.showHelp /\ parsed.writeTo = <<>>)
  <2>1. parsed \in ParseRecords(argv)
    BY <1>2 DEF Reads
  <2> HIDE DEF parsed
  <2>2. args = [parsed EXCEPT !.error =
                  @ \/ ((parsed.cliCommand = <<>> /\ ~parsed.error)
                         /\ ~parsed.showHelp /\ parsed.writeTo = <<>>)]
    BY DEF args, parseSetupEnvArgs, parsed
  <2> QED
    BY <2>1, <2>2 DEF ParseRecords
<1>5. PICK m \in 0 .. Len(argv) : ReadAs(argv, parsed, 1, m)
  BY <1>2, <1>3, <1>4 DEF Reads
<1> HIDE DEF parsed
<1>6. argv' = SubSeq(argv, m + 1, Len(argv)) /\ Len(argv') = Len(argv) - m
  BY <1>1, <1>3, <1>4, <1>5 DEF ReadAs
<1>7. n = m
  BY <1>1, <1>6
<1>8. OnlyFlags(argv, m)
  BY <1>5 DEF ReadAs, Ours, OnlyFlags
<1>9. mode' = "run" <=> argv' # <<>>
  BY <1>3, <1>4 DEF Parse, TwoModes
<1>10. ASSUME listed = {} PROVE secretNames' = NamesIn(argv, m)
  <2>1. \A key \in {"SECRET_NAMES", "SECRET_NAME"} :
          key \in DOMAIN localEnv' => parseSecretNames(localEnv'[key]) = <<>>
    BY <1>10
  <2>2. secretNames' = parsed.secretNames
    BY <1>3, <1>4, <2>1 DEF resolveSecretNames
  <2>3. NamesBetween(argv, 1, m) = NamesIn(argv, m)
    <3>1. m - 1 + 1 = m /\ \A j \in 1 .. m : 1 + j - 1 = j
      BY <1>1
    <3>2. [j \in 1 .. m - 1 + 1 |-> NamesGiven(argv, 1 + j - 1)]
            = [j \in 1 .. m |-> NamesGiven(argv, j)]
      BY <3>1
    <3> QED
      BY <3>2 DEF NamesBetween, NamesIn
  <2> QED
    BY <1>5, <2>2, <2>3 DEF ReadAs
<1> QED
  BY <1>6, <1>7, <1>8, <1>9, <1>10

(* Whatever the arguments: fetching starts with just what was asked for.   *)
THEOREM DoesAsAsked == Spec => AsAsked
<1> DEFINE n == Len(argv) - Len(argv')
           listed == {key \in DOMAIN localEnv' \cap {"SECRET_NAMES", "SECRET_NAME"} :
                        parseSecretNames(localEnv'[key]) # <<>>}
           Asked == /\ argv' = SubSeq(argv, n + 1, Len(argv))
                    /\ OnlyFlags(argv, n)
                    /\ mode' = "run" <=> argv' # <<>>
                    /\ listed = {} => secretNames' = NamesIn(argv, n)
<1>1. Init => Unparsed
  BY DEF Init, Unparsed
<1>2. Unparsed /\ [Next]_vars => [phase = "starting" /\ phase' = "fetching" => Asked]_vars
  <2> SUFFICES ASSUME Unparsed, Next, phase = "starting", phase' = "fetching" PROVE Asked
    OBVIOUS
  <2>1. PICK shell, files : ReadEnvironment(shell, files)
    BY DEF Next, ShowHelp, RefuseArguments, FailToRead, Fetch, FetchFails, WriteFile, Spawn,
           AddSignalListeners, OnSignal, Signal, OnError, OnClose, Emit, Exit, CommandEnds,
           finish, Resolve, inputs, answers, main, command, removeSignalHandlers
  <2> QED
    BY <2>1, ReadAsAsked
<1> QED
  BY <1>1, <1>2, UnparsedStep, PTL DEF Spec, AsAsked

=============================================================================
