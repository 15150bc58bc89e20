---------------------------- MODULE Environment -----------------------------
(***************************************************************************)
(* createEnvironment and class Env in one process.  Everything in them is  *)
(* synchronous, so a call is one step; several modules of an application   *)
(* call them, each with a configuration of its own, at any time.           *)
(*                                                                         *)
(* A configuration is a sequence of variables: each has a key, whether it  *)
(* is required, a default or None, and a parse function from words to      *)
(* values, Thrown or Undefined.  What a call throws is seen by its caller  *)
(* only; calls that throw before they change anything are left out (a      *)
(* dotenv file that cannot be read, a singleton with another config).      *)
(***************************************************************************)
EXTENDS Naturals, DotEnv

CONSTANTS
  Configs,       \* the application's configurations
  Loads,         \* what dotenv files may set, in the order of their paths
  Returned,      \* environments that an application's own callback returns
  MaxInstances,  \* bound: how many instances are made
  Thrown, Undefined

ASSUME ConfigsAreSequences ==
  \A config \in Configs : Len(config) \in Nat /\ DOMAIN config = 1 .. Len(config)
ASSUME LoadsAreSequences == \A files \in Loads : files \in Seq(ToSet(files))

VARIABLES
  processEnv,    \* process.env
  instances,     \* the instances somebody holds
  singleton      \* the index of globalThis.__ENV_SYNC_SINGLETON__, or zero

environment == <<processEnv, instances, singleton>>

NoEnvironment == processEnv = <<>> /\ instances = <<>> /\ singleton = 0

-----------------------------------------------------------------------------
(* The string for a variable, by the environment or else by its default.   *)
valueToUse(source, variable) ==
  IF variable.key \in DOMAIN source /\ source[variable.key] # <<>>
  THEN source[variable.key] ELSE variable.defaultValue

Value(source, variable) ==
  LET word == valueToUse(source, variable)
  IN IF word = Undefined THEN Undefined ELSE variable.parse[word]

(* The variables up to m are parsed without an error. *)
Parses(source, config, m) == \A n \in 1 .. m : Value(source, config[n]) # Thrown

(* Mutant of processEnvValues: what an earlier attempt found is kept. *)
processMissingValues(instance, source) ==
  [m \in DOMAIN instance.config |->
     IF instance.values[m] = Undefined /\ Parses(source, instance.config, m)
     THEN Value(source, instance.config[m]) ELSE instance.values[m]]

(* A parse that throws leaves the variables from its own on as they were.  *)
processEnvValues(instance, source) ==
  [m \in DOMAIN instance.config |->
     IF Parses(source, instance.config, m)
     THEN Value(source, instance.config[m]) ELSE instance.values[m]]

validate(config, values) ==
  \A m \in DOMAIN config : config[m].required => values[m] # Undefined

Initialized(instance, source) ==
  LET values == processEnvValues(instance, source)
  IN [instance EXCEPT
        !.values = values,
        !.initialized = /\ Parses(source, instance.config, Len(instance.config))
                        /\ validate(instance.config, values),
        !.source = source]

(* Mutant of initializeSync: an instance is read anew at every call. *)
initializeSyncAgain(instance, source) ==
  IF source = Undefined THEN instance ELSE Initialized(instance, source)

(* Undefined stands for a callback that throws or returns a promise. *)
initializeSync(instance, source) ==
  IF instance.initialized \/ source = Undefined THEN instance
  ELSE Initialized(instance, source)

(* What a callback can return, when process.env is current. *)
Sources(ownCallback, current) ==
  IF ownCallback THEN Returned \cup {Undefined} ELSE {current}

(* source is a ghost: what the values were last read from.                 *)
Env(config, ownCallback) ==
  [config |-> config, ownCallback |-> ownCallback, initialized |-> FALSE,
   values |-> [m \in DOMAIN config |-> Undefined], source |-> Undefined]

-----------------------------------------------------------------------------
(* The constructor reads the dotenv files, if it should. *)
Construct(files, override) ==
  /\ Len(instances) < MaxInstances
  /\ processEnv' = loadDotEnvFilesSync(processEnv, files, override)

NewEnv(config, ownCallback, files, override) ==
  /\ Construct(files, override)
  /\ instances' = Append(instances, Env(config, ownCallback))
  /\ UNCHANGED singleton

(* A call that finds no singleton to reuse.  If it fails nobody holds the  *)
(* instance, but the singleton has been registered, and process.env keeps  *)
(* what the files set.                                                     *)
createEnvironment(config, isSingleton, ownCallback, files, override) ==
  /\ isSingleton => singleton = 0
  /\ Construct(files, override)
  /\ \E source \in Sources(ownCallback, processEnv') :
       LET instance == initializeSync(Env(config, ownCallback), source)
       IN IF isSingleton \/ instance.initialized
          THEN /\ instances' = Append(instances, instance)
               /\ singleton' = IF isSingleton THEN Len(instances') ELSE singleton
          ELSE UNCHANGED <<instances, singleton>>

(* initializeSync by a holder of the instance; also createEnvironment that *)
(* reuses the singleton, with its first config and whatever options: files *)
(* are not read again, and its first callback is called.                   *)
InitializeAgain(i) ==
  /\ \E source \in Sources(instances[i].ownCallback, processEnv) :
       instances' = [instances EXCEPT ![i] = initializeSync(@, source)]
  /\ UNCHANGED <<processEnv, singleton>>

CreateInstance(files, override) ==
  \E config \in Configs, ownCallback \in BOOLEAN :
    \/ NewEnv(config, ownCallback, files, override)
    \/ \E isSingleton \in BOOLEAN :
         createEnvironment(config, isSingleton, ownCallback, files, override)

InitializeInstance == \E i \in DOMAIN instances : InitializeAgain(i)

-----------------------------------------------------------------------------
(* What a getter returns is complete: no required variable is missing, and *)
(* every value comes from one reading of the environment, also when        *)
(* earlier attempts failed half-way.                                       *)
GettersComplete ==
  \A i \in DOMAIN instances : instances[i].initialized =>
    \A m \in DOMAIN instances[i].config :
      LET variable == instances[i].config[m]
      IN /\ instances[i].values[m] = Value(instances[i].source, variable)
         /\ instances[i].values[m] # Thrown
         /\ variable.required => instances[i].values[m] # Undefined

(* What a getter has once returned it returns as long as the process runs, *)
(* whatever happens to process.env and whoever calls createEnvironment.    *)
ValuesNeverChange ==
  [][\A i \in DOMAIN instances \cap DOMAIN instances' :
       instances[i].initialized => instances'[i].values = instances[i].values]_environment
=============================================================================
