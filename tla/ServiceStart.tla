---------------------------- MODULE ServiceStart ----------------------------
(***************************************************************************)
(* setup-environment starts an application that reads its configuration    *)
(* with createEnvironment: the application's process.env begins as the     *)
(* childEnv of the CLI.  The application is external: it makes instances   *)
(* and assigns to process.env as it likes, as long as it runs.             *)
(***************************************************************************)
EXTENDS SetupEnvironment, Environment

CONSTANT Settings   \* what the application assigns to process.env

(* Ghosts: what the application itself sets, over and under all others.    *)
VARIABLES above, below

service == <<vars, environment, above, below>>

ServiceInit == Init /\ NoEnvironment /\ above = <<>> /\ below = <<>>

-----------------------------------------------------------------------------
(* The new process has its own memory, and takes it along when it ends. *)
Memory ==
  \/ /\ child = "none" /\ child' = "running"
     /\ processEnv' = childEnv
     /\ UNCHANGED <<instances, singleton, above, below>>
  \/ /\ child = "running" /\ child' = "ended"
     /\ processEnv' = <<>> /\ instances' = <<>> /\ singleton' = 0
     /\ above' = <<>> /\ below' = <<>>
  \/ /\ child' \in {child, "failed"}
     /\ UNCHANGED <<environment, above, below>>

CreateInApplication(files, override) ==
  /\ child = "running"
  /\ CreateInstance(files, override)
  /\ above' = IF override THEN Assign(above, Merged(files)) ELSE above
  /\ below' = IF override THEN below ELSE Assign(Merged(files), below)
  /\ UNCHANGED vars

InitializeInApplication ==
  /\ child = "running"
  /\ InitializeInstance
  /\ UNCHANGED <<vars, above, below>>

AssignInApplication(setting) ==
  /\ child = "running"
  /\ processEnv' = Assign(processEnv, setting)
  /\ above' = Assign(above, setting)
  /\ UNCHANGED <<vars, instances, singleton, below>>

ServiceNext ==
  \/ Next /\ Memory
  \/ \E files \in Loads, override \in BOOLEAN : CreateInApplication(files, override)
  \/ InitializeInApplication
  \/ \E setting \in Settings : AssignInApplication(setting)

ServiceSpec == ServiceInit /\ [][ServiceNext]_service

(* As FairSpec: the application owes us nothing either. *)
FairService == ServiceSpec /\ \A s \in Signals : WF_vars(OnSignal(s))

-----------------------------------------------------------------------------
(* A variable of the application has the value that the first of these     *)
(* gives it: the shell, the CLI's dotenv files from the last to the first, *)
(* the secrets from the last to the first, the application's own files in  *)
(* the order they were loaded; only what it assigns, and files it loads to *)
(* override, come before.  An empty value is a value.                      *)
LocalWinsThenSecrets ==
  child = "running" =>
    LET given == <<above>> \o local \o Reverse(fetched) \o <<below>>
        first(key) == CHOOSE j \in DOMAIN given :
          key \in DOMAIN given[j] /\ \A k \in 1 .. j - 1 : key \notin DOMAIN given[k]
    IN /\ DOMAIN processEnv = UNION {DOMAIN given[j] : j \in DOMAIN given}
       /\ \A key \in DOMAIN processEnv : processEnv[key] = given[first(key)][key]
=============================================================================
