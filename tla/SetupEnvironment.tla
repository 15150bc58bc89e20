-------------------------- MODULE SetupEnvironment --------------------------
(***************************************************************************)
(* runSetupEnv: the arguments are parsed and the local environment read,   *)
(* the secrets are fetched one by one, then written to a file or handed,   *)
(* under the local environment, to a command that runs in a process group  *)
(* of its own, to which signals are forwarded until it ends.               *)
(*                                                                         *)
(* External: the operating system, which kills a process by a signal it    *)
(* has no listener for; Node, which queues a signal it listens to, and     *)
(* emits 'error' then 'close' for a command that cannot be started; AWS,   *)
(* the disk, and the command, which treats a signal as it likes.           *)
(***************************************************************************)
EXTENDS CommandLine

CONSTANTS
  Signals,      \* signalsToForward
  Deadly,       \* these, and signals that end the command unasked
  Codes,        \* exit codes of the command
  Arguments,    \* what the program may be called with
  Shells,       \* environments it may be called in
  DotEnvs,      \* what its dotenv files may set, in the order of their paths
  Payloads      \* the plain objects AWS may answer with

ASSUME ConfigAssumption ==
  /\ Codes \subseteq Nat
  /\ Signals \subseteq Deadly
  /\ Deadly \cap Codes = {} /\ None \notin Deadly \cup Nat
ASSUME ArgumentsAreTokens ==
  \A line \in Arguments :
    line \in Seq(ToSet(line)) /\ \A i \in DOMAIN line : IsToken(line[i])
ASSUME DotEnvsAreSequences == \A files \in DotEnvs : files \in Seq(ToSet(files))

VARIABLES
  argv,            \* the arguments, then the command, then nothing
  mode,            \* what they ask for: "none" | "help" | "write" | "run"
  localEnv,        \* runtime.env
  secretNames,
  secrets,         \* normalizedSecrets
  local, fetched,  \* ghosts: the local environments by precedence, the payloads
  killsRefused,    \* the command can put itself beyond our signals
  phase,           \* of runSetupEnv
  exitCode,        \* what its promise resolves to, or None
  listening,       \* signals that have our listener
  pending,         \* signals queued for it
  receivedSignal,
  process,         \* our own: "alive" | "killed" | "exited"
  child,           \* "none" | "running" | "failed" | "ended"
  ending,          \* the command's exit code or signal
  signalled,       \* signals that reached the command
  events           \* events of the child waiting to be emitted

inputs == <<argv, mode, localEnv, local, secretNames, killsRefused>>
answers == <<secrets, fetched>>
main == <<inputs, answers, phase, exitCode, listening, receivedSignal>>
command == <<child, ending, signalled>>
vars == <<main, pending, process, command, events>>

Init ==
  /\ argv \in Arguments /\ mode = "none"
  /\ localEnv = <<>> /\ local = <<>>
  /\ secretNames = <<>> /\ secrets = <<>> /\ fetched = <<>>
  /\ killsRefused \in BOOLEAN
  /\ phase = "starting" /\ exitCode = None
  /\ listening = {} /\ pending = {} /\ receivedSignal = None
  /\ process = "alive"
  /\ child = "none" /\ ending = None /\ signalled = {}
  /\ events = <<>>

-----------------------------------------------------------------------------
Resolve(code) == phase' = "settled" /\ exitCode' = code

args == parseSetupEnvArgs(argv)

TwoModes == args.writeTo # <<>> /\ args.cliCommand # <<>>

Parse(asked) ==
  /\ process = "alive" /\ phase = "starting"
  /\ mode' = asked
  /\ UNCHANGED <<killsRefused, listening, pending, receivedSignal, process,
                 command, events>>

ShowHelp ==
  /\ args.showHelp
  /\ Parse("help")
  /\ Resolve(0)
  /\ UNCHANGED <<argv, localEnv, local, secretNames, answers>>

RefuseArguments ==
  /\ ~args.showHelp /\ (args.error \/ TwoModes)
  /\ Parse("none")
  /\ Resolve(1)
  /\ UNCHANGED <<argv, localEnv, local, secretNames, answers>>

(* A dotenv file that exists and cannot be read rejects the promise.       *)
ReadEnvironment(shell, files) ==
  /\ ~args.showHelp /\ ~args.error /\ ~TwoModes
  /\ Parse(IF args.writeTo # <<>> THEN "write" ELSE "run")
  /\ argv' = args.cliCommand
  /\ localEnv' = loadDotEnvFilesSync(shell, files, FALSE)
  /\ local' = <<shell>> \o Reverse(files)
  /\ secretNames' = resolveSecretNames(args.secretNames, localEnv')
  /\ IF secretNames' = <<>> THEN Resolve(1)
     ELSE phase' = "fetching" /\ UNCHANGED exitCode
  /\ UNCHANGED answers

FailToRead ==
  /\ ~args.showHelp /\ ~args.error /\ ~TwoModes
  /\ Parse("none")
  /\ Resolve(1)
  /\ UNCHANGED <<argv, localEnv, local, secretNames, answers>>

(* A payload: a plain object of strings, numbers and booleans whose keys   *)
(* are names of variables, so nothing in it makes normalizeSecretValues    *)
(* throw.                                                                  *)
Fetch(payload) ==
  /\ process = "alive" /\ phase = "fetching" /\ Len(fetched) < Len(secretNames)
  /\ secrets' = Assign(secrets, payload)
  /\ fetched' = Append(fetched, payload)
  /\ UNCHANGED <<inputs, phase, exitCode, listening, pending, receivedSignal, process,
                 command, events>>

(* AWS fails, or answers what is not a payload: nothing fetched is used.   *)
FetchFails ==
  /\ process = "alive" /\ phase = "fetching" /\ Len(fetched) < Len(secretNames)
  /\ Resolve(1)
  /\ UNCHANGED <<inputs, answers, listening, pending, receivedSignal, process,
                 command, events>>

AllFetched == Len(fetched) = Len(secretNames)

WriteFile ==
  /\ process = "alive" /\ phase = "fetching" /\ AllFetched /\ mode = "write"
  /\ Resolve(0) \/ Resolve(1)
  /\ UNCHANGED <<inputs, answers, listening, pending, receivedSignal, process,
                 command, events>>

(* Mutant of childEnv: the secrets win. *)
secretsOverLocal == Assign(localEnv, secrets)

childEnv == Assign(secrets, localEnv)

(* A spawn that throws rejects the promise, which also ends us with one. *)
Spawn ==
  /\ process = "alive" /\ phase = "fetching" /\ AllFetched /\ mode = "run"
  /\ \/ phase' = "spawned" /\ child' = "running" /\ UNCHANGED <<exitCode, events>>
     \/ /\ phase' = "spawned" /\ child' = "failed"
        /\ events' = <<"error", "close">>
        /\ UNCHANGED exitCode
     \/ Resolve(1) /\ UNCHANGED <<child, events>>
  /\ argv' = <<>>
  /\ UNCHANGED <<mode, localEnv, local, secretNames, killsRefused, answers, listening,
                 pending, receivedSignal, process, ending, signalled>>

(* The code is synchronous from spawn to here, but a signal can come. *)
AddSignalListeners ==
  /\ process = "alive" /\ phase = "spawned"
  /\ phase' = "supervising"
  /\ listening' = Signals
  /\ UNCHANGED <<inputs, answers, exitCode, pending, receivedSignal, process,
                 command, events>>

-----------------------------------------------------------------------------
(* Removing a listener drops what is queued for it. *)
removeSignalHandlers == listening' = {} /\ pending' = {}

finish(code) ==
  IF phase = "settled" THEN UNCHANGED <<phase, exitCode, listening, pending>>
  ELSE Resolve(code) /\ removeSignalHandlers

(* Mutants of OnSignal: nothing is forwarded; the listener listens once. *)
OnSignalUnforwarded(s) ==
  /\ process = "alive" /\ s \in pending
  /\ receivedSignal' = s
  /\ pending' = pending \ {s}
  /\ UNCHANGED <<inputs, answers, phase, exitCode, listening, process, command, events>>
OnSignalOnce(s) ==
  /\ process = "alive" /\ s \in pending
  /\ receivedSignal' = s
  /\ signalled' = IF child = "running" THEN signalled \cup {s} ELSE signalled
  /\ pending' = pending \ {s}
  /\ listening' = listening \ {s}
  /\ UNCHANGED <<inputs, answers, phase, exitCode, process, child, ending, events>>

(* The listener and terminateChildProcess.  A refused kill of the child    *)
(* emits 'error' there and then; one that finds nobody does nothing.       *)
OnSignal(s) ==
  /\ process = "alive" /\ s \in pending
  /\ receivedSignal' = s
  /\ \/ /\ signalled' = IF child = "running" THEN signalled \cup {s} ELSE signalled
        /\ pending' = pending \ {s}
        /\ UNCHANGED <<phase, exitCode, listening>>
     \/ /\ killsRefused /\ child = "running"
        /\ finish(1)
        /\ UNCHANGED signalled
  /\ UNCHANGED <<inputs, answers, process, child, ending, events>>

Emit(event) ==
  /\ process = "alive" /\ phase \in {"supervising", "settled"}
  /\ events # <<>> /\ Head(events) = event
  /\ events' = Tail(events)

OnError ==
  /\ Emit("error")
  /\ finish(1)
  /\ UNCHANGED <<inputs, answers, receivedSignal, process, command>>

(* Mutant of signalToPropagate: only the command's own signal counts. *)
ownSignal == IF ending \in Deadly THEN ending ELSE None

signalToPropagate == IF ending \in Deadly THEN ending ELSE receivedSignal

(* With the listeners gone our own kill ends us, unless it is ignored. *)
OnClose ==
  /\ Emit("close")
  /\ IF signalToPropagate # None
     THEN \/ /\ process' = "killed"
             /\ removeSignalHandlers
             /\ UNCHANGED <<phase, exitCode>>
          \/ finish(1) /\ UNCHANGED process
     ELSE finish(IF ending = None THEN 1 ELSE ending) /\ UNCHANGED process
  /\ UNCHANGED <<inputs, answers, receivedSignal, command>>

(* Nothing keeps the event loop alive: the process exits, and if nothing   *)
(* resolved the promise its code is zero.                                  *)
Exit ==
  /\ process = "alive"
  /\ \/ phase = "settled"
     \/ phase = "supervising" /\ child # "none"
  /\ child # "running" /\ events = <<>>
  /\ process' = "exited"
  /\ UNCHANGED <<main, pending, command, events>>

-----------------------------------------------------------------------------
Signal(s) ==
  /\ process = "alive"
  /\ IF s \in listening
     THEN pending' = pending \cup {s} /\ UNCHANGED process
     ELSE process' = "killed" /\ UNCHANGED pending
  /\ UNCHANGED <<main, command, events>>

(* The command ends, by itself or by a signal from us or from elsewhere. *)
CommandEnds(how) ==
  /\ child = "running"
  /\ child' = "ended" /\ ending' = how
  /\ events' = Append(events, "close")
  /\ UNCHANGED <<main, pending, process, signalled>>

Next ==
  \/ ShowHelp \/ RefuseArguments \/ FailToRead
  \/ \E shell \in Shells, files \in DotEnvs : ReadEnvironment(shell, files)
  \/ \E payload \in Payloads : Fetch(payload)
  \/ FetchFails \/ WriteFile \/ Spawn \/ AddSignalListeners
  \/ \E s \in Signals : OnSignal(s) \/ Signal(s)
  \/ OnError \/ OnClose \/ Exit
  \/ \E how \in Codes \cup Deadly : CommandEnds(how)

Spec == Init /\ [][Next]_vars

(* Queued signals are handled; neither the user nor the command owes us    *)
(* anything.                                                               *)
FairSpec == Spec /\ \A s \in Signals : WF_vars(OnSignal(s))

-----------------------------------------------------------------------------
(* Every variable that supervision depends on holds values of its kind;    *)
(* there are listeners just while the command is supervised.               *)
TypeOK ==
  /\ mode \in {"none", "help", "write", "run"} /\ killsRefused \in BOOLEAN
  /\ phase \in {"starting", "fetching", "spawned", "supervising", "settled"}
  /\ fetched \in Seq(Payloads)
  /\ exitCode \in Codes \cup {None, 0, 1}
  /\ listening \subseteq Signals /\ pending \subseteq listening
  /\ receivedSignal \in Signals \cup {None}
  /\ process \in {"alive", "killed", "exited"}
  /\ child \in {"none", "running", "failed", "ended"}
  /\ ending \in Codes \cup Deadly \cup {None}
  /\ signalled \subseteq Signals
  /\ events \in {<<>>, <<"error", "close">>, <<"close">>}
  /\ exitCode # None <=> phase = "settled"
  /\ phase # "supervising" => listening = {}

(* Fetching starts with just what was asked for: the command is the rest   *)
(* of the arguments as it stands, before it there are only flags of ours,  *)
(* each with its value, and the names are those in the flags, in their     *)
(* order, unless the environment lists any.                                *)
AsAsked ==
  [][phase = "starting" /\ phase' = "fetching" =>
       LET n == Len(argv) - Len(argv')
           listed == {key \in DOMAIN localEnv' \cap {"SECRET_NAMES", "SECRET_NAME"} :
                        parseSecretNames(localEnv'[key]) # <<>>}
       IN /\ argv' = SubSeq(argv, n + 1, Len(argv))
          /\ OnlyFlags(argv, n)
          /\ mode' = "run" <=> argv' # <<>>
          /\ listed = {} => secretNames' = NamesIn(argv, n)]_vars

(* We exit with zero only for help, for a file with all the secrets, or    *)
(* for a command that ended with zero and had not been signalled through   *)
(* us: a command that tidies up and ends with zero after Ctrl-C is no      *)
(* success.                                                                *)
ZeroIsSuccess ==
  process = "exited" /\ exitCode \in {0, None} =>
    \/ mode = "help"
    \/ mode = "write" /\ AllFetched
    \/ child = "ended" /\ ending = 0 /\ receivedSignal = None

(* No signal separates us from a running command, except one that arrives  *)
(* between spawn and the listeners: otherwise we go only after the command, *)
(* as long as the system lets us signal it.                                *)
NoOrphan ==
  ~killsRefused /\ child = "running" /\ process # "alive" => phase = "spawned"

(* A signal that reaches us while the command runs is passed on to it,     *)
(* unless it ends first, or is beyond our signals.                         *)
SignalsForwarded ==
  \A s \in Signals :
    s \in pending ~> (s \in signalled \/ child # "running" \/ phase = "settled")
=============================================================================
