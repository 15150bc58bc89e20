\* A file or a command, signals at every moment, granted or refused; the
\* command is an application that reads its environment.
CONSTANTS
  a = a
  b = b
  s = s
  f = f
  p = p
  q = q
  Number = Number
  Blank = Blank
  None = None
  Thrown = Thrown
  Undefined = Undefined
  Signals = {SIGINT, SIGTERM}
  Deadly = {SIGINT, SIGTERM, SIGKILL}
  Codes = {0, 3}
  Arguments <- MCArguments
  Shells <- MCShells
  DotEnvs <- MCDotEnvs
  Payloads <- MCPayloads
  Configs <- MCConfigs
  Loads <- MCLoads
  Returned <- MCReturned
  Settings <- MCSettings
  MaxInstances = 2
SPECIFICATION FairService
CONSTRAINT SignalsToOneInstance
INVARIANTS
  NoOrphan
  ZeroIsSuccess
  GettersComplete
  LocalWinsThenSecrets
PROPERTIES
  AsAsked
  ValuesNeverChange
  SignalsForwarded
\* The program ends.
CHECK_DEADLOCK FALSE
