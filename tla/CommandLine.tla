---------------------------- MODULE CommandLine -----------------------------
(***************************************************************************)
(* The arguments of setup-environment, and where its secrets' names come   *)
(* from.                                                                   *)
(*                                                                         *)
(* A token of argv has the option it is, or "" for a plain word, and a     *)
(* word: its own, or what follows the = of an option, or None.  Words are  *)
(* lists of names, see DotEnv; "other" is any option we do not know.       *)
(***************************************************************************)
EXTENDS Naturals, DotEnv

CONSTANTS Blank, None

parseSecretNames(word) ==
  FlattenSeq([i \in DOMAIN word |-> IF word[i] = Blank THEN <<>> ELSE <<word[i]>>])

Plain(token) == token.option = ""

(* A list of names; only an option may come without one.                   *)
IsToken(token) ==
  IF token.word = None THEN ~Plain(token) ELSE token.word \in Seq(ToSet(token.word))

(* The value of the option at i; a missing one is as bad as an empty one. *)
parseFlagValue(argv, i) ==
  IF argv[i].word # None THEN argv[i].word
  ELSE IF i < Len(argv) /\ Plain(argv[i + 1]) THEN argv[i + 1].word ELSE <<>>

(* Mutant of nextIndex: the value of an option is read again. *)
sameIndex(argv, i) == i + 1

nextIndex(argv, i) ==
  IF argv[i].word = None /\ i < Len(argv) /\ Plain(argv[i + 1]) THEN i + 2 ELSE i + 1

SecretFlags == {"--secret-name", "--secret-names"}

NothingParsed ==
  [showHelp |-> FALSE, secretNames |-> <<>>, writeTo |-> <<>>, cliCommand |-> <<>>,
   error |-> FALSE]
ParsingError == [NothingParsed EXCEPT !.error = TRUE]

(* What the loop makes of argv from i on, by what it makes of it from the  *)
(* next token on, and of the rest behind the option at i with its value: a *)
(* command or an error ends it, names add up, the last --write-to counts.  *)
ParsedToken(argv, i, next, rest) ==
  LET option == argv[i].option
      value == parseFlagValue(argv, i)
      names == parseSecretNames(value)
  IN CASE Plain(argv[i]) ->
            [NothingParsed EXCEPT !.cliCommand = SubSeq(argv, i, Len(argv))]
       [] option = "--help" -> [next EXCEPT !.showHelp = TRUE]
       [] option = "--" ->
            IF i = Len(argv) \/ argv[i + 1] = [option |-> "", word |-> <<>>]
            THEN ParsingError
            ELSE [NothingParsed EXCEPT !.cliCommand = SubSeq(argv, i + 1, Len(argv))]
       [] option \in SecretFlags /\ names # <<>> ->
            [rest EXCEPT !.secretNames = names \o @]
       [] option = "--write-to" /\ value # <<>> ->
            [rest EXCEPT !.writeTo = IF @ = <<>> THEN value ELSE @]
       [] OTHER -> ParsingError

Parsed(argv) ==
  LET from[i \in 1 .. Len(argv) + 1] ==
        IF i > Len(argv) THEN NothingParsed
        ELSE ParsedToken(argv, i, from[i + 1], from[nextIndex(argv, i)])
  IN from[1]

parseSetupEnvArgs(argv) ==
  LET parsed == Parsed(argv)
      ran == parsed.cliCommand = <<>> /\ ~parsed.error   \* to the end of argv
  IN [parsed EXCEPT
        !.error = @ \/ (ran /\ ~parsed.showHelp /\ parsed.writeTo = <<>>)]

(* SECRET_NAMES, or else SECRET_NAME, or else the arguments. *)
resolveSecretNames(names, env) ==
  LET listed(key) == IF key \in DOMAIN env THEN parseSecretNames(env[key]) ELSE <<>>
  IN IF listed("SECRET_NAMES") # <<>> THEN listed("SECRET_NAMES")
     ELSE IF listed("SECRET_NAME") # <<>> THEN listed("SECRET_NAME")
     ELSE names

-----------------------------------------------------------------------------
(* What a reader of the usage text expects of the n tokens that come       *)
(* before the command: each secret flag gives the names in its value, be   *)
(* that in its own token or the next, and the names of all are in order.   *)
ValueOfFlag(argv, j) == j > 1 /\ Plain(argv[j]) /\ argv[j - 1].word = None

NamesGiven(argv, j) ==
  IF \/ ValueOfFlag(argv, j) /\ argv[j - 1].option \in SecretFlags
     \/ argv[j].option \in SecretFlags /\ argv[j].word # None
  THEN parseSecretNames(argv[j].word) ELSE <<>>

NamesIn(argv, n) == FlattenSeq([j \in 1 .. n |-> NamesGiven(argv, j)])

OnlyFlags(argv, n) ==
  \A j \in 1 .. n :
    \/ ValueOfFlag(argv, j) /\ argv[j - 1].option \in SecretFlags \cup {"--write-to"}
    \/ argv[j].option \in SecretFlags \cup {"--write-to"}
    \/ argv[j].option = "--" /\ j = n /\ n < Len(argv)
=============================================================================
