--------------------------- MODULE MCServiceStart ---------------------------
(* An instance of ServiceStart: every command line of up to three tokens,  *)
(* and an application with two configurations that share a variable.       *)
EXTENDS ServiceStart

CONSTANTS a, b, s, f, p, q, Number

Word(word) == [option |-> "", word |-> word]
Bare(option) == [option |-> option, word |-> None]
Inline(option, word) == [option |-> option, word |-> word]

Tokens ==
  {Bare(o) : o \in {"--help", "--", "--secret-name", "--write-to", "other"}}
    \cup {Inline("--secret-names", <<Blank, a>>), Inline("--secret-name", <<Blank>>),
          Word(<<b>>), Word(<<>>)}

MCArguments == UNION {[1 .. n -> Tokens] : n \in 0 .. 3}
  \cup {<<Bare("--secret-name"), Word(<<a>>), Inline("--secret-names", <<b>>),
          Bare("--write-to"), Word(<<f>>)>>,
        <<Bare("--write-to"), Word(<<f>>), Bare("--secret-name"), Word(<<a>>), Word(<<b>>)>>}

Sets(key, word) == [k \in {key} |-> word]

MCShells == {Sets("PORT", <<s>>)}
MCDotEnvs == {<<Sets("HOST", <<f>>), Sets("HOST", <<>>)>>,
              <<Sets("SECRET_NAMES", <<Blank>>) @@ Sets("SECRET_NAME", <<b>>)>>}
MCPayloads == {Sets("HOST", <<p>>), Sets("HOST", <<q>>)}

MCLoads == {<<>>, <<Sets("HOST", <<f>>)>>}
MCSettings == {Sets("PORT", <<q>>)}
MCReturned == {Sets("HOST", <<q>>), Sets("HOST", <<p>>) @@ Sets("PORT", <<q>>)}

(* The port does not parse when it is q. *)
MCWords == {<<>>, <<s>>, <<f>>, <<p>>, <<q>>}
Host == [key |-> "HOST", required |-> TRUE, defaultValue |-> Undefined,
         parse |-> [w \in MCWords |-> w]]
Port == [key |-> "PORT", required |-> FALSE, defaultValue |-> <<s>>,
         parse |-> [w \in MCWords |-> IF w = <<q>> THEN Thrown ELSE Number]]
MCConfigs == {<<Host, Port>>, <<Port>>}

(* Bound: no signal comes between us and a second instance. *)
SignalsToOneInstance ==
  Len(instances) > 1 => pending = {} /\ receivedSignal = None /\ process = "alive"
=============================================================================
