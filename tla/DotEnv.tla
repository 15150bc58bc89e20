------------------------------- MODULE DotEnv -------------------------------
(***************************************************************************)
(* Dotenv files, as the CLI and createEnvironment load them.               *)
(*                                                                         *)
(* An environment maps the variables that are set to their values, and so  *)
(* does what dotenv.parse makes of a file; a file that does not exist sets *)
(* nothing.  A value is a comma-separated list of names, as a sequence:    *)
(* <<>> is the empty string, a Blank in it stands for white space.         *)
(***************************************************************************)
EXTENDS SequencesExt

(* The values of new win over those of old. *)
Assign(old, new) ==
  [key \in DOMAIN old \cup DOMAIN new |-> IF key \in DOMAIN new THEN new[key] ELSE old[key]]

(* One file after the other. *)
Merged(files) ==
  LET upTo[n \in 0 .. Len(files)] ==
        IF n = 0 THEN <<>> ELSE Assign(upTo[n - 1], files[n])
  IN  upTo[Len(files)]

loadDotEnvFilesSync(env, files, override) ==
  IF override THEN Assign(env, Merged(files)) ELSE Assign(Merged(files), env)
=============================================================================
