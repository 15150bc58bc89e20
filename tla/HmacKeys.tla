------------------------------ MODULE HmacKeys -------------------------------
(* Lists of HMAC secrets.  A secret is named by the rotation, from 1, that *)
(* brought it in; 0 stands for the empty string.  A list is newest first,  *)
(* as loadAwsEnv sorts it, and the provider keeps the Keep newest.         *)
EXTENDS Naturals, Sequences

CONSTANTS Keep,         \* how many secrets the provider keeps
          MaxVersion    \* bound on its rotations

ASSUME KeepAssumption == Keep \in Nat \ {0}
ASSUME VersionAssumption == MaxVersion \in Nat \ {0}

VARIABLE version   \* the provider's rotations so far

(* External: another secret is brought in. *)
Rotates == version < MaxVersion /\ version' = version + 1

SecretsAt(v) == [i \in 1 .. (IF v < Keep THEN v ELSE Keep) |-> v - i + 1]

(* Mutant of validateHmacSecrets: the values are not looked at. *)
validateNonEmpty(secrets) == secrets # <<>>

validateHmacSecrets(secrets) ==
  /\ secrets # <<>>
  /\ \A i \in DOMAIN secrets : secrets[i] # 0
=============================================================================
