------------------------------ MODULE OnceLoaded -----------------------------
(* What a lazily loaded value promises those who ask for it.  It is fixed  *)
(* once; whoever is given anything is given it; and who asks after it was  *)
(* fixed is not turned away.                                               *)

CONSTANTS Askers, Loadable, Nothing

VARIABLES
  value,   \* the value, or Nothing
  got      \* what became of each asker's last question

vars == <<value, got>>

Waiting == [state |-> "waiting", value |-> Nothing]
Promised == [state |-> "promised", value |-> Nothing]
Denied == [state |-> "denied", value |-> Nothing]
Given(v) == [state |-> "given", value |-> v]

Init ==
  /\ value = Nothing
  /\ got = [a \in Askers |-> Denied]

Pending(a) == got[a] \in {Waiting, Promised}

Ask(a) ==
  /\ ~Pending(a)
  /\ got' = [got EXCEPT ![a] = IF value = Nothing THEN Waiting ELSE Promised]
  /\ UNCHANGED value

(* Some of those who wait will be given the value; others waited for an    *)
(* attempt that has failed.                                                *)
Fix(v, lucky) ==
  /\ value = Nothing
  /\ value' = v
  /\ got' = [a \in Askers |-> IF a \in lucky /\ got[a] = Waiting THEN Promised ELSE got[a]]

Give(a) ==
  /\ got[a] = Promised
  /\ got' = [got EXCEPT ![a] = Given(value)]
  /\ UNCHANGED value

Deny(a) ==
  /\ got[a] = Waiting \/ (~Pending(a) /\ value = Nothing)
  /\ got' = [got EXCEPT ![a] = Denied]
  /\ UNCHANGED value

Next ==
  \/ \E v \in Loadable, lucky \in SUBSET Askers : Fix(v, lucky)
  \/ \E a \in Askers : Ask(a) \/ Give(a) \/ Deny(a)

Spec == Init /\ [][Next]_vars
=============================================================================
