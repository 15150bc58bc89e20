---------------------------- MODULE AtLeastOnce -----------------------------
(* What a retried database operation promises its caller: it takes effect  *)
(* at most Max times, success is reported only after an effect, and one    *)
(* outcome is reported.  An effect may still come after the outcome.       *)
EXTENDS Naturals

CONSTANT Max   \* how often the operation may take effect

VARIABLES effects, outcome

Init == effects = 0 /\ outcome = "running"

Effect ==
  /\ effects < Max
  /\ effects' = effects + 1
  /\ UNCHANGED outcome

Return ==
  /\ outcome = "running"
  /\ effects > 0
  /\ outcome' = "returned"
  /\ UNCHANGED effects

Throw ==
  /\ outcome = "running"
  /\ outcome' = "threw"
  /\ UNCHANGED effects

Next == Effect \/ Return \/ Throw

Spec == Init /\ [][Next]_<<effects, outcome>>
=============================================================================
