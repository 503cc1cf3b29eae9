-------------------------- MODULE PlanningRevision --------------------------
(***************************************************************************)
(* What generation_revision promises.  A planning session has inputs that  *)
(* timetables are generated from and a number attached to them.  The       *)
(* inputs are replaced only together with a larger number, so whoever      *)
(* remembers a number can tell later, by comparing it alone, that what it  *)
(* computed still belongs to the current inputs: numbers never come back   *)
(* (no ABA), for as long as the session lives.                             *)
(***************************************************************************)
EXTENDS Naturals

CONSTANTS
  Inputs,       \* what the inputs can be
  Ended         \* the inputs of a session that is over, not in Inputs

VARIABLES inputs, revision

TypeOK == inputs \in Inputs \cup {Ended} /\ revision \in Nat

Init == inputs \in Inputs /\ revision \in Nat

\* Some input was written; it may have been written with its old value.
Revise ==
  /\ inputs # Ended
  /\ inputs' \in Inputs
  /\ revision' \in Nat
  /\ revision' > revision

End ==
  /\ inputs # Ended
  /\ inputs' = Ended
  /\ revision' = 0

Next == Revise \/ End

Spec == Init /\ [][Next]_<<inputs, revision>>

=============================================================================
