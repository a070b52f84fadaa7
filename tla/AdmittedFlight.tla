--------------------------- MODULE AdmittedFlight ---------------------------
(***************************************************************************)
(* What every physical stage promises about motion, whatever it computes:  *)
(* time advances only along an interval proved from the present moment to  *)
(* its end before the motion begins, every interval begins where the last  *)
(* one was left, and a refusal takes back what has not been flown.         *)
(***************************************************************************)
EXTENDS Naturals

VARIABLES at,    \* exact time of the carried state
          ahead  \* end of the proved interval, `at' when there is none

Init == at = 0 /\ ahead = 0

Prove == ahead = at /\ ahead' \in Nat /\ ahead' > at /\ UNCHANGED at

Move == at < ahead /\ at' \in Nat /\ at < at' /\ at' <= ahead /\ UNCHANGED ahead

Refuse == ahead' = at /\ UNCHANGED at

Next == Prove \/ Move \/ Refuse

Spec == Init /\ [][Next]_<<at, ahead>>

=============================================================================
