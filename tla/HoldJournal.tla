----------------------------- MODULE HoldJournal -----------------------------
(***************************************************************************)
(* What the evidence of a mission promises about physical motion, whatever *)
(* fails on the way: a hold is announced before it moves anything, it is   *)
(* closed only after it moved, the next one is announced only when the     *)
(* last one is closed, and motion that is never closed ends the mission    *)
(* (docs/nonlinear-mission.md; "Already applied motion is retained; no     *)
(* successful endpoint or clock pause is inferred").                       *)
(***************************************************************************)
EXTENDS Integers

CONSTANTS HoldWidths,   \* widths a hold may have, in ticks (positive)
          NoHold        \* no hold is announced

VARIABLES position,   \* how far the fleet has really moved
          announced,  \* the hold announced and not closed, or NoHold
          closed,     \* how far the closed holds reach
          halted      \* the mission has stopped for good

journal == <<position, announced, closed, halted>>

Init ==
  /\ position = 0 /\ closed = 0
  /\ announced = NoHold
  /\ halted = FALSE

Announce ==
  /\ ~halted /\ announced = NoHold
  /\ \E h \in HoldWidths : announced' = [start |-> closed, end |-> closed + h]
  /\ UNCHANGED <<position, closed, halted>>

Move ==
  /\ ~halted /\ announced # NoHold /\ position = announced.start
  /\ position' = announced.end
  /\ UNCHANGED <<announced, closed, halted>>

Close ==
  /\ ~halted /\ announced # NoHold /\ position = announced.end
  /\ closed' = position
  /\ announced' = NoHold
  /\ UNCHANGED <<position, halted>>

Halt ==
  /\ ~halted
  /\ halted' = TRUE
  /\ UNCHANGED <<position, announced, closed>>

Next == Announce \/ Move \/ Close \/ Halt

\* A hold that moved the fleet is closed, or the mission halts.
Spec == Init /\ [][Next]_journal /\ WF_journal(Close \/ (Halt /\ position # closed))

=============================================================================
