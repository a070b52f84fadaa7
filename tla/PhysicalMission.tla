-------------------------- MODULE PhysicalMission --------------------------
(***************************************************************************)
(* The physical lifecycle in full: MissionLifecycle.run, which CompleteMission *)
(* models by the outcomes of its stages, here with the stages themselves:  *)
(* capture, detumbling and deorbit act, and the lifecycle goes on from     *)
(* what they return.                                                       *)
(***************************************************************************)
EXTENDS CompleteMission, AttachedFlight

vars == <<completion, clock, proved, contact, contact_run, capture_vars,
          flight, detumbling_run, deorbit_run>>

flight_vars == <<flight, detumbling_run, deorbit_run>>

Init ==
  /\ stage = "attachment" /\ stored = {"approach", "translation_budget", "chaser_attitude"}
  /\ performed = {"attitude"} /\ passed = {"attitude"}
  /\ budget = TRUE /\ attitude = TRUE /\ lifecycle = None /\ result = None
  /\ clock = 0 /\ proved = 0 /\ contact = "off" /\ ContactIdle
  /\ capture = "gates" /\ LockIdle
  /\ flight = "off" /\ DetumblingIdle /\ DeorbitIdle

-----------------------------------------------------------------------------
(* The stages at work                                                      *)

Capturing ==
  /\ stage = "attachment" /\ CaptureNext
  /\ UNCHANGED <<completion, flight_vars>>

Detumbling ==
  /\ stage = "detumbling" /\ DetumblingNext
  /\ UNCHANGED <<completion, deorbit_run>>

Deorbiting ==
  /\ stage = "deorbit" /\ DeorbitNext
  /\ UNCHANGED completion

-----------------------------------------------------------------------------
(* The lifecycle between them                                              *)

\* The capture has returned or raised; what it worked with is gone.
CaptureReturns ==
  /\ capture \in {"captured", "refused", "raised"} /\ Attach
  /\ "attachment" \in passed' <=> capture = "captured"
  /\ "attachment" \in performed' <=> capture # "raised"
  /\ LockReset /\ contact' = "off" /\ ContactFresh({"none"})
  /\ UNCHANGED <<clock, proved, capture, flight_vars>>

PropulsionReady ==
  /\ SetUpPropulsion
  /\ IF stage' = "detumbling" THEN flight' = "authority" /\ began' = clock
     ELSE UNCHANGED <<flight, began>>
  /\ UNCHANGED <<clock, proved, upstream, held, turns, quiet_dwell, deorbit_run>>

DetumblingReturns ==
  /\ flight \in {"detumbled", "not_detumbled"} /\ Detumble
  /\ UNCHANGED <<clock, proved, upstream, flight_vars>>

\* The history is audited whether the stage succeeded or not.
DetumblingAudited ==
  /\ AuditDetumbling
  /\ stage' = "deorbit" => flight = "detumbled"
  /\ IF stage' = "deorbit"
     THEN /\ flight' = "plan" /\ began' = 0 /\ UNCHANGED <<command, loads>>
          /\ hold' = 0 /\ turns' = <<>> /\ quiet_dwell' = 0
     ELSE UNCHANGED <<flight, detumbling_run>>
  /\ UNCHANGED <<clock, proved, upstream, deorbit_run>>

\* The observation that begins the deorbit is outside its handlers.
DeorbitReturns ==
  /\ flight \in {"deorbited", "not_deorbited", "plan"} /\ Deorbit
  /\ flight = "plan" => "deorbit" \notin performed'
  /\ UNCHANGED <<clock, proved, upstream, flight_vars>>

\* Mutant: the loads of the deorbit speak for the deorbit.
AuditSuffices ==
  AuditDeorbit /\ UNCHANGED <<clock, proved, upstream, flight_vars>>

\* The loads are audited first, then the outcome of the stage counts.
DeorbitAudited ==
  /\ AuditDeorbit
  /\ "deorbit" \in passed' => flight = "deorbited"
  /\ UNCHANGED <<clock, proved, upstream, flight_vars>>

Retain ==
  /\ RecordLifecycle
  /\ UNCHANGED <<clock, proved, upstream, flight_vars>>

Next ==
  \/ Capturing \/ CaptureReturns \/ PropulsionReady
  \/ Detumbling \/ DetumblingReturns \/ DetumblingAudited
  \/ Deorbiting \/ DeorbitReturns \/ DeorbitAudited \/ Retain

Spec == Init /\ [][Next]_vars

-----------------------------------------------------------------------------
(* Properties                                                              *)

Flight == INSTANCE AdmittedFlight WITH at <- clock, ahead <- proved

\* From the first contact step to the entry interface nothing moves except
\* along an interval that was proved, from the very state it leaves, before
\* the motion began; no stage loses or repeats time of the one before it.
MovesOnlyAsProved == Flight!Spec

\* The target is captured on proved contact, and locked along the plan.
CaptureIsProven == BondsFollowProvenPreload /\ SettlingIsProven /\ LockFollowsItsPlan

\* A mission that reports success was captured and has been brought down: the
\* whole set is below the interface when its result is put on record, by a
\* bracket of the very flight whose stages it keeps, and nothing is in the air.
SuccessIsPhysical ==
  result # None /\ result.success =>
    /\ capture = "captured" /\ status = "below" /\ certified /\ proved = clock
    /\ lifecycle.keeps = Attached

\* What follows the capture stays within the loads, the dwell and the burn it
\* was allowed, and a success is one.
DescentIsProven ==
  HeldLoadsAreProven /\ QuietDwellIsWhole /\ EntryIsBracketed /\ BurnIsBounded /\ SuccessIsPhysical

=============================================================================
