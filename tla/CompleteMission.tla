-------------------------- MODULE CompleteMission --------------------------
(***************************************************************************)
(* The physical completion of a recorded approach:                         *)
(* CompleteMissionRunner.complete (completion/coordinator.py) with its     *)
(* stage sink and store, and MissionLifecycle.run (lifecycle.py), which it *)
(* calls.  The route without a terminal handoff is modelled, the one the   *)
(* nonlinear mission takes.                                                *)
(*                                                                         *)
(* A stage returns a success, returns a failure, or raises.  Exceptions of *)
(* the kinds the code expects are turned into a refused result; any other  *)
(* (an OSError of the sink, a KeyError of a stage) leaves complete().      *)
(***************************************************************************)
EXTENDS FiniteSets

CONSTANT None

VARIABLES stage,      \* where complete() stands
          stored,     \* the records in the directory of CompleteMissionStore
          performed,  \* the physical stages that have produced a result
          passed,     \* those that succeeded, with their load audit
          budget, attitude,   \* whether complete() holds these results
          lifecycle,  \* the MissionLifecycleResult, or None
          result      \* the CompleteMissionResult returned, or None

locals == <<budget, attitude, lifecycle>>
physics == <<performed, passed>>
completion == <<stage, stored, performed, passed, budget, attitude, lifecycle, result>>

Attached == {"attachment", "detumbling", "deorbit"}
PhysicalStages == {"attitude"} \cup Attached

CompletionInit ==
  /\ stage = "off" /\ stored = {} /\ performed = {} /\ passed = {}
  /\ budget = FALSE /\ attitude = FALSE /\ lifecycle = None /\ result = None

-----------------------------------------------------------------------------
(* How a step ends                                                         *)

At(here) == stage = here

Go(next) == stage' = next /\ UNCHANGED result

\* An exception that no handler of complete() expects.
Escape == stage' = "raised" /\ UNCHANGED <<performed, passed, locals, result>>

\* physical_completion_rejected: what is held so far is retained.
Reject ==
  /\ stage' = "returned"
  /\ result' = [success |-> FALSE, budget |-> budget, attitude |-> attitude, lifecycle |-> None]
  /\ UNCHANGED <<performed, passed, locals>>

Refuse == Reject \/ Escape

-----------------------------------------------------------------------------
(* The stage sink                                                          *)

\* CompleteMissionStore.record replaces its file at once or raises OSError;
\* what the sink does after it (progress, a message) may raise as well.
Record(record) ==
  \/ stored' = stored \cup {record} /\ stage' # "raised"
  \/ stored' \in {stored, stored \cup {record}} /\ stage' = "raised"

RecordApproach ==
  /\ At("approach") /\ stage' \in {"geometry", "raised"}
  /\ Record("approach")
  /\ UNCHANGED <<performed, passed, locals, result>>

\* bind_approach_body_geometry
BindGeometry ==
  /\ At("geometry") /\ UNCHANGED stored
  /\ \/ Go("budget") /\ UNCHANGED <<performed, passed, locals>>
     \/ Refuse

TranslationBudget ==
  /\ At("budget") /\ UNCHANGED stored
  /\ \/ Go("record_budget") /\ budget' = TRUE
        /\ UNCHANGED <<performed, passed, attitude, lifecycle>>
     \/ Refuse

RecordBudget ==
  /\ At("record_budget") /\ stage' \in {"attitude", "raised"}
  /\ Record("translation_budget")
  /\ UNCHANGED <<performed, passed, locals, result>>

-----------------------------------------------------------------------------
(* Attitude                                                                *)

Perform(name, success) ==
  /\ performed' = performed \cup {name}
  /\ passed' = IF success THEN passed \cup {name} ELSE passed

TrackAttitude ==
  /\ At("attitude") /\ UNCHANGED stored
  /\ \/ Go("record_attitude") /\ attitude' = TRUE
        /\ \E success \in BOOLEAN : Perform("attitude", success)
        /\ UNCHANGED <<budget, lifecycle>>
     \/ Refuse

\* Mutant: a replay that was rejected is recorded and used all the same.
RecordAttitudeOnly ==
  /\ At("record_attitude")
  /\ stage' \in {"capture_geometry", "raised"}
  /\ Record("chaser_attitude")
  /\ UNCHANGED <<performed, passed, locals, result>>

\* A failed replay is recorded too; then it ends the mission.
RecordAttitude ==
  /\ At("record_attitude")
  /\ stage' \in {IF "attitude" \in passed THEN "capture_geometry" ELSE "returned", "raised"}
  /\ Record("chaser_attitude")
  /\ result' = IF stage' = "returned"
               THEN [success |-> FALSE, budget |-> TRUE, attitude |-> TRUE, lifecycle |-> None]
               ELSE result
  /\ UNCHANGED <<performed, passed, locals>>

\* The envelopes, the target inertia and the models of the lifecycle.
CaptureGeometry ==
  /\ At("capture_geometry") /\ UNCHANGED stored
  /\ \/ Go("attachment") /\ UNCHANGED <<performed, passed, locals>>
     \/ Refuse

-----------------------------------------------------------------------------
(* MissionLifecycle.run                                                    *)

\* The lifecycle returns: `keeps' are the stage results it retains.
Deliver(success, keeps, failure) ==
  /\ lifecycle' = [success |-> success, keeps |-> keeps, failure |-> failure]
  /\ stage' = "record_lifecycle"
  /\ UNCHANGED <<budget, attitude, result>>

Raises(keeps, failure) ==
  \/ Deliver(FALSE, keeps, failure) /\ UNCHANGED physics
  \/ Escape

\* Capture succeeds if every gate passes and the finite contact is reported.
Attach ==
  /\ At("attachment") /\ UNCHANGED stored
  /\ \/ Perform("attachment", TRUE) /\ Go("propulsion") /\ UNCHANGED locals
     \/ Perform("attachment", FALSE) /\ Deliver(FALSE, {"attachment"}, "none")
     \/ Raises({}, "attachment")

SetUpPropulsion ==
  /\ At("propulsion") /\ UNCHANGED stored
  /\ \/ Go("detumbling") /\ UNCHANGED <<performed, passed, locals>>
     \/ Raises({"attachment"}, "propulsion_setup")

\* The loads are audited before the success of the stage is looked at, so the
\* outcome of the run is kept open until then.
Detumble ==
  /\ At("detumbling") /\ UNCHANGED stored
  /\ \/ Perform("detumbling", FALSE) /\ Go("detumbling_loads") /\ UNCHANGED locals
     \/ Raises({"attachment"}, "detumbling")

AuditDetumbling ==
  /\ At("detumbling_loads") /\ UNCHANGED stored
  /\ \/ Perform("detumbling", TRUE) /\ Go("deorbit") /\ UNCHANGED locals
     \/ \E failure \in {"none", "detumbling"} :
          Deliver(FALSE, {"attachment", "detumbling"}, failure) /\ UNCHANGED physics
     \/ Raises({"attachment"}, "detumbling")

Deorbit ==
  /\ At("deorbit") /\ UNCHANGED stored
  /\ \/ Perform("deorbit", FALSE) /\ Go("deorbit_loads") /\ UNCHANGED locals
     \/ Raises({"attachment", "detumbling"}, "deorbit")

AuditDeorbit ==
  /\ At("deorbit_loads") /\ UNCHANGED stored
  /\ \/ Perform("deorbit", TRUE) /\ Deliver(TRUE, Attached, "none")
     \/ \E failure \in {"none", "deorbit"} :
          Deliver(FALSE, Attached, failure) /\ UNCHANGED physics
     \/ Raises({"attachment", "detumbling"}, "deorbit")

RecordLifecycle ==
  /\ At("record_lifecycle") /\ stage' \in {"returned", "raised"}
  /\ Record("lifecycle")
  /\ result' = IF stage' = "returned"
               THEN [success |-> lifecycle.success, budget |-> TRUE, attitude |-> TRUE,
                     lifecycle |-> lifecycle]
               ELSE result
  /\ UNCHANGED <<performed, passed, locals>>

CompletionNext ==
  \/ RecordApproach \/ BindGeometry \/ TranslationBudget \/ RecordBudget
  \/ TrackAttitude \/ RecordAttitude \/ CaptureGeometry
  \/ Attach \/ SetUpPropulsion \/ Detumble \/ AuditDetumbling \/ Deorbit \/ AuditDeorbit
  \/ RecordLifecycle

=============================================================================
