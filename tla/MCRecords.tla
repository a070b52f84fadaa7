------------------------------ MODULE MCRecords ------------------------------
(***************************************************************************)
(* The mission loop, the archive its holds are recorded in, the study arm  *)
(* that reads what a run left, and the historical approach with the record *)
(* it is resumed from.  An arm sees its run only through its outcome and   *)
(* the archive only through its reader, so they share no state: `part` is  *)
(* the one that is explored, the others stay where they start.             *)
(*                                                                         *)
(* The budget of the loop is one in which a dwell can be lost before the   *)
(* deadline and regained on it, or lost after it; the archive has a hold   *)
(* after a completion and a witness before, between or after them; the     *)
(* approach has two chasers and enough cycles for a deadline to pass, a    *)
(* dwell to complete and a run to be resumed twice.                        *)
(***************************************************************************)
EXTENDS MissionRunner, TLC

CONSTANTS MaxHolds, MaxWitnesses, TORN,
          FleetSize, Nodes, Substeps, MaxCycles, MaxScenarios

VARIABLES part,
          \* ProofArchive
          at, call, stream, file, synced, framed, entries, holds, rolling, manifest, reader,
          producer, witnesses, moved, recorded, outcome,
          \* StudyArm
          stage, stored, performed, passed, budget, attitude, lifecycle, result,
          arm, runner, approach, source, completion, error, files, summary, metrics, run_result,
          \* ApproachMission
          mode, guard, seam, store, point, run, fleet, rec, arr, belief, cycle, scenarios

Archive == INSTANCE ProofArchive WITH source <- reader, stage <- producer
Study == INSTANCE StudyArm WITH outcome <- completion
Approach == INSTANCE ApproachMission WITH
              Chasers <- [n \in 1..FleetSize |-> n], Horizon <- Nodes, stage <- point

ASSUME RecordInstances ==
  /\ Archive!ArchiveAssumption /\ Study!ArmAssumption /\ Approach!ApproachAssumption
  /\ FleetSize \in Nat \ {0}

loop == vars
archive == <<at, call, stream, file, synced, framed, entries, holds, rolling, manifest, reader,
             producer, witnesses, moved, recorded, outcome>>
study == <<stage, stored, performed, passed, budget, attitude, lifecycle, result,
           arm, runner, approach, source, completion, error, files, summary, metrics, run_result>>

mission == <<mode, guard, seam, store, point, run, fleet, rec, arr, belief, cycle, scenarios>>

RecordsInit ==
  /\ part \in {"loop", "archive", "study", "approach"}
  /\ Init /\ Archive!Init /\ Study!Init
  /\ Approach!Init /\ (part # "approach" => ~mode.guarded)

RunLoop == part = "loop" /\ Next /\ UNCHANGED <<part, archive, study, mission>>
KeepArchive == part = "archive" /\ Archive!Next /\ UNCHANGED <<part, loop, study, mission>>
RunArm == part = "study" /\ Study!Next /\ UNCHANGED <<part, loop, archive, mission>>
RunApproach == part = "approach" /\ Approach!Next /\ UNCHANGED <<part, loop, archive, study>>

\* Only the loop has to go on until it is done.
Stop == part # "loop" /\ UNCHANGED <<part, loop, archive, study, mission>>

RecordsNext == RunLoop \/ KeepArchive \/ RunArm \/ RunApproach \/ Stop

RecordsSpec == RecordsInit /\ [][RecordsNext]_<<part, loop, archive, study, mission>>

-----------------------------------------------------------------------------
\* ProofArchive: what was acknowledged survives, the motion is never ahead of
\* its archive, an archive that verifies holds the motion of the plant, and a
\* run that returned left one (archive.py, coordinator.py, runner.py).
ArchiveHoldsTheMotion ==
  Archive!AcknowledgedIsDurable /\ Archive!MotionIsStaged /\ Archive!VerifiedIsTheMotion
  /\ Archive!ReturnedRunVerifies

\* StudyArm: no stage is carried out before its evidence is on disk, and a
\* success or a missing prefix that is reported was so (coordinator.py,
\* study/arm.py).
StudyIsBacked == Study!StagesFollowEvidence /\ Study!SummaryIsBacked /\ Study!MissingPrefixIsTold

\* ApproachMission: a saved record loads again, its proposals drove the
\* intervals they stand for, and an unfinished one is resumed (checkpoint.py,
\* recorder.py).
RecordsResume ==
  Approach!EveryRecordReloads /\ Approach!ProposalsDroveTheirIntervals /\ Approach!UnfinishedResumes
  /\ Approach!SeamKeepsHistory

\* ApproachMission: success over any chain of runs was flown (runner.py).
SuccessIsEarned == Approach!SuccessIsEarned

\* MissionRunner and ApproachMission: a missed deadline stays missed, and an
\* accepted one never moves, whatever is resumed from whichever record.
DeadlinesAreFinal == MissIsFinal /\ Approach!DeadlineIsFixed
==============================================================================
