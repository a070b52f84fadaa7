------------------------------ MODULE StudyArm ------------------------------
(***************************************************************************)
(* One frozen study arm: StudyArmExecution (study/execution.py) around the *)
(* approach, its proof archive and the physical completion, with           *)
(* complete_nonlinear_mission (completion/nonlinear/coordinator.py) in the *)
(* middle.  Any call may raise, any write may fail, and the process may    *)
(* die between any two steps; records are replaced at once.                *)
(***************************************************************************)
EXTENDS CompleteMission

\* What is held is told from what is not: an approach, and what
\* run-result.json says.
ArmAssumption == None # "complete" /\ None \notin BOOLEAN

VARIABLES arm,        \* where run() stands
          runner,     \* the mission runner has been built
          approach,   \* what self.approach holds
          source,     \* the proof archive is closed and its reader held
          outcome,    \* self.completion, or None
          error,      \* self.error is set
          files,      \* the records in the directory of the arm
          summary,    \* the result in complete_mission.json, or None
          metrics,    \* success as collect_study_metrics sees it
          run_result  \* success as run-result.json says it, or None

arm_locals == <<runner, approach, source, outcome, error, metrics>>
arm_disk == <<files, summary, run_result>>
vars == <<completion, arm, arm_locals, arm_disk>>

\* The approach is "complete", "incomplete", "unmoved" (incomplete, without any
\* committed update) or a "prefix": what the recorder held when run() raised.

Init ==
  /\ CompletionInit
  /\ arm = "prepare" /\ runner = FALSE /\ approach = None /\ source = FALSE
  /\ outcome = None /\ error = FALSE /\ files = {} /\ summary = None
  /\ metrics = FALSE /\ run_result = None

-----------------------------------------------------------------------------
(* The body of run()                                                       *)

Step(here, there) == arm = here /\ arm' = there

\* Anything raised inside the try of run() goes to _retain_failure.
Raise(here) == Step(here, "retain")

Prepare ==
  /\ Step("prepare", "approach") \/ Raise("prepare")
  /\ UNCHANGED <<completion, arm_locals, arm_disk>>

\* The archive is opened, the runner built and run.
RunApproach ==
  /\ \/ /\ Step("approach", "close")
        /\ runner' = TRUE /\ approach' \in {"complete", "incomplete", "unmoved"}
     \/ Raise("approach") /\ runner' \in BOOLEAN /\ UNCHANGED approach
  /\ UNCHANGED <<completion, source, outcome, error, metrics, arm_disk>>

CloseArchive ==
  /\ \/ Step("close", "save") /\ source' = TRUE
     \/ Raise("close") /\ UNCHANGED source
  /\ UNCHANGED <<completion, runner, approach, outcome, error, metrics, arm_disk>>

\* Mutant: only a complete approach is saved.
SaveCompleteApproach ==
  /\ \/ /\ Step("save", "authenticate")
        /\ files' = IF approach = "complete" THEN files \cup {"approach"} ELSE files
     \/ Raise("save") /\ UNCHANGED files
  /\ UNCHANGED <<completion, arm_locals, summary, run_result>>

SaveApproach ==
  /\ \/ Step("save", "authenticate") /\ files' = files \cup {"approach"}
     \/ Raise("save") /\ UNCHANGED files
  /\ UNCHANGED <<completion, arm_locals, summary, run_result>>

Incomplete == [success |-> FALSE, budget |-> FALSE, attitude |-> FALSE, lifecycle |-> None]

\* An incomplete approach returns at once; a complete one is authenticated:
\* arrival, vehicle, endpoint, hold journal and hardware.
Authenticate ==
  /\ IF approach # "complete"
     THEN Step("authenticate", "account") /\ outcome' = Incomplete /\ UNCHANGED stage
     ELSE \/ Step("authenticate", "complete") /\ stage' = "approach" /\ UNCHANGED outcome
          \/ Raise("authenticate") /\ UNCHANGED <<stage, outcome>>
  /\ UNCHANGED <<stored, physics, locals, result, runner, approach, source, error, metrics,
                 arm_disk>>

Complete ==
  /\ arm = "complete" /\ CompletionNext
  /\ UNCHANGED <<arm, arm_locals, arm_disk>>

\* The audit is added to the result; an exception of complete() passes through.
Completed ==
  /\ \/ stage = "returned" /\ Step("complete", "account") /\ outcome' = result
     \/ stage \in {"returned", "raised"} /\ Raise("complete") /\ UNCHANGED outcome
  /\ UNCHANGED <<completion, runner, approach, source, error, metrics, arm_disk>>

\* An arm that moved but has no budget gets one, or the reason why not.
Account ==
  /\ arm = "account"
  /\ IF outcome.budget \/ approach = "unmoved"
     THEN /\ Step("account", "incomplete")
          /\ UNCHANGED <<outcome, stored, files>>
     ELSE \/ /\ outcome' = [outcome EXCEPT !.budget = TRUE]
             /\ \/ Step("account", "incomplete")
                   /\ stored' = stored \cup {"translation_budget"}
                \/ Raise("account") /\ UNCHANGED stored
             /\ UNCHANGED files
          \/ /\ Step("account", "incomplete") /\ files' = files \cup {"fuel-bound-refused"}
             /\ UNCHANGED <<outcome, stored>>
          \/ Raise("account") /\ UNCHANGED <<outcome, stored, files>>
  /\ UNCHANGED <<stage, physics, locals, result, runner, approach, source, error, metrics,
                 summary, run_result>>

RecordIncomplete ==
  /\ \/ /\ Step("incomplete", "finish")
        /\ stored' = IF approach = "complete" THEN stored ELSE stored \cup {"approach"}
     \/ approach # "complete" /\ Raise("incomplete") /\ UNCHANGED stored
  /\ UNCHANGED <<stage, physics, locals, result, arm_locals, arm_disk>>

Finish ==
  /\ \/ Step("finish", "metrics") /\ summary' = outcome
     \/ Raise("finish") /\ UNCHANGED summary
  /\ UNCHANGED <<completion, arm_locals, files, run_result>>

-----------------------------------------------------------------------------
(* _retain_failure and _finalize                                           *)

\* The error is noted and written; if that write fails the arm ends there.
RetainFailure ==
  /\ arm = "retain" /\ error' = TRUE
  /\ \/ /\ arm' = IF runner /\ approach = None THEN "retain_prefix" ELSE "metrics"
        /\ files' = files \cup {"execution-error"}
     \/ arm' = "crashed" /\ UNCHANGED files
  /\ UNCHANGED <<completion, runner, approach, source, outcome, metrics, summary, run_result>>

\* What fails while the prefix is recorded is added to the error.
RetainPrefix ==
  /\ Step("retain_prefix", "metrics")
  /\ \/ approach' = "prefix" /\ files' \in {files, files \cup {"approach"}}
     \/ UNCHANGED <<approach, files>>
  /\ UNCHANGED <<completion, runner, source, outcome, error, metrics, summary, run_result>>

\* Mutant: the success of the completion is reported as it stands.
ReportedIgnoringError == outcome # None /\ outcome.success

\* collect_study_metrics: a completed mission without any error.
Reported == outcome # None /\ outcome.success /\ ~error

\* Recorded failure events and violated sampled gates also deny success, and
\* so does a refusal of the metrics themselves.
CollectMetrics ==
  /\ Step("metrics", "write_metrics")
  /\ metrics' \in {FALSE, approach # None /\ Reported}
  /\ UNCHANGED <<completion, runner, approach, source, outcome, error, arm_disk>>

WriteMetrics ==
  /\ \/ Step("write_metrics", "write_result") /\ files' = files \cup {"study-metrics"}
     \/ Step("write_metrics", "crashed") /\ UNCHANGED files
  /\ UNCHANGED <<completion, arm_locals, summary, run_result>>

WriteRunResult ==
  /\ \/ Step("write_result", "ended") /\ run_result' = metrics
     \/ Step("write_result", "crashed") /\ UNCHANGED run_result
  /\ UNCHANGED <<completion, arm_locals, files, summary>>

\* The process is killed; its directory stays as it is.
Killed ==
  /\ arm \notin {"ended", "crashed"} /\ arm' = "crashed"
  /\ UNCHANGED <<completion, arm_locals, arm_disk>>

Next ==
  \/ Prepare \/ RunApproach \/ CloseArchive \/ SaveApproach
  \/ Authenticate \/ Complete \/ Completed \/ Account \/ RecordIncomplete \/ Finish
  \/ RetainFailure \/ RetainPrefix \/ CollectMetrics \/ WriteMetrics \/ WriteRunResult
  \/ Killed

Spec == Init /\ [][Next]_vars

-----------------------------------------------------------------------------
(* Properties                                                              *)

\* A physical stage is carried out only after every stage before it succeeded
\* with its loads, and the replay and the contact only from evidence that is
\* already on disk: the saved approach, its closed archive, the budget, the
\* attitude ("A failed stage stops continuation", docs/mission-lifecycle.md:15).
StagesFollowEvidence ==
  /\ performed # {} => /\ approach = "complete" /\ source /\ "approach" \in files
                       /\ {"approach", "translation_budget"} \subseteq stored
  /\ "attachment" \in performed => "attitude" \in passed /\ "chaser_attitude" \in stored
  /\ "detumbling" \in performed => "attachment" \in passed
  /\ "deorbit" \in performed => "detumbling" \in passed

\* The summary names only records that are there, it and run-result.json
\* report success only of a mission whose every stage succeeded, and the
\* latter only if the summary says so too, whatever was refused in between
\* and wherever the process died.
SummaryIsBacked ==
  /\ summary # None =>
       /\ "approach" \in stored
       /\ summary.attitude => "chaser_attitude" \in stored
       /\ summary.lifecycle # None => "lifecycle" \in stored
       /\ summary.success => passed = PhysicalStages
  /\ run_result = TRUE => summary # None /\ summary.success /\ ~error

\* An arm that ends without the record of its approach says that it failed.
MissingPrefixIsTold ==
  arm = "ended" /\ runner /\ "approach" \notin files => error /\ run_result = FALSE

=============================================================================
