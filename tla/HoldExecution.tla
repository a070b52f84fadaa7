---------------------------- MODULE HoldExecution ----------------------------
(***************************************************************************)
(* One physical hold of the nonlinear mission, step by step                *)
(* (scripts/simulation/nonlinear/execution/coordinator.py with its plant,  *)
(* sensing, blackout and journal collaborators).  advance() admits a hold, *)
(* archives it, moves the numerical truth, samples and delivers sensing,   *)
(* commits the runtime and archives the completion, for every hold of one  *)
(* outer update.                                                           *)
(*                                                                         *)
(* Every call on that path may raise: Fail is enabled at each program      *)
(* point of an advance, and it never continues the mission.  A process     *)
(* that is killed leaves the archive as it is, so what is said of the      *)
(* archive in every state is what a post-mortem reader finds.              *)
(* The admission runtime is FleetAdmission; here it is its clock and its   *)
(* pending decision.  Times are exact anomalies in ticks; a packet is      *)
(* ready when the navigation clock reaches its delivery.                   *)
(***************************************************************************)
EXTENDS Integers, Sequences

CONSTANTS OuterStep,         \* ticks of one outer update (config.anom_step)
          MaxWidth,          \* longest dense hold
          MaximumBlackout,   \* declared blackout horizon (maximum_blackout_q)
          Delays,            \* delays a sensor packet may have
          LastQ,             \* bound: no update is started past this clock
          None

ASSUME StepAssumption ==
  /\ OuterStep \in Nat \ {0} /\ MaxWidth \in Nat \ {0}
  /\ MaximumBlackout \in Nat \ {0} /\ LastQ \in Nat
  /\ Delays \subseteq Nat

\* A hold, the decision that asks for it, and the decision staged for motion.
Holds == [start : Nat, end : Nat]
Decisions == [start : Nat, end : Nat, source : {"PERFORMANCE", "FALLBACK"}]
StagedHolds == [start : Nat, end : Nat, source : {"PERFORMANCE", "FALLBACK"}, blackout : BOOLEAN]

\* Where a blackout has got to, and what a failed advance reports.
Observations == [q : Nat, last_sensor_q : Nat]
Violations == [staged : StagedHolds \cup {None}, physical_motion_committed : BOOLEAN,
               actual_q : Nat]

ASSUME NoneAssumption ==
  /\ None \notin Holds /\ None \notin Decisions /\ None \notin StagedHolds
  /\ None \notin Observations /\ None \notin Violations

VARIABLES
  at,                \* program point of the call in progress, or "IDLE"
  outer_end,         \* where the outer update in progress ends
  truth_q,           \* truth_target.current_q: how far the fleet really moved
  runtime_q,         \* clock of the admission runtime
  pending,           \* decision pending in the runtime, or None
  navigation_q,      \* clock of the navigation filter
  status,            \* its status
  packet_ids,        \* packets the filter has taken in
  blackout_holds,    \* holds applied since sensing was lost
  blackout_observer, \* [q, last_sensor_q] of the propagator, or None
  state_q,           \* clock of the controller state
  active_staged,     \* the hold staged for motion and not recorded, or None
  archive,           \* durable hold events, in order
  completed,         \* compact ledger of acknowledged completions
  recorded_q,        \* end of the last hold the mission recorder holds
  pending_packets, delivered,
  handed,            \* packets drained to the adaptation
  audited,           \* packets whose acquisition write was acknowledged
  unconfirmed,       \* an audit write is not acknowledged
  last_assumption_violation

clocks == <<truth_q, runtime_q, pending, navigation_q, status, state_q>>
blackout == <<blackout_holds, blackout_observer>>
evidence == <<archive, completed, recorded_q>>
packets == <<packet_ids, pending_packets, delivered, handed, audited, unconfirmed>>
vars == <<at, outer_end, clocks, blackout, active_staged, evidence, packets,
          last_assumption_violation>>

observed_q == IF blackout_holds # <<>> THEN blackout_observer.q ELSE navigation_q
Ready(q) == {p \in pending_packets : p.delivery <= q}
Event(kind, hold) == [kind |-> kind, start |-> hold.start, end |-> hold.end]

\* The constructor has sampled at clock 0 and consumed what was ready; the
\* first runtime is installed before the first update.
Init ==
  /\ at = "IDLE" /\ outer_end = 0
  /\ truth_q = 0 /\ runtime_q = 0 /\ navigation_q = 0 /\ state_q = 0
  /\ pending = None /\ status = "VALID"
  /\ blackout_holds = <<>> /\ blackout_observer = None
  /\ active_staged = None
  /\ archive = <<>> /\ completed = <<>> /\ recorded_q = 0
  /\ \E d \in Delays : LET p == [acquired |-> 0, delivery |-> d] IN
       /\ audited = {p}
       /\ pending_packets = IF d = 0 THEN {} ELSE {p}
       /\ delivered = {p} \ pending_packets
       /\ packet_ids \in SUBSET delivered
  /\ handed = {} /\ unconfirmed = FALSE
  /\ last_assumption_violation = None

-----------------------------------------------------------------------------
(* Admission and staging                                                   *)

Advance ==
  /\ at = "IDLE" /\ last_assumption_violation = None
  /\ observed_q + OuterStep <= LastQ
  /\ outer_end' = observed_q + OuterStep
  /\ active_staged' = None
  /\ at' = "PRE_ADMISSION"
  /\ UNCHANGED <<clocks, blackout, evidence, packets, last_assumption_violation>>

\* A performance proposal needs sensing; decide() refuses another clock and
\* a second pending decision.
Decide ==
  /\ at = "PRE_ADMISSION" /\ observed_q < outer_end
  /\ pending = None /\ runtime_q = observed_q
  /\ \E h \in 1..MaxWidth, source \in {"PERFORMANCE", "FALLBACK"} :
       /\ observed_q + h <= outer_end
       /\ blackout_holds # <<>> => source = "FALLBACK"
       /\ pending' = [start |-> observed_q, end |-> observed_q + h, source |-> source]
  /\ at' = "DECIDED"
  /\ UNCHANGED <<outer_end, truth_q, runtime_q, navigation_q, status, state_q, blackout,
                 active_staged, evidence, packets, last_assumption_violation>>

\* Mutant: every blackout hold restarts the horizon.
LastSensorRestarted(q) == q

LastSensor(q) == IF blackout_observer = None THEN q ELSE blackout_observer.last_sensor_q

\* A hold without a proved target or navigation flow runs on the blackout
\* propagator, which refuses to pass its horizon.  A performance hold whose
\* flow is missing raises instead.
Preflight ==
  /\ at = "DECIDED"
  /\ \E lost \in BOOLEAN :
       /\ blackout_holds # <<>> => lost
       /\ lost => /\ pending.source = "FALLBACK"
                  /\ pending.end - LastSensor(pending.start) <= MaximumBlackout
       /\ active_staged' = [start |-> pending.start, end |-> pending.end,
                            source |-> pending.source, blackout |-> lost]
  /\ at' = "ARCHIVE_BEFORE_MOTION"
  /\ UNCHANGED <<outer_end, clocks, blackout, evidence, packets, last_assumption_violation>>

\* The sink has written, but may still raise before it returns.
Publish(from, to, event) ==
  /\ at = from
  /\ archive' = Append(archive, event)
  /\ at' = to
  /\ UNCHANGED <<outer_end, clocks, blackout, active_staged, completed, recorded_q, packets,
                 last_assumption_violation>>

\* Mutant: the admitted record is buffered, not written.
AdmittedBuffered ==
  /\ at = "ARCHIVE_BEFORE_MOTION" /\ at' = "ADMITTED_WRITTEN"
  /\ UNCHANGED <<outer_end, clocks, blackout, active_staged, evidence, packets,
                 last_assumption_violation>>

WriteAdmitted ==
  Publish("ARCHIVE_BEFORE_MOTION", "ADMITTED_WRITTEN",
          Event("ADMITTED_BEFORE_MOTION", active_staged))

\* The sink returns and the plant computes the whole proposal, with no effect.
ProposeMotion ==
  /\ at = "ADMITTED_WRITTEN"
  /\ at' = "PHYSICAL_TRUTH_COMMIT"
  /\ UNCHANGED <<outer_end, clocks, blackout, active_staged, evidence, packets,
                 last_assumption_violation>>

CommitTruth ==
  /\ at = "PHYSICAL_TRUTH_COMMIT"
  /\ truth_q' = active_staged.end
  /\ at' = "SENSOR_GENERATION"
  /\ UNCHANGED <<outer_end, runtime_q, pending, navigation_q, status, state_q, blackout,
                 active_staged, evidence, packets, last_assumption_violation>>

-----------------------------------------------------------------------------
(* Sensing and navigation                                                  *)

\* A suite that acquires nothing at this clock leaves the audit alone.
Sample ==
  /\ at = "SENSOR_GENERATION" /\ ~unconfirmed
  /\ \/ /\ \E d \in Delays :
             pending_packets' = pending_packets \cup
               {[acquired |-> truth_q, delivery |-> truth_q + d]}
        /\ unconfirmed' = TRUE
     \/ UNCHANGED <<pending_packets, unconfirmed>>
  /\ at' = "SENSOR_AUDIT"
  /\ UNCHANGED <<outer_end, clocks, blackout, active_staged, evidence, packet_ids, delivered,
                 handed, audited, last_assumption_violation>>

\* The acquisition write is acknowledged.  During a blackout the precomputed
\* proposal becomes the observation and the filter does not move.
ConfirmSample ==
  /\ at = "SENSOR_AUDIT"
  /\ audited' = audited \cup {p \in pending_packets : p.acquired = truth_q}
  /\ unconfirmed' = FALSE
  /\ IF active_staged.blackout
     THEN /\ blackout_observer' = [q |-> active_staged.end,
                                   last_sensor_q |-> LastSensor(active_staged.start)]
          /\ blackout_holds' = Append(blackout_holds,
                                 [start |-> active_staged.start, end |-> active_staged.end])
          /\ at' = "RUNTIME_COMMIT"
          /\ UNCHANGED navigation_q
     ELSE /\ navigation_q' = active_staged.end
          /\ at' = "NAVIGATION_UPDATE"
          /\ UNCHANGED blackout
  /\ UNCHANGED <<outer_end, truth_q, runtime_q, pending, status, state_q, active_staged, evidence,
                 packet_ids, pending_packets, delivered, handed, last_assumption_violation>>

\* consume_ready: the attempt is written before the filter sees a packet ...
OfferPackets ==
  /\ at = "NAVIGATION_UPDATE" /\ ~unconfirmed
  /\ unconfirmed' = (Ready(navigation_q) # {})
  /\ at' = "OFFERED"
  /\ UNCHANGED <<outer_end, clocks, blackout, active_staged, evidence, packet_ids,
                 pending_packets, delivered, handed, audited, last_assumption_violation>>

\* ... the filter takes some of them in, or finds a contradiction ...
ConsumePackets ==
  /\ at = "OFFERED" /\ status = "VALID"
  /\ \E accepted \in SUBSET (Ready(navigation_q) \ packet_ids) :
       packet_ids' = packet_ids \cup accepted
  /\ status' \in IF Ready(navigation_q) # {} THEN {"VALID", "INCONSISTENT"} ELSE {"VALID"}
  /\ at' = "CONSUMED"
  /\ UNCHANGED <<outer_end, truth_q, runtime_q, pending, navigation_q, state_q, blackout,
                 active_staged, evidence, pending_packets, delivered, handed, audited,
                 unconfirmed, last_assumption_violation>>

\* ... and the result is written before the packets leave the queue.  An
\* inconsistent filter is delivered too; the caller then raises.
DeliverPackets ==
  /\ at = "CONSUMED"
  /\ unconfirmed' = FALSE
  /\ pending_packets' = pending_packets \ Ready(navigation_q)
  /\ delivered' = delivered \cup Ready(navigation_q)
  /\ at' = "RUNTIME_COMMIT"
  /\ UNCHANGED <<outer_end, clocks, blackout, active_staged, evidence, packet_ids, handed,
                 audited, last_assumption_violation>>

-----------------------------------------------------------------------------
(* Committing and recording                                                *)

CommitRuntime ==
  /\ at = "RUNTIME_COMMIT"
  /\ ~active_staged.blackout => status = "VALID"
  /\ observed_q = pending.end
  /\ runtime_q' = pending.end
  /\ pending' = None
  /\ at' = "CONTROLLER_STATE_COMMIT"
  /\ UNCHANGED <<outer_end, truth_q, navigation_q, status, state_q, blackout, active_staged,
                 evidence, packets, last_assumption_violation>>

\* Mutant: the completion is acknowledged before it is written.
CommitStateSkippingWrite ==
  /\ at = "CONTROLLER_STATE_COMMIT"
  /\ state_q' = active_staged.end
  /\ at' = "COMPLETION_WRITTEN"
  /\ UNCHANGED <<outer_end, truth_q, runtime_q, pending, navigation_q, status, blackout,
                 active_staged, evidence, packets, last_assumption_violation>>

\* Mutant: the controller state keeps its old clock.
CommitNoControllerState ==
  /\ at = "CONTROLLER_STATE_COMMIT" /\ at' = "ARCHIVE_COMPLETION"
  /\ UNCHANGED <<outer_end, clocks, blackout, active_staged, evidence, packets,
                 last_assumption_violation>>

CommitControllerState ==
  /\ at = "CONTROLLER_STATE_COMMIT"
  /\ state_q' = active_staged.end
  /\ at' = "ARCHIVE_COMPLETION"
  /\ UNCHANGED <<outer_end, truth_q, runtime_q, pending, navigation_q, status, blackout,
                 active_staged, evidence, packets, last_assumption_violation>>

WriteCompletion ==
  Publish("ARCHIVE_COMPLETION", "COMPLETION_WRITTEN",
          Event("APPLIED_HOLD_COMPLETE", active_staged))

\* Only an acknowledged completion enters the compact ledger.
AcknowledgeCompletion ==
  /\ at = "COMPLETION_WRITTEN"
  /\ completed' = Append(completed, [start |-> active_staged.start, end |-> active_staged.end])
  /\ at' = "COMPLETED_HOLD_RECORDING"
  /\ UNCHANGED <<outer_end, clocks, blackout, active_staged, archive, recorded_q, packets,
                 last_assumption_violation>>

\* The recorder refuses a hold that does not extend its own clock.
RecordHold ==
  /\ at = "COMPLETED_HOLD_RECORDING"
  /\ active_staged.start = recorded_q
  /\ recorded_q' = active_staged.end
  /\ active_staged' = None
  /\ at' = "PRE_ADMISSION"
  /\ UNCHANGED <<outer_end, clocks, blackout, archive, completed, packets,
                 last_assumption_violation>>

\* Mutant: handed packets stay in the delivery list.
DrainKeeping == /\ handed' = handed \cup delivered
                /\ UNCHANGED delivered

Drain == /\ handed' = handed \cup delivered
         /\ delivered' = {}

Return ==
  /\ at = "PRE_ADMISSION" /\ observed_q >= outer_end
  /\ Drain
  /\ at' = "IDLE"
  /\ UNCHANGED <<outer_end, clocks, blackout, active_staged, evidence, packet_ids,
                 pending_packets, audited, unconfirmed, last_assumption_violation>>

\* Mutant: motion is judged by the clock of the runtime.
FailByRuntimeClock ==
  /\ at # "IDLE" /\ ~(at = "PRE_ADMISSION" /\ observed_q >= outer_end)
  /\ last_assumption_violation' =
       [staged |-> active_staged, actual_q |-> truth_q,
        physical_motion_committed |-> active_staged # None /\ runtime_q > active_staged.start]
  /\ Drain
  /\ at' = "IDLE"
  /\ UNCHANGED <<outer_end, clocks, blackout, active_staged, evidence, packet_ids,
                 pending_packets, audited, unconfirmed>>

\* _raise_execution_failure: whatever was applied is retained and reported,
\* the archive write of the report itself may fail.
Fail ==
  /\ at # "IDLE" /\ ~(at = "PRE_ADMISSION" /\ observed_q >= outer_end)
  /\ LET event == [staged |-> active_staged,
                   physical_motion_committed |->
                     active_staged # None /\ truth_q > active_staged.start,
                   actual_q |-> truth_q]
         from == IF active_staged = None THEN truth_q ELSE active_staged.start IN
     /\ last_assumption_violation' = event
     /\ archive' \in {archive, Append(archive,
          [kind |-> "ASSUMPTION_VIOLATION", start |-> from, end |-> truth_q])}
  /\ Drain
  /\ at' = "IDLE"
  /\ UNCHANGED <<outer_end, clocks, blackout, active_staged, completed, recorded_q,
                 packet_ids, pending_packets, audited, unconfirmed>>

-----------------------------------------------------------------------------
(* Between updates                                                         *)

\* The blackout holds are replayed on a copy of the filter; the copy replaces
\* it only when the delivered packets and the propagated enclosure agree.
RecoverNavigation ==
  /\ at = "IDLE" /\ blackout_holds # <<>>
  /\ ~unconfirmed /\ status = "VALID"
  /\ LET ready == Ready(blackout_holds[Len(blackout_holds)].end) IN
     /\ \E accepted \in SUBSET (ready \ packet_ids) : packet_ids' = packet_ids \cup accepted
     /\ pending_packets' = pending_packets \ ready
     /\ delivered' = delivered \cup ready
  /\ navigation_q' = blackout_holds[Len(blackout_holds)].end
  /\ blackout_holds' = <<>> /\ blackout_observer' = None
  /\ UNCHANGED <<at, outer_end, truth_q, runtime_q, pending, status, state_q, active_staged,
                 evidence, handed, audited, unconfirmed, last_assumption_violation>>

\* A refused recovery changes nothing, except that an audit write of the
\* delivery may stay unconfirmed.
RecoveryRefused ==
  /\ at = "IDLE" /\ blackout_holds # <<>> /\ ~unconfirmed
  /\ Ready(blackout_holds[Len(blackout_holds)].end) # {}
  /\ unconfirmed' = TRUE
  /\ UNCHANGED <<at, outer_end, clocks, blackout, active_staged, evidence, packet_ids,
                 pending_packets, delivered, handed, audited, last_assumption_violation>>

\* The mission installs a freshly proved runtime at the observation clock.
InstallRuntime ==
  /\ at = "IDLE"
  /\ runtime_q' = observed_q /\ pending' = None
  /\ UNCHANGED <<at, outer_end, truth_q, navigation_q, status, state_q, blackout, active_staged,
                 evidence, packets, last_assumption_violation>>

Step == \/ Decide \/ Preflight \/ WriteAdmitted \/ ProposeMotion \/ CommitTruth
        \/ Sample \/ ConfirmSample \/ OfferPackets \/ ConsumePackets \/ DeliverPackets
        \/ CommitRuntime \/ CommitControllerState
        \/ WriteCompletion \/ AcknowledgeCompletion \/ RecordHold \/ Return

Next == Advance \/ Step \/ Fail \/ RecoverNavigation \/ RecoveryRefused \/ InstallRuntime

\* advance() is one synchronous call: it returns or raises.
Spec == Init /\ [][Next]_vars /\ WF_vars(Step \/ Fail)

-----------------------------------------------------------------------------
(* Properties                                                              *)

LedgerEnd == IF completed = <<>> THEN 0 ELSE completed[Len(completed)].end
Archived(kind, hold) ==
  \E i \in 1..Len(archive) : archive[i] = Event(kind, hold)

\* Every tick the fleet has moved lies inside a hold whose complete admitted
\* record was durable first: `ADMITTED_DECISION_BEFORE_ANY_NUMERICAL_OR_
\* PHYSICAL_MOTION' (coordinator.py:479), at every point a crash may leave.
MotionIsAdmitted ==
  \A t \in 0..truth_q - 1 : \E i \in 1..Len(archive) :
    /\ archive[i].kind = "ADMITTED_BEFORE_MOTION"
    /\ archive[i].start <= t /\ t < archive[i].end

\* An archived completion describes motion that happened, and the compact
\* ledger holds only archived completions, without gap or repetition.
CompletionsAreTrue ==
  /\ \A i \in 1..Len(archive) :
       archive[i].kind = "APPLIED_HOLD_COMPLETE" => archive[i].end <= truth_q
  /\ \A i \in 1..Len(completed) :
       /\ Archived("APPLIED_HOLD_COMPLETE", completed[i])
       /\ completed[i].start = IF i = 1 THEN 0 ELSE completed[i-1].end

\* At every point a crash may leave, the archive announces all motion and
\* invents none.
EvidenceIsTrue == MotionIsAdmitted /\ CompletionsAreTrue

\* Between updates of a mission that has not failed, the fleet, what is
\* observed of it, the runtime, the controller state, the ledger and the
\* recorder all stand at the same clock, and nothing is pending.
ClocksAgree ==
  at = "IDLE" /\ last_assumption_violation = None =>
    /\ {truth_q, observed_q, runtime_q, state_q, LedgerEnd, recorded_q} = {truth_q}
    /\ pending = None /\ active_staged = None

\* A blackout starts where the filter stopped, its holds are the ones the
\* replay needs, without gap, and it never outlasts its declared horizon.
BlackoutIsBounded ==
  blackout_holds # <<>> =>
    /\ blackout_observer.last_sensor_q = navigation_q
    /\ blackout_observer.q - navigation_q <= MaximumBlackout
    /\ blackout_holds[1].start = navigation_q
    /\ blackout_holds[Len(blackout_holds)].end = blackout_observer.q
    /\ \A i \in 2..Len(blackout_holds) : blackout_holds[i].start = blackout_holds[i-1].end

\* A packet leaves the queue once and reaches the adaptation at most once;
\* the filter only takes in packets whose acquisition was archived ("Stream
\* measured products before consumption", sensing.py:22); and it is delivered
\* unless its result is in flight or its write failed.
PacketsOnce ==
  /\ pending_packets \cap (delivered \cup handed) = {}
  /\ delivered \cap handed = {}
  /\ packet_ids \subseteq audited
  /\ pending_packets \ audited # {} => unconfirmed
  /\ packet_ids \cap pending_packets # {} => unconfirmed

\* Motion that the ledger does not hold is reported by the failure, with the
\* staged hold it belongs to: no failure hides applied motion.
MotionIsReported ==
  last_assumption_violation # None =>
    /\ last_assumption_violation.actual_q = truth_q
    /\ truth_q > LedgerEnd =>
         /\ last_assumption_violation.physical_motion_committed
         /\ last_assumption_violation.staged = active_staged

\* At no program point, and after no failure, does the archive, the ledger or
\* the report disagree with where the fleet is.
MotionIsKnown == EvidenceIsTrue /\ ClocksAgree /\ MotionIsReported

\* No packet is lost or used twice, and no blackout outlasts its horizon.
SensingIsTimely == PacketsOnce /\ BlackoutIsBounded

\* The journal the evidence promises: a hold is announced when its admitted
\* record is durable and closed when its completion is acknowledged.
AnnouncedHold ==
  IF active_staged = None THEN None
  ELSE LET hold == [start |-> active_staged.start, end |-> active_staged.end] IN
       IF Archived("ADMITTED_BEFORE_MOTION", hold) /\ LedgerEnd # hold.end THEN hold ELSE None

Journal == INSTANCE HoldJournal WITH
  HoldWidths <- 1..MaxWidth, NoHold <- None,
  position <- truth_q, announced <- AnnouncedHold, closed <- LedgerEnd,
  halted <- last_assumption_violation # None

ImplementsJournal == Journal!Spec

=============================================================================
