-------------------------- MODULE HoldExecutionProofs --------------------------
(***************************************************************************)
(* Proofs about HoldExecution for every width, delay and blackout horizon: *)
(* what the archive, the ledger and the reports say of the motion, what    *)
(* becomes of a packet, how long a blackout lasts, and that every step is  *)
(* a step of HoldJournal or leaves the journal alone.  And about the held  *)
(* feedback that tracks what was planned, SampledTracking and              *)
(* AttitudeTracking as MCGuidance takes them, for every value of theirs.   *)
(***************************************************************************)
EXTENDS HoldExecution, MCGuidance, SequenceTheorems, WellFoundedInduction, TLAPS

\* Program points, by what has already happened to the hold in progress.
Unstaged == {"IDLE", "PRE_ADMISSION", "DECIDED"}
Before == {"ARCHIVE_BEFORE_MOTION", "ADMITTED_WRITTEN", "PHYSICAL_TRUTH_COMMIT"}
Moved == {"SENSOR_GENERATION", "SENSOR_AUDIT"}
Observing == {"NAVIGATION_UPDATE", "OFFERED", "CONSUMED", "RUNTIME_COMMIT"}
Written == {"ARCHIVE_COMPLETION", "COMPLETION_WRITTEN", "COMPLETED_HOLD_RECORDING"}
Closing == {"CONTROLLER_STATE_COMMIT"} \cup Written
Staged == Before \cup Moved \cup Observing \cup Closing

Kinds == {"ADMITTED_BEFORE_MOTION", "APPLIED_HOLD_COMPLETE", "ASSUMPTION_VIOLATION"}
Records == [kind : Kinds, start : Nat, end : Nat]
Packets == [acquired : Nat, delivery : Nat]

Alive == last_assumption_violation = None

Types ==
  /\ at \in Unstaged \cup Staged /\ outer_end \in Nat
  /\ truth_q \in Nat /\ runtime_q \in Nat /\ navigation_q \in Nat /\ state_q \in Nat
  /\ pending \in Decisions \cup {None} /\ active_staged \in StagedHolds \cup {None}
  /\ blackout_holds \in Seq(Holds) /\ blackout_observer \in Observations \cup {None}
  /\ archive \in Seq(Records) /\ completed \in Seq(Holds) /\ recorded_q \in Nat
  /\ packet_ids \subseteq Packets /\ pending_packets \subseteq Packets
  /\ delivered \subseteq Packets /\ handed \subseteq Packets /\ audited \subseteq Packets
  /\ unconfirmed \in BOOLEAN
  /\ last_assumption_violation \in Violations \cup {None}

\* Where every clock stands, at every program point of an advance.
ClocksFollow ==
  /\ at # "IDLE" => Alive
  /\ Alive /\ at \in Unstaged =>
       /\ active_staged = None
       /\ truth_q = LedgerEnd /\ observed_q = truth_q /\ runtime_q = truth_q
       /\ state_q = truth_q /\ recorded_q = truth_q
       /\ at # "DECIDED" => pending = None
       /\ at = "DECIDED" => /\ pending # None /\ pending.start = truth_q
                            /\ pending.start < pending.end
                            /\ pending.end <= pending.start + MaxWidth
  /\ Alive /\ at \in Staged =>
       /\ active_staged # None /\ active_staged.start < active_staged.end
       /\ active_staged.end <= active_staged.start + MaxWidth
       /\ truth_q = IF at \in Before THEN active_staged.start ELSE active_staged.end
       /\ observed_q = IF at \in Before \cup Moved THEN active_staged.start ELSE active_staged.end
       /\ runtime_q = IF at \in Closing THEN active_staged.end ELSE active_staged.start
       /\ at \in Closing => pending = None
       /\ at \notin Closing => /\ pending # None /\ pending.start = active_staged.start
                               /\ pending.end = active_staged.end
       /\ state_q = IF at \in Written THEN active_staged.end ELSE active_staged.start
       /\ LedgerEnd = IF at = "COMPLETED_HOLD_RECORDING" THEN active_staged.end
                                                         ELSE active_staged.start
       /\ recorded_q = active_staged.start

\* The blackout in progress, and the one the staged hold would lengthen.
BlackoutFollows ==
  /\ blackout_holds = <<>> <=> blackout_observer = None
  /\ BlackoutIsBounded
  /\ Alive /\ at \in Before \cup Moved =>
       /\ blackout_holds # <<>> => active_staged.blackout
       /\ active_staged.blackout =>
            active_staged.end - LastSensor(active_staged.start) <= MaximumBlackout
  /\ at \in {"NAVIGATION_UPDATE", "OFFERED", "CONSUMED"} => blackout_holds = <<>>

\* What is durable of the hold in progress, and what is not yet.
ArchiveFollows ==
  /\ EvidenceIsTrue
  /\ Alive /\ at \in Staged \ {"ARCHIVE_BEFORE_MOTION"} =>
       Archived("ADMITTED_BEFORE_MOTION", active_staged)
  /\ at = "COMPLETION_WRITTEN" => Archived("APPLIED_HOLD_COMPLETE", active_staged)
  /\ Alive => \A i \in 1..Len(archive) :
       archive[i].kind = "ADMITTED_BEFORE_MOTION" =>
         archive[i].end <= IF at \in {"ADMITTED_WRITTEN", "PHYSICAL_TRUTH_COMMIT"}
                           THEN active_staged.end ELSE truth_q

\* No packet is newer than the fleet, and what the audit has not confirmed is
\* the newest one.
PacketsFollow ==
  /\ PacketsOnce
  /\ \A p \in pending_packets \cup delivered \cup handed \cup audited :
       /\ p.acquired <= truth_q
       /\ at = "SENSOR_GENERATION" => p.acquired < truth_q
  /\ at = "SENSOR_AUDIT" =>
       /\ packet_ids \cap pending_packets = {}
       /\ \A p \in pending_packets \ audited : p.acquired = truth_q
  /\ at \in {"NAVIGATION_UPDATE", "OFFERED", "CONSUMED"} => pending_packets \subseteq audited
  /\ at = "OFFERED" => packet_ids \cap pending_packets = {}
  /\ at = "CONSUMED" => packet_ids \cap pending_packets \subseteq Ready(navigation_q)
  /\ at \in {"OFFERED", "CONSUMED"} => (unconfirmed <=> Ready(navigation_q) # {})

\* The inductive invariant.
Inv == Types /\ ClocksFollow /\ BlackoutFollows /\ ArchiveFollows /\ PacketsFollow
       /\ MotionIsReported

-----------------------------------------------------------------------------
(* Types                                                                   *)

LEMMA TypesKept == Inv /\ [Next]_vars => Types'
<1> SUFFICES ASSUME Inv, [Next]_vars PROVE Types'
  OBVIOUS
<1> USE StepAssumption, NoneAssumption
<1>0. Types /\ observed_q \in Nat
  <2>1. Types
    BY DEF Inv
  <2>2. blackout_holds # <<>> => blackout_observer \in Observations
    BY DEF Inv, Types, BlackoutFollows
  <2> QED
    BY <2>1, <2>2 DEF Types, observed_q, Observations
<1>1. CASE Advance
  BY <1>0, <1>1 DEF Types, Advance, clocks, blackout, evidence, packets, Unstaged
<1>2. CASE Decide
  <2>1. PICK h \in 1..MaxWidth, source \in {"PERFORMANCE", "FALLBACK"} :
          pending' = [start |-> observed_q, end |-> observed_q + h, source |-> source]
    BY <1>2 DEF Decide
  <2>2. pending' \in Decisions
    BY <1>0, <2>1 DEF Decisions
  <2> QED
    BY <1>0, <1>2, <2>2 DEF Types, Decide, blackout, evidence, packets, Unstaged
<1>3. CASE Preflight
  <2>1. PICK lost \in BOOLEAN :
          active_staged' = [start |-> pending.start, end |-> pending.end,
                            source |-> pending.source, blackout |-> lost]
    BY <1>3 DEF Preflight
  <2>2. pending \in Decisions
    BY <1>3 DEF Inv, Types, ClocksFollow, Preflight, Unstaged
  <2>3. active_staged' \in StagedHolds
    BY <2>1, <2>2 DEF Decisions, StagedHolds
  <2> QED
    BY <1>0, <1>3, <2>3 DEF Types, Preflight, clocks, blackout, evidence, packets, Staged, Before
<1>4. CASE WriteAdmitted \/ WriteCompletion
  <2>1. at # "IDLE" /\ at \in Staged
    BY <1>4 DEF WriteAdmitted, WriteCompletion, Publish, Staged, Before, Closing, Written
  <2>2. active_staged \in StagedHolds
    BY <2>1, <1>0 DEF Inv, Types, ClocksFollow
  <2>3. PICK kind \in Kinds : archive' = Append(archive, Event(kind, active_staged))
    BY <1>4 DEF WriteAdmitted, WriteCompletion, Publish, Kinds
  <2>4. Event(kind, active_staged) \in Records
    BY <2>2 DEF Event, Records, StagedHolds
  <2>5. archive' \in Seq(Records)
    BY <1>0, <2>3, <2>4 DEF Types
  <2>6. at' \in Staged
    BY <1>4 DEF WriteAdmitted, WriteCompletion, Publish, Staged, Before, Closing, Written
  <2> QED
    BY <1>0, <1>4, <2>5, <2>6 DEF Types, WriteAdmitted, WriteCompletion, Publish, clocks, blackout,
                                  packets
<1>5. CASE ProposeMotion
  BY <1>0, <1>5 DEF Types, ProposeMotion, clocks, blackout, evidence, packets, Staged, Before
<1>6. CASE CommitTruth
  <2>1. active_staged \in StagedHolds
    BY <1>6 DEF Inv, Types, ClocksFollow, CommitTruth, Staged, Before
  <2> QED
    BY <1>0, <1>6, <2>1 DEF Types, CommitTruth, StagedHolds, blackout, evidence, packets, Staged,
                            Moved
<1>7. CASE Sample
  <2>1. pending_packets' \subseteq Packets /\ unconfirmed' \in BOOLEAN
    <3>1. CASE \E d \in Delays : pending_packets' = pending_packets \cup
                 {[acquired |-> truth_q, delivery |-> truth_q + d]} /\ unconfirmed' = TRUE
      BY <1>0, <3>1 DEF Types, Packets
    <3>2. CASE UNCHANGED <<pending_packets, unconfirmed>>
      BY <1>0, <3>2 DEF Types
    <3> QED
      BY <1>7, <3>1, <3>2 DEF Sample
  <2> QED
    BY <1>0, <1>7, <2>1 DEF Types, Sample, clocks, blackout, evidence, Staged, Moved
<1>8. CASE ConfirmSample
  <2>1. active_staged \in StagedHolds
    BY <1>8 DEF Inv, Types, ClocksFollow, ConfirmSample, Staged, Moved
  <2>2. active_staged.start \in Nat /\ active_staged.end \in Nat
        /\ LastSensor(active_staged.start) \in Nat
    BY <1>0, <2>1 DEF Types, LastSensor, StagedHolds, Observations
  <2>3. /\ [q |-> active_staged.end, last_sensor_q |-> LastSensor(active_staged.start)]
             \in Observations
        /\ [start |-> active_staged.start, end |-> active_staged.end] \in Holds
    BY <2>2 DEF Observations, Holds
  <2>4. Append(blackout_holds, [start |-> active_staged.start, end |-> active_staged.end])
          \in Seq(Holds)
    BY <1>0, <2>3 DEF Types
  <2>5. blackout_observer' \in Observations \cup {None} /\ blackout_holds' \in Seq(Holds)
        /\ navigation_q' \in Nat /\ at' \in Staged
    BY <1>0, <1>8, <2>2, <2>3, <2>4 DEF Types, ConfirmSample, blackout, Staged, Observing
  <2>6. audited' \subseteq Packets /\ unconfirmed' \in BOOLEAN
    BY <1>0, <1>8 DEF Types, ConfirmSample
  <2> QED
    BY <1>0, <1>8, <2>5, <2>6 DEF Types, ConfirmSample, evidence
<1>9. CASE OfferPackets \/ ConsumePackets \/ DeliverPackets
  <2>1. Ready(navigation_q) \subseteq Packets
    BY <1>0 DEF Types, Ready
  <2>2. packet_ids' \subseteq Packets /\ pending_packets' \subseteq Packets
        /\ delivered' \subseteq Packets
    BY <1>0, <1>9, <2>1 DEF Types, OfferPackets, ConsumePackets, DeliverPackets
  <2>3. unconfirmed' \in BOOLEAN /\ at' \in Staged
    BY <1>0, <1>9 DEF Types, OfferPackets, ConsumePackets, DeliverPackets, Staged, Observing
  <2> QED
    BY <1>0, <1>9, <2>2, <2>3 DEF Types, OfferPackets, ConsumePackets, DeliverPackets, clocks,
                                  blackout, evidence
<1>10. CASE CommitRuntime
  <2>1. pending \in Decisions
    BY <1>10 DEF Inv, Types, ClocksFollow, CommitRuntime, Staged, Observing, Closing, Written
  <2> QED
    BY <1>0, <1>10, <2>1 DEF Types, CommitRuntime, Decisions, blackout, evidence, packets, Staged,
                             Closing
<1>11. CASE CommitControllerState
  <2>1. active_staged \in StagedHolds
    BY <1>11 DEF Inv, Types, ClocksFollow, CommitControllerState, Staged, Closing
  <2> QED
    BY <1>0, <1>11, <2>1 DEF Types, CommitControllerState, StagedHolds, blackout, evidence,
                             packets, Staged, Closing, Written
<1>12. CASE AcknowledgeCompletion
  <2>1. active_staged \in StagedHolds
    BY <1>12 DEF Inv, Types, ClocksFollow, AcknowledgeCompletion, Staged, Closing, Written
  <2>2. [start |-> active_staged.start, end |-> active_staged.end] \in Holds
    BY <2>1 DEF StagedHolds, Holds
  <2>3. completed' \in Seq(Holds)
    BY <1>0, <1>12, <2>2 DEF Types, AcknowledgeCompletion
  <2> QED
    BY <1>0, <1>12, <2>3 DEF Types, AcknowledgeCompletion, clocks, blackout, packets, Staged,
                             Closing, Written
<1>13. CASE RecordHold
  <2>1. active_staged \in StagedHolds
    BY <1>13 DEF Inv, Types, ClocksFollow, RecordHold, Staged, Closing, Written
  <2> QED
    BY <1>0, <1>13, <2>1 DEF Types, RecordHold, StagedHolds, clocks, blackout, packets, Unstaged
<1>14. CASE Return
  BY <1>0, <1>14 DEF Types, Return, Drain, clocks, blackout, evidence, Unstaged
<1>15. CASE Fail
  <2> DEFINE event == [staged |-> active_staged,
                       physical_motion_committed |->
                         active_staged # None /\ truth_q > active_staged.start,
                       actual_q |-> truth_q]
             from == IF active_staged = None THEN truth_q ELSE active_staged.start
             record == [kind |-> "ASSUMPTION_VIOLATION", start |-> from, end |-> truth_q]
  <2>1. last_assumption_violation' = event /\ archive' \in {archive, Append(archive, record)}
    BY <1>15 DEF Fail
  <2>2. event \in Violations
    BY <1>0 DEF Types, Violations
  <2>3. record \in Records
    <3>1. from \in Nat
      BY <1>0 DEF Types, StagedHolds
    <3> QED
      BY <1>0, <3>1 DEF Types, Records, Kinds
  <2> HIDE DEF event, record
  <2>4. Append(archive, record) \in Seq(Records)
    BY <1>0, <2>3 DEF Types
  <2>5. archive' \in Seq(Records) /\ last_assumption_violation' \in Violations
    BY <1>0, <2>1, <2>2, <2>4 DEF Types
  <2>6. /\ at' = "IDLE" /\ delivered' = {} /\ handed' = handed \cup delivered
        /\ UNCHANGED <<outer_end, clocks, blackout, active_staged, completed, recorded_q,
                       packet_ids, pending_packets, audited, unconfirmed>>
    BY <1>15 DEF Fail, Drain
  <2> QED
    BY <1>0, <2>5, <2>6 DEF Types, clocks, blackout, Unstaged
<1>16. CASE RecoverNavigation
  <2> DEFINE last == blackout_holds[Len(blackout_holds)]
  <2>1. last \in Holds
    BY <1>0, <1>16 DEF Types, RecoverNavigation
  <2>2. navigation_q' \in Nat /\ blackout_holds' \in Seq(Holds) /\ blackout_observer' = None
    BY <1>16, <2>1 DEF RecoverNavigation, Holds
  <2>3. Ready(last.end) \subseteq Packets
    BY <1>0 DEF Types, Ready
  <2>4. packet_ids' \subseteq Packets /\ pending_packets' \subseteq Packets
        /\ delivered' \subseteq Packets
    BY <1>0, <1>16, <2>3 DEF Types, RecoverNavigation
  <2> QED
    BY <1>0, <1>16, <2>2, <2>4 DEF Types, RecoverNavigation, evidence
<1>17. CASE RecoveryRefused
  BY <1>0, <1>17 DEF Types, RecoveryRefused, clocks, blackout, evidence
<1>18. CASE InstallRuntime
  BY <1>0, <1>18 DEF Types, InstallRuntime, blackout, evidence, packets
<1>19. CASE UNCHANGED vars
  BY <1>0, <1>19 DEF Types, vars, clocks, blackout, evidence, packets
<1> QED
  BY <1>1, <1>2, <1>3, <1>4, <1>5, <1>6, <1>7, <1>8, <1>9, <1>10, <1>11, <1>12, <1>13, <1>14,
     <1>15, <1>16, <1>17, <1>18, <1>19 DEF Next, Step

-----------------------------------------------------------------------------
(* Clocks                                                                  *)

LEMMA LedgerKept == completed' = completed => LedgerEnd' = LedgerEnd
  BY DEF LedgerEnd

LEMMA ObservedKept ==
  navigation_q' = navigation_q /\ blackout_holds' = blackout_holds
  /\ blackout_observer' = blackout_observer => observed_q' = observed_q
  BY DEF observed_q

LEMMA ClocksKept == Inv /\ [Next]_vars => ClocksFollow'
<1> SUFFICES ASSUME Inv, [Next]_vars PROVE ClocksFollow'
  OBVIOUS
<1> USE NoneAssumption
<1>0. Types /\ ClocksFollow /\ (~Alive => at = "IDLE")
  BY DEF Inv, ClocksFollow
<1>a. (UNCHANGED evidence => LedgerEnd' = LedgerEnd /\ recorded_q' = recorded_q)
      /\ (UNCHANGED blackout /\ navigation_q' = navigation_q => observed_q' = observed_q)
  BY LedgerKept, ObservedKept DEF evidence, blackout
<1>1. CASE Advance
  BY <1>0, <1>1, <1>a DEF ClocksFollow, Alive, Advance, clocks, Unstaged, Staged, Before, Moved,
                          Observing, Closing, Written
<1>2. CASE Decide
  <2>1. PICK h \in 1..MaxWidth, source \in {"PERFORMANCE", "FALLBACK"} :
          pending' = [start |-> observed_q, end |-> observed_q + h, source |-> source]
    BY <1>2 DEF Decide
  <2>2. at = "PRE_ADMISSION" /\ Alive
    BY <1>0, <1>2 DEF Decide
  <2>3. observed_q = truth_q /\ truth_q \in Nat
    BY <1>0, <2>2 DEF Types, ClocksFollow, Unstaged
  <2>4. pending' \in Decisions /\ pending'.start = truth_q /\ pending'.end = truth_q + h
    BY <2>1, <2>3 DEF Decisions
  <2>5. pending' # None /\ pending'.start < pending'.end
        /\ pending'.end <= pending'.start + MaxWidth
    BY <2>3, <2>4, StepAssumption
  <2> QED
    BY <1>0, <1>2, <1>a, <2>2, <2>5, <2>4
    DEF ClocksFollow, Alive, Decide, Unstaged, Staged, Before, Moved, Observing, Closing, Written
<1>3. CASE Preflight
  <2>1. PICK lost \in BOOLEAN :
          active_staged' = [start |-> pending.start, end |-> pending.end,
                            source |-> pending.source, blackout |-> lost]
    BY <1>3 DEF Preflight
  <2>2. at = "DECIDED" /\ Alive
    BY <1>0, <1>3 DEF Preflight
  <2>3. pending \in Decisions
    BY <1>0, <2>2 DEF Types, ClocksFollow, Unstaged
  <2>4. active_staged' \in StagedHolds
        /\ active_staged'.start = pending.start /\ active_staged'.end = pending.end
    BY <2>1, <2>3 DEF StagedHolds, Decisions
  <2>5. active_staged' # None
    BY <2>4
  <2>6. /\ at' = "ARCHIVE_BEFORE_MOTION" /\ UNCHANGED clocks
        /\ last_assumption_violation' = last_assumption_violation
        /\ LedgerEnd' = LedgerEnd /\ recorded_q' = recorded_q /\ observed_q' = observed_q
    BY <1>3, <1>a DEF Preflight, clocks
  <2> QED
    BY <1>0, <2>2, <2>3, <2>4, <2>5, <2>6
    DEF ClocksFollow, Alive, clocks, Unstaged, Staged, Before, Moved, Observing, Closing, Written
<1>4. CASE WriteAdmitted \/ WriteCompletion
  <2>1. /\ UNCHANGED clocks /\ active_staged' = active_staged
        /\ last_assumption_violation' = last_assumption_violation
        /\ LedgerEnd' = LedgerEnd /\ recorded_q' = recorded_q /\ observed_q' = observed_q
    BY <1>4, LedgerKept, ObservedKept DEF WriteAdmitted, WriteCompletion, Publish, clocks, blackout
  <2> QED
    BY <1>0, <1>4, <2>1
    DEF ClocksFollow, Alive, WriteAdmitted, WriteCompletion, Publish, clocks, Unstaged, Staged,
        Before, Moved, Observing, Closing, Written
<1>5. CASE ProposeMotion
  BY <1>0, <1>5, <1>a DEF ClocksFollow, Alive, ProposeMotion, clocks, Unstaged, Staged, Before,
                          Moved, Observing, Closing, Written
<1>6. CASE CommitTruth
  BY <1>0, <1>6, <1>a DEF ClocksFollow, Alive, CommitTruth, Unstaged, Staged, Before,
                          Moved, Observing, Closing, Written
<1>7. CASE Sample
  BY <1>0, <1>7, <1>a DEF ClocksFollow, Alive, Sample, clocks, Unstaged, Staged, Before,
                          Moved, Observing, Closing, Written
<1>8. CASE ConfirmSample
  <2>1. at = "SENSOR_AUDIT" /\ Alive
    BY <1>0, <1>8 DEF ConfirmSample
  <2>2. active_staged \in StagedHolds
    BY <1>0, <2>1 DEF Types, ClocksFollow, Staged, Moved
  <2>3. observed_q' = active_staged.end
    <3>1. CASE active_staged.blackout
      <4> DEFINE span == [start |-> active_staged.start, end |-> active_staged.end]
      <4>1. blackout_holds' = Append(blackout_holds, span)
            /\ blackout_observer' = [q |-> active_staged.end,
                                     last_sensor_q |-> LastSensor(active_staged.start)]
        BY <1>8, <3>1 DEF ConfirmSample
      <4>2. blackout_holds \in Seq(Holds) /\ span \in Holds
        BY <1>0, <2>2 DEF Types, Holds, StagedHolds
      <4> HIDE DEF span
      <4>3. blackout_holds' # <<>>
        BY <4>1, <4>2
      <4> QED
        BY <4>1, <4>3 DEF observed_q
    <3>2. CASE ~active_staged.blackout
      <4>1. blackout_holds = <<>>
        BY <2>1, <3>2 DEF Inv, BlackoutFollows, Moved
      <4> QED
        BY <1>8, <3>2, <4>1 DEF ConfirmSample, blackout, observed_q
    <3> QED
      BY <3>1, <3>2
  <2> QED
    BY <1>0, <1>8, <1>a, <2>1, <2>3
    DEF ClocksFollow, Alive, ConfirmSample, Unstaged, Staged, Before, Moved, Observing, Closing,
        Written
<1>9. CASE OfferPackets \/ ConsumePackets \/ DeliverPackets
  <2>1. /\ UNCHANGED <<truth_q, runtime_q, pending, state_q>> /\ active_staged' = active_staged
        /\ last_assumption_violation' = last_assumption_violation
        /\ LedgerEnd' = LedgerEnd /\ recorded_q' = recorded_q /\ observed_q' = observed_q
    BY <1>9, <1>a DEF OfferPackets, ConsumePackets, DeliverPackets, clocks
  <2> QED
    BY <1>0, <1>9, <2>1
    DEF ClocksFollow, Alive, OfferPackets, ConsumePackets, DeliverPackets, Unstaged, Staged,
        Before, Moved, Observing, Closing, Written
<1>10. CASE CommitRuntime
  BY <1>0, <1>10, <1>a DEF ClocksFollow, Alive, CommitRuntime, Unstaged, Staged, Before,
                           Moved, Observing, Closing, Written
<1>11. CASE CommitControllerState
  BY <1>0, <1>11, <1>a DEF ClocksFollow, Alive, CommitControllerState, Unstaged, Staged, Before,
                           Moved, Observing, Closing, Written
<1>12. CASE AcknowledgeCompletion
  <2> DEFINE span == [start |-> active_staged.start, end |-> active_staged.end]
  <2>1. active_staged \in StagedHolds
    BY <1>0, <1>12 DEF Types, ClocksFollow, AcknowledgeCompletion, Staged, Closing, Written
  <2>2. completed \in Seq(Holds) /\ span \in Holds /\ span.end = active_staged.end
    BY <1>0, <2>1 DEF Types, Holds, StagedHolds
  <2>3. completed' = Append(completed, span)
    BY <1>12 DEF AcknowledgeCompletion
  <2> HIDE DEF span
  <2>4. LedgerEnd' = active_staged.end
    BY <2>2, <2>3 DEF LedgerEnd
  <2> QED
    BY <1>0, <1>12, <1>a, <2>4
    DEF ClocksFollow, Alive, AcknowledgeCompletion, clocks, Unstaged, Staged, Before, Moved,
        Observing, Closing, Written
<1>13. CASE RecordHold
  <2>1. LedgerEnd' = LedgerEnd /\ observed_q' = observed_q
    BY <1>13, <1>a, LedgerKept DEF RecordHold, clocks
  <2> QED
    BY <1>0, <1>13, <2>1 DEF ClocksFollow, Alive, RecordHold, clocks, Unstaged, Staged, Before,
                             Moved, Observing, Closing, Written
<1>14. CASE Return
  BY <1>0, <1>14, <1>a DEF ClocksFollow, Alive, Return, clocks, Unstaged, Staged, Before, Moved,
                           Observing, Closing, Written
<1>15. CASE Fail
  <2>1. at' = "IDLE" /\ last_assumption_violation' \in Violations
    BY <1>15, TypesKept, <1>0 DEF Fail, Types, Violations
  <2>2. ~Alive'
    BY <2>1 DEF Alive
  <2> QED
    BY <2>1, <2>2 DEF ClocksFollow
<1>16. CASE RecoverNavigation
  <2>1. observed_q = blackout_observer.q
        /\ blackout_observer.q = blackout_holds[Len(blackout_holds)].end
    BY <1>16 DEF RecoverNavigation, observed_q, Inv, BlackoutFollows, BlackoutIsBounded
  <2>2. observed_q' = observed_q
    BY <1>16, <2>1 DEF RecoverNavigation, observed_q
  <2> QED
    BY <1>0, <1>16, <1>a, <2>2 DEF ClocksFollow, Alive, RecoverNavigation, Unstaged, Staged,
                                   Before, Moved, Observing, Closing, Written
<1>17. CASE RecoveryRefused
  BY <1>0, <1>17, <1>a DEF ClocksFollow, Alive, RecoveryRefused, clocks
<1>18. CASE InstallRuntime
  BY <1>0, <1>18, <1>a DEF ClocksFollow, Alive, InstallRuntime, Unstaged, Staged, Before, Moved,
                           Observing, Closing, Written
<1>19. CASE UNCHANGED vars
  BY <1>0, <1>19, <1>a DEF ClocksFollow, Alive, vars, clocks
<1> QED
  BY <1>1, <1>2, <1>3, <1>4, <1>5, <1>6, <1>7, <1>8, <1>9, <1>10, <1>11, <1>12, <1>13, <1>14,
     <1>15, <1>16, <1>17, <1>18, <1>19 DEF Next, Step

-----------------------------------------------------------------------------
(* Blackouts                                                               *)

LEMMA BlackoutKept == Inv /\ [Next]_vars => BlackoutFollows'
<1> SUFFICES ASSUME Inv, [Next]_vars PROVE BlackoutFollows'
  OBVIOUS
<1> USE NoneAssumption
<1>0. Types /\ ClocksFollow /\ BlackoutFollows /\ (~Alive => at = "IDLE")
  BY DEF Inv, ClocksFollow
<1>1. CASE Preflight
  <2>1. PICK lost \in BOOLEAN :
          /\ blackout_holds # <<>> => lost
          /\ lost => pending.end - LastSensor(pending.start) <= MaximumBlackout
          /\ active_staged' = [start |-> pending.start, end |-> pending.end,
                               source |-> pending.source, blackout |-> lost]
    BY <1>1 DEF Preflight
  <2>2. /\ at' = "ARCHIVE_BEFORE_MOTION" /\ navigation_q' = navigation_q
        /\ blackout_holds' = blackout_holds /\ blackout_observer' = blackout_observer
    BY <1>1 DEF Preflight, clocks, blackout
  <2>3. /\ active_staged'.start = pending.start /\ active_staged'.end = pending.end
        /\ active_staged'.blackout = lost
    BY <2>1
  <2>4. active_staged'.blackout =>
          active_staged'.end - (IF blackout_observer' = None THEN active_staged'.start
                                ELSE blackout_observer'.last_sensor_q) <= MaximumBlackout
    BY <2>1, <2>2, <2>3 DEF LastSensor
  <2>5. (blackout_holds' = <<>> <=> blackout_observer' = None) /\ BlackoutIsBounded'
    BY <1>0, <2>2 DEF BlackoutFollows, BlackoutIsBounded
  <2>6. blackout_holds' # <<>> => active_staged'.blackout
    BY <2>1, <2>2, <2>3
  <2> QED
    BY <2>2, <2>4, <2>5, <2>6 DEF BlackoutFollows, LastSensor
<1>2. CASE ConfirmSample
  <2> DEFINE span == [start |-> active_staged.start, end |-> active_staged.end]
             seen == [q |-> active_staged.end, last_sensor_q |-> LastSensor(active_staged.start)]
  <2>1. at = "SENSOR_AUDIT" /\ Alive /\ at' \in {"RUNTIME_COMMIT", "NAVIGATION_UPDATE"}
    BY <1>0, <1>2 DEF ConfirmSample
  <2>2. active_staged \in StagedHolds /\ observed_q = active_staged.start
    BY <1>0, <2>1 DEF Types, ClocksFollow, Staged, Moved
  <2>3. CASE ~active_staged.blackout
    <3>1. blackout_holds = <<>> /\ blackout_holds' = <<>> /\ blackout_observer' = None
      BY <1>0, <1>2, <2>1, <2>3 DEF ConfirmSample, BlackoutFollows, blackout, Moved
    <3> QED
      BY <2>1, <3>1 DEF BlackoutFollows, BlackoutIsBounded, Before, Moved
  <2>4. CASE active_staged.blackout
    <3>1. /\ blackout_holds' = Append(blackout_holds, span) /\ blackout_observer' = seen
          /\ navigation_q' = navigation_q /\ at' = "RUNTIME_COMMIT"
      BY <1>2, <2>4 DEF ConfirmSample
    <3>2. blackout_holds \in Seq(Holds) /\ span \in Holds /\ navigation_q \in Nat
      BY <1>0, <2>2 DEF Types, Holds, StagedHolds
    <3>3. active_staged.end - LastSensor(active_staged.start) <= MaximumBlackout
      BY <1>0, <2>1, <2>4 DEF BlackoutFollows, Moved
    <3>4. LastSensor(active_staged.start) = navigation_q
      BY <1>0, <2>2 DEF LastSensor, BlackoutFollows, BlackoutIsBounded, observed_q
    <3>5. seen.q = active_staged.end /\ seen.last_sensor_q = navigation_q
          /\ span.start = active_staged.start /\ span.end = active_staged.end
      BY <3>4
    <3>6. seen \in Observations
      BY <2>2, <3>2, <3>4 DEF Observations, StagedHolds
    <3> DEFINE n == Len(blackout_holds)
    <3>7. blackout_holds = <<>> \/ blackout_holds[n].end = span.start
      BY <1>0, <2>2, <3>5 DEF BlackoutFollows, BlackoutIsBounded, observed_q
    <3>8. blackout_holds = <<>> => span.start = navigation_q
      BY <2>2, <3>5 DEF observed_q
    <3> HIDE DEF span, seen
    <3>9. /\ n \in Nat /\ Len(blackout_holds') = n + 1 /\ blackout_holds' # <<>>
          /\ blackout_holds'[n + 1] = span
          /\ \A i \in 1..n : blackout_holds'[i] = blackout_holds[i]
          /\ blackout_holds = <<>> <=> n = 0
      BY <3>1, <3>2
    <3>10. blackout_holds'[1].start = navigation_q
      BY <1>0, <3>8, <3>9 DEF BlackoutFollows, BlackoutIsBounded
    <3>11. \A i \in 2..(n + 1) : blackout_holds'[i].start = blackout_holds'[i-1].end
      <4> SUFFICES ASSUME NEW i \in 2..(n + 1)
                   PROVE  blackout_holds'[i].start = blackout_holds'[i-1].end
        OBVIOUS
      <4>1. CASE i = n + 1
        <5>1. n \in 1..n /\ blackout_holds'[i-1] = blackout_holds[n] /\ blackout_holds # <<>>
          BY <3>9, <4>1
        <5> QED
          BY <3>7, <3>9, <4>1, <5>1
      <4>2. CASE i # n + 1
        <5>1. i \in 1..n /\ i - 1 \in 1..n /\ i \in 2..n /\ blackout_holds # <<>>
          BY <3>9, <4>2
        <5>2. blackout_holds[i].start = blackout_holds[i-1].end
          BY <1>0, <5>1 DEF BlackoutFollows, BlackoutIsBounded
        <5> QED
          BY <3>9, <5>1, <5>2
      <4> QED
        BY <4>1, <4>2
    <3> QED
      BY <3>1, <3>3, <3>4, <3>5, <3>6, <3>9, <3>10, <3>11
      DEF BlackoutFollows, BlackoutIsBounded, Before, Moved
  <2> QED
    BY <2>3, <2>4
<1>3. CASE RecoverNavigation
  <2>1. at' = "IDLE" /\ blackout_holds' = <<>> /\ blackout_observer' = None
    BY <1>3 DEF RecoverNavigation
  <2> QED
    BY <2>1 DEF BlackoutFollows, BlackoutIsBounded, Before, Moved
<1>4. ASSUME navigation_q' = navigation_q, UNCHANGED blackout,
             at' \in {"NAVIGATION_UPDATE", "OFFERED", "CONSUMED"} =>
               at \in {"NAVIGATION_UPDATE", "OFFERED", "CONSUMED"},
             Alive' /\ at' \in Before \cup Moved =>
               Alive /\ at \in Before \cup Moved /\ active_staged' = active_staged
      PROVE  BlackoutFollows'
  <2>1. blackout_holds' = blackout_holds /\ blackout_observer' = blackout_observer
    BY <1>4 DEF blackout
  <2>2. BlackoutIsBounded'
    BY <1>0, <1>4, <2>1 DEF BlackoutFollows, BlackoutIsBounded
  <2> QED
    BY <1>0, <1>4, <2>1, <2>2 DEF BlackoutFollows, LastSensor
<1>5. CASE Advance \/ Decide \/ WriteAdmitted \/ ProposeMotion \/ CommitTruth \/ Sample
  BY <1>0, <1>4, <1>5 DEF Advance, Decide, WriteAdmitted, Publish, ProposeMotion, CommitTruth,
                          Sample, clocks, Before, Moved
<1>6. CASE OfferPackets \/ ConsumePackets \/ DeliverPackets \/ CommitRuntime
  BY <1>0, <1>4, <1>6 DEF OfferPackets, ConsumePackets, DeliverPackets, CommitRuntime, clocks,
                          Before, Moved
<1>7. CASE CommitControllerState \/ WriteCompletion \/ AcknowledgeCompletion \/ RecordHold
  BY <1>0, <1>4, <1>7 DEF CommitControllerState, WriteCompletion, Publish, AcknowledgeCompletion,
                          RecordHold, clocks, Before, Moved
<1>8. CASE Return \/ Fail \/ RecoveryRefused \/ InstallRuntime
  <2>1. at' = "IDLE" \/ (at' = at /\ at = "IDLE")
    BY <1>8 DEF Return, Fail, RecoveryRefused, InstallRuntime
  <2> QED
    BY <1>4, <1>8, <2>1 DEF Return, Fail, RecoveryRefused, InstallRuntime, clocks, Before, Moved
<1>9. CASE UNCHANGED vars
  BY <1>4, <1>9 DEF vars, clocks, Alive
<1> QED
  BY <1>1, <1>2, <1>3, <1>5, <1>6, <1>7, <1>8, <1>9 DEF Next, Step

-----------------------------------------------------------------------------
(* Packets                                                                 *)

LEMMA PacketsKept == Inv /\ [Next]_vars => PacketsFollow'
<1> SUFFICES ASSUME Inv, [Next]_vars PROVE PacketsFollow'
  OBVIOUS
<1>0. Types /\ ClocksFollow /\ PacketsFollow
  BY DEF Inv
<1>1. CASE CommitTruth
  <2>1. active_staged \in StagedHolds /\ truth_q = active_staged.start
        /\ active_staged.start < active_staged.end
    BY <1>0, <1>1 DEF Types, ClocksFollow, CommitTruth, Staged, Before
  <2>2. truth_q' = active_staged.end /\ truth_q < truth_q' /\ truth_q \in Nat /\ truth_q' \in Nat
    BY <1>1, <2>1 DEF CommitTruth, StagedHolds
  <2>3. at' = "SENSOR_GENERATION" /\ UNCHANGED packets
    BY <1>1 DEF CommitTruth
  <2>4. \A p \in pending_packets \cup delivered \cup handed \cup audited :
          p.acquired \in Nat /\ p.acquired < truth_q'
    BY <1>0, <2>2 DEF Types, Packets, PacketsFollow
  <2> QED
    BY <1>0, <2>2, <2>3, <2>4 DEF PacketsFollow, PacketsOnce, packets
<1>2. CASE Sample
  <2>0. at = "SENSOR_GENERATION" /\ ~unconfirmed /\ at' = "SENSOR_AUDIT" /\ truth_q' = truth_q
        /\ UNCHANGED <<packet_ids, delivered, handed, audited>>
    BY <1>2 DEF Sample, clocks
  <2>1. pending_packets \subseteq audited /\ packet_ids \cap pending_packets = {}
    BY <1>0, <2>0 DEF PacketsFollow, PacketsOnce
  <2>2. CASE UNCHANGED <<pending_packets, unconfirmed>>
    BY <1>0, <2>0, <2>1, <2>2 DEF PacketsFollow, PacketsOnce
  <2>3. ASSUME NEW d \in Delays, unconfirmed' = TRUE,
               pending_packets' = pending_packets \cup
                                    {[acquired |-> truth_q, delivery |-> truth_q + d]}
        PROVE  PacketsFollow'
    <3> DEFINE p == [acquired |-> truth_q, delivery |-> truth_q + d]
    <3>1. p.acquired = truth_q /\ truth_q \in Nat
      BY <1>0 DEF Types
    <3>2. p \notin delivered \cup handed \cup audited
      BY <1>0, <2>0, <3>1 DEF PacketsFollow
    <3>3. p \notin packet_ids
      BY <1>0, <3>2 DEF PacketsFollow, PacketsOnce
    <3> HIDE DEF p
    <3>4. pending_packets' = pending_packets \cup {p}
      BY <2>3 DEF p
    <3>5. PacketsOnce'
      BY <1>0, <2>0, <2>3, <3>2, <3>4 DEF PacketsFollow, PacketsOnce
    <3>6. \A r \in (pending_packets \cup delivered \cup handed \cup audited)' :
            r.acquired <= truth_q'
      BY <1>0, <2>0, <3>1, <3>4 DEF PacketsFollow
    <3>7. packet_ids' \cap pending_packets' = {}
      BY <2>0, <2>1, <3>3, <3>4
    <3>8. \A r \in pending_packets' \ audited' : r.acquired = truth_q'
      BY <2>0, <2>1, <3>1, <3>4
    <3> QED
      BY <2>0, <3>5, <3>6, <3>7, <3>8 DEF PacketsFollow
  <2> QED
    BY <1>2, <2>2, <2>3 DEF Sample
<1>3. CASE ConfirmSample
  <2>1. /\ at = "SENSOR_AUDIT" /\ at' \in {"RUNTIME_COMMIT", "NAVIGATION_UPDATE"}
        /\ truth_q' = truth_q /\ ~unconfirmed'
        /\ audited' = audited \cup {p \in pending_packets : p.acquired = truth_q}
        /\ UNCHANGED <<packet_ids, pending_packets, delivered, handed>>
    BY <1>3 DEF ConfirmSample
  <2>2. pending_packets \subseteq audited' /\ packet_ids \cap pending_packets = {}
    BY <1>0, <2>1 DEF PacketsFollow
  <2>3. \A p \in (pending_packets \cup delivered \cup handed \cup audited)' :
          p.acquired <= truth_q'
    BY <1>0, <2>1 DEF PacketsFollow
  <2> QED
    BY <1>0, <2>1, <2>2, <2>3 DEF PacketsFollow, PacketsOnce
<1>4. CASE OfferPackets
  <2>1. Ready(navigation_q)' = Ready(navigation_q)
    BY <1>4 DEF OfferPackets, clocks, Ready
  <2>2. pending_packets \subseteq audited /\ packet_ids \cap pending_packets = {}
    BY <1>0, <1>4 DEF PacketsFollow, PacketsOnce, OfferPackets
  <2>3. /\ at' = "OFFERED" /\ truth_q' = truth_q /\ (unconfirmed' <=> Ready(navigation_q) # {})
        /\ UNCHANGED <<packet_ids, pending_packets, delivered, handed, audited>>
    BY <1>4 DEF OfferPackets, clocks
  <2> QED
    BY <1>0, <2>1, <2>2, <2>3 DEF PacketsFollow, PacketsOnce
<1>5. CASE ConsumePackets
  <2>1. Ready(navigation_q)' = Ready(navigation_q)
    BY <1>5 DEF ConsumePackets, Ready
  <2>2. PICK accepted \in SUBSET (Ready(navigation_q) \ packet_ids) :
          packet_ids' = packet_ids \cup accepted
    BY <1>5 DEF ConsumePackets
  <2>3. /\ at = "OFFERED" /\ at' = "CONSUMED" /\ truth_q' = truth_q
        /\ UNCHANGED <<pending_packets, delivered, handed, audited, unconfirmed>>
    BY <1>5 DEF ConsumePackets
  <2>4. /\ pending_packets \subseteq audited /\ packet_ids \cap pending_packets = {}
        /\ Ready(navigation_q) \subseteq pending_packets
        /\ (unconfirmed <=> Ready(navigation_q) # {})
    BY <1>0, <2>3 DEF PacketsFollow, Ready
  <2> QED
    BY <1>0, <2>1, <2>2, <2>3, <2>4 DEF PacketsFollow, PacketsOnce
<1>6. CASE DeliverPackets
  <2>1. /\ at = "CONSUMED" /\ at' = "RUNTIME_COMMIT" /\ truth_q' = truth_q /\ ~unconfirmed'
        /\ pending_packets' = pending_packets \ Ready(navigation_q)
        /\ delivered' = delivered \cup Ready(navigation_q)
        /\ UNCHANGED <<packet_ids, handed, audited>>
    BY <1>6 DEF DeliverPackets, clocks
  <2>2. /\ pending_packets \subseteq audited
        /\ packet_ids \cap pending_packets \subseteq Ready(navigation_q)
        /\ Ready(navigation_q) \subseteq pending_packets
    BY <1>0, <2>1 DEF PacketsFollow, Ready
  <2> QED
    BY <1>0, <2>1, <2>2 DEF PacketsFollow, PacketsOnce
<1>7. CASE Return \/ Fail
  <2>1. /\ at' = "IDLE" /\ truth_q' = truth_q /\ delivered' = {}
        /\ handed' = handed \cup delivered
        /\ UNCHANGED <<packet_ids, pending_packets, audited, unconfirmed>>
    BY <1>7 DEF Return, Fail, Drain, clocks
  <2> QED
    BY <1>0, <2>1 DEF PacketsFollow, PacketsOnce
<1>8. CASE RecoverNavigation
  <2> DEFINE ready == Ready(blackout_holds[Len(blackout_holds)].end)
  <2>1. PICK accepted \in SUBSET (ready \ packet_ids) : packet_ids' = packet_ids \cup accepted
    BY <1>8 DEF RecoverNavigation
  <2>2. /\ at = "IDLE" /\ at' = "IDLE" /\ truth_q' = truth_q /\ ~unconfirmed
        /\ pending_packets' = pending_packets \ ready /\ delivered' = delivered \cup ready
        /\ UNCHANGED <<handed, audited, unconfirmed>>
    BY <1>8 DEF RecoverNavigation
  <2>3. ready \subseteq pending_packets
    BY DEF Ready
  <2> HIDE DEF ready
  <2>4. pending_packets \subseteq audited /\ packet_ids \cap pending_packets = {}
    BY <1>0, <2>2 DEF PacketsFollow, PacketsOnce
  <2> QED
    BY <1>0, <2>1, <2>2, <2>3, <2>4 DEF PacketsFollow, PacketsOnce
<1>9. CASE RecoveryRefused
  BY <1>0, <1>9 DEF RecoveryRefused, PacketsFollow, PacketsOnce, clocks
<1>10. ASSUME UNCHANGED packets, truth_q' = truth_q, navigation_q' = navigation_q,
              at' \notin {"SENSOR_GENERATION", "SENSOR_AUDIT", "NAVIGATION_UPDATE", "OFFERED",
                          "CONSUMED"}
       PROVE  PacketsFollow'
  BY <1>0, <1>10 DEF PacketsFollow, PacketsOnce, packets
<1>11. CASE Advance \/ Decide \/ Preflight \/ WriteAdmitted \/ ProposeMotion
  BY <1>10, <1>11 DEF Advance, Decide, Preflight, WriteAdmitted, Publish, ProposeMotion, clocks
<1>12. CASE CommitRuntime \/ CommitControllerState \/ WriteCompletion \/ AcknowledgeCompletion
            \/ RecordHold
  BY <1>10, <1>12 DEF CommitRuntime, CommitControllerState, WriteCompletion, Publish,
                      AcknowledgeCompletion, RecordHold, clocks
<1>13. CASE InstallRuntime
  BY <1>10, <1>13 DEF InstallRuntime
<1>14. CASE UNCHANGED vars
  BY <1>0, <1>14 DEF PacketsFollow, PacketsOnce, Ready, vars, clocks, packets
<1> QED
  BY <1>1, <1>2, <1>3, <1>4, <1>5, <1>6, <1>7, <1>8, <1>9, <1>11, <1>12, <1>13, <1>14
  DEF Next, Step

-----------------------------------------------------------------------------
(* The archive                                                             *)

\* The archive only grows, by one record at a time.
LEMMA Grown ==
  ASSUME Types, NEW e \in Records, archive' = Append(archive, e)
  PROVE  /\ Len(archive') = Len(archive) + 1 /\ archive'[Len(archive) + 1] = e
         /\ Len(archive) \in Nat /\ \A i \in 1..Len(archive) : archive'[i] = archive[i]
         /\ \A i \in 1..Len(archive') : i \in 1..Len(archive) \/ i = Len(archive) + 1
<1>1. archive \in Seq(Records)
  BY DEF Types
<1> QED
  BY <1>1

\* A record that reports no completion beyond the fleet keeps what the
\* archive says true.
LEMMA EvidenceGrows ==
  ASSUME Types, NEW e \in Records, archive' = Append(archive, e), EvidenceIsTrue,
         truth_q' = truth_q, completed' = completed,
         e.kind = "APPLIED_HOLD_COMPLETE" => e.end <= truth_q
  PROVE  EvidenceIsTrue'
<1>1. MotionIsAdmitted'
  <2> SUFFICES ASSUME NEW t \in 0..truth_q - 1
               PROVE  \E i \in 1..Len(archive') : /\ archive'[i].kind = "ADMITTED_BEFORE_MOTION"
                                                  /\ archive'[i].start <= t /\ t < archive'[i].end
    BY DEF MotionIsAdmitted
  <2>1. PICK i \in 1..Len(archive) : /\ archive[i].kind = "ADMITTED_BEFORE_MOTION"
                                     /\ archive[i].start <= t /\ t < archive[i].end
    BY DEF EvidenceIsTrue, MotionIsAdmitted
  <2>2. i \in 1..Len(archive')
    BY Grown
  <2> QED
    BY <2>1, <2>2, Grown
<1>2. \A i \in 1..Len(archive') :
        archive'[i].kind = "APPLIED_HOLD_COMPLETE" => archive'[i].end <= truth_q'
  BY Grown DEF EvidenceIsTrue, CompletionsAreTrue
<1>3. \A i \in 1..Len(completed) :
        /\ \E k \in 1..Len(archive') : archive'[k] = Event("APPLIED_HOLD_COMPLETE", completed[i])
        /\ completed[i].start = IF i = 1 THEN 0 ELSE completed[i-1].end
  <2> SUFFICES ASSUME NEW i \in 1..Len(completed)
      PROVE /\ \E k \in 1..Len(archive') : archive'[k] = Event("APPLIED_HOLD_COMPLETE", completed[i])
            /\ completed[i].start = IF i = 1 THEN 0 ELSE completed[i-1].end
    OBVIOUS
  <2>1. PICK k \in 1..Len(archive) : archive[k] = Event("APPLIED_HOLD_COMPLETE", completed[i])
    BY DEF EvidenceIsTrue, CompletionsAreTrue, Archived
  <2>2. k \in 1..Len(archive') /\ archive'[k] = archive[k]
    BY Grown
  <2> QED
    BY <2>1, <2>2 DEF EvidenceIsTrue, CompletionsAreTrue
<1> QED
  BY <1>1, <1>2, <1>3 DEF EvidenceIsTrue, CompletionsAreTrue, Archived

\* What WriteAdmitted and WriteCompletion append.
LEMMA PublishedRecord ==
  ASSUME Inv, NEW kind \in Kinds, at \in Staged
  PROVE  /\ active_staged \in StagedHolds /\ Event(kind, active_staged) \in Records
         /\ Event(kind, active_staged).kind = kind
         /\ Event(kind, active_staged).start = active_staged.start
         /\ Event(kind, active_staged).end = active_staged.end
<1>1. active_staged \in StagedHolds
  BY DEF Inv, Types, ClocksFollow, Staged, Before, Moved, Observing, Closing, Written
<1> QED
  BY <1>1 DEF Event, Records, StagedHolds

LEMMA ArchiveKept == Inv /\ [Next]_vars => ArchiveFollows'
<1> SUFFICES ASSUME Inv, [Next]_vars PROVE ArchiveFollows'
  OBVIOUS
<1> USE NoneAssumption
<1>0. Types /\ ClocksFollow /\ ArchiveFollows /\ (~Alive => at = "IDLE")
  BY DEF Inv, ClocksFollow
<1>1. CASE WriteAdmitted
  <2> DEFINE e == Event("ADMITTED_BEFORE_MOTION", active_staged)
  <2>1. /\ at = "ARCHIVE_BEFORE_MOTION" /\ at' = "ADMITTED_WRITTEN" /\ archive' = Append(archive, e)
        /\ truth_q' = truth_q /\ completed' = completed /\ active_staged' = active_staged
        /\ last_assumption_violation' = last_assumption_violation
    BY <1>1 DEF WriteAdmitted, Publish, clocks
  <2>2. at \in Staged /\ Alive
    BY <1>0, <2>1 DEF Staged, Before
  <2>3. /\ e \in Records /\ active_staged \in StagedHolds /\ e.kind = "ADMITTED_BEFORE_MOTION"
        /\ e.end = active_staged.end
    BY <2>2, PublishedRecord DEF Kinds
  <2> HIDE DEF e
  <2>4. EvidenceIsTrue'
    BY <1>0, <2>1, <2>3, EvidenceGrows DEF ArchiveFollows
  <2>5. truth_q = active_staged.start /\ active_staged.start < active_staged.end
    BY <1>0, <2>1, <2>2 DEF ClocksFollow, Before
  <2>6. \A i \in 1..Len(archive') :
          archive'[i].kind = "ADMITTED_BEFORE_MOTION" => archive'[i].end <= active_staged.end
    <3> SUFFICES ASSUME NEW i \in 1..Len(archive'), archive'[i].kind = "ADMITTED_BEFORE_MOTION"
                 PROVE  archive'[i].end <= active_staged.end
      OBVIOUS
    <3>1. CASE i \in 1..Len(archive)
      <4>1. archive'[i] = archive[i] /\ archive[i] \in Records
        BY <1>0, <2>1, <2>3, <3>1, Grown DEF Types
      <4>2. archive[i].end <= truth_q
        BY <1>0, <2>1, <2>2, <3>1, <4>1 DEF ArchiveFollows
      <4> QED
        BY <2>3, <2>5, <4>1, <4>2 DEF Records, StagedHolds
    <3>2. CASE i = Len(archive) + 1
      BY <1>0, <2>1, <2>3, <3>2, Grown DEF StagedHolds
    <3> QED
      BY <1>0, <2>1, <2>3, <3>1, <3>2, Grown
  <2>7. \E i \in 1..Len(archive') : archive'[i] = Event("ADMITTED_BEFORE_MOTION", active_staged')
    <3>1. Len(archive) + 1 \in 1..Len(archive') /\ archive'[Len(archive) + 1] = e
      BY <1>0, <2>1, <2>3, Grown
    <3>2. e = Event("ADMITTED_BEFORE_MOTION", active_staged')
      BY <2>1 DEF e
    <3> QED
      BY <3>1, <3>2
  <2> QED
    BY <2>1, <2>4, <2>6, <2>7 DEF ArchiveFollows, Archived
<1>2. CASE CommitTruth
  <2>1. /\ at = "PHYSICAL_TRUTH_COMMIT" /\ at' = "SENSOR_GENERATION" /\ archive' = archive
        /\ truth_q' = active_staged.end /\ completed' = completed /\ active_staged' = active_staged
        /\ last_assumption_violation' = last_assumption_violation
    BY <1>2 DEF CommitTruth, evidence
  <2>2. at \in Staged /\ Alive
    BY <1>0, <2>1 DEF Staged, Before
  <2>3. /\ active_staged \in StagedHolds /\ truth_q = active_staged.start
        /\ active_staged.start < active_staged.end
    BY <1>0, <2>1, <2>2 DEF Types, ClocksFollow, Before
  <2>4. PICK k \in 1..Len(archive) : archive[k] = Event("ADMITTED_BEFORE_MOTION", active_staged)
    BY <1>0, <2>1, <2>2 DEF ArchiveFollows, Archived
  <2>5. /\ archive[k].kind = "ADMITTED_BEFORE_MOTION" /\ archive[k].start = active_staged.start
        /\ archive[k].end = active_staged.end
    BY <2>4 DEF Event
  <2>6. MotionIsAdmitted'
    <3> SUFFICES ASSUME NEW t \in 0..active_staged.end - 1
                 PROVE  \E i \in 1..Len(archive) :
                          /\ archive[i].kind = "ADMITTED_BEFORE_MOTION"
                          /\ archive[i].start <= t /\ t < archive[i].end
      BY <2>1 DEF MotionIsAdmitted
    <3>1. CASE t < truth_q
      <4>1. t \in 0..truth_q - 1
        BY <2>3, <3>1 DEF StagedHolds
      <4> QED
        BY <1>0, <4>1 DEF ArchiveFollows, EvidenceIsTrue, MotionIsAdmitted
    <3>2. CASE ~(t < truth_q)
      BY <2>3, <2>4, <2>5, <3>2 DEF StagedHolds
    <3> QED
      BY <3>1, <3>2
  <2>7. CompletionsAreTrue'
    <3>1. \A i \in 1..Len(archive) : archive[i].kind = "APPLIED_HOLD_COMPLETE" =>
            archive[i].end <= active_staged.end
      <4> SUFFICES ASSUME NEW i \in 1..Len(archive), archive[i].kind = "APPLIED_HOLD_COMPLETE"
                   PROVE  archive[i].end <= active_staged.end
        OBVIOUS
      <4>1. archive[i].end <= truth_q /\ archive[i] \in Records
        BY <1>0 DEF ArchiveFollows, EvidenceIsTrue, CompletionsAreTrue, Types
      <4> QED
        BY <2>3, <4>1 DEF Records, StagedHolds
    <3> QED
      BY <1>0, <2>1, <3>1 DEF ArchiveFollows, EvidenceIsTrue, CompletionsAreTrue, Archived
  <2> QED
    BY <1>0, <2>1, <2>2, <2>6, <2>7 DEF ArchiveFollows, EvidenceIsTrue, Archived
<1>3. CASE WriteCompletion
  <2> DEFINE e == Event("APPLIED_HOLD_COMPLETE", active_staged)
  <2>1. /\ at = "ARCHIVE_COMPLETION" /\ at' = "COMPLETION_WRITTEN" /\ archive' = Append(archive, e)
        /\ truth_q' = truth_q /\ completed' = completed /\ active_staged' = active_staged
        /\ last_assumption_violation' = last_assumption_violation
    BY <1>3 DEF WriteCompletion, Publish, clocks
  <2>2. at \in Staged /\ Alive
    BY <1>0, <2>1 DEF Staged, Closing, Written
  <2>3. /\ e \in Records /\ active_staged \in StagedHolds /\ e.kind = "APPLIED_HOLD_COMPLETE"
        /\ e.end = active_staged.end
    BY <2>2, PublishedRecord DEF Kinds
  <2>4. truth_q = active_staged.end
    BY <1>0, <2>1, <2>2 DEF ClocksFollow, Before
  <2> HIDE DEF e
  <2>5. EvidenceIsTrue'
    BY <1>0, <2>1, <2>3, <2>4, EvidenceGrows DEF ArchiveFollows, StagedHolds
  <2>6. \E i \in 1..Len(archive') : archive'[i] = Event("APPLIED_HOLD_COMPLETE", active_staged')
    <3>1. Len(archive) + 1 \in 1..Len(archive') /\ archive'[Len(archive) + 1] = e
      BY <1>0, <2>1, <2>3, Grown
    <3>2. e = Event("APPLIED_HOLD_COMPLETE", active_staged')
      BY <2>1 DEF e
    <3> QED
      BY <3>1, <3>2
  <2>7. \E i \in 1..Len(archive') : archive'[i] = Event("ADMITTED_BEFORE_MOTION", active_staged')
    <3>1. PICK i \in 1..Len(archive) : archive[i] = Event("ADMITTED_BEFORE_MOTION", active_staged)
      BY <1>0, <2>1, <2>2 DEF ArchiveFollows, Archived
    <3>2. i \in 1..Len(archive') /\ archive'[i] = archive[i]
      BY <1>0, <2>1, <2>3, Grown
    <3> QED
      BY <2>1, <3>1, <3>2
  <2>8. \A i \in 1..Len(archive') :
          archive'[i].kind = "ADMITTED_BEFORE_MOTION" => archive'[i].end <= truth_q
    <3> SUFFICES ASSUME NEW i \in 1..Len(archive'), archive'[i].kind = "ADMITTED_BEFORE_MOTION"
                 PROVE  archive'[i].end <= truth_q
      OBVIOUS
    <3>1. i \in 1..Len(archive) /\ archive'[i] = archive[i]
      BY <1>0, <2>1, <2>3, Grown
    <3> QED
      BY <1>0, <2>1, <2>2, <3>1 DEF ArchiveFollows
  <2> QED
    BY <2>1, <2>5, <2>6, <2>7, <2>8 DEF ArchiveFollows, Archived
<1>4. CASE AcknowledgeCompletion
  <2> DEFINE span == [start |-> active_staged.start, end |-> active_staged.end]
             n == Len(completed)
  <2>1. /\ at = "COMPLETION_WRITTEN" /\ at' = "COMPLETED_HOLD_RECORDING" /\ archive' = archive
        /\ truth_q' = truth_q /\ completed' = Append(completed, span)
        /\ active_staged' = active_staged
        /\ last_assumption_violation' = last_assumption_violation
    BY <1>4 DEF AcknowledgeCompletion, clocks
  <2>2. at \in Staged /\ Alive
    BY <1>0, <2>1 DEF Staged, Closing, Written
  <2>3. active_staged \in StagedHolds /\ LedgerEnd = active_staged.start
    BY <1>0, <2>1, <2>2 DEF Types, ClocksFollow
  <2>4. span \in Holds /\ span.start = active_staged.start /\ completed \in Seq(Holds)
    BY <1>0, <2>3 DEF Types, Holds, StagedHolds
  <2>5. Archived("APPLIED_HOLD_COMPLETE", span)
    BY <1>0, <2>1 DEF ArchiveFollows, Archived, Event
  <2> HIDE DEF span
  <2>6. /\ n \in Nat /\ Len(completed') = n + 1 /\ completed'[n + 1] = span
        /\ \A i \in 1..n : completed'[i] = completed[i]
        /\ completed = <<>> <=> n = 0
    BY <2>1, <2>4
  <2>7. \A i \in 1..(n + 1) : /\ \E k \in 1..Len(archive) :
                                   archive[k] = Event("APPLIED_HOLD_COMPLETE", completed'[i])
                              /\ completed'[i].start = IF i = 1 THEN 0 ELSE completed'[i-1].end
    <3> SUFFICES ASSUME NEW i \in 1..(n + 1)
                 PROVE  /\ \E k \in 1..Len(archive) :
                             archive[k] = Event("APPLIED_HOLD_COMPLETE", completed'[i])
                        /\ completed'[i].start = IF i = 1 THEN 0 ELSE completed'[i-1].end
      OBVIOUS
    <3>1. CASE i \in 1..n
      <4>1. i = 1 \/ i - 1 \in 1..n
        BY <2>6, <3>1
      <4> QED
        BY <1>0, <2>6, <3>1, <4>1
        DEF ArchiveFollows, EvidenceIsTrue, CompletionsAreTrue, Archived
    <3>2. CASE i = n + 1
      <4>1. n = 0 => span.start = 0
        BY <2>3, <2>4, <2>6 DEF LedgerEnd
      <4>2. n # 0 => n \in 1..n /\ span.start = completed[n].end
        BY <2>3, <2>4, <2>6 DEF LedgerEnd
      <4>3. i - 1 = n /\ (i = 1 <=> n = 0)
        BY <2>6, <3>2
      <4> QED
        BY <2>5, <2>6, <3>2, <4>1, <4>2, <4>3 DEF Archived
    <3> QED
      BY <2>6, <3>1, <3>2
  <2>8. EvidenceIsTrue'
    BY <1>0, <2>1, <2>6, <2>7
    DEF ArchiveFollows, EvidenceIsTrue, MotionIsAdmitted, CompletionsAreTrue, Archived
  <2> QED
    BY <1>0, <2>1, <2>2, <2>8 DEF ArchiveFollows, Archived
<1>5. CASE Fail
  <2> DEFINE record == [kind |-> "ASSUMPTION_VIOLATION", end |-> truth_q,
                        start |-> IF active_staged = None THEN truth_q ELSE active_staged.start]
  <2>1. /\ at' = "IDLE" /\ truth_q' = truth_q /\ completed' = completed
        /\ archive' \in {archive, Append(archive, record)}
    BY <1>5 DEF Fail, clocks
  <2>2. ~Alive'
    <3>1. last_assumption_violation' \in Violations
      BY <1>5, TypesKept, <1>0 DEF Fail, Types, Violations
    <3> QED
      BY <3>1 DEF Alive
  <2>3. record \in Records /\ record.kind = "ASSUMPTION_VIOLATION"
    BY <1>0 DEF Types, StagedHolds, Records, Kinds
  <2> HIDE DEF record
  <2>4. EvidenceIsTrue'
    <3>1. CASE archive' = archive
      BY <1>0, <2>1, <3>1
      DEF ArchiveFollows, EvidenceIsTrue, MotionIsAdmitted, CompletionsAreTrue, Archived
    <3>2. CASE archive' = Append(archive, record)
      BY <1>0, <2>1, <2>3, <3>2, EvidenceGrows DEF ArchiveFollows
    <3> QED
      BY <2>1, <3>1, <3>2
  <2> QED
    BY <2>1, <2>2, <2>4 DEF ArchiveFollows
<1>6. ASSUME archive' = archive, completed' = completed, truth_q' = truth_q,
             last_assumption_violation' = last_assumption_violation,
             at' \in Staged \ {"ARCHIVE_BEFORE_MOTION"} =>
               at \in Staged \ {"ARCHIVE_BEFORE_MOTION"} /\ active_staged' = active_staged,
             at' = "COMPLETION_WRITTEN" => at = "COMPLETION_WRITTEN",
             at' \in {"ADMITTED_WRITTEN", "PHYSICAL_TRUTH_COMMIT"} <=>
               at \in {"ADMITTED_WRITTEN", "PHYSICAL_TRUTH_COMMIT"}
      PROVE  ArchiveFollows'
  <2>1. EvidenceIsTrue'
    BY <1>0, <1>6 DEF ArchiveFollows, EvidenceIsTrue, MotionIsAdmitted, CompletionsAreTrue, Archived
  <2>2. Alive' /\ at' \in Staged \ {"ARCHIVE_BEFORE_MOTION"} =>
          \E i \in 1..Len(archive') : archive'[i] = Event("ADMITTED_BEFORE_MOTION", active_staged')
    BY <1>0, <1>6 DEF ArchiveFollows, Archived, Alive
  <2>3. at' = "COMPLETION_WRITTEN" =>
          \E i \in 1..Len(archive') : archive'[i] = Event("APPLIED_HOLD_COMPLETE", active_staged')
    BY <1>0, <1>6 DEF ArchiveFollows, Archived, Staged, Closing, Written
  <2>4. at' \in {"ADMITTED_WRITTEN", "PHYSICAL_TRUTH_COMMIT"} => active_staged' = active_staged
    BY <1>6 DEF Staged, Before
  <2>5. Alive' => \A i \in 1..Len(archive') : archive'[i].kind = "ADMITTED_BEFORE_MOTION" =>
          archive'[i].end <= IF at' \in {"ADMITTED_WRITTEN", "PHYSICAL_TRUTH_COMMIT"}
                             THEN active_staged'.end ELSE truth_q'
    BY <1>0, <1>6, <2>4 DEF ArchiveFollows, Alive
  <2> QED
    BY <2>1, <2>2, <2>3, <2>5 DEF ArchiveFollows, Archived
<1>7. CASE Advance \/ Decide \/ Preflight \/ ProposeMotion
  BY <1>6, <1>7 DEF Advance, Decide, Preflight, ProposeMotion, clocks, evidence, Staged, Before,
                    Moved, Observing, Closing, Written
<1>8. CASE Sample \/ ConfirmSample \/ OfferPackets \/ ConsumePackets \/ DeliverPackets
  BY <1>6, <1>8 DEF Sample, ConfirmSample, OfferPackets, ConsumePackets, DeliverPackets, clocks,
                    evidence, Staged, Before, Moved, Observing, Closing, Written
<1>9. CASE CommitRuntime \/ CommitControllerState \/ RecordHold
  BY <1>6, <1>9 DEF CommitRuntime, CommitControllerState, RecordHold, clocks, evidence, Staged,
                    Before, Moved, Observing, Closing, Written
<1>10. CASE Return \/ RecoverNavigation \/ RecoveryRefused \/ InstallRuntime
  <2>1. \/ at' = "IDLE" /\ at \notin {"ADMITTED_WRITTEN", "PHYSICAL_TRUTH_COMMIT"}
        \/ at' = at /\ active_staged' = active_staged
    BY <1>10 DEF Return, RecoverNavigation, RecoveryRefused, InstallRuntime
  <2> QED
    BY <1>6, <1>10, <2>1 DEF Return, RecoverNavigation, RecoveryRefused, InstallRuntime, clocks,
                             evidence, Staged, Before, Moved, Observing, Closing, Written
<1>11. CASE UNCHANGED vars
  BY <1>6, <1>11 DEF vars, clocks, evidence
<1> QED
  BY <1>1, <1>2, <1>3, <1>4, <1>5, <1>7, <1>8, <1>9, <1>10, <1>11 DEF Next, Step

-----------------------------------------------------------------------------
(* Reports                                                                 *)

LEMMA ReportKept == Inv /\ [Next]_vars => MotionIsReported'
<1> SUFFICES ASSUME Inv, [Next]_vars PROVE MotionIsReported'
  OBVIOUS
<1>0. Types /\ ClocksFollow /\ MotionIsReported /\ (~Alive => at = "IDLE")
  BY DEF Inv, ClocksFollow
<1>1. CASE Fail
  <2>1. /\ last_assumption_violation' =
             [staged |-> active_staged,
              physical_motion_committed |-> active_staged # None /\ truth_q > active_staged.start,
              actual_q |-> truth_q]
        /\ truth_q' = truth_q /\ active_staged' = active_staged /\ LedgerEnd' = LedgerEnd
    BY <1>1, LedgerKept DEF Fail, clocks
  <2>2. at # "IDLE" /\ Alive
    BY <1>0, <1>1 DEF Fail
  <2>3. truth_q > LedgerEnd => active_staged # None /\ truth_q > active_staged.start
    <3>1. CASE at \in Unstaged
      BY <1>0, <2>2, <3>1 DEF Types, ClocksFollow
    <3>2. CASE at \in Staged
      <4>1. active_staged \in StagedHolds /\ active_staged # None
        BY <1>0, <2>2, <3>2 DEF Types, ClocksFollow
      <4> QED
        BY <1>0, <2>2, <3>2, <4>1 DEF ClocksFollow, StagedHolds, Before
    <3> QED
      BY <1>0, <3>1, <3>2 DEF Types
  <2> QED
    BY <2>1, <2>3 DEF MotionIsReported
<1>2. CASE ~Fail /\ Alive
  <2>1. last_assumption_violation' = last_assumption_violation
    BY <1>2 DEF Next, Step, Advance, Decide, Preflight, WriteAdmitted, Publish, ProposeMotion,
       CommitTruth, Sample, ConfirmSample, OfferPackets, ConsumePackets, DeliverPackets,
       CommitRuntime, CommitControllerState, WriteCompletion, AcknowledgeCompletion, RecordHold,
       Return, RecoverNavigation, RecoveryRefused, InstallRuntime, vars
  <2> QED
    BY <1>2, <2>1 DEF Alive, MotionIsReported
<1>3. CASE ~Alive
  <2>1. RecoverNavigation \/ RecoveryRefused \/ InstallRuntime \/ UNCHANGED vars
    BY <1>0, <1>3 DEF Alive, Next, Step, Advance, Decide, Preflight, WriteAdmitted, Publish,
       ProposeMotion, CommitTruth, Sample, ConfirmSample, OfferPackets, ConsumePackets,
       DeliverPackets, CommitRuntime, CommitControllerState, WriteCompletion,
       AcknowledgeCompletion, RecordHold, Return, Fail
  <2>2. /\ truth_q' = truth_q /\ active_staged' = active_staged /\ completed' = completed
        /\ last_assumption_violation' = last_assumption_violation
    BY <2>1 DEF RecoverNavigation, RecoveryRefused, InstallRuntime, vars, clocks, evidence
  <2> QED
    BY <1>0, <2>2, LedgerKept DEF MotionIsReported
<1> QED
  BY <1>1, <1>2, <1>3

-----------------------------------------------------------------------------
(* What holds of every hold                                                *)

LEMMA InitInv == Init => Inv
<1> SUFFICES ASSUME Init PROVE Inv
  OBVIOUS
<1> USE NoneAssumption, StepAssumption
<1>1. PICK d \in Delays : LET p == [acquired |-> 0, delivery |-> d] IN
        /\ audited = {p}
        /\ pending_packets = IF d = 0 THEN {} ELSE {p}
        /\ delivered = {p} \ pending_packets
        /\ packet_ids \in SUBSET delivered
  BY DEF Init
<1>2. \A p \in audited : p \in Packets /\ p.acquired = 0
  BY <1>1 DEF Packets
<1>3. /\ pending_packets \subseteq audited /\ delivered \subseteq audited
      /\ pending_packets \cap delivered = {} /\ packet_ids \subseteq delivered
  BY <1>1
<1>4. archive = <<>> /\ completed = <<>> /\ blackout_holds = <<>> /\ LedgerEnd = 0
      /\ observed_q = 0
  BY DEF Init, LedgerEnd, observed_q
<1>5. Types
  <2>1. audited \subseteq Packets
    BY <1>2
  <2>2. /\ packet_ids \subseteq Packets /\ pending_packets \subseteq Packets
        /\ delivered \subseteq Packets
    BY <1>3, <2>1
  <2>3. archive \in Seq(Records) /\ completed \in Seq(Holds) /\ blackout_holds \in Seq(Holds)
    BY <1>4
  <2>4. unconfirmed \in BOOLEAN /\ handed \subseteq Packets
    BY DEF Init
  <2> QED
    BY <2>1, <2>2, <2>3, <2>4 DEF Init, Types, Unstaged
<1>6. ClocksFollow
  BY <1>4 DEF Init, ClocksFollow, Alive, Unstaged, Staged, Before, Moved, Observing, Closing,
              Written
<1>7. BlackoutFollows
  BY <1>4 DEF Init, BlackoutFollows, BlackoutIsBounded, Before, Moved
<1>8. ArchiveFollows
  BY <1>4 DEF Init, ArchiveFollows, EvidenceIsTrue, MotionIsAdmitted, CompletionsAreTrue, Staged,
              Before, Moved, Observing, Closing, Written
<1>9. PacketsFollow
  BY <1>2, <1>3 DEF Init, PacketsFollow, PacketsOnce
<1>10. MotionIsReported
  BY DEF Init, MotionIsReported
<1> QED
  BY <1>5, <1>6, <1>7, <1>8, <1>9, <1>10 DEF Inv

LEMMA NextInv == Inv /\ [Next]_vars => Inv'
  BY TypesKept, ClocksKept, BlackoutKept, PacketsKept, ArchiveKept, ReportKept DEF Inv

\* The coordinator keeps its types.
THEOREM TypeCorrect == Spec => []Types
<1>1. Inv => Types
  BY DEF Inv
<1> QED
  BY <1>1, InitInv, NextInv, PTL DEF Spec

\* Archive, ledger, clocks and reports agree with the motion at every program
\* point, whatever has failed, for every width of holds.
THEOREM MotionIsAlwaysKnown == Spec => []MotionIsKnown
<1>1. Inv => MotionIsKnown
  <2> SUFFICES ASSUME Inv PROVE MotionIsKnown
    OBVIOUS
  <2>1. ClocksAgree
    BY DEF Inv, ClocksFollow, ClocksAgree, Alive, Unstaged
  <2> QED
    BY <2>1 DEF Inv, ArchiveFollows, MotionIsKnown
<1> QED
  BY <1>1, InitInv, NextInv, PTL DEF Spec

\* Every packet is used once and no blackout outlasts its horizon, for every
\* delay and horizon.
THEOREM SensingIsAlwaysTimely == Spec => []SensingIsTimely
<1>1. Inv => SensingIsTimely
  BY DEF Inv, PacketsFollow, BlackoutFollows, SensingIsTimely
<1> QED
  BY <1>1, InitInv, NextInv, PTL DEF Spec

-----------------------------------------------------------------------------
(* The journal                                                             *)

HoldOf(record) == [start |-> record.start, end |-> record.end]

\* What the journal has announced, by program point.
AnnouncedFollows ==
  /\ Alive /\ at \in Unstaged \cup {"ARCHIVE_BEFORE_MOTION", "COMPLETED_HOLD_RECORDING"} =>
       AnnouncedHold = None
  /\ Alive /\ at \in Staged \ {"ARCHIVE_BEFORE_MOTION", "COMPLETED_HOLD_RECORDING"} =>
       AnnouncedHold = HoldOf(active_staged)

\* A hold is announced from the write of its admitted record to the
\* acknowledgement of its completion.
LEMMA AnnouncedWhen == Inv => AnnouncedFollows
<1> SUFFICES ASSUME Inv, Alive
             PROVE  /\ at \in Unstaged \cup {"ARCHIVE_BEFORE_MOTION", "COMPLETED_HOLD_RECORDING"} =>
                         AnnouncedHold = None
                    /\ at \in Staged \ {"ARCHIVE_BEFORE_MOTION", "COMPLETED_HOLD_RECORDING"} =>
                         AnnouncedHold = HoldOf(active_staged)
  BY DEF AnnouncedFollows
<1>0. Types /\ ClocksFollow /\ ArchiveFollows
  BY DEF Inv
<1>1. CASE at \in Unstaged
  BY <1>0, <1>1 DEF ClocksFollow, AnnouncedHold, Unstaged, Staged, Before, Moved, Observing,
                    Closing, Written
<1>2. CASE at \in Staged
  <2>1. /\ active_staged \in StagedHolds /\ active_staged # None
        /\ active_staged.start < active_staged.end
    BY <1>0, <1>2 DEF Types, ClocksFollow
  <2>2. /\ HoldOf(active_staged).end = active_staged.end
        /\ \A i \in 1..Len(archive) : archive[i] = Event("ADMITTED_BEFORE_MOTION", HoldOf(active_staged)) =>
             archive[i].kind = "ADMITTED_BEFORE_MOTION" /\ archive[i].end = active_staged.end
        /\ Event("ADMITTED_BEFORE_MOTION", HoldOf(active_staged)) =
             Event("ADMITTED_BEFORE_MOTION", active_staged)
    BY <2>1 DEF Event, HoldOf, StagedHolds
  <2>3. AnnouncedHold = IF Archived("ADMITTED_BEFORE_MOTION", HoldOf(active_staged))
                           /\ LedgerEnd # active_staged.end THEN HoldOf(active_staged) ELSE None
    BY <2>1, <2>2 DEF AnnouncedHold, HoldOf
  <2>4. CASE at = "ARCHIVE_BEFORE_MOTION"
    <3>1. truth_q = active_staged.start
      BY <1>0, <1>2, <2>4 DEF ClocksFollow, Before
    <3>2. \A i \in 1..Len(archive) :
            archive[i].kind = "ADMITTED_BEFORE_MOTION" => archive[i].end <= truth_q
      BY <1>0, <2>4 DEF ArchiveFollows
    <3>3. ~Archived("ADMITTED_BEFORE_MOTION", HoldOf(active_staged))
      BY <2>1, <2>2, <3>1, <3>2 DEF Archived, StagedHolds
    <3> QED
      BY <2>3, <2>4, <3>3
  <2>5. CASE at = "COMPLETED_HOLD_RECORDING"
    BY <1>0, <1>2, <2>3, <2>5 DEF ClocksFollow
  <2>6. CASE at \notin {"ARCHIVE_BEFORE_MOTION", "COMPLETED_HOLD_RECORDING"}
    <3>1. Archived("ADMITTED_BEFORE_MOTION", HoldOf(active_staged))
      BY <1>0, <1>2, <2>2, <2>6 DEF ArchiveFollows, Archived
    <3>2. LedgerEnd = active_staged.start
      BY <1>0, <1>2, <2>6 DEF ClocksFollow
    <3> QED
      BY <1>2, <2>1, <2>3, <2>6, <3>1, <3>2
      DEF StagedHolds, Unstaged, Staged, Before, Moved, Observing, Closing, Written
  <2> QED
    BY <2>4, <2>5, <2>6
<1>3. at \in Unstaged \/ at \in Staged
  BY <1>0 DEF Types
<1> QED
  BY <1>1, <1>2, <1>3 DEF Unstaged, Staged, Before, Moved, Observing, Closing, Written

LEMMA JournalInit == Init => Journal!Init
  BY DEF Init, Journal!Init, AnnouncedHold, LedgerEnd

LEMMA JournalStep == Inv /\ Inv' /\ [Next]_vars => [Journal!Next]_(Journal!journal)
<1> SUFFICES ASSUME Inv, Inv', [Next]_vars PROVE [Journal!Next]_(Journal!journal)
  OBVIOUS
<1> USE NoneAssumption
<1>0. Types /\ ClocksFollow /\ Types' /\ ClocksFollow' /\ (~Alive => at = "IDLE")
  BY DEF Inv, ClocksFollow
<1>a. /\ Alive /\ at \in Unstaged \cup {"ARCHIVE_BEFORE_MOTION", "COMPLETED_HOLD_RECORDING"} =>
           AnnouncedHold = None
      /\ Alive /\ at \in Staged \ {"ARCHIVE_BEFORE_MOTION", "COMPLETED_HOLD_RECORDING"} =>
           AnnouncedHold = HoldOf(active_staged)
  BY AnnouncedWhen DEF AnnouncedFollows
<1>b. /\ Alive' /\ at' \in Unstaged \cup {"ARCHIVE_BEFORE_MOTION", "COMPLETED_HOLD_RECORDING"} =>
           AnnouncedHold' = None
      /\ Alive' /\ at' \in Staged \ {"ARCHIVE_BEFORE_MOTION", "COMPLETED_HOLD_RECORDING"} =>
           AnnouncedHold' = HoldOf(active_staged')
  <2>1. AnnouncedFollows'
    BY AnnouncedWhen, PTL
  <2> QED
    BY <2>1 DEF AnnouncedFollows, HoldOf
<1>1. CASE WriteAdmitted
  <2>1. /\ at = "ARCHIVE_BEFORE_MOTION" /\ at' = "ADMITTED_WRITTEN" /\ truth_q' = truth_q
        /\ completed' = completed /\ active_staged' = active_staged
        /\ last_assumption_violation' = last_assumption_violation
    BY <1>1 DEF WriteAdmitted, Publish, clocks
  <2>2. Alive /\ Alive' /\ LedgerEnd' = LedgerEnd
    BY <1>0, <2>1, LedgerKept DEF Alive
  <2>3. /\ active_staged \in StagedHolds /\ LedgerEnd = active_staged.start
        /\ active_staged.start < active_staged.end
        /\ active_staged.end <= active_staged.start + MaxWidth
    BY <1>0, <2>1, <2>2 DEF Types, ClocksFollow, Staged, Before
  <2>4. AnnouncedHold = None /\ AnnouncedHold' = HoldOf(active_staged)
    BY <1>a, <1>b, <2>1, <2>2 DEF Staged, Before
  <2> DEFINE h == active_staged.end - active_staged.start
  <2>5. h \in 1..MaxWidth /\ LedgerEnd + h = active_staged.end
    BY <2>3, StepAssumption DEF StagedHolds
  <2>6. AnnouncedHold' = [start |-> LedgerEnd, end |-> LedgerEnd + h]
    BY <2>3, <2>4, <2>5 DEF HoldOf
  <2> HIDE DEF h
  <2> QED
    BY <2>1, <2>2, <2>4, <2>5, <2>6 DEF Journal!Next, Journal!Announce, Alive
<1>2. CASE CommitTruth
  <2>1. /\ at = "PHYSICAL_TRUTH_COMMIT" /\ at' = "SENSOR_GENERATION"
        /\ truth_q' = active_staged.end /\ completed' = completed /\ active_staged' = active_staged
        /\ last_assumption_violation' = last_assumption_violation
    BY <1>2 DEF CommitTruth, evidence
  <2>2. Alive /\ Alive' /\ LedgerEnd' = LedgerEnd
    BY <1>0, <2>1, LedgerKept DEF Alive
  <2>3. active_staged \in StagedHolds /\ truth_q = active_staged.start
    BY <1>0, <2>1, <2>2 DEF Types, ClocksFollow, Staged, Before
  <2>4. AnnouncedHold = HoldOf(active_staged) /\ AnnouncedHold' = HoldOf(active_staged)
    BY <1>a, <1>b, <2>1, <2>2 DEF Staged, Before, Moved
  <2>5. HoldOf(active_staged) # None
    BY <2>3 DEF HoldOf, Holds, StagedHolds
  <2>6. HoldOf(active_staged).start = active_staged.start
        /\ HoldOf(active_staged).end = active_staged.end
    BY DEF HoldOf
  <2> QED
    BY <2>1, <2>2, <2>3, <2>4, <2>5, <2>6 DEF Journal!Next, Journal!Move, Alive
<1>3. CASE AcknowledgeCompletion
  <2>1. /\ at = "COMPLETION_WRITTEN" /\ at' = "COMPLETED_HOLD_RECORDING" /\ truth_q' = truth_q
        /\ active_staged' = active_staged
        /\ last_assumption_violation' = last_assumption_violation
    BY <1>3 DEF AcknowledgeCompletion, clocks
  <2>2. Alive /\ Alive'
    BY <1>0, <2>1 DEF Alive
  <2>3. active_staged \in StagedHolds /\ truth_q = active_staged.end
        /\ LedgerEnd' = active_staged.end
    BY <1>0, <2>1, <2>2 DEF Types, ClocksFollow, Staged, Before, Closing, Written
  <2>4. AnnouncedHold = HoldOf(active_staged) /\ AnnouncedHold' = None
    BY <1>a, <1>b, <2>1, <2>2 DEF Staged, Closing, Written
  <2>5. HoldOf(active_staged) # None /\ HoldOf(active_staged).end = active_staged.end
    BY <2>3 DEF HoldOf, Holds, StagedHolds
  <2> QED
    BY <2>1, <2>2, <2>3, <2>4, <2>5 DEF Journal!Next, Journal!Close, Alive
<1>4. CASE Fail
  <2> DEFINE record == [kind |-> "ASSUMPTION_VIOLATION", end |-> truth_q,
                        start |-> IF active_staged = None THEN truth_q ELSE active_staged.start]
  <2>1. /\ at # "IDLE" /\ truth_q' = truth_q /\ completed' = completed
        /\ active_staged' = active_staged
        /\ archive' \in {archive, Append(archive, record)}
    BY <1>4 DEF Fail, clocks
  <2>2. Alive /\ LedgerEnd' = LedgerEnd
    BY <1>0, <2>1, LedgerKept
  <2>3. ~Alive'
    <3>1. last_assumption_violation' \in Violations
      BY <1>4, <1>0 DEF Fail, Types, Violations
    <3> QED
      BY <3>1 DEF Alive
  <2>4. record \in Records /\ record.kind = "ASSUMPTION_VIOLATION"
    BY <1>0 DEF Types, StagedHolds, Records, Kinds
  <2> HIDE DEF record
  <2>5. \A span : (\E i \in 1..Len(archive') : archive'[i] = Event("ADMITTED_BEFORE_MOTION", span))
                  <=> Archived("ADMITTED_BEFORE_MOTION", span)
    <3>1. CASE archive' = archive
      BY <3>1 DEF Archived
    <3>2. CASE archive' = Append(archive, record)
      <4>1. \A span : record # Event("ADMITTED_BEFORE_MOTION", span)
        BY <2>4 DEF Event
      <4> QED
        BY <1>0, <2>4, <3>2, <4>1, Grown DEF Archived
    <3> QED
      BY <2>1, <3>1, <3>2
  <2>6. AnnouncedHold' = AnnouncedHold
    BY <2>1, <2>2, <2>5 DEF AnnouncedHold, Archived
  <2> QED
    BY <2>1, <2>2, <2>3, <2>6 DEF Journal!Next, Journal!Halt, Alive
<1>5. ASSUME truth_q' = truth_q, completed' = completed,
             last_assumption_violation' = last_assumption_violation,
             AnnouncedHold' = AnnouncedHold
      PROVE  UNCHANGED Journal!journal
  BY <1>5, LedgerKept DEF Journal!journal
<1>6. CASE Alive /\ (Advance \/ Decide \/ Preflight \/ RecordHold)
  <2>1. /\ truth_q' = truth_q /\ completed' = completed
        /\ last_assumption_violation' = last_assumption_violation
        /\ at \in Unstaged \cup {"COMPLETED_HOLD_RECORDING"}
        /\ at' \in Unstaged \cup {"ARCHIVE_BEFORE_MOTION"}
    BY <1>6 DEF Advance, Decide, Preflight, RecordHold, clocks, evidence, Unstaged
  <2>2. AnnouncedHold = None /\ AnnouncedHold' = None
    BY <1>6, <1>a, <1>b, <2>1 DEF Alive
  <2> QED
    BY <1>5, <2>1, <2>2
<1>7. CASE Alive /\ (ProposeMotion \/ Sample \/ ConfirmSample \/ OfferPackets \/ ConsumePackets
                     \/ DeliverPackets \/ CommitRuntime \/ CommitControllerState)
  <2>1. /\ truth_q' = truth_q /\ completed' = completed /\ active_staged' = active_staged
        /\ last_assumption_violation' = last_assumption_violation
    BY <1>7 DEF ProposeMotion, Sample, ConfirmSample, OfferPackets, ConsumePackets, DeliverPackets,
                CommitRuntime, CommitControllerState, clocks, evidence
  <2>2. /\ at \in Staged \ {"ARCHIVE_BEFORE_MOTION", "COMPLETED_HOLD_RECORDING"}
        /\ at' \in Staged \ {"ARCHIVE_BEFORE_MOTION", "COMPLETED_HOLD_RECORDING"}
    BY <1>7 DEF ProposeMotion, Sample, ConfirmSample, OfferPackets, ConsumePackets, DeliverPackets,
                CommitRuntime, CommitControllerState, Staged, Before, Moved, Observing, Closing,
                Written
  <2>3. AnnouncedHold = HoldOf(active_staged) /\ AnnouncedHold' = HoldOf(active_staged)
    BY <1>7, <1>a, <1>b, <2>1, <2>2 DEF Alive
  <2> QED
    BY <1>5, <2>1, <2>3
<1>8. CASE Alive /\ WriteCompletion
  <2>1. /\ truth_q' = truth_q /\ completed' = completed /\ active_staged' = active_staged
        /\ last_assumption_violation' = last_assumption_violation
        /\ at = "ARCHIVE_COMPLETION" /\ at' = "COMPLETION_WRITTEN"
    BY <1>8 DEF WriteCompletion, Publish, clocks
  <2>2. AnnouncedHold = HoldOf(active_staged) /\ AnnouncedHold' = HoldOf(active_staged)
    BY <1>8, <1>a, <1>b, <2>1 DEF Alive, Staged, Closing, Written
  <2> QED
    BY <1>5, <2>1, <2>2
<1>9. CASE Return \/ RecoverNavigation \/ RecoveryRefused \/ InstallRuntime \/ UNCHANGED vars
  <2>1. /\ truth_q' = truth_q /\ completed' = completed /\ active_staged' = active_staged
        /\ archive' = archive /\ last_assumption_violation' = last_assumption_violation
    BY <1>9 DEF Return, RecoverNavigation, RecoveryRefused, InstallRuntime, vars, clocks, evidence
  <2>2. AnnouncedHold' = AnnouncedHold
    BY <2>1 DEF AnnouncedHold, Archived, LedgerEnd
  <2> QED
    BY <1>5, <2>1, <2>2
<1>10. CASE ~Alive
  <2>1. RecoverNavigation \/ RecoveryRefused \/ InstallRuntime \/ UNCHANGED vars
    BY <1>0, <1>10 DEF Alive, Next, Step, Advance, Decide, Preflight, WriteAdmitted, Publish,
       ProposeMotion, CommitTruth, Sample, ConfirmSample, OfferPackets, ConsumePackets,
       DeliverPackets, CommitRuntime, CommitControllerState, WriteCompletion,
       AcknowledgeCompletion, RecordHold, Return, Fail
  <2> QED
    BY <1>9, <2>1
<1> QED
  BY <1>1, <1>2, <1>3, <1>4, <1>6, <1>7, <1>8, <1>9, <1>10 DEF Next, Step

\* The safety part of ImplementsJournal: whatever fails, a hold is announced,
\* moved and closed in this order, and unclosed motion ends the mission.
THEOREM HoldsFollowTheJournal == Spec => Journal!Init /\ [][Journal!Next]_(Journal!journal)
  BY InitInv, NextInv, JournalInit, JournalStep, PTL DEF Spec


-----------------------------------------------------------------------------
(* The tracking of what was planned: the replay of the attitudes, and held   *)
(* feedback inside a certified set.                                          *)

LEMMA Least ==
  ASSUME NEW failing, failing \subseteq Nat, failing # {}
  PROVE  \E m \in failing : \A k \in failing : m <= k
  <1>1. \E m \in failing : \A k \in failing : ~(<<k, m>> \in OpToRel(<, Nat))
    <2>1. failing # {} /\ failing \subseteq Nat
      OBVIOUS
    <2>. QED
      BY ONLY <2>1, WFMin, NatLessThanWellFounded
  <1>2. PICK m \in failing : \A k \in failing : ~(k < m)
    BY <1>1 DEF OpToRel
  <1>. QED
    BY <1>2

Bounds(states, a, b) == states \subseteq Int /\ \A x \in states : a <= x /\ x <= b

\* A box, or a part of one, that is not empty.
Bounded(states) == states # {} /\ \E a \in Int, b \in Int : Bounds(states, a, b)

LEMMA LowestPlace ==
  ASSUME NEW S, Bounded(S)
  PROVE  \E m \in S : \A x \in S : m <= x
  <1>1. PICK a \in Int : S \subseteq Int /\ \A x \in S : a <= x
    BY DEF Bounded, Bounds
  <1>. DEFINE failing == {x - a : x \in S}
  <1>2. failing \subseteq Nat /\ failing # {}
    <2>1. \E x \in S : TRUE
      BY DEF Bounded
    <2>2. failing # {}
      BY <2>1
    <2>. QED
      BY <1>1, <2>2
  <1>3. PICK m \in failing : \A k \in failing : m <= k
    <2>. HIDE DEF failing
    <2>. QED
      BY <1>2, Least
  <1>4. PICK y \in S : m = y - a
    BY <1>3
  <1>5. ASSUME NEW x \in S PROVE y <= x
    <2>1. x - a \in failing /\ x \in Int /\ y \in Int
      BY <1>1, <1>4
    <2>2. y - a <= x - a
      BY <1>3, <1>4, <2>1
    <2>. QED
      BY <2>1, <2>2
  <1>. QED
    BY <1>4, <1>5

LEMMA HighestPlace ==
  ASSUME NEW S, Bounded(S)
  PROVE  \E m \in S : \A x \in S : x <= m
  <1>1. PICK b \in Int : S \subseteq Int /\ \A x \in S : x <= b
    BY DEF Bounded, Bounds
  <1>. DEFINE failing == {b - x : x \in S}
  <1>2. failing \subseteq Nat /\ failing # {}
    <2>1. \E x \in S : TRUE
      BY DEF Bounded
    <2>2. failing # {}
      BY <2>1
    <2>. QED
      BY <1>1, <2>2
  <1>3. PICK m \in failing : \A k \in failing : m <= k
    <2>. HIDE DEF failing
    <2>. QED
      BY <1>2, Least
  <1>4. PICK y \in S : m = b - y
    BY <1>3
  <1>5. ASSUME NEW x \in S PROVE x <= y
    <2>1. b - x \in failing /\ x \in Int /\ y \in Int
      BY <1>1, <1>4
    <2>2. b - y <= b - x
      BY <1>3, <1>4, <2>1
    <2>. QED
      BY <2>1, <2>2
  <1>. QED
    BY <1>4, <1>5

LEMMA IntProduct ==
  ASSUME NEW x \in Int, NEW y \in Int
  PROVE  x * y \in Int
  BY Z3

-----------------------------------------------------------------------------
(* The replay of the attitudes.                                             *)

ReplayOf(f, b, steps, debit, n) ==
  f = [i \in 0..n |->
         IF i = 0 THEN [q |-> 0, rate |-> 0, fuel |-> InstalledFuel - debit]
         ELSE [q |-> f[i - 1].q + steps[i].hold, rate |-> f[i - 1].rate + steps[i].hold * steps[i].torques[b],
               fuel |-> f[i - 1].fuel - A!FuelFlow(steps[i].torques[b]) * steps[i].hold]]

NextReplay(f, b, steps, i) ==
  [q |-> f[i - 1].q + steps[i].hold, rate |-> f[i - 1].rate + steps[i].hold * steps[i].torques[b],
   fuel |-> f[i - 1].fuel - A!FuelFlow(steps[i].torques[b]) * steps[i].hold]

\* One more hold extends a replay.
LEMMA ReplayGrows ==
  ASSUME NEW b, NEW steps, NEW debit, NEW m \in Nat \ {0}, NEW f, ReplayOf(f, b, steps, debit, m - 1)
  PROVE  ReplayOf([i \in 0..m |-> IF i < m THEN f[i] ELSE NextReplay(f, b, steps, m)], b, steps, debit, m)
  <1>. DEFINE g == [i \in 0..m |-> IF i < m THEN f[i] ELSE NextReplay(f, b, steps, m)]
  <1>1. ASSUME NEW i \in 0..m
        PROVE  g[i] = IF i = 0 THEN [q |-> 0, rate |-> 0, fuel |-> InstalledFuel - debit] ELSE NextReplay(g, b, steps, i)
    <2>1. CASE i = 0
      <3>1. 0 \in 0..m - 1 /\ 0 < m
        OBVIOUS
      <3>. QED
        BY <2>1, <3>1 DEF ReplayOf
    <2>2. CASE i # 0 /\ i < m
      <3>1. i \in 0..m - 1 /\ i - 1 \in 0..m /\ i - 1 < m
        BY <2>2
      <3>2. f[i] = NextReplay(f, b, steps, i)
        BY <2>2, <3>1 DEF ReplayOf, NextReplay
      <3>3. g[i] = f[i] /\ g[i - 1] = f[i - 1]
        BY <2>2, <3>1
      <3>. QED
        BY <2>2, <3>2, <3>3 DEF NextReplay
    <2>3. CASE i = m
      <3>1. m - 1 \in 0..m /\ m - 1 < m /\ m # 0 /\ ~(m < m)
        OBVIOUS
      <3>2. g[m] = NextReplay(f, b, steps, m) /\ g[m - 1] = f[m - 1]
        BY <3>1
      <3>. QED
        BY <2>3, <3>1, <3>2 DEF NextReplay
    <2>. QED
      BY <2>1, <2>2, <2>3
  <1>. HIDE DEF g
  <1>2. g = [i \in 0..m |-> g[i]]
    BY DEF g
  <1>3. ReplayOf(g, b, steps, debit, m)
    BY <1>1, <1>2 DEF ReplayOf, NextReplay
  <1>. QED
    BY <1>3 DEF g

LEMMA ReplaysExist ==
  ASSUME NEW b, NEW steps, NEW debit, NEW n \in Nat
  PROVE  \E f : ReplayOf(f, b, steps, debit, n)
  <1>. DEFINE failing == {m \in Nat : ~\E f : ReplayOf(f, b, steps, debit, m)}
  <1>. SUFFICES ASSUME failing # {} PROVE FALSE
    OBVIOUS
  <1>1. PICK m \in failing : \A k \in failing : m <= k
    BY Least
  <1>2. ReplayOf([i \in 0..0 |-> [q |-> 0, rate |-> 0, fuel |-> InstalledFuel - debit]], b, steps, debit, 0)
    BY DEF ReplayOf
  <1>3. m \in Nat \ {0}
    BY <1>1, <1>2
  <1>4. PICK f : ReplayOf(f, b, steps, debit, m - 1)
    BY <1>1, <1>3
  <1>. QED
    BY <1>1, <1>3, <1>4, ReplayGrows

\* A replay only depends on the steps it takes.
LEMMA ReplaysAgree ==
  ASSUME NEW b, NEW steps, NEW other, NEW debit, NEW n \in Nat, NEW k \in Nat, n <= k,
         \A i \in 1..n : steps[i] = other[i],
         NEW f, ReplayOf(f, b, steps, debit, n), NEW g, ReplayOf(g, b, other, debit, k)
  PROVE  f[n] = g[n]
  <1>. DEFINE failing == {m \in 0..n : f[m] # g[m]}
  <1>. SUFFICES ASSUME failing # {} PROVE FALSE
    OBVIOUS
  <1>1. PICK m \in failing : \A j \in failing : m <= j
    <2>1. failing \subseteq Nat
      OBVIOUS
    <2>. HIDE DEF failing
    <2>. QED
      BY <2>1, Least
  <1>2. m # 0
    <2>1. 0 \in 0..n /\ 0 \in 0..k
      OBVIOUS
    <2>2. f[0] = g[0]
      BY <2>1 DEF ReplayOf
    <2>. QED
      BY <1>1, <2>2
  <1>3. m \in 0..n /\ m \in 0..k /\ m \in 1..n /\ m - 1 \in 0..n
    BY <1>1, <1>2
  <1>4. f[m - 1] = g[m - 1]
    BY <1>1, <1>3
  <1>5. f[m] = NextReplay(f, b, steps, m) /\ g[m] = NextReplay(g, b, other, m)
    BY <1>2, <1>3 DEF ReplayOf, NextReplay
  <1>. QED
    BY <1>1, <1>3, <1>4, <1>5 DEF NextReplay

LEMMA ReplayedIs ==
  ASSUME NEW b, NEW steps, NEW debit, NEW n \in Nat, n = Len(steps)
  PROVE  \E f : ReplayOf(f, b, steps, debit, n) /\ A!Replayed(b, steps, debit) = f[n]
  <1>1. ReplayOf(CHOOSE f : ReplayOf(f, b, steps, debit, Len(steps)), b, steps, debit, Len(steps))
    BY ReplaysExist
  <1>2. A!Replayed(b, steps, debit) = (CHOOSE f : ReplayOf(f, b, steps, debit, Len(steps)))[Len(steps)]
    BY DEF A!Replayed, ReplayOf
  <1>. QED
    BY <1>1, <1>2

\* What a hold adds to a replay.
LEMMA ReplayedAppend ==
  ASSUME NEW R, NEW steps \in Seq(R), NEW step \in R, NEW b, NEW debit
  PROVE  LET before == A!Replayed(b, steps, debit)
         IN  A!Replayed(b, Append(steps, step), debit) =
               [q |-> before.q + step.hold, rate |-> before.rate + step.hold * step.torques[b],
                fuel |-> before.fuel - A!FuelFlow(step.torques[b]) * step.hold]
  <1>. PICK n \in Nat : n = Len(steps)
    OBVIOUS
  <1>. PICK longer : longer = Append(steps, step)
    OBVIOUS
  <1>1. Len(longer) = n + 1 /\ longer[n + 1] = step /\ \A i \in 1..n : steps[i] = longer[i]
    BY AppendProperties
  <1>2. PICK f : ReplayOf(f, b, steps, debit, n) /\ A!Replayed(b, steps, debit) = f[n]
    BY ONLY n \in Nat, n = Len(steps), ReplayedIs
  <1>3. PICK g : ReplayOf(g, b, longer, debit, n + 1) /\ A!Replayed(b, longer, debit) = g[n + 1]
    <2>1. n + 1 \in Nat /\ n + 1 = Len(longer)
      BY <1>1
    <2>. QED
      BY ONLY <2>1, ReplayedIs
  <1>4. f[n] = g[n]
    <2>1. n \in Nat /\ n + 1 \in Nat /\ n <= n + 1
      OBVIOUS
    <2>. QED
      BY ONLY <1>1, <1>2, <1>3, <2>1, ReplaysAgree
  <1>5. g[n + 1] = NextReplay(g, b, longer, n + 1)
    <2>1. n + 1 \in 0..n + 1 /\ n + 1 # 0
      OBVIOUS
    <2>. QED
      BY <1>3, <2>1 DEF ReplayOf, NextReplay
  <1>6. (n + 1) - 1 = n
    OBVIOUS
  <1>. QED
    BY <1>1, <1>2, <1>3, <1>4, <1>5, <1>6 DEF NextReplay

LEMMA ReplayedNone ==
  ASSUME NEW b, NEW debit
  PROVE  A!Replayed(b, <<>>, debit) = [q |-> 0, rate |-> 0, fuel |-> InstalledFuel - debit]
  <1>0. Len(<<>>) = 0
    OBVIOUS
  <1>1. PICK f : ReplayOf(f, b, <<>>, debit, 0) /\ A!Replayed(b, <<>>, debit) = f[0]
    BY <1>0, ReplayedIs
  <1>. QED
    BY <1>1 DEF ReplayOf

HeldSteps == [hold : Nat, torques : [Buses -> Int]]

\* A bus is where the commands it executed bring it.
ReplayFits(b) ==
  LET replayed == A!Replayed(b, flownHolds, tracking.debit)
  IN  /\ tracking.q = replayed.q
      /\ body[b].fuel = replayed.fuel /\ body[b].rate = replayed.rate
      /\ InstalledFuel - body[b].fuel <= MassChange

AttitudeInv ==
  /\ tracking \in [state : {"called", "raised", "tracking", "stopped", "returned"}, q : 0..A!EndTime,
                   debit : Nat, observed : [Buses -> Int], success : BOOLEAN]
  /\ body \in [Buses -> [angle : Int, rate : Int, fuel : Nat]]
  /\ flownHolds \in Seq(HeldSteps)
  /\ tracking.state = "called" =>
       flownHolds = <<>> /\ tracking.q = 0 /\ \A b \in Buses : body[b].rate = 0
  /\ tracking.state \in {"tracking", "stopped", "returned"} => \A b \in Buses : ReplayFits(b)
  /\ tracking.success =>
       tracking.state = "returned" /\ tracking.q = A!EndTime /\ \A b \in Buses : A!Passed(b)

LEMMA Declared ==
  /\ NodeTimes \in Seq(Nat) /\ Len(NodeTimes) \in Nat /\ Len(NodeTimes) >= 2 /\ NodeTimes[1] = 0
  /\ DOMAIN NodeTimes = 1..Len(NodeTimes) /\ A!EndTime \in Nat
  /\ \A i \in 1..Len(NodeTimes) : NodeTimes[i] \in Nat /\ NodeAngles[i] \in Int /\ NodeRates[i] \in Int
  /\ \A i \in 1..Len(NodeTimes) - 1 : NodeTimes[i] < NodeTimes[i + 1]
  /\ ControlPeriod \in Nat \ {0} /\ TorqueLimit \in Nat /\ InstalledFuel \in Nat /\ MassChange \in Nat
  /\ Stiffness \in Int /\ Damping \in Int
  /\ InitialAngles \subseteq Int /\ BusNoise \subseteq Int /\ TranslationDebits \subseteq Nat
  <1>1. A!AttitudeAssumption
    BY GuidanceInstances
  <1>. USE DEF A!AttitudeAssumption
  <1>2. NodeTimes \in Seq(Nat) /\ Len(NodeTimes) >= 2 /\ NodeTimes[1] = 0
    BY <1>1
  <1>3. DOMAIN NodeTimes = 1..Len(NodeTimes) /\ Len(NodeTimes) \in Nat
    BY <1>2
  <1>4. \A i \in 1..Len(NodeTimes) : NodeTimes[i] \in Nat
    BY <1>2
  <1>5. \A i \in 1..Len(NodeTimes) : NodeAngles[i] \in Int /\ NodeRates[i] \in Int
    BY <1>1, <1>3
  <1>6. A!EndTime \in Nat
    BY <1>2, <1>3, <1>4 DEF A!EndTime
  <1>. QED
    BY <1>1, <1>2, <1>3, <1>4, <1>5, <1>6

LEMMA GreatestIs ==
  ASSUME NEW S, S \subseteq Int, NEW m \in S, \A x \in S : x <= m
  PROVE  A!Max(S) \in S
  <1>1. \A x \in S : m >= x
    OBVIOUS
  <1>. QED
    BY <1>1 DEF A!Max

LEMMA LeastIs ==
  ASSUME NEW S, S \subseteq Int, NEW m \in S, \A x \in S : m <= x
  PROVE  A!Min(S) \in S
  BY DEF A!Min

LEMMA ClippedIs ==
  ASSUME NEW x \in Int, NEW limit \in Nat
  PROVE  A!Clip(x, limit) \in Int
  <1>1. A!Min({limit, x}) \in {limit, x}
    <2>1. (IF limit <= x THEN limit ELSE x) \in {limit, x}
          /\ \A y \in {limit, x} : (IF limit <= x THEN limit ELSE x) <= y
      OBVIOUS
    <2>. QED
      BY <2>1, LeastIs
  <1>. PICK y \in Int : y = A!Min({limit, x})
    BY <1>1
  <1>2. A!Max({-limit, y}) \in {-limit, y}
    <2>1. (IF -limit >= y THEN -limit ELSE y) \in {-limit, y}
          /\ \A z \in {-limit, y} : z <= (IF -limit >= y THEN -limit ELSE y)
      OBVIOUS
    <2>. QED
      BY <2>1, GreatestIs
  <1>. QED
    BY <1>2 DEF A!Clip

LEMMA IntQuotient ==
  ASSUME NEW x \in Int, NEW y \in Nat \ {0}
  PROVE  x \div y \in Int
  OBVIOUS

LEMMA SampledIs ==
  ASSUME NEW values, \A i \in 1..Len(NodeTimes) : values[i] \in Int, NEW since \in 0..A!EndTime
  PROVE  A!Sampled(values, since) \in Int
  <1>. DEFINE S == {k \in 1..Len(NodeTimes) - 1 : NodeTimes[k] <= since}
  <1>1. A!Max(S) \in S
    <2>1. S \subseteq Int
      OBVIOUS
    <2>2. 1 \in S
      BY Declared
    <2>3. \A x \in S : 1 <= x /\ x <= Len(NodeTimes)
      BY Declared
    <2>. HIDE DEF S
    <2>4. Bounds(S, 1, Len(NodeTimes))
      BY <2>1, <2>3 DEF Bounds
    <2>6. Bounded(S)
      BY <2>2, <2>4, Declared DEF Bounded
    <2>5. PICK m \in S : \A x \in S : x <= m
      BY <2>6, HighestPlace
    <2>. QED
      BY <2>1, <2>5, GreatestIs
  <1>i. PICK i \in 1..Len(NodeTimes) - 1 : i = A!Max({k \in 1..Len(NodeTimes) - 1 : NodeTimes[k] <= since})
    BY <1>1
  <1>. HIDE DEF S
  <1>2. /\ values[i] \in Int /\ values[i + 1] \in Int
        /\ NodeTimes[i] \in Nat /\ NodeTimes[i + 1] \in Nat /\ NodeTimes[i] < NodeTimes[i + 1]
    BY Declared
  <1>. PICK width \in Nat \ {0} : width = NodeTimes[i + 1] - NodeTimes[i]
    BY <1>2
  <1>. PICK rise \in Int : rise = values[i + 1] - values[i]
    BY <1>2
  <1>. PICK run \in Int : run = since - NodeTimes[i]
    BY <1>2, Declared
  <1>3. rise * run \in Int
    BY IntProduct
  <1>4. (rise * run) \div width \in Int
    BY <1>3, IntQuotient
  <1>5. A!Sampled(values, since) = values[i] + (rise * run) \div width
    <2>1. A!Sampled(values, since) =
            values[i] + ((values[i + 1] - values[i]) * (since - NodeTimes[i])) \div (NodeTimes[i + 1] - NodeTimes[i])
      BY <1>i, Zenon DEF A!Sampled
    <2>. QED
      BY ONLY <2>1, width = NodeTimes[i + 1] - NodeTimes[i], rise = values[i + 1] - values[i], run = since - NodeTimes[i], Zenon
  <1>. QED
    BY ONLY <1>2, <1>4, <1>5

LEMMA NextTimeIs ==
  ASSUME NEW since \in 0..A!EndTime, since < A!EndTime
  PROVE  A!NextTime(since) \in Nat /\ since < A!NextTime(since) /\ A!NextTime(since) <= A!EndTime
  <1>. DEFINE S == {t \in A!ControlTimes : t > since}
  <1>1. \A x \in S : x \in 0..A!EndTime /\ since < x
    BY DEF A!ControlTimes
  <1>2. A!EndTime \in S
    <2>1. A!EndTime \in A!Range(NodeTimes)
      BY Declared DEF A!EndTime, A!Range
    <2>. QED
      BY <2>1, Declared DEF A!ControlTimes
  <1>3. A!Min(S) \in S
    <2>. HIDE DEF S
    <2>1. S \subseteq Int
      BY <1>1
    <2>2. Bounds(S, 0, A!EndTime)
      BY <1>1, <2>1 DEF Bounds
    <2>4. Bounded(S)
      BY <1>2, <2>2, Declared DEF Bounded
    <2>3. PICK m \in S : \A x \in S : m <= x
      BY <2>4, LowestPlace
    <2>. QED
      BY <2>1, <2>3, LeastIs
  <1>. QED
    BY <1>1, <1>3, Declared DEF A!NextTime

LEMMA TakeDebitKeeps ==
  ASSUME AttitudeInv, A!TakeDebit
  PROVE  AttitudeInv'
  <1>1. PICK debit \in TranslationDebits :
          IF debit > InstalledFuel \/ debit > MassChange
          THEN tracking' = [tracking EXCEPT !.state = "raised"] /\ UNCHANGED body
          ELSE /\ tracking' = [tracking EXCEPT !.state = "tracking", !.debit = debit]
               /\ body' = [b \in Buses |-> [body[b] EXCEPT !.fuel = InstalledFuel - debit]]
    BY DEF A!TakeDebit
  <1>2. /\ flownHolds = <<>> /\ flownHolds' = <<>> /\ tracking.q = 0 /\ ~tracking.success
        /\ \A b \in Buses : body[b].rate = 0
    BY DEF A!TakeDebit, AttitudeInv
  <1>3. /\ tracking \in [state : {"called", "raised", "tracking", "stopped", "returned"}, q : 0..A!EndTime,
                         debit : Nat, observed : [Buses -> Int], success : BOOLEAN]
        /\ body \in [Buses -> [angle : Int, rate : Int, fuel : Nat]]
        /\ flownHolds' \in Seq(HeldSteps)
    BY <1>2 DEF AttitudeInv
  <1>4. CASE debit > InstalledFuel \/ debit > MassChange
    <2>1. tracking' = [tracking EXCEPT !.state = "raised"] /\ body' = body
      BY <1>1, <1>4
    <2>. QED
      BY <1>2, <1>3, <2>1 DEF AttitudeInv
  <1>5. CASE ~(debit > InstalledFuel \/ debit > MassChange)
    <2>1. /\ tracking' = [tracking EXCEPT !.state = "tracking", !.debit = debit]
          /\ body' = [b \in Buses |-> [body[b] EXCEPT !.fuel = InstalledFuel - debit]]
      BY <1>1, <1>5
    <2>2. debit \in Nat /\ InstalledFuel - debit \in Nat /\ debit <= MassChange
      BY <1>5, Declared
    <2>3. /\ tracking' \in [state : {"called", "raised", "tracking", "stopped", "returned"}, q : 0..A!EndTime,
                            debit : Nat, observed : [Buses -> Int], success : BOOLEAN]
          /\ tracking'.state = "tracking" /\ tracking'.q = 0 /\ tracking'.debit = debit /\ ~tracking'.success
      BY <1>2, <1>3, <2>1, <2>2
    <2>4. ASSUME NEW b \in Buses
          PROVE  /\ body'[b] \in [angle : Int, rate : Int, fuel : Nat]
                 /\ body'[b].rate = 0 /\ body'[b].fuel = InstalledFuel - debit
      <3>1. body[b] \in [angle : Int, rate : Int, fuel : Nat] /\ body[b].rate = 0
        BY <1>2, <1>3
      <3>2. body'[b] = [body[b] EXCEPT !.fuel = InstalledFuel - debit]
        BY <2>1
      <3>. QED
        BY <2>2, <3>1, <3>2
    <2>5. body' \in [Buses -> [angle : Int, rate : Int, fuel : Nat]]
      <3>1. body' = [b \in Buses |-> body'[b]]
        BY <2>1
      <3>. QED
        BY <2>4, <3>1
    <2>6. ASSUME NEW b \in Buses PROVE ReplayFits(b)'
      <3>1. A!Replayed(b, <<>>, debit) = [q |-> 0, rate |-> 0, fuel |-> InstalledFuel - debit]
        BY ReplayedNone
      <3>2. InstalledFuel - (InstalledFuel - debit) <= MassChange
        BY <2>2, Declared
      <3>. QED
        BY <1>2, <2>3, <2>4, <3>1, <3>2 DEF ReplayFits
    <2>. QED
      BY <1>3, <2>3, <2>5, <2>6 DEF AttitudeInv
  <1>. QED
    BY <1>4, <1>5

LEMMA AllocatedIs ==
  ASSUME NEW bus \in [angle : Int, rate : Int, fuel : Nat], NEW seen \in Int, NEW since \in 0..A!EndTime
  PROVE  A!Allocated(A!Feedback([bus EXCEPT !.angle = seen], since)) \in Int
  <1>1. A!TargetAngle(since) \in Int /\ A!TargetRate(since) \in Int
    BY Declared, SampledIs DEF A!TargetAngle, A!TargetRate
  <1>2. [bus EXCEPT !.angle = seen].angle = seen /\ [bus EXCEPT !.angle = seen].rate = bus.rate
    OBVIOUS
  <1>. PICK x \in Int : x = seen - A!TargetAngle(since)
    BY <1>1
  <1>. PICK y \in Int : y = bus.rate - A!TargetRate(since)
    BY <1>1
  <1>3. Stiffness * x \in Int /\ Damping * y \in Int
    BY Declared, IntProduct
  <1>. PICK p \in Int : p = -(Stiffness * x)
    BY <1>3
  <1>. PICK d \in Int : d = Damping * y
    BY <1>3
  <1>4. p \div 2 \in Int
    <2>1. PICK half \in Nat \ {0} : half = 2
      OBVIOUS
    <2>2. p \div half \in Int
      BY ONLY p \in Int, half \in Nat \ {0}, IntQuotient
    <2>. QED
      BY ONLY <2>1, <2>2, Zenon
  <1>5. p \div 2 - d \in Int
    BY ONLY <1>4, d \in Int
  <1>6. A!Feedback([bus EXCEPT !.angle = seen], since) = p \div 2 - d
    <2>1. A!Feedback([bus EXCEPT !.angle = seen], since) = (-(Stiffness * x)) \div 2 - Damping * y
      BY <1>2, Zenon DEF A!Feedback
    <2>. QED
      BY ONLY <2>1, p = -(Stiffness * x), d = Damping * y, Zenon
  <1>. QED
    BY <1>5, <1>6, Declared, ClippedIs DEF A!Allocated

\* What a hold makes of a bus that can pay for it.
LEMMA PaidHold ==
  ASSUME NEW bus \in [angle : Int, rate : Int, fuel : Nat], NEW torque \in Int, NEW width \in Nat,
         A!FuelFlow(torque) * width <= bus.fuel
  PROVE  LET later == [A!Rotated(bus, torque, width)
                         EXCEPT !.fuel = A!Max({0, @ - A!FuelFlow(torque) * width})]
         IN  /\ later \in [angle : Int, rate : Int, fuel : Nat]
             /\ later.rate = bus.rate + width * torque
             /\ later.fuel = bus.fuel - A!FuelFlow(torque) * width
             /\ A!FuelFlow(torque) * width \in Nat
  <1>1. A!FuelFlow(torque) \in Nat
    BY DEF A!FuelFlow, A!Magnitude1
  <1>. PICK used \in Nat : used = A!FuelFlow(torque) * width
    <2>1. \A x, y \in Nat : x * y \in Nat
      BY Z3
    <2>. QED
      BY <1>1, <2>1
  <1>. PICK angle \in Int : angle = bus.angle + 2 * width * bus.rate + width * width * torque
    <2>1. \A x, y \in Int : x * y \in Int
      BY Z3
    <2>2. bus.angle \in Int /\ bus.rate \in Int /\ width \in Int /\ width * width \in Int /\ 2 * width \in Int
      BY <2>1
    <2>3. (2 * width) * bus.rate \in Int /\ (width * width) * torque \in Int
      BY <2>1, <2>2
    <2>. QED
      BY <2>2, <2>3
  <1>. PICK rate \in Int : rate = bus.rate + width * torque
    <2>1. width * torque \in Int
      BY IntProduct
    <2>. QED
      BY <2>1
  <1>2. A!Rotated(bus, torque, width) = [angle |-> angle, rate |-> rate, fuel |-> bus.fuel]
    <2>1. bus = [angle |-> bus.angle, rate |-> bus.rate, fuel |-> bus.fuel]
      OBVIOUS
    <2>2. A!Rotated(bus, torque, width) = [bus EXCEPT !.angle = angle, !.rate = rate]
      BY DEF A!Rotated
    <2>. QED
      BY <2>1, <2>2
  <1>3. A!Max({0, bus.fuel - used}) = bus.fuel - used
    <2>1. bus.fuel - used \in Nat
      OBVIOUS
    <2>. PICK z \in Nat : z = bus.fuel - used
      BY <2>1
    <2>2. z \in {0, z} /\ \A y \in {0, z} : z >= y
      OBVIOUS
    <2>3. \A x \in {0, z} : (\A y \in {0, z} : x >= y) => x = z
      OBVIOUS
    <2>4. A!Max({0, z}) = z
      BY <2>2, <2>3 DEF A!Max
    <2>. QED
      BY <2>4
  <1>4. [A!Rotated(bus, torque, width) EXCEPT !.fuel = A!Max({0, @ - A!FuelFlow(torque) * width})]
          = [angle |-> angle, rate |-> rate, fuel |-> bus.fuel - used]
    BY <1>2, <1>3
  <1>. QED
    BY <1>4

\* A hold is executed by all buses, each of which can pay for it, or by none.
LEMMA HoldTorquesKeeps ==
  ASSUME AttitudeInv, A!HoldTorques
  PROVE  AttitudeInv'
  <1>1. PICK noise \in [Buses -> BusNoise] :
          LET since == tracking.q
              wide == A!NextTime(since) - since
              observed == [b \in Buses |-> body[b].angle + noise[b]]
              torques == [b \in Buses |-> A!Allocated(A!Feedback([body[b] EXCEPT !.angle = observed[b]], since))]
              movers == A!Movers(torques, wide)
          IN  /\ body' = [b \in Buses |->
                            IF b \in movers
                            THEN [A!Rotated(body[b], torques[b], wide)
                                    EXCEPT !.fuel = A!Max({0, @ - A!FuelFlow(torques[b]) * wide})]
                            ELSE body[b]]
              /\ IF movers = Buses
                 THEN /\ tracking' = [tracking EXCEPT !.q = since + wide, !.observed = observed]
                      /\ flownHolds' = Append(flownHolds, [hold |-> wide, torques |-> torques])
                 ELSE tracking' = [tracking EXCEPT !.state = "stopped"] /\ UNCHANGED flownHolds
    BY DEF A!HoldTorques
  <1>2. /\ tracking \in [state : {"called", "raised", "tracking", "stopped", "returned"}, q : 0..A!EndTime,
                         debit : Nat, observed : [Buses -> Int], success : BOOLEAN]
        /\ body \in [Buses -> [angle : Int, rate : Int, fuel : Nat]]
        /\ flownHolds \in Seq(HeldSteps)
        /\ tracking.state = "tracking" /\ tracking.q < A!EndTime /\ ~tracking.success
        /\ \A b \in Buses : ReplayFits(b)
    BY DEF AttitudeInv, A!HoldTorques
  <1>since. PICK since \in 0..A!EndTime : since = tracking.q
    BY <1>2
  <1>n. PICK next \in Nat : next = A!NextTime(since) /\ since < next /\ next <= A!EndTime
    <2>1. since < A!EndTime
      BY <1>2, <1>since
    <2>. QED
      BY ONLY <2>1, since \in 0..A!EndTime, NextTimeIs
  <1>w. PICK wide \in Nat : wide = A!NextTime(since) - since
    BY <1>n
  <1>3. since + wide \in 0..A!EndTime
    <2>1. A!EndTime \in Nat
      BY Declared
    <2>. QED
      BY ONLY <2>1, <1>n, <1>w, since \in 0..A!EndTime, next \in Nat, wide \in Nat
  <1>o. PICK observed : observed = [b \in Buses |-> body[b].angle + noise[b]]
    OBVIOUS
  <1>4. observed \in [Buses -> Int]
    <2>1. ASSUME NEW b \in Buses PROVE body[b].angle + noise[b] \in Int
      <3>1. body[b].angle \in Int
        BY <1>2
      <3>2. noise[b] \in Int
        BY Declared
      <3>. QED
        BY <3>1, <3>2
    <2>. QED
      BY <1>o, <2>1
  <1>t. PICK torques : torques = [b \in Buses |-> A!Allocated(A!Feedback([body[b] EXCEPT !.angle = observed[b]], since))]
    OBVIOUS
  <1>5. torques \in [Buses -> Int]
    BY <1>2, <1>4, <1>t, AllocatedIs
  <1>m. PICK movers : movers = A!Movers(torques, wide)
    OBVIOUS
  <1>6. /\ body' = [b \in Buses |->
                      IF b \in movers
                      THEN [A!Rotated(body[b], torques[b], wide)
                              EXCEPT !.fuel = A!Max({0, @ - A!FuelFlow(torques[b]) * wide})]
                      ELSE body[b]]
        /\ IF movers = Buses
           THEN /\ tracking' = [tracking EXCEPT !.q = since + wide, !.observed = observed]
                /\ flownHolds' = Append(flownHolds, [hold |-> wide, torques |-> torques])
           ELSE tracking' = [tracking EXCEPT !.state = "stopped"] /\ UNCHANGED flownHolds
    BY <1>1, <1>since, <1>w, <1>o, <1>t, <1>m, Zenon
  <1>7. CASE movers # Buses
    <2>1. movers = {}
      BY <1>7, <1>m DEF A!Movers
    <2>2. body' = body
      <3>1. body' = [b \in Buses |-> body[b]]
        BY <1>6, <2>1
      <3>. QED
        BY <1>2, <3>1
    <2>3. tracking' = [tracking EXCEPT !.state = "stopped"] /\ flownHolds' = flownHolds
      BY <1>6, <1>7
    <2>4. /\ tracking' \in [state : {"called", "raised", "tracking", "stopped", "returned"}, q : 0..A!EndTime,
                            debit : Nat, observed : [Buses -> Int], success : BOOLEAN]
          /\ tracking'.state = "stopped" /\ ~tracking'.success
          /\ tracking'.q = tracking.q /\ tracking'.debit = tracking.debit
      BY <1>2, <2>3
    <2>5. \A b \in Buses : ReplayFits(b)'
      BY <1>2, <2>2, <2>3, <2>4 DEF ReplayFits
    <2>. QED
      BY <1>2, <2>2, <2>3, <2>4, <2>5 DEF AttitudeInv
  <1>8. CASE movers = Buses
    <2>1. /\ tracking' = [tracking EXCEPT !.q = since + wide, !.observed = observed]
          /\ flownHolds' = Append(flownHolds, [hold |-> wide, torques |-> torques])
      BY <1>6, <1>8
    <2>2. /\ tracking' \in [state : {"called", "raised", "tracking", "stopped", "returned"}, q : 0..A!EndTime,
                            debit : Nat, observed : [Buses -> Int], success : BOOLEAN]
          /\ tracking'.state = "tracking" /\ ~tracking'.success
          /\ tracking'.q = since + wide /\ tracking'.debit = tracking.debit
      BY <1>2, <1>3, <1>4, <2>1
    <2>s. PICK step : step = [hold |-> wide, torques |-> torques]
      OBVIOUS
    <2>3. step \in HeldSteps /\ step.hold = wide /\ step.torques = torques
      BY <2>s, <1>5 DEF HeldSteps
    <2>4. flownHolds' = Append(flownHolds, step) /\ flownHolds' \in Seq(HeldSteps)
      BY <1>2, <2>1, <2>s, <2>3
    <2>5. ASSUME NEW b \in Buses
          PROVE  body'[b] \in [angle : Int, rate : Int, fuel : Nat] /\ ReplayFits(b)'
      <3>. PICK torque \in Int : torque = torques[b]
        BY <1>5
      <3>1. ~A!Unexecutable(b, torques[b], wide)
        <4>1. CASE \E c \in Buses : A!Unexecutable(c, torques[c], wide)
          <5>1. movers = {}
            BY <1>m, <4>1 DEF A!Movers
          <5>. QED
            BY <1>8, <5>1
        <4>. QED
          BY <4>1
      <3>2. body[b] \in [angle : Int, rate : Int, fuel : Nat]
        BY <1>2
      <3>. PICK used : used = A!FuelFlow(torque) * wide
        OBVIOUS
      <3>3. ~(used > body[b].fuel) /\ ~(InstalledFuel - body[b].fuel + used > MassChange)
        BY <3>1 DEF A!Unexecutable
      <3>4. used \in Nat
        <4>1. A!FuelFlow(torque) \in Nat
          BY DEF A!FuelFlow, A!Magnitude1
        <4>2. \A x, y \in Nat : x * y \in Nat
          BY Z3
        <4>. QED
          BY <4>1, <4>2
      <3>l. PICK later : later = [A!Rotated(body[b], torque, wide)
                                    EXCEPT !.fuel = A!Max({0, @ - A!FuelFlow(torque) * wide})]
        OBVIOUS
      <3>5. /\ later \in [angle : Int, rate : Int, fuel : Nat]
            /\ later.rate = body[b].rate + wide * torque
            /\ later.fuel = body[b].fuel - used
        <4>1. A!FuelFlow(torque) * wide <= body[b].fuel
          BY <3>2, <3>3, <3>4
        <4>. QED
          BY <3>2, <4>1, <3>l, PaidHold, Zenon
      <3>6. body'[b] = later
        BY <1>6, <1>8, <3>l
      <3>7. LET before == A!Replayed(b, flownHolds, tracking.debit)
            IN  A!Replayed(b, flownHolds', tracking'.debit) =
                  [q |-> before.q + wide, rate |-> before.rate + wide * torque, fuel |-> before.fuel - used]
        <4>1. LET before == A!Replayed(b, flownHolds, tracking.debit)
              IN  A!Replayed(b, Append(flownHolds, step), tracking.debit) =
                    [q |-> before.q + step.hold, rate |-> before.rate + step.hold * step.torques[b],
                     fuel |-> before.fuel - A!FuelFlow(step.torques[b]) * step.hold]
          <5>1. flownHolds \in Seq(HeldSteps) /\ step \in HeldSteps
            BY <1>2, <2>3
          <5>. QED
            BY ONLY <5>1, ReplayedAppend, Zenon
        <4>. QED
          BY <2>2, <2>3, <2>4, <4>1, Zenon
      <3>8. InstalledFuel - later.fuel <= MassChange
        <4>1. body[b].fuel \in Nat /\ InstalledFuel \in Nat /\ MassChange \in Nat
          BY <3>2, Declared
        <4>. QED
          BY ONLY <4>1, <3>3, <3>4, <3>5
      <3>9. ReplayFits(b)
        BY <1>2
      <3>. PICK before : before = A!Replayed(b, flownHolds, tracking.debit)
        OBVIOUS
      <3>10. since = before.q /\ body[b].fuel = before.fuel /\ body[b].rate = before.rate
        BY <1>since, <3>9, Zenon DEF ReplayFits
      <3>11. A!Replayed(b, flownHolds', tracking'.debit) =
               [q |-> before.q + wide, rate |-> before.rate + wide * torque, fuel |-> before.fuel - used]
        BY <3>7, Zenon
      <3>12. tracking'.q = since + wide
        BY <2>2
      <3>. QED
        BY <3>5, <3>6, <3>8, <3>10, <3>11, <3>12 DEF ReplayFits
    <2>6. body' \in [Buses -> [angle : Int, rate : Int, fuel : Nat]]
      <3>1. body' = [b \in Buses |-> body'[b]]
        BY <1>6
      <3>. QED
        BY <2>5, <3>1
    <2>. QED
      BY <2>2, <2>4, <2>5, <2>6 DEF AttitudeInv
  <1>. QED
    BY <1>7, <1>8

LEMMA ReturnAttitudesKeeps ==
  ASSUME AttitudeInv, A!ReturnAttitudes
  PROVE  AttitudeInv'
  <1>1. /\ tracking \in [state : {"called", "raised", "tracking", "stopped", "returned"}, q : 0..A!EndTime,
                         debit : Nat, observed : [Buses -> Int], success : BOOLEAN]
        /\ tracking.state \in {"tracking", "stopped"}
        /\ \A b \in Buses : ReplayFits(b)
        /\ body' = body /\ flownHolds' = flownHolds
    BY DEF AttitudeInv, A!ReturnAttitudes
  <1>2. PICK good \in BOOLEAN : good = (tracking.q = A!EndTime /\ \A b \in Buses : A!Passed(b))
    OBVIOUS
  <1>3. tracking' = [tracking EXCEPT !.state = "returned", !.success = good]
    BY <1>2, Zenon DEF A!ReturnAttitudes
  <1>4. /\ tracking' \in [state : {"called", "raised", "tracking", "stopped", "returned"}, q : 0..A!EndTime,
                          debit : Nat, observed : [Buses -> Int], success : BOOLEAN]
        /\ tracking'.state = "returned" /\ tracking'.success = good
        /\ tracking'.q = tracking.q /\ tracking'.debit = tracking.debit
    BY <1>1, <1>3
  <1>5. \A b \in Buses : ReplayFits(b)'
    BY <1>1, <1>4 DEF ReplayFits
  <1>6. \A b \in Buses : A!Passed(b) <=> A!Passed(b)'
    BY <1>1, <1>4 DEF A!Passed, A!AngleError, A!RateError, A!TargetAngle, A!TargetRate, A!Sampled
  <1>. QED
    BY <1>1, <1>2, <1>4, <1>5, <1>6 DEF AttitudeInv

LEMMA ObservationRefusedKeeps ==
  ASSUME AttitudeInv, A!ObservationRefused
  PROVE  AttitudeInv'
  <1>1. /\ tracking' = [tracking EXCEPT !.state = "raised"] /\ body' = body /\ flownHolds' = flownHolds
        /\ tracking.state = "tracking" /\ ~tracking.success
    BY DEF A!ObservationRefused, AttitudeInv
  <1>2. /\ tracking' \in [state : {"called", "raised", "tracking", "stopped", "returned"}, q : 0..A!EndTime,
                          debit : Nat, observed : [Buses -> Int], success : BOOLEAN]
        /\ tracking'.state = "raised" /\ ~tracking'.success
    BY <1>1 DEF AttitudeInv
  <1>. QED
    BY <1>1, <1>2 DEF AttitudeInv

LEMMA AttitudeKept ==
  ASSUME AttitudeInv, [A!AttitudeNext]_attitude
  PROVE  AttitudeInv'
  <1>1. CASE A!AttitudeNext
    BY <1>1, TakeDebitKeeps, HoldTorquesKeeps, ObservationRefusedKeeps, ReturnAttitudesKeeps DEF A!AttitudeNext
  <1>2. CASE UNCHANGED attitude
    BY <1>2 DEF attitude, AttitudeInv, ReplayFits, A!Passed, A!AngleError, A!RateError, A!TargetAngle, A!TargetRate,
                A!Sampled
  <1>. QED
    BY <1>1, <1>2

\* A replay of the attitudes that has ended or given up has every bus where its own
\* recorded torques brought it, with the fuel they left it and a mass that the
\* constant inertia stands for; and a success is true of the buses themselves at
\* the end of the record, whatever the feedback saw of them.  For every record,
\* gain, noise and tank.
THEOREM AttitudesWereFlown == GuidanceSpec => []AttitudesAreFlown
  <1> DEFINE I == part = "attitude" => AttitudeInv
  <1>1. GuidanceInit => I
    <2>. SUFFICES ASSUME GuidanceInit, part = "attitude" PROVE AttitudeInv
      OBVIOUS
    <2>1. A!AttitudeInit
      BY DEF GuidanceInit
    <2>2. /\ body \in [Buses -> [angle : InitialAngles, rate : {0}, fuel : {InstalledFuel}]]
          /\ flownHolds = <<>>
          /\ tracking = [state |-> "called", q |-> 0, debit |-> 0, observed |-> [b \in Buses |-> 0], success |-> FALSE]
      BY <2>1 DEF A!AttitudeInit
    <2>3. 0 \in 0..A!EndTime
      BY Declared
    <2>4. /\ tracking \in [state : {"called", "raised", "tracking", "stopped", "returned"}, q : 0..A!EndTime,
                           debit : Nat, observed : [Buses -> Int], success : BOOLEAN]
          /\ tracking.state = "called" /\ tracking.q = 0 /\ ~tracking.success
      BY <2>2, <2>3
    <2>5. /\ body \in [Buses -> [angle : Int, rate : Int, fuel : Nat]]
          /\ \A b \in Buses : body[b].rate = 0
      <3>1. InitialAngles \subseteq Int /\ InstalledFuel \in Nat
        BY Declared
      <3>2. ASSUME NEW b \in Buses PROVE body[b] \in [angle : Int, rate : Int, fuel : Nat] /\ body[b].rate = 0
        <4>1. body[b] \in [angle : InitialAngles, rate : {0}, fuel : {InstalledFuel}]
          BY <2>2
        <4>2. PICK c : c = body[b]
          OBVIOUS
        <4>3. c \in [angle : InitialAngles, rate : {0}, fuel : {InstalledFuel}]
          BY <4>1, <4>2
        <4>4. c \in [angle : Int, rate : Int, fuel : Nat] /\ c.rate = 0
          <5>1. c = [angle |-> c.angle, rate |-> c.rate, fuel |-> c.fuel] /\ c.angle \in InitialAngles
                /\ c.rate = 0 /\ c.fuel = InstalledFuel
            BY ONLY <4>3
          <5>2. c.angle \in Int /\ c.rate \in Int /\ c.fuel \in Nat
            BY <3>1, <5>1
          <5>. QED
            BY ONLY <5>1, <5>2
        <4>. QED
          BY <4>2, <4>4
      <3>3. body = [b \in Buses |-> body[b]]
        BY <2>2
      <3>. QED
        BY <3>2, <3>3
    <2>. QED
      BY <2>2, <2>4, <2>5 DEF AttitudeInv
  <1>2. I /\ [GuidanceNext]_<<part, holds, orbital, sampled, continuation, geometry, deployment, attitude>> => I'
    <2>. SUFFICES ASSUME I, [GuidanceNext]_<<part, holds, orbital, sampled, continuation, geometry, deployment, attitude>>,
                         part' = "attitude"
                  PROVE  AttitudeInv'
      OBVIOUS
    <2>1. part = "attitude" /\ [A!AttitudeNext]_attitude
      BY DEF GuidanceNext, ProveHolds, ProveOrbitalHolds, TrackSamples, ContinueOnBackup, SeparateBodies,
             Deploy, TrackAttitudes
    <2>. QED
      BY <2>1, AttitudeKept
  <1>3. I => AttitudesAreFlown
    <2>. SUFFICES ASSUME I, part = "attitude", tracking.state \in {"stopped", "returned"}
                  PROVE  A!AttitudesAreFlown
      BY DEF AttitudesAreFlown, A!AttitudesAreFlown
    <2>1. AttitudeInv
      OBVIOUS
    <2>2. \A b \in Buses : ReplayFits(b) /\ body[b].fuel \in Nat
      BY <2>1 DEF AttitudeInv
    <2>3. tracking.success => tracking.q = A!EndTime /\ \A b \in Buses : A!Passed(b)
      BY <2>1 DEF AttitudeInv
    <2>. QED
      BY <2>2, <2>3 DEF A!AttitudesAreFlown, ReplayFits, A!Passed
  <1>. QED
    BY <1>1, <1>2, <1>3, PTL DEF GuidanceSpec

-----------------------------------------------------------------------------
(* Held feedback inside a certified set.                                     *)

Within(x, m) == -m <= x /\ x <= m

LEMMA ProductIs == \A x, y \in Int : x * y \in Int
  BY Z3

LEMMA NatProductIs == \A x, y \in Nat : x * y \in Nat
  BY Z3

LEMMA WithinTimes ==
  ASSUME NEW k \in Nat, NEW x \in Int, NEW m \in Int, Within(x, m)
  PROVE  Within(k * x, k * m)
  <1>1. k * (m - x) \in Nat /\ k * (m + x) \in Nat
    <2>1. m - x \in Nat /\ m + x \in Nat
      BY DEF Within
    <2>. QED
      BY <2>1, NatProductIs
  <1>2. k * (m - x) = k * m - k * x /\ k * (m + x) = k * m + k * x
    OBVIOUS
  <1>3. k * m \in Int /\ k * x \in Int
    BY ProductIs
  <1>. PICK y \in Int : y = k * x
    BY <1>3
  <1>. PICK z \in Int : z = k * m
    BY <1>3
  <1>. QED
    BY <1>1, <1>2 DEF Within

LEMMA WithinUntimes ==
  ASSUME NEW k \in Nat \ {0}, NEW x \in Int, NEW m \in Int, Within(k * x, k * m)
  PROVE  Within(x, m)
  <1>1. ASSUME NEW y \in Nat PROVE k * (y + 1) > 0
    <2>1. k * (y + 1) = k * y + k
      OBVIOUS
    <2>2. k * y \in Nat
      BY NatProductIs
    <2>. QED
      BY <2>1, <2>2
  <1>2. CASE x > m
    <2>1. PICK y \in Nat : x = m + (y + 1)
      <3>1. x - m - 1 \in Nat /\ x = m + (x - m - 1 + 1)
        BY <1>2
      <3>. QED
        BY <3>1
    <2>2. k * (m + (y + 1)) = k * m + k * (y + 1)
      OBVIOUS
    <2>3. k * m \in Int /\ k * (y + 1) \in Int
      BY ProductIs
    <2>. QED
      BY <1>1, <2>1, <2>2, <2>3 DEF Within
  <1>3. CASE x < -m
    <2>1. PICK y \in Nat : x = -m - (y + 1)
      <3>1. -m - x - 1 \in Nat /\ x = -m - (-m - x - 1 + 1)
        BY <1>3
      <3>. QED
        BY <3>1
    <2>2. k * (-m - (y + 1)) = -(k * m) - k * (y + 1)
      OBVIOUS
    <2>3. k * m \in Int /\ k * (y + 1) \in Int
      BY ProductIs
    <2>. QED
      BY <1>1, <2>1, <2>2, <2>3 DEF Within
  <1>. QED
    BY <1>2, <1>3 DEF Within

LEMMA PositionStays ==
  ASSUME NEW lam \in Nat \ {0}, NEW phi \in Nat, NEW om \in Nat, lam * phi <= om,
         NEW p \in Int, NEW v \in Int, Within(p, om), Within(lam * v + p, lam * phi)
  PROVE  Within(p + v, om)
  <1>. PICK a \in Nat : a = lam - 1
    OBVIOUS
  <1>1. Within(a * p, a * om)
    <2>1. om \in Int
      OBVIOUS
    <2>. QED
      BY <2>1, WithinTimes, Zenon
  <1>2. lam * (p + v) = a * p + (lam * v + p)
    OBVIOUS
  <1>3. lam * om = a * om + om
    OBVIOUS
  <1>4. a * p \in Int /\ a * om \in Int /\ lam * v \in Int /\ lam * phi \in Int /\ lam * om \in Int /\ lam * (p + v) \in Int
    BY ProductIs
  <1>5. Within(lam * (p + v), lam * om)
    BY <1>1, <1>2, <1>3, <1>4 DEF Within
  <1>6. om \in Int /\ p + v \in Int
    OBVIOUS
  <1>. QED
    BY <1>5, <1>6, WithinUntimes, Zenon

\* What the sliding variable moves by fits what the inequalities leave.
RoomToSlide(lam, bet, kap, wide, i, phi, vel, del, frc, s0, v0, s, v, acc) ==
  /\ lam \in Nat \ {0} /\ bet \in Nat \ {0} /\ kap \in Nat \ {0} /\ kap = lam * bet
  /\ wide \in Nat /\ i \in 0..wide - 1 /\ phi \in Nat /\ vel \in Nat /\ del \in Nat /\ frc \in Nat
  /\ kap * frc + wide * (bet * del + lam * (del + bet * vel)) <= phi * lam * kap
  /\ s0 \in Int /\ v0 \in Int /\ s \in Int /\ v \in Int /\ acc \in Int
  /\ Within(kap * (v - v0), i * del) /\ Within(bet * (s - s0), i * (bet * vel + del))
  /\ Within(s, lam * phi) /\ Within(kap * acc + (bet * v0 + s0), frc)

LEMMA SlidingStays ==
  ASSUME NEW lam, NEW bet, NEW kap, NEW wide, NEW i, NEW phi, NEW vel, NEW del, NEW frc,
         NEW s0, NEW v0, NEW s, NEW v, NEW acc,
         RoomToSlide(lam, bet, kap, wide, i, phi, vel, del, frc, s0, v0, s, v, acc)
  PROVE  Within(s + lam * acc + v, lam * phi)
  <1>. /\ lam \in Nat \ {0} /\ bet \in Nat \ {0} /\ kap \in Nat \ {0} /\ kap = lam * bet
       /\ wide \in Nat /\ i \in 0..wide - 1 /\ phi \in Nat /\ vel \in Nat /\ del \in Nat /\ frc \in Nat
       /\ kap * frc + wide * (bet * del + lam * (del + bet * vel)) <= phi * lam * kap
       /\ s0 \in Int /\ v0 \in Int /\ s \in Int /\ v \in Int /\ acc \in Int
       /\ Within(kap * (v - v0), i * del) /\ Within(bet * (s - s0), i * (bet * vel + del))
       /\ Within(s, lam * phi) /\ Within(kap * acc + (bet * v0 + s0), frc)
    BY Zenon DEF RoomToSlide
  <1>. PICK next \in Int : next = s + lam * acc + v
    BY ProductIs
  <1>. PICK a \in Nat : a = bet - 1
    OBVIOUS
  <1>0. /\ kap * a \in Nat /\ lam * phi \in Int /\ bet * (s - s0) \in Int /\ i * (bet * vel + del) \in Int
        /\ kap * (v - v0) \in Int /\ i * del \in Int /\ kap * acc + (bet * v0 + s0) \in Int /\ frc \in Int
        /\ lam \in Nat /\ bet \in Nat /\ kap \in Nat
    BY NatProductIs, ProductIs
  <1>1. Within((kap * a) * s, (kap * a) * (lam * phi))
    BY <1>0, WithinTimes, Zenon
  <1>2. Within(lam * (bet * (s - s0)), lam * (i * (bet * vel + del)))
    BY <1>0, WithinTimes, Zenon
  <1>3. Within(bet * (kap * (v - v0)), bet * (i * del))
    BY <1>0, WithinTimes, Zenon
  <1>4. Within(kap * (kap * acc + (bet * v0 + s0)), kap * frc)
    BY <1>0, WithinTimes, Zenon
  <1>5. (kap * bet) * next = (kap * a) * s + lam * (bet * (s - s0)) + bet * (kap * (v - v0)) + kap * (kap * acc + (bet * v0 + s0))
    OBVIOUS
  <1>6. lam * (i * (bet * vel + del)) + bet * (i * del) = i * (bet * del + lam * (del + bet * vel))
    OBVIOUS
  <1>7. i * (bet * del + lam * (del + bet * vel)) <= wide * (bet * del + lam * (del + bet * vel))
    <2>1. bet * del + lam * (del + bet * vel) \in Nat
      BY NatProductIs
    <2>. QED
      BY <2>1, NatProductIs
  <1>8. (kap * bet) * (lam * phi) = (kap * a) * (lam * phi) + phi * lam * kap
    OBVIOUS
  <1>t. /\ (kap * a) * s \in Int /\ (kap * a) * (lam * phi) \in Int
        /\ lam * (bet * (s - s0)) \in Int /\ lam * (i * (bet * vel + del)) \in Int
        /\ bet * (kap * (v - v0)) \in Int /\ bet * (i * del) \in Int
        /\ kap * (kap * acc + (bet * v0 + s0)) \in Int /\ kap * frc \in Int
        /\ i * (bet * del + lam * (del + bet * vel)) \in Int /\ wide * (bet * del + lam * (del + bet * vel)) \in Int
        /\ phi * lam * kap \in Int /\ (kap * bet) * next \in Int /\ (kap * bet) * (lam * phi) \in Int
    <2>1. bet * del + lam * (del + bet * vel) \in Int
      BY ProductIs
    <2>2. lam * phi \in Int /\ bet * (s - s0) \in Int /\ i * (bet * vel + del) \in Int /\ kap * a \in Int /\ kap * bet \in Int
          /\ bet * v0 \in Int /\ kap * acc \in Int
      BY ProductIs
    <2>. QED
      BY <1>0, <2>1, <2>2, ProductIs
  <1>9. Within((kap * bet) * next, (kap * bet) * (lam * phi))
    BY <1>1, <1>2, <1>3, <1>4, <1>5, <1>6, <1>7, <1>8, <1>t DEF Within
  <1>10. kap * bet \in Nat \ {0}
    <2>1. kap * bet \in Nat
      BY NatProductIs
    <2>2. kap * bet # 0
      OBVIOUS
    <2>. QED
      BY <2>1, <2>2
  <1>. QED
    BY <1>0, <1>9, <1>10, WithinUntimes, Zenon

LEMMA VelocityIn ==
  ASSUME NEW lam \in Nat \ {0}, NEW phi \in Nat, NEW om \in Nat, NEW vel \in Nat, lam * vel = lam * phi + om,
         NEW p \in Int, NEW v \in Int, Within(p, om), Within(lam * v + p, lam * phi)
  PROVE  Within(v, vel)
  <1>1. lam * v \in Int /\ lam * phi \in Int /\ lam * vel \in Int
    BY ProductIs
  <1>2. Within(lam * v, lam * vel)
    BY <1>1 DEF Within
  <1>3. vel \in Int
    OBVIOUS
  <1>. QED
    BY <1>2, <1>3, WithinUntimes, Zenon

LEMMA TickCounts ==
  ASSUME NEW lam \in Nat \ {0}, NEW bet \in Nat \ {0}, NEW kap \in Nat \ {0}, kap = lam * bet,
         NEW i \in Nat, NEW vel \in Nat, NEW del \in Nat,
         NEW s0 \in Int, NEW v0 \in Int, NEW s \in Int, NEW v \in Int, NEW acc \in Int,
         Within(kap * (v - v0), i * del), Within(bet * (s - s0), i * (bet * vel + del)),
         Within(v, vel), Within(kap * acc, del)
  PROVE  /\ Within(kap * ((v + acc) - v0), (i + 1) * del)
         /\ Within(bet * ((s + lam * acc + v) - s0), (i + 1) * (bet * vel + del))
  <1>1. /\ kap * (v - v0) \in Int /\ i * del \in Int /\ bet * (s - s0) \in Int /\ kap * acc \in Int /\ del \in Int
        /\ bet * v \in Int /\ bet * vel \in Int /\ i * (bet * vel + del) \in Int
    BY ProductIs
  <1>2. kap * ((v + acc) - v0) = kap * (v - v0) + kap * acc /\ (i + 1) * del = i * del + del
    OBVIOUS
  <1>3. Within(bet * v, bet * vel)
    <2>1. bet \in Nat /\ vel \in Int
      OBVIOUS
    <2>. QED
      BY <2>1, WithinTimes, Zenon
  <1>4. bet * ((s + lam * acc + v) - s0) = bet * (s - s0) + (bet * v + kap * acc)
    OBVIOUS
  <1>5. (i + 1) * (bet * vel + del) = i * (bet * vel + del) + (bet * vel + del)
    OBVIOUS
  <1>. QED
    BY <1>1, <1>2, <1>3, <1>4, <1>5 DEF Within

LEMMA QuotientBounds ==
  ASSUME NEW x \in Int, NEW y \in Nat \ {0}
  PROVE  x \div y \in Int /\ y * (x \div y) <= x /\ x < y * (x \div y) + y
  <1>1. x \div y \in Int
    OBVIOUS
  <1>2. y * (x \div y) <= x /\ x < y * (x \div y) + y
    BY SMTT(20)
  <1>. QED
    BY <1>1, <1>2

LEMMA InputDelivered ==
  ASSUME NEW whole \in Nat \ {0}, NEW command \in Int, NEW most \in Nat \ {0},
         NEW input \in {-((-command) \div whole) - most, command \div whole + most}
  PROVE  input \in Int /\ Within(whole * input - command, whole * most)
  <1>1. ASSUME NEW x \in Int
        PROVE  /\ x \div whole \in Int /\ whole * (x \div whole) <= x /\ x < whole * (x \div whole) + whole
    BY QuotientBounds
  <1>2. whole <= whole * most
    <2>1. most - 1 \in Nat
      OBVIOUS
    <2>2. whole * (most - 1) \in Nat
      BY <2>1, NatProductIs
    <2>3. whole * most = whole * (most - 1) + whole
      OBVIOUS
    <2>. QED
      BY <2>2, <2>3
  <1>3. CASE input = command \div whole + most
    <2>. PICK x \in Int : x = command \div whole
      BY <1>1
    <2>1. whole * x <= command /\ command < whole * x + whole
      BY <1>1
    <2>2. whole * input = whole * x + whole * most
      BY <1>3
    <2>3. whole * x \in Int /\ whole * most \in Int /\ input \in Int
      BY <1>3, ProductIs
    <2>. QED
      BY <1>2, <2>1, <2>2, <2>3 DEF Within
  <1>4. CASE input = -((-command) \div whole) - most
    <2>0. -command \in Int
      OBVIOUS
    <2>. PICK x \in Int : x = (-command) \div whole
      BY <1>1, <2>0
    <2>1. whole * x <= -command /\ -command < whole * x + whole
      BY <1>1, <2>0
    <2>2. whole * input = -(whole * x) - whole * most
      BY <1>4
    <2>3. whole * x \in Int /\ whole * most \in Int /\ input \in Int
      BY <1>4, ProductIs
    <2>. QED
      BY <1>2, <2>1, <2>2, <2>3 DEF Within
  <1>. QED
    BY <1>3, <1>4

LEMMA HeldForcing ==
  ASSUME NEW kap \in Nat \ {0}, NEW bet \in Nat, NEW slope \in Nat, NEW since \in Nat, NEW i \in Nat, NEW shift \in Int,
         NEW span \in Nat, Within(2 * i - shift, span),
         NEW vs \in Int, NEW c \in Int, NEW command \in Int,
         command = -(slope * kap * (2 * since + shift)) - 2 * (bet * vs + c),
         NEW most \in Nat, NEW input \in Int, Within(2 * kap * input - command, 2 * kap * most),
         NEW dist \in Nat, NEW d \in Int, Within(d, dist),
         NEW acc \in Int, acc = slope * (since + i) + (input + d)
  PROVE  Within(2 * (kap * acc) + 2 * (bet * vs + c), 2 * (kap * (dist + most)) + kap * (slope * span))
  <1>1. kap * slope \in Nat /\ 2 * i - shift \in Int /\ span \in Int /\ kap \in Nat /\ dist \in Int
    BY NatProductIs
  <1>2. Within((kap * slope) * (2 * i - shift), (kap * slope) * span)
    BY <1>1, WithinTimes, Zenon
  <1>3. Within(kap * d, kap * dist)
    BY <1>1, WithinTimes, Zenon
  <1>4. 2 * (kap * acc) + 2 * (bet * vs + c) = (kap * slope) * (2 * i - shift) + (2 * kap * input - command) + 2 * (kap * d)
    OBVIOUS
  <1>5. 2 * (kap * (dist + most)) + kap * (slope * span) = (kap * slope) * span + 2 * kap * most + 2 * (kap * dist)
    OBVIOUS
  <1>6. /\ (kap * slope) * (2 * i - shift) \in Int /\ (kap * slope) * span \in Int /\ kap * d \in Int /\ kap * dist \in Int
        /\ 2 * kap * input - command \in Int /\ 2 * kap * most \in Int
    <2>1. 2 * kap \in Int
      OBVIOUS
    <2>. QED
      BY <1>1, <2>1, ProductIs
  <1>. QED
    BY <1>2, <1>3, <1>4, <1>5, <1>6 DEF Within

LEMMA GreaterOf ==
  ASSUME NEW x \in Int, NEW y \in Int
  PROVE  T!Max({x, y}) = IF x >= y THEN x ELSE y
  <1>. PICK m \in Int : m = IF x >= y THEN x ELSE y
    OBVIOUS
  <1>1. m \in {x, y} /\ \A z \in {x, y} : m >= z
    OBVIOUS
  <1>2. \A w \in {x, y} : (\A z \in {x, y} : w >= z) => w = m
    OBVIOUS
  <1>3. T!Max({x, y}) = m
    BY <1>1, <1>2 DEF T!Max
  <1>. QED
    BY <1>3

LEMMA LesserOf ==
  ASSUME NEW x \in Int, NEW y \in Int
  PROVE  T!Min({x, y}) = IF x <= y THEN x ELSE y
  <1>. PICK m \in Int : m = IF x <= y THEN x ELSE y
    OBVIOUS
  <1>1. m \in {x, y} /\ \A z \in {x, y} : m <= z
    OBVIOUS
  <1>2. \A w \in {x, y} : (\A z \in {x, y} : w <= z) => w = m
    OBVIOUS
  <1>3. T!Min({x, y}) = m
    BY <1>1, <1>2 DEF T!Min
  <1>. QED
    BY <1>3

LEMMA MagnitudeWithin ==
  ASSUME NEW x \in Int
  PROVE  /\ T!Magnitude(x) \in Nat
         /\ \A m \in Int : T!Magnitude(x) <= m <=> Within(x, m)
  <1>1. T!Magnitude(x) = IF x >= -x THEN x ELSE -x
    BY GreaterOf DEF T!Magnitude
  <1>. QED
    BY <1>1 DEF Within

\* Clipping is a projection: it stays in its range and moves no point away from it.
LEMMA ClippedInto ==
  ASSUME NEW x \in Int, NEW most \in Nat
  PROVE  /\ T!Clipped(x, most) \in Int /\ Within(T!Clipped(x, most), most)
         /\ \A y \in Int, e \in Nat : Within(y, most) /\ Within(x - y, e) => Within(T!Clipped(x, most) - y, e)
  <1>. PICK c \in Int : c = IF most <= x THEN most ELSE x
    OBVIOUS
  <1>1. T!Min({most, x}) = c
    BY LesserOf
  <1>2. T!Clipped(x, most) = IF -most >= c THEN -most ELSE c
    <2>1. -most \in Int
      OBVIOUS
    <2>. QED
      BY <1>1, <2>1, GreaterOf DEF T!Clipped
  <1>. QED
    BY <1>2 DEF Within

LEMMA BoundsAre ==
  ASSUME NEW b \in TrackingSpecs
  PROVE  /\ b.L \in Nat \ {0} /\ b.B \in Nat \ {0} /\ b.hold \in Nat \ {0} /\ b.phi \in Nat \ {0} /\ b.omega \in Nat \ {0}
         /\ b.slope \in Nat /\ b.disturbance \in Nat /\ b.delivery \in Nat \ {0} /\ b.np \in Nat /\ b.nv \in Nat
         /\ b.limit \in Nat /\ b.acceleration \in Nat /\ b.fuelRate \in Nat /\ b.fuel \in Nat
         /\ T!Scale(b) = b.L * b.B /\ T!Scale(b) \in Nat \ {0}
         /\ T!Velocity(b) \in Nat /\ b.L * T!Velocity(b) = b.L * b.phi + b.omega
         /\ T!Scale(b) % 2 = 0
  <1>1. T!BoundsDeclared(b)
    BY GuidanceInstances DEF T!TrackingAssumption
  <1>2. /\ b.L \in Nat \ {0} /\ b.B \in Nat \ {0} /\ b.hold \in Nat \ {0} /\ b.phi \in Nat \ {0} /\ b.omega \in Nat \ {0}
        /\ b.slope \in Nat /\ b.disturbance \in Nat /\ b.delivery \in Nat \ {0} /\ b.np \in Nat /\ b.nv \in Nat
        /\ b.limit \in Nat /\ b.acceleration \in Nat /\ b.fuelRate \in Nat /\ b.fuel \in Nat
        /\ b.omega % b.L = 0 /\ (b.L * b.B) % 2 = 0
    BY <1>1 DEF T!BoundsDeclared
  <1>3. b.L * b.B \in Nat \ {0}
    <2>1. b.L * b.B \in Nat
      BY <1>2, NatProductIs
    <2>2. b.L * b.B # 0
      BY <1>2, Z3
    <2>. QED
      BY <2>1, <2>2
  <1>4. b.omega \div b.L \in Int /\ b.L * (b.omega \div b.L) = b.omega
    <2>1. \A x \in Int : \A w \in Int : w > 0 /\ x % w = 0 => x \div w \in Int /\ w * (x \div w) = x
      BY SMTT(20)
    <2>. QED
      BY <1>2, <2>1
  <1>. PICK share \in Int : share = b.omega \div b.L
    BY <1>4
  <1>5. share \in Nat
    <2>1. CASE share < 0
      <3>1. -share - 1 \in Nat
        BY <2>1
      <3>2. b.L * (-share - 1) \in Nat
        BY <1>2, <3>1, NatProductIs
      <3>3. b.L * (-share - 1) = -(b.L * share) - b.L
        BY <1>2
      <3>. QED
        BY <1>2, <1>4, <3>2, <3>3
    <2>. QED
      BY <2>1
  <1>6. T!Velocity(b) = b.phi + share
    BY DEF T!Velocity
  <1>7. b.L * (b.phi + share) = b.L * b.phi + b.L * share
    BY <1>2
  <1>. QED
    BY <1>2, <1>3, <1>4, <1>5, <1>6, <1>7 DEF T!Scale

LEMMA InSetIs ==
  ASSUME NEW b \in TrackingSpecs, NEW p \in Int, NEW v \in Int
  PROVE  T!InSet(b, p, v) <=> Within(p, b.omega) /\ Within(b.L * v + p, b.L * b.phi)
  <1>1. b.L * v + p \in Int /\ b.L * b.phi \in Int /\ b.omega \in Int
    BY BoundsAre, ProductIs
  <1>. QED
    BY <1>1, MagnitudeWithin DEF T!InSet, T!Sliding

\* What an admitted set promises, whichever law asked for it: a bound frc on how far
\* the held law misses the acceleration it means, a bound del on any acceleration,
\* and room for both in the sliding variable.
Promised(b, law, kap, vel, span, frc, del) ==
  /\ kap = T!Scale(b) /\ vel = T!Velocity(b)
  /\ span = b.hold * (IF law = "midpoint" THEN 1 ELSE 2)
  /\ 2 * frc = 2 * (kap * (b.disturbance + b.delivery)) + kap * (b.slope * span) + 2 * ((b.B + b.L) * b.nv + b.np)
  /\ 2 * del >= 2 * (kap * (b.disturbance + b.delivery)) + kap * (b.slope * span)
                  + 2 * (b.B * (vel + b.nv) + b.L * b.phi)
  /\ kap * frc + b.hold * (b.B * del + b.L * (del + b.B * vel)) <= b.phi * b.L * kap
  /\ b.L * b.phi <= b.omega

LEMMA TerminalPromises ==
  ASSUME NEW b \in TrackingSpecs, NEW law \in {"start", "midpoint"}, T!TerminalAdmits(b, law)
  PROVE  \E kap \in Nat \ {0} : \E vel, span, frc, del \in Nat : Promised(b, law, kap, vel, span, frc, del)
  <1>. PICK span \in Nat : span = b.hold * (IF law = "midpoint" THEN 1 ELSE 2)
    BY BoundsAre
  <1>. PICK kap \in Nat \ {0} : kap = T!Scale(b)
    BY BoundsAre
  <1>. PICK vel \in Nat : vel = T!Velocity(b)
    BY BoundsAre
  <1>h. PICK h \in Int : kap = 2 * h
    <2>1. kap % 2 = 0
      BY BoundsAre
    <2>2. \A x \in Int : x % 2 = 0 => x \div 2 \in Int /\ x = 2 * (x \div 2)
      BY SMTT(20)
    <2>3. kap \in Int
      OBVIOUS
    <2>. QED
      BY <2>1, <2>2, <2>3
  <1>0. h \in Nat
    BY <1>h
  <1>1. h * (b.slope * span) \in Nat
    BY BoundsAre, <1>0, NatProductIs
  <1>. PICK half \in Nat : half = h * (b.slope * span)
    BY <1>1
  <1>2. T!ResidualTwice(b, law) = b.slope * span
    <2>1. T!ResidualTwice(b, law) = b.hold * b.slope * (IF law = "start" THEN 2 ELSE 1)
      BY DEF T!ResidualTwice
    <2>2. CASE law = "start"
      <3>1. b.hold * b.slope * 2 = b.slope * (b.hold * 2)
        BY BoundsAre
      <3>. QED
        BY <2>1, <2>2, <3>1
    <2>3. CASE law = "midpoint"
      <3>1. b.hold * b.slope * 1 = b.slope * (b.hold * 1)
        BY BoundsAre
      <3>. QED
        BY <2>1, <2>3, <3>1
    <2>. QED
      BY <2>2, <2>3
  <1>3. kap * (b.slope * span) = 2 * half
    <2>1. b.slope * span \in Int
      BY BoundsAre, ProductIs
    <2>. PICK z \in Int : z = b.slope * span
      BY <2>1
    <2>2. kap * z = 2 * (h * z)
      BY <1>h
    <2>. QED
      BY <2>2
  <1>4. (kap * (b.slope * span)) \div 2 = half
    <2>1. \A x \in Int : (2 * x) \div 2 = x
      BY SMTT(20)
    <2>. QED
      BY <1>3, <2>1
  <1>. PICK base \in Int : base = kap * (b.disturbance + b.delivery)
    BY BoundsAre, ProductIs
  <1>. PICK noise \in Int : noise = (b.B + b.L) * b.nv
    BY BoundsAre, ProductIs
  <1>. PICK reserve \in Int : reserve = b.B * (vel + b.nv) + b.L * b.phi
    BY BoundsAre, ProductIs
  <1>n. base \in Nat /\ noise \in Nat /\ reserve \in Nat
    <2>1. b.B \in Nat /\ b.L \in Nat /\ b.phi \in Nat /\ b.nv \in Nat /\ b.disturbance + b.delivery \in Nat
      BY BoundsAre
    <2>2. (b.B + b.L) * b.nv \in Nat /\ b.B * (vel + b.nv) \in Nat /\ b.L * b.phi \in Nat
          /\ kap * (b.disturbance + b.delivery) \in Nat
      BY <2>1, NatProductIs
    <2>. QED
      BY <2>2
  <1>. PICK frc \in Nat : frc = base + half + noise + b.np
    BY <1>n, BoundsAre
  <1>. PICK del \in Nat : del = frc + reserve
    BY <1>n
  <1>5. T!BaseForcing(b, law) = frc
    BY <1>2, <1>4 DEF T!BaseForcing
  <1>6. T!InputReserve(b) = reserve
    BY DEF T!InputReserve
  <1>7. kap * frc + T!HoldForcing(b, law) <= b.phi * b.L * kap /\ b.omega >= b.L * b.phi
    BY <1>5 DEF T!TerminalAdmits, T!PositionInward
  <1>8. T!HoldForcing(b, law) = b.hold * (b.B * del + b.L * (del + b.B * vel))
    BY <1>5, <1>6 DEF T!HoldForcing
  <1>9. 2 * frc = 2 * base + 2 * half + 2 * (noise + b.np) /\ 2 * del >= 2 * base + 2 * half + 2 * reserve
    BY <1>n, BoundsAre
  <1>10. b.L * b.phi \in Int /\ b.omega \in Int
    BY BoundsAre, ProductIs
  <1>11. 2 * frc = 2 * (kap * (b.disturbance + b.delivery)) + kap * (b.slope * span) + 2 * ((b.B + b.L) * b.nv + b.np)
         /\ 2 * del >= 2 * (kap * (b.disturbance + b.delivery)) + kap * (b.slope * span)
                         + 2 * (b.B * (vel + b.nv) + b.L * b.phi)
    BY ONLY <1>3, <1>9, base = kap * (b.disturbance + b.delivery), noise = (b.B + b.L) * b.nv,
            reserve = b.B * (vel + b.nv) + b.L * b.phi, Zenon
  <1>12. kap * frc + b.hold * (b.B * del + b.L * (del + b.B * vel)) <= b.phi * b.L * kap
    BY <1>7, <1>8, Zenon
  <1>13. b.L * b.phi <= b.omega
    BY <1>7, <1>10
  <1>14. Promised(b, law, kap, vel, span, frc, del)
    <2>1. kap = T!Scale(b) /\ vel = T!Velocity(b) /\ span = b.hold * (IF law = "midpoint" THEN 1 ELSE 2)
      OBVIOUS
    <2>. QED
      BY ONLY <1>11, <1>12, <1>13, <2>1, Zenon DEF Promised
  <1>. QED
    BY <1>14

LEMMA RefugePromises ==
  ASSUME NEW b \in TrackingSpecs, T!RefugeAdmits(b)
  PROVE  \E kap \in Nat \ {0} : \E vel, span, frc, del \in Nat : Promised(b, "refuge", kap, vel, span, frc, del)
  <1>. PICK span \in Nat : span = b.hold * 2
    BY BoundsAre
  <1>. PICK kap \in Nat \ {0} : kap = T!Scale(b)
    BY BoundsAre
  <1>k. kap = b.L * b.B
    BY BoundsAre
  <1>. PICK vel \in Nat : vel = T!Velocity(b)
    BY BoundsAre
  <1>f. b.B \in Nat /\ b.L \in Nat /\ b.phi \in Nat /\ b.nv \in Nat /\ b.hold \in Nat /\ b.slope \in Nat
    BY BoundsAre
  <1>p. b.hold * b.slope \in Nat /\ b.B * (vel + b.nv) \in Nat /\ b.L * b.phi \in Nat
    BY <1>f, NatProductIs
  <1>. PICK drift \in Nat : drift = b.disturbance + b.delivery + b.hold * b.slope
    BY <1>p, BoundsAre
  <1>. PICK reserve \in Nat : reserve = b.B * (vel + b.nv) + b.L * b.phi
    BY <1>p
  <1>1. kap * drift \in Nat /\ (b.B + b.L) * b.nv \in Nat
    BY BoundsAre, NatProductIs
  <1>. PICK frc \in Nat : frc = kap * drift + (b.B + b.L) * b.nv + b.np
    BY <1>1, BoundsAre
  <1>. PICK del \in Nat : del = kap * drift + reserve
    BY <1>1
  <1>2. T!DriftError(b) = drift /\ T!InputReserve(b) = reserve
    BY DEF T!DriftError, T!InputReserve
  <1>3. T!RelativeAcceleration(b) = del
    <2>1. reserve + kap * drift <= kap * b.acceleration
      BY <1>2 DEF T!RefugeAdmits
    <2>2. T!RelativeAcceleration(b) = T!Min({kap * b.acceleration, kap * drift + b.B * (vel + b.nv) + b.L * b.phi})
      BY <1>2 DEF T!RelativeAcceleration
    <2>3. kap * drift + b.B * (vel + b.nv) + b.L * b.phi = del
      <3>1. b.B * (vel + b.nv) \in Int /\ b.L * b.phi \in Int /\ kap * drift \in Int
        BY BoundsAre, ProductIs
      <3>. QED
        BY <3>1
    <2>4. kap * b.acceleration \in Int /\ del \in Int /\ del <= kap * b.acceleration
      BY <2>1, <1>1, BoundsAre, ProductIs
    <2>5. T!Min({kap * b.acceleration, del}) = del
      BY <2>4, LesserOf
    <2>. QED
      BY <2>2, <2>3, <2>5
  <1>4. T!SlidingRequired(b) <= b.phi * b.L * kap /\ b.omega >= b.L * b.phi
    BY DEF T!RefugeAdmits, T!PositionInward
  <1>5. T!SlidingRequired(b) = kap * frc + b.hold * (b.B * del + b.L * (del + b.B * vel))
    <2>1. T!SlidingRequired(b) =
            kap * kap * drift + b.B * (kap * b.nv + b.hold * del)
              + b.L * (kap * b.nv + b.B * b.np + b.hold * (del + b.B * vel))
      BY <1>2, <1>3 DEF T!SlidingRequired
    <2>. PICK l \in Nat : l = b.L
      BY BoundsAre
    <2>. PICK w \in Nat : w = b.B
      BY BoundsAre
    <2>. PICK nv \in Nat : nv = b.nv
      BY BoundsAre
    <2>. PICK np \in Nat : np = b.np
      BY BoundsAre
    <2>. PICK wide \in Nat : wide = b.hold
      BY BoundsAre
    <2>2. kap = l * w /\ frc = kap * drift + (w + l) * nv + np
      BY <1>k
    <2>3. kap * kap * drift + w * (kap * nv + wide * del) + l * (kap * nv + w * np + wide * (del + w * vel))
            = kap * frc + wide * (w * del + l * (del + w * vel))
      BY ONLY <2>2, l \in Nat, w \in Nat, nv \in Nat, np \in Nat, wide \in Nat, kap \in Nat \ {0}, drift \in Nat, vel \in Nat,
              del \in Nat, frc \in Nat
    <2>. QED
      BY <2>1, <2>3
  <1>6. 2 * frc = 2 * (kap * (b.disturbance + b.delivery)) + kap * (b.slope * span) + 2 * ((b.B + b.L) * b.nv + b.np)
        /\ 2 * del = 2 * (kap * (b.disturbance + b.delivery)) + kap * (b.slope * span) + 2 * reserve
    <2>. PICK slope \in Nat : slope = b.slope
      BY BoundsAre
    <2>. PICK wide \in Nat : wide = b.hold
      BY BoundsAre
    <2>. PICK both \in Nat : both = b.disturbance + b.delivery
      BY BoundsAre
    <2>1. drift = both + wide * slope /\ span = wide * 2
      OBVIOUS
    <2>2. 2 * (kap * drift) = 2 * (kap * both) + kap * (slope * span)
      BY ONLY <2>1, slope \in Nat, wide \in Nat, both \in Nat, kap \in Nat \ {0}, drift \in Nat, span \in Nat
    <2>. PICK noise \in Nat : noise = (b.B + b.L) * b.nv
      BY <1>1
    <2>3. 2 * frc = 2 * (kap * drift) + 2 * (noise + b.np) /\ 2 * del = 2 * (kap * drift) + 2 * reserve
      BY <1>1, BoundsAre
    <2>. QED
      BY <2>2, <2>3
  <1>7. b.L * b.phi \in Int /\ b.omega \in Int
    BY BoundsAre, ProductIs
  <1>8. 2 * del \in Int
    OBVIOUS
  <1>9. Promised(b, "refuge", kap, vel, span, frc, del)
    BY <1>4, <1>5, <1>6, <1>7, <1>8 DEF Promised
  <1>. QED
    BY <1>9

\* The ticks of a hold under one force.
TicksOf(f, b, p, v, since, n, force) ==
  f = [i \in 0..n |->
         IF i = 0 THEN [p |-> p, v |-> v]
         ELSE [p |-> f[i - 1].p + f[i - 1].v, v |-> f[i - 1].v + b.slope * (since + i - 1) + force]]

NextTick(f, b, since, force, i) ==
  [p |-> f[i - 1].p + f[i - 1].v, v |-> f[i - 1].v + b.slope * (since + i - 1) + force]

LEMMA TicksGrow ==
  ASSUME NEW b, NEW p, NEW v, NEW since, NEW force, NEW m \in Nat \ {0}, NEW f, TicksOf(f, b, p, v, since, m - 1, force)
  PROVE  TicksOf([i \in 0..m |-> IF i < m THEN f[i] ELSE NextTick(f, b, since, force, m)], b, p, v, since, m, force)
  <1>. DEFINE g == [i \in 0..m |-> IF i < m THEN f[i] ELSE NextTick(f, b, since, force, m)]
  <1>1. ASSUME NEW i \in 0..m
        PROVE  g[i] = IF i = 0 THEN [p |-> p, v |-> v] ELSE NextTick(g, b, since, force, i)
    <2>1. CASE i = 0
      <3>1. 0 \in 0..m - 1 /\ 0 < m
        OBVIOUS
      <3>. QED
        BY <2>1, <3>1 DEF TicksOf
    <2>2. CASE i # 0 /\ i < m
      <3>1. i \in 0..m - 1 /\ i - 1 \in 0..m /\ i - 1 < m
        BY <2>2
      <3>2. f[i] = NextTick(f, b, since, force, i)
        BY <2>2, <3>1 DEF TicksOf, NextTick
      <3>3. g[i] = f[i] /\ g[i - 1] = f[i - 1]
        BY <2>2, <3>1
      <3>. QED
        BY <2>2, <3>2, <3>3 DEF NextTick
    <2>3. CASE i = m
      <3>1. m - 1 \in 0..m /\ m - 1 < m /\ m # 0 /\ ~(m < m)
        OBVIOUS
      <3>2. g[m] = NextTick(f, b, since, force, m) /\ g[m - 1] = f[m - 1]
        BY <3>1
      <3>. QED
        BY <2>3, <3>1, <3>2 DEF NextTick
    <2>. QED
      BY <2>1, <2>2, <2>3
  <1>. HIDE DEF g
  <1>2. g = [i \in 0..m |-> g[i]]
    BY DEF g
  <1>3. TicksOf(g, b, p, v, since, m, force)
    BY <1>1, <1>2 DEF TicksOf, NextTick
  <1>. QED
    BY <1>3 DEF g

LEMMA TicksExist ==
  ASSUME NEW b, NEW p, NEW v, NEW since, NEW force, NEW n \in Nat
  PROVE  \E f : TicksOf(f, b, p, v, since, n, force)
  <1>. DEFINE failing == {m \in Nat : ~\E f : TicksOf(f, b, p, v, since, m, force)}
  <1>. SUFFICES ASSUME failing # {} PROVE FALSE
    OBVIOUS
  <1>1. PICK m \in failing : \A k \in failing : m <= k
    BY Least
  <1>2. TicksOf([i \in 0..0 |-> [p |-> p, v |-> v]], b, p, v, since, 0, force)
    BY DEF TicksOf
  <1>3. m \in Nat \ {0}
    BY <1>1, <1>2
  <1>4. PICK f : TicksOf(f, b, p, v, since, m - 1, force)
    BY <1>1, <1>3
  <1>. QED
    BY <1>1, <1>3, <1>4, TicksGrow

LEMMA AfterIs ==
  ASSUME NEW b, NEW p, NEW v, NEW since, NEW force, NEW n \in Nat
  PROVE  \E f : TicksOf(f, b, p, v, since, n, force) /\ T!After(b, p, v, since, n, force) = [p |-> f[n].p, v |-> f[n].v, q |-> since + n]
  <1>1. TicksOf(CHOOSE f : TicksOf(f, b, p, v, since, n, force), b, p, v, since, n, force)
    BY TicksExist
  <1>2. T!After(b, p, v, since, n, force) =
          [p |-> (CHOOSE f : TicksOf(f, b, p, v, since, n, force))[n].p,
           v |-> (CHOOSE f : TicksOf(f, b, p, v, since, n, force))[n].v, q |-> since + n]
    BY DEF T!After, TicksOf
  <1>. QED
    BY <1>1, <1>2

\* A sample of a state in the set: near it, and clipped no further from it.
SampledNear(b, p, v, ps, vs) ==
  /\ Within(vs - v, b.nv) /\ Within(ps - p, b.np)
  /\ Within((b.L * vs + ps) - (b.L * v + p), b.L * b.nv + b.np)

\* A tick of a hold that an admitted law answered a sample with.
Meant(b, law, kap, vel, span, frc, del, p, v, ps, vs, since, width, i, input, d, acc) ==
  /\ b \in TrackingSpecs /\ law \in {"start", "midpoint", "refuge"}
  /\ kap \in Nat \ {0} /\ vel \in Nat /\ span \in Nat /\ frc \in Nat /\ del \in Nat
  /\ Promised(b, law, kap, vel, span, frc, del)
  /\ p \in Int /\ v \in Int /\ Within(p, b.omega) /\ Within(b.L * v + p, b.L * b.phi)
  /\ ps \in Int /\ vs \in Int /\ SampledNear(b, p, v, ps, vs)
  /\ since \in Nat /\ width \in Nat /\ width <= b.hold /\ i \in 0..width - 1
  /\ input \in T!Delivered(b, T!Command(b, law, since, width, ps, vs)) /\ d \in {-b.disturbance, b.disturbance}
  /\ acc \in Int /\ acc = b.slope * (since + i) + (input + d)

LEMMA ForceMeant ==
  ASSUME NEW b, NEW law, NEW kap, NEW vel, NEW span, NEW frc, NEW del, NEW p, NEW v, NEW ps, NEW vs, NEW since,
         NEW width, NEW i, NEW input, NEW d, NEW acc,
         Meant(b, law, kap, vel, span, frc, del, p, v, ps, vs, since, width, i, input, d, acc)
  PROVE  Within(kap * acc + (b.B * v + (b.L * v + p)), frc) /\ Within(kap * acc, del)
  <1>. /\ b \in TrackingSpecs /\ law \in {"start", "midpoint", "refuge"}
       /\ kap \in Nat \ {0} /\ vel \in Nat /\ span \in Nat /\ frc \in Nat /\ del \in Nat
       /\ Promised(b, law, kap, vel, span, frc, del)
       /\ p \in Int /\ v \in Int /\ Within(p, b.omega) /\ Within(b.L * v + p, b.L * b.phi)
       /\ ps \in Int /\ vs \in Int /\ SampledNear(b, p, v, ps, vs)
       /\ since \in Nat /\ width \in Nat /\ width <= b.hold /\ i \in 0..width - 1
       /\ input \in T!Delivered(b, T!Command(b, law, since, width, ps, vs)) /\ d \in {-b.disturbance, b.disturbance}
       /\ acc \in Int /\ acc = b.slope * (since + i) + (input + d)
    BY Zenon DEF Meant
  <1>b. /\ b.L \in Nat \ {0} /\ b.B \in Nat \ {0} /\ b.hold \in Nat /\ b.phi \in Nat /\ b.omega \in Nat
        /\ b.slope \in Nat /\ b.disturbance \in Nat /\ b.delivery \in Nat \ {0} /\ b.np \in Nat /\ b.nv \in Nat
        /\ kap = T!Scale(b) /\ b.L * vel = b.L * b.phi + b.omega
    BY BoundsAre DEF Promised
  <1>. PICK l \in Nat \ {0} : l = b.L
    BY <1>b
  <1>. PICK w \in Nat \ {0} : w = b.B
    BY <1>b
  <1>. PICK nv \in Nat : nv = b.nv
    BY <1>b
  <1>. PICK np \in Nat : np = b.np
    BY <1>b
  <1>. PICK slope \in Nat : slope = b.slope
    BY <1>b
  <1>. PICK dist \in Nat : dist = b.disturbance
    BY <1>b
  <1>. PICK most \in Nat \ {0} : most = b.delivery
    BY <1>b
  <1>. PICK phi \in Nat : phi = b.phi
    BY <1>b
  <1>. PICK reach \in Nat : reach = l * phi
    BY NatProductIs
  <1>. PICK shift \in Int : shift = IF law = "midpoint" THEN width ELSE 0
    OBVIOUS
  <1>1. Within(2 * i - shift, span)
    <2>1. span = b.hold * (IF law = "midpoint" THEN 1 ELSE 2)
      BY DEF Promised
    <2>. PICK wide \in Nat : wide = b.hold
      BY <1>b
    <2>2. CASE law = "midpoint"
      <3>1. span = wide /\ shift = width /\ width <= wide
        BY <2>1, <2>2
      <3>. QED
        BY ONLY <3>1, i \in 0..width - 1, width \in Nat, wide \in Nat, span \in Nat DEF Within
    <2>3. CASE law # "midpoint"
      <3>1. span = wide * 2 /\ shift = 0 /\ width <= wide
        BY <2>1, <2>3
      <3>. QED
        BY ONLY <3>1, i \in 0..width - 1, width \in Nat, wide \in Nat, span \in Nat DEF Within
    <2>. QED
      BY <2>2, <2>3
  <1>. PICK seen \in Int : seen = l * vs + ps
    BY ProductIs
  <1>. PICK s \in Int : s = l * v + p
    BY ProductIs
  <1>. PICK off \in Nat : off = l * nv + np
    BY NatProductIs
  <1>c. PICK c \in Int : c = T!Clipped(seen, reach)
    BY ClippedInto
  <1>2. Within(c, reach) /\ Within(c - s, off)
    <2>1. Within(s, reach) /\ Within(seen - s, off)
      BY DEF SampledNear
    <2>2. seen - s \in Int
      OBVIOUS
    <2>3. \A y \in Int, e \in Nat : Within(y, reach) /\ Within(seen - y, e) => Within(c - y, e)
      BY ONLY <1>c, ClippedInto, seen \in Int, reach \in Nat, Zenon
    <2>4. Within(c, reach)
      BY ONLY <1>c, ClippedInto, seen \in Int, reach \in Nat, Zenon
    <2>. QED
      BY ONLY <2>1, <2>3, <2>4, s \in Int, off \in Nat, Zenon
  <1>3. Within(vs - v, nv) /\ Within(v, vel) /\ Within(vs, vel + nv)
    <2>1. Within(vs - v, nv)
      BY DEF SampledNear
    <2>2. Within(v, vel)
      BY <1>b, VelocityIn
    <2>. QED
      BY ONLY <2>1, <2>2, vs \in Int, v \in Int, nv \in Nat, vel \in Nat DEF Within
  <1>. PICK command \in Int : command = -(slope * kap * (2 * since + shift)) - 2 * (w * vs + c)
    <2>1. 2 * since + shift \in Int /\ slope * kap \in Int /\ w * vs + c \in Int
      BY ProductIs
    <2>2. slope * kap * (2 * since + shift) \in Int
      BY <2>1, ProductIs
    <2>. QED
      BY <2>1, <2>2
  <1>4. T!Command(b, law, since, width, ps, vs) = command
    <2>1. T!Sliding(b, ps, vs) = seen
      BY DEF T!Sliding
    <2>2. T!CancelledDrift(b, law, since, width) = slope * kap * (2 * since + shift)
      BY <1>b DEF T!CancelledDrift
    <2>3. T!Command(b, law, since, width, ps, vs)
            = -T!CancelledDrift(b, law, since, width) - 2 * (b.B * vs + T!Clipped(T!Sliding(b, ps, vs), b.L * b.phi))
      BY DEF T!Command
    <2>. QED
      BY ONLY <1>c, <2>1, <2>2, <2>3, w = b.B, l = b.L, phi = b.phi, reach = l * phi,
              command = -(slope * kap * (2 * since + shift)) - 2 * (w * vs + c), Zenon
  <1>w. PICK whole \in Nat \ {0} : whole = 2 * kap
    OBVIOUS
  <1>5. input \in Int /\ Within(whole * input - command, whole * most)
    <2>1. input \in {-((-command) \div whole) - most, command \div whole + most}
      BY <1>4, <1>b, <1>w DEF T!Delivered
    <2>. QED
      BY ONLY <2>1, InputDelivered, whole \in Nat \ {0}, command \in Int, most \in Nat \ {0}
  <1>6. d \in Int /\ Within(d, dist)
    <2>1. d = dist \/ d = -dist
      OBVIOUS
    <2>. QED
      BY ONLY <2>1, dist \in Nat DEF Within
  <1>7. Within(2 * (kap * acc) + 2 * (w * vs + c), 2 * (kap * (dist + most)) + kap * (slope * span))
    <2>1. Within(2 * kap * input - command, 2 * kap * most)
      BY <1>5, <1>w, Zenon
    <2>2. acc = slope * (since + i) + (input + d) /\ i \in Nat
      OBVIOUS
    <2>. QED
      BY ONLY <1>1, <1>5, <1>6, <2>1, <2>2, HeldForcing, kap \in Nat \ {0}, w \in Nat, slope \in Nat, since \in Nat, shift \in Int,
              span \in Nat, vs \in Int, c \in Int, command \in Int, most \in Nat, dist \in Nat, acc \in Int,
              command = -(slope * kap * (2 * since + shift)) - 2 * (w * vs + c)
  <1>8. Within(w * (vs - v), w * nv) /\ Within(w * vs, w * (vel + nv))
    <2>1. w \in Nat /\ vs - v \in Int /\ nv \in Int /\ vs \in Int /\ vel + nv \in Int
      OBVIOUS
    <2>. QED
      BY ONLY <1>3, <2>1, WithinTimes, Zenon
  <1>. PICK m \in Int : m = 2 * (kap * (dist + most)) + kap * (slope * span)
    <2>1. kap * (dist + most) \in Int /\ slope * span \in Int
      BY ProductIs
    <2>2. kap * (slope * span) \in Int
      BY <2>1, ProductIs
    <2>. QED
      BY <2>1, <2>2
  <1>. PICK push \in Int : push = kap * acc
    BY ProductIs
  <1>9. /\ w * (vs - v) \in Int /\ w * vs \in Int /\ w * v \in Int /\ w * nv \in Int /\ w * (vel + nv) \in Int
        /\ w * (vs - v) = w * vs - w * v
    <2>1. vs - v \in Int /\ vel + nv \in Int
      OBVIOUS
    <2>2. w * (vs - v) = w * vs - w * v
      OBVIOUS
    <2>. QED
      BY <2>1, <2>2, ProductIs
  <1>10. Within(2 * push + 2 * (w * vs + c), m)
    BY ONLY <1>7, push = kap * acc, m = 2 * (kap * (dist + most)) + kap * (slope * span), Zenon
  <1>11. 2 * frc = m + 2 * (w * nv + off)
    <2>1. 2 * frc = m + 2 * ((w + l) * nv + np)
      BY ONLY Promised(b, law, kap, vel, span, frc, del), w = b.B, l = b.L, nv = b.nv, np = b.np, slope = b.slope,
              dist = b.disturbance, most = b.delivery, m = 2 * (kap * (dist + most)) + kap * (slope * span), Zenon DEF Promised
    <2>2. (w + l) * nv + np = w * nv + off
      <3>1. (w + l) * nv = w * nv + l * nv /\ l * nv \in Int /\ w * nv \in Int
        <4>1. (w + l) * nv = w * nv + l * nv
          BY ONLY w \in Nat \ {0}, l \in Nat \ {0}, nv \in Nat
        <4>2. l * nv \in Int /\ w * nv \in Int
          BY ProductIs
        <4>. QED
          BY <4>1, <4>2
      <3>. PICK x \in Int : x = w * nv
        BY <3>1
      <3>. PICK y \in Int : y = l * nv
        BY <3>1
      <3>2. (w + l) * nv = x + y /\ off = y + np
        BY <3>1
      <3>3. (x + y) + np = x + (y + np)
        BY np \in Nat
      <3>. QED
        BY ONLY <3>2, <3>3, x = w * nv, Zenon
    <2>. QED
      BY ONLY <2>1, <2>2, Zenon
  <1>12. 2 * del >= m + 2 * (w * (vel + nv) + reach)
    BY ONLY Promised(b, law, kap, vel, span, frc, del), w = b.B, l = b.L, nv = b.nv, phi = b.phi, slope = b.slope,
            dist = b.disturbance, most = b.delivery, m = 2 * (kap * (dist + most)) + kap * (slope * span),
            reach = l * phi, Zenon DEF Promised
  <1>13. Within(push + (w * v + s), frc)
    BY ONLY <1>2, <1>8, <1>9, <1>10, <1>11, push \in Int, c \in Int, s \in Int, m \in Int, off \in Nat, frc \in Nat DEF Within
  <1>14. Within(push, del)
    BY ONLY <1>2, <1>8, <1>9, <1>10, <1>12, push \in Int, c \in Int, m \in Int, reach \in Nat, del \in Nat DEF Within
  <1>. QED
    BY ONLY <1>13, <1>14, push = kap * acc, w = b.B, l = b.L, s = l * v + p, Zenon

\* A state of a hold after i of its ticks.
InHold(b, kap, vel, del, p, v, state, i) ==
  /\ state.p \in Int /\ state.v \in Int
  /\ Within(kap * (state.v - v), i * del)
  /\ Within(b.B * ((b.L * state.v + state.p) - (b.L * v + p)), i * (b.B * vel + del))
  /\ Within(state.p, b.omega) /\ Within(b.L * state.v + state.p, b.L * b.phi)

LEMMA TickStays ==
  ASSUME NEW b \in TrackingSpecs, NEW law \in {"start", "midpoint", "refuge"},
         NEW kap \in Nat \ {0}, NEW vel \in Nat, NEW span \in Nat, NEW frc \in Nat, NEW del \in Nat,
         Promised(b, law, kap, vel, span, frc, del),
         NEW p \in Int, NEW v \in Int, Within(p, b.omega), Within(b.L * v + p, b.L * b.phi),
         NEW i \in 0..b.hold - 1, NEW state, InHold(b, kap, vel, del, p, v, state, i),
         NEW acc \in Int, Within(kap * acc + (b.B * v + (b.L * v + p)), frc), Within(kap * acc, del)
  PROVE  InHold(b, kap, vel, del, p, v, [p |-> state.p + state.v, v |-> state.v + acc], i + 1)
  <1>b. /\ b.L \in Nat \ {0} /\ b.B \in Nat \ {0} /\ b.hold \in Nat /\ b.phi \in Nat /\ b.omega \in Nat
        /\ kap = b.L * b.B /\ b.L * vel = b.L * b.phi + b.omega /\ b.L * b.phi <= b.omega
        /\ kap * frc + b.hold * (b.B * del + b.L * (del + b.B * vel)) <= b.phi * b.L * kap
    BY BoundsAre DEF Promised
  <1>. PICK l \in Nat \ {0} : l = b.L
    BY <1>b
  <1>. PICK w \in Nat \ {0} : w = b.B
    BY <1>b
  <1>. PICK wide \in Nat : wide = b.hold
    BY <1>b
  <1>. PICK phi \in Nat : phi = b.phi
    BY <1>b
  <1>. PICK om \in Nat : om = b.omega
    BY <1>b
  <1>. PICK pi \in Int : pi = state.p
    BY DEF InHold
  <1>. PICK vi \in Int : vi = state.v
    BY DEF InHold
  <1>. PICK s0 \in Int : s0 = l * v + p
    BY ProductIs
  <1>. PICK si \in Int : si = l * vi + pi
    BY ProductIs
  <1>. PICK later \in Int : later = si + l * acc + vi
    BY ProductIs
  <1>1. /\ Within(kap * (vi - v), i * del) /\ Within(w * (si - s0), i * (w * vel + del))
        /\ Within(pi, om) /\ Within(l * vi + pi, l * phi) /\ Within(si, l * phi)
    BY ONLY InHold(b, kap, vel, del, p, v, state, i), l = b.L, w = b.B, phi = b.phi, om = b.omega, pi = state.p, vi = state.v,
            s0 = l * v + p, si = l * vi + pi, Zenon DEF InHold
  <1>2. /\ kap = l * w /\ l * vel = l * phi + om /\ l * phi <= om
        /\ kap * frc + wide * (w * del + l * (del + w * vel)) <= phi * l * kap
    BY ONLY <1>b, l = b.L, w = b.B, phi = b.phi, om = b.omega, wide = b.hold, Zenon
  <1>3. i \in 0..wide - 1 /\ i \in Nat
    BY <1>b
  <1>4. Within(kap * acc + (w * v + s0), frc)
    BY ONLY Within(kap * acc + (b.B * v + (b.L * v + p)), frc), l = b.L, w = b.B, s0 = l * v + p, Zenon
  <1>5. Within(vi, vel)
    BY ONLY <1>1, <1>2, VelocityIn, l \in Nat \ {0}, phi \in Nat, om \in Nat, vel \in Nat, pi \in Int, vi \in Int
  <1>6. Within(pi + vi, om)
    <2>1. Within(pi, om) /\ Within(l * vi + pi, l * phi) /\ l * phi <= om
      BY <1>1, <1>2
    <2>. QED
      BY ONLY <2>1, PositionStays, l \in Nat \ {0}, phi \in Nat, om \in Nat, pi \in Int, vi \in Int, Zenon
  <1>7. Within(later, l * phi)
    <2>1. RoomToSlide(l, w, kap, wide, i, phi, vel, del, frc, s0, v, si, vi, acc)
      BY ONLY <1>1, <1>2, <1>3, <1>4, l \in Nat \ {0}, w \in Nat \ {0}, kap \in Nat \ {0}, wide \in Nat,
              phi \in Nat, vel \in Nat, del \in Nat, frc \in Nat, s0 \in Int, v \in Int, si \in Int, vi \in Int, acc \in Int,
              Zenon DEF RoomToSlide
    <2>2. Within(si + l * acc + vi, l * phi)
      BY ONLY <2>1, SlidingStays, Zenon
    <2>. QED
      BY ONLY <2>2, later = si + l * acc + vi, Zenon
  <1>8. Within(kap * ((vi + acc) - v), (i + 1) * del) /\ Within(w * ((si + l * acc + vi) - s0), (i + 1) * (w * vel + del))
    BY ONLY <1>1, <1>2, <1>3, <1>5, Within(kap * acc, del), TickCounts, l \in Nat \ {0}, w \in Nat \ {0}, kap \in Nat \ {0},
            vel \in Nat, del \in Nat, s0 \in Int, v \in Int, si \in Int, vi \in Int, acc \in Int
  <1>9. l * (vi + acc) + (pi + vi) = later
    <2>1. l * (vi + acc) = l * vi + l * acc /\ l * vi \in Int /\ l * acc \in Int
      BY ProductIs
    <2>. QED
      BY ONLY <2>1, si = l * vi + pi, later = si + l * acc + vi, pi \in Int, vi \in Int
  <1>. PICK new : new = [p |-> pi + vi, v |-> vi + acc]
    OBVIOUS
  <1>10. new.p = pi + vi /\ new.v = vi + acc /\ pi + vi \in Int /\ vi + acc \in Int
    OBVIOUS
  <1>11. InHold(b, kap, vel, del, p, v, new, i + 1)
    BY ONLY <1>6, <1>7, <1>8, <1>9, <1>10, l = b.L, w = b.B, phi = b.phi, om = b.omega, s0 = l * v + p,
            later = si + l * acc + vi, Zenon DEF InHold
  <1>. QED
    BY <1>11

\* A hold that an admitted law answered a sample with.
Held(b, law, kap, vel, span, frc, del, p, v, ps, vs, since, width, input, d) ==
  /\ b \in TrackingSpecs /\ law \in {"start", "midpoint", "refuge"}
  /\ kap \in Nat \ {0} /\ vel \in Nat /\ span \in Nat /\ frc \in Nat /\ del \in Nat
  /\ Promised(b, law, kap, vel, span, frc, del)
  /\ p \in Int /\ v \in Int /\ Within(p, b.omega) /\ Within(b.L * v + p, b.L * b.phi)
  /\ ps \in Int /\ vs \in Int /\ SampledNear(b, p, v, ps, vs)
  /\ since \in Nat /\ width \in Nat /\ width <= b.hold
  /\ input \in T!Delivered(b, T!Command(b, law, since, width, ps, vs)) /\ d \in {-b.disturbance, b.disturbance}

\* Every hold of an admitted law ends in its set.
LEMMA HeldStays ==
  ASSUME NEW b, NEW law, NEW kap, NEW vel, NEW span, NEW frc, NEW del, NEW p, NEW v, NEW ps, NEW vs, NEW since,
         NEW width, NEW input, NEW d,
         Held(b, law, kap, vel, span, frc, del, p, v, ps, vs, since, width, input, d)
  PROVE  LET after == T!After(b, p, v, since, width, input + d)
         IN  /\ after \in [p : Int, v : Int, q : Nat] /\ after.q = since + width
             /\ Within(after.p, b.omega) /\ Within(b.L * after.v + after.p, b.L * b.phi)
  <1>. /\ b \in TrackingSpecs /\ law \in {"start", "midpoint", "refuge"}
       /\ kap \in Nat \ {0} /\ vel \in Nat /\ span \in Nat /\ frc \in Nat /\ del \in Nat
       /\ Promised(b, law, kap, vel, span, frc, del)
       /\ p \in Int /\ v \in Int /\ Within(p, b.omega) /\ Within(b.L * v + p, b.L * b.phi)
       /\ ps \in Int /\ vs \in Int /\ SampledNear(b, p, v, ps, vs)
       /\ since \in Nat /\ width \in Nat /\ width <= b.hold
       /\ input \in T!Delivered(b, T!Command(b, law, since, width, ps, vs)) /\ d \in {-b.disturbance, b.disturbance}
    BY Zenon DEF Held
  <1>b. /\ b.L \in Nat /\ b.B \in Nat /\ b.hold \in Nat /\ b.slope \in Nat /\ b.disturbance \in Nat /\ b.delivery \in Nat
        /\ b.phi \in Nat
    BY BoundsAre
  <1>. PICK force : force = input + d
    OBVIOUS
  <1>f. PICK f : TicksOf(f, b, p, v, since, width, force)
                 /\ T!After(b, p, v, since, width, force) = [p |-> f[width].p, v |-> f[width].v, q |-> since + width]
    BY ONLY AfterIs, width \in Nat
  <1>. DEFINE failing == {i \in 0..width : ~InHold(b, kap, vel, del, p, v, f[i], i)}
  <1>1. InHold(b, kap, vel, del, p, v, f[0], 0)
    <2>1. f[0] = [p |-> p, v |-> v]
      <3>1. 0 \in 0..width
        OBVIOUS
      <3>. QED
        BY <1>f, <3>1 DEF TicksOf
    <2>2. f[0].p = p /\ f[0].v = v
      BY <2>1
    <2>3. kap * (v - v) = 0 /\ 0 * del = 0
      OBVIOUS
    <2>4. b.B * ((b.L * v + p) - (b.L * v + p)) = 0 /\ 0 * (b.B * vel + del) = 0
      <3>. PICK w \in Nat : w = b.B
        BY <1>b
      <3>. PICK s \in Int : s = b.L * v + p
        BY <1>b, ProductIs
      <3>1. w * (s - s) = 0 /\ 0 * (w * vel + del) = 0
        OBVIOUS
      <3>. QED
        BY <3>1
    <2>5. Within(0, 0)
      BY DEF Within
    <2>. QED
      BY <2>2, <2>3, <2>4, <2>5 DEF InHold
  <1>2. ASSUME NEW i \in 0..width - 1, InHold(b, kap, vel, del, p, v, f[i], i)
        PROVE  InHold(b, kap, vel, del, p, v, f[i + 1], i + 1)
    <2>0. i + 1 \in 0..width /\ i + 1 # 0 /\ (i + 1) - 1 = i /\ i \in Nat
      OBVIOUS
    <2>1. f[i + 1] = [p |-> f[i].p + f[i].v, v |-> f[i].v + b.slope * (since + (i + 1) - 1) + force]
      BY <1>f, <2>0 DEF TicksOf
    <2>2. input \in Int /\ d \in Int
      <3>1. d \in Int
        BY <1>b
      <3>. PICK command : command = T!Command(b, law, since, width, ps, vs)
        OBVIOUS
      <3>2. command \in Int
        <4>1. T!Sliding(b, ps, vs) \in Int /\ b.L * b.phi \in Nat
          BY <1>b, ProductIs, NatProductIs DEF T!Sliding
        <4>2. T!Clipped(T!Sliding(b, ps, vs), b.L * b.phi) \in Int
          BY <4>1, ClippedInto
        <4>3. b.B * vs + T!Clipped(T!Sliding(b, ps, vs), b.L * b.phi) \in Int
          BY <4>2, <1>b, ProductIs
        <4>4. b.slope * kap * (2 * since + (IF law = "midpoint" THEN width ELSE 0)) \in Int
          <5>1. b.slope * kap \in Int /\ 2 * since + (IF law = "midpoint" THEN width ELSE 0) \in Int
            BY <1>b, ProductIs
          <5>. QED
            BY <5>1, ProductIs
        <4>5. T!CancelledDrift(b, law, since, width) \in Int
          BY <4>4 DEF T!CancelledDrift, Promised
        <4>. QED
          BY <4>3, <4>5 DEF T!Command
      <3>. PICK whole \in Nat \ {0} : whole = 2 * T!Scale(b)
        BY BoundsAre
      <3>3. input \in {-((-command) \div whole) - b.delivery, command \div whole + b.delivery}
        BY DEF T!Delivered
      <3>4. b.delivery \in Nat \ {0}
        BY BoundsAre
      <3>5. input \in Int
        BY ONLY <3>2, <3>3, <3>4, InputDelivered, whole \in Nat \ {0}
      <3>. QED
        BY <3>1, <3>5
    <2>3. b.slope * (since + i) \in Int
      BY <1>b, ProductIs
    <2>. PICK acc \in Int : acc = b.slope * (since + i) + (input + d)
      BY <2>2, <2>3
    <2>4. Within(kap * acc + (b.B * v + (b.L * v + p)), frc) /\ Within(kap * acc, del)
      <3>1. Meant(b, law, kap, vel, span, frc, del, p, v, ps, vs, since, width, i, input, d, acc)
        BY DEF Meant
      <3>. QED
        BY ONLY <3>1, ForceMeant
    <2>5. i \in 0..b.hold - 1
      BY <1>b
    <2>6. InHold(b, kap, vel, del, p, v, [p |-> f[i].p + f[i].v, v |-> f[i].v + acc], i + 1)
      BY <1>2, <2>4, <2>5, TickStays
    <2>7. f[i].v + b.slope * (since + (i + 1) - 1) + force = f[i].v + acc
      <3>1. since + (i + 1) - 1 = since + i /\ f[i].v \in Int
        BY <1>2 DEF InHold
      <3>2. b.slope * (since + (i + 1) - 1) = b.slope * (since + i)
        BY <3>1
      <3>. QED
        BY <2>2, <2>3, <3>1, <3>2
    <2>. QED
      BY <2>1, <2>6, <2>7
  <1>3. failing = {}
    <2>. SUFFICES ASSUME failing # {} PROVE FALSE
      OBVIOUS
    <2>1. PICK i \in failing : \A j \in failing : i <= j
      <3>1. failing \subseteq Nat
        OBVIOUS
      <3>. HIDE DEF failing
      <3>. QED
        BY <3>1, Least
    <2>2. i # 0
      BY <1>1, <2>1
    <2>3. i \in 0..width /\ i - 1 \in 0..width - 1 /\ (i - 1) + 1 = i /\ i - 1 \in 0..width
      BY <2>1, <2>2
    <2>4. InHold(b, kap, vel, del, p, v, f[i - 1], i - 1)
      BY <2>1, <2>3
    <2>5. InHold(b, kap, vel, del, p, v, f[(i - 1) + 1], (i - 1) + 1)
      BY <1>2, <2>3, <2>4
    <2>. QED
      BY <2>1, <2>3, <2>5
  <1>4. InHold(b, kap, vel, del, p, v, f[width], width)
    BY <1>3
  <1>. PICK after : after = T!After(b, p, v, since, width, force)
    OBVIOUS
  <1>5. after.p = f[width].p /\ after.v = f[width].v /\ after.q = since + width
        /\ after = [p |-> f[width].p, v |-> f[width].v, q |-> since + width]
    BY <1>f
  <1>6. f[width].p \in Int /\ f[width].v \in Int /\ since + width \in Nat
    BY <1>4 DEF InHold
  <1>7. after \in [p : Int, v : Int, q : Nat]
    BY <1>5, <1>6
  <1>. QED
    BY <1>4, <1>5, <1>7 DEF InHold

LEMMA AdmittedPromises ==
  ASSUME NEW b \in TrackingSpecs, NEW law \in {"start", "midpoint", "refuge"}, T!Admits(b, law)
  PROVE  \E kap \in Nat \ {0} : \E vel, span, frc, del \in Nat : Promised(b, law, kap, vel, span, frc, del)
  <1>1. CASE law = "refuge"
    BY <1>1, RefugePromises DEF T!Admits
  <1>2. CASE law # "refuge"
    <2>1. law \in {"start", "midpoint"} /\ T!TerminalAdmits(b, law)
      BY <1>2 DEF T!Admits
    <2>. QED
      BY <2>1, TerminalPromises
  <1>. QED
    BY <1>1, <1>2

TrackingInv ==
  /\ tracker \in [spec : TrackingSpecs, law : {"start", "midpoint", "refuge"},
                  state : {"built", "tracking", "refused", "stopped"}]
  /\ motion \in [p : Int, v : Int, q : Nat] /\ motion.q <= TrackingScope
  /\ tracker.state \in {"tracking", "stopped"} =>
       /\ T!Admits(tracker.spec, tracker.law)
       /\ T!InSet(tracker.spec, motion.p, motion.v)
  /\ tracker.law = "refuge" => tracker.state # "stopped"

LEMMA ScopeIs == TrackingScope \in Nat \ {0} /\ Laws \subseteq {"start", "midpoint", "refuge"}
  BY GuidanceInstances DEF T!TrackingAssumption

LEMMA SampleNear ==
  ASSUME NEW b \in TrackingSpecs, motion \in [p : Int, v : Int, q : Nat], NEW sample \in T!Samples(b)
  PROVE  sample.p \in Int /\ sample.v \in Int /\ SampledNear(b, motion.p, motion.v, sample.p, sample.v)
  <1>1. PICK e \in {-1, 1} : sample = [p |-> motion.p + e * b.np, v |-> motion.v - e * b.nv]
    BY DEF T!Samples
  <1>. PICK l \in Nat : l = b.L
    BY BoundsAre
  <1>. PICK nv \in Nat : nv = b.nv
    BY BoundsAre
  <1>. PICK np \in Nat : np = b.np
    BY BoundsAre
  <1>. PICK p \in Int : p = motion.p
    OBVIOUS
  <1>. PICK v \in Int : v = motion.v
    OBVIOUS
  <1>. PICK x \in Nat : x = l * nv
    BY NatProductIs
  <1>2. \/ sample.p = p + np /\ sample.v = v - nv
        \/ sample.p = p - np /\ sample.v = v + nv
    <2>1. CASE e = 1
      <3>1. 1 * np = np /\ 1 * nv = nv
        OBVIOUS
      <3>. QED
        BY <1>1, <2>1, <3>1
    <2>2. CASE e = -1
      <3>1. p + (-1) * np = p - np /\ v - (-1) * nv = v + nv
        OBVIOUS
      <3>. QED
        BY <1>1, <2>2, <3>1
    <2>. QED
      BY <2>1, <2>2
  <1>. PICK ps \in Int : ps = sample.p
    BY <1>2
  <1>. PICK vs \in Int : vs = sample.v
    BY <1>2
  <1>3. l * (v - nv) = l * v - x /\ l * (v + nv) = l * v + x /\ l * v \in Int /\ l * vs \in Int
    BY ProductIs
  <1>. PICK y \in Int : y = l * v
    BY <1>3
  <1>. PICK z \in Int : z = l * vs
    BY <1>3
  <1>5. (ps = p + np /\ vs = v - nv /\ z = y - x) \/ (ps = p - np /\ vs = v + nv /\ z = y + x)
    BY <1>2, <1>3
  <1>6. Within(vs - v, nv) /\ Within(ps - p, np) /\ Within((z + ps) - (y + p), x + np)
    BY ONLY <1>5, p \in Int, v \in Int, ps \in Int, vs \in Int, x \in Nat, y \in Int, z \in Int, np \in Nat, nv \in Nat DEF Within
  <1>4. Within(vs - v, nv) /\ Within(ps - p, np) /\ Within((l * vs + ps) - (l * v + p), x + np)
    BY <1>6
  <1>. QED
    BY <1>4 DEF SampledNear

LEMMA EnteredStays ==
  ASSUME NEW b \in TrackingSpecs, NEW p \in Int, NEW v \in Int, T!Contains(b, p, v, b.np, b.nv),
         NEW e \in {-1, 1}, NEW f \in {-1, 1}
  PROVE  p + e * b.np \in Int /\ v + f * b.nv \in Int /\ T!InSet(b, p + e * b.np, v + f * b.nv)
  <1>. PICK l \in Nat : l = b.L
    BY BoundsAre
  <1>. PICK nv \in Nat : nv = b.nv
    BY BoundsAre
  <1>. PICK np \in Nat : np = b.np
    BY BoundsAre
  <1>. PICK om \in Nat : om = b.omega
    BY BoundsAre
  <1>. PICK reach \in Nat : reach = b.L * b.phi
    BY BoundsAre, NatProductIs
  <1>. PICK x \in Nat : x = l * nv
    BY NatProductIs
  <1>. PICK s \in Int : s = l * v + p
    BY ProductIs
  <1>. PICK mp \in Nat : mp = T!Magnitude(p)
    BY MagnitudeWithin
  <1>. PICK ms \in Nat : ms = T!Magnitude(s)
    BY MagnitudeWithin
  <1>1. mp + np <= om /\ ms + x + np <= reach
    BY DEF T!Contains, T!Sliding
  <1>2. Within(p, mp) /\ Within(s, ms)
    BY MagnitudeWithin
  <1>. PICK pn \in Int : pn = p + e * np
    OBVIOUS
  <1>. PICK vn \in Int : vn = v + f * nv
    OBVIOUS
  <1>3. (pn = p + np \/ pn = p - np) /\ (vn = v + nv \/ vn = v - nv)
    OBVIOUS
  <1>4. l * (v + nv) = l * v + x /\ l * (v - nv) = l * v - x /\ l * v \in Int /\ l * vn \in Int
    BY ProductIs
  <1>5. l * vn = l * v + x \/ l * vn = l * v - x
    BY <1>3, <1>4
  <1>. PICK y \in Int : y = l * v
    BY <1>4
  <1>. PICK z \in Int : z = l * vn
    BY <1>4
  <1>7. (z = y + x \/ z = y - x) /\ s = y + p
    BY <1>5
  <1>8. Within(pn, om) /\ Within(z + pn, reach)
    BY ONLY <1>1, <1>2, <1>3, <1>7, p \in Int, pn \in Int, s \in Int, x \in Nat, y \in Int, z \in Int, np \in Nat, om \in Nat,
            reach \in Nat, mp \in Nat, ms \in Nat DEF Within
  <1>6. Within(pn, om) /\ Within(l * vn + pn, reach)
    BY <1>8
  <1>. QED
    BY <1>6, InSetIs

LEMMA AdmitKeeps ==
  ASSUME TrackingInv, T!Admit
  PROVE  TrackingInv'
  <1>1. tracker \in [spec : TrackingSpecs, law : {"start", "midpoint", "refuge"},
                     state : {"built", "tracking", "refused", "stopped"}]
        /\ motion \in [p : Int, v : Int, q : Nat]
    BY DEF TrackingInv
  <1>. PICK b \in TrackingSpecs : b = tracker.spec
    BY <1>1
  <1>2. LET entered == T!Admits(b, tracker.law) /\ T!Contains(b, motion.p, motion.v, b.np, b.nv)
        IN  /\ tracker' = [tracker EXCEPT !.state = IF entered THEN "tracking" ELSE "refused"]
            /\ motion' \in IF entered
                           THEN {[p |-> motion.p + e * b.np, v |-> motion.v + f * b.nv, q |-> 0] : e \in {-1, 1}, f \in {-1, 1}}
                           ELSE {T!Idle}
    BY DEF T!Admit
  <1>. DEFINE entered == T!Admits(b, tracker.law) /\ T!Contains(b, motion.p, motion.v, b.np, b.nv)
  <1>3. CASE entered
    <2>1. PICK e \in {-1, 1}, f \in {-1, 1} : motion' = [p |-> motion.p + e * b.np, v |-> motion.v + f * b.nv, q |-> 0]
      BY <1>2, <1>3
    <2>2. T!Admits(b, tracker.law) /\ T!Contains(b, motion.p, motion.v, b.np, b.nv)
      BY <1>3
    <2>3. motion.p \in Int /\ motion.v \in Int
      BY <1>1
    <2>4. motion.p + e * b.np \in Int /\ motion.v + f * b.nv \in Int
          /\ T!InSet(b, motion.p + e * b.np, motion.v + f * b.nv)
      BY <2>2, <2>3, EnteredStays
    <2>5. motion' \in [p : Int, v : Int, q : Nat] /\ motion'.q = 0 /\ T!InSet(b, motion'.p, motion'.v)
      BY <2>1, <2>4
    <2>6. /\ tracker' \in [spec : TrackingSpecs, law : {"start", "midpoint", "refuge"},
                           state : {"built", "tracking", "refused", "stopped"}]
          /\ tracker'.spec = b /\ tracker'.law = tracker.law /\ tracker'.state = "tracking"
      BY <1>1, <1>2, <1>3
    <2>. QED
      BY <2>2, <2>5, <2>6, ScopeIs DEF TrackingInv
  <1>4. CASE ~entered
    <2>1. /\ tracker' \in [spec : TrackingSpecs, law : {"start", "midpoint", "refuge"},
                           state : {"built", "tracking", "refused", "stopped"}]
          /\ tracker'.state = "refused"
      BY <1>1, <1>2, <1>4
    <2>2. motion' \in [p : Int, v : Int, q : Nat] /\ motion'.q = 0
      BY <1>2, <1>4 DEF T!Idle
    <2>. QED
      BY <2>1, <2>2, ScopeIs DEF TrackingInv
  <1>. QED
    BY <1>3, <1>4

\* A refuge accepts every sample of a state in its set and its command respects
\* the hardware until the scope ends.
LEMMA RefugeCommands ==
  ASSUME NEW b \in TrackingSpecs, T!RefugeAdmits(b), NEW p \in Int, NEW v \in Int, T!InSet(b, p, v),
         NEW ps \in Int, NEW vs \in Int, SampledNear(b, p, v, ps, vs),
         NEW since \in Nat, since <= TrackingScope, NEW width \in Nat
  PROVE  T!WithinLimits(b, T!Command(b, "refuge", since, width, ps, vs))
  <1>b. /\ b.L \in Nat \ {0} /\ b.B \in Nat \ {0} /\ b.hold \in Nat /\ b.phi \in Nat /\ b.omega \in Nat
        /\ b.slope \in Nat /\ b.delivery \in Nat \ {0} /\ b.np \in Nat /\ b.nv \in Nat /\ b.limit \in Nat
    BY BoundsAre
  <1>. PICK kap \in Nat \ {0} : kap = T!Scale(b)
    BY BoundsAre
  <1>. PICK vel \in Nat : vel = T!Velocity(b)
    BY BoundsAre
  <1>. PICK l \in Nat \ {0} : l = b.L
    BY <1>b
  <1>. PICK w \in Nat : w = b.B
    BY <1>b
  <1>. PICK nv \in Nat : nv = b.nv
    BY <1>b
  <1>. PICK slope \in Nat : slope = b.slope
    BY <1>b
  <1>. PICK most \in Nat : most = b.delivery
    BY <1>b
  <1>. PICK limit \in Nat : limit = b.limit
    BY <1>b
  <1>. PICK phi \in Nat : phi = b.phi
    BY <1>b
  <1>. PICK om \in Nat : om = b.omega
    BY <1>b
  <1>. PICK scope \in Nat : scope = TrackingScope
    BY ScopeIs
  <1>. PICK reach \in Nat : reach = l * phi
    BY NatProductIs
  <1>. PICK seen \in Int : seen = l * vs + ps
    BY ProductIs
  <1>c. PICK c \in Int : c = T!Clipped(seen, reach)
    BY ClippedInto
  <1>1. Within(c, reach)
    BY ONLY <1>c, ClippedInto, seen \in Int, reach \in Nat
  <1>2. Within(v, vel)
    <2>1. Within(p, om) /\ Within(l * v + p, l * phi)
      BY InSetIs
    <2>2. l * vel = l * phi + om
      BY BoundsAre
    <2>. QED
      BY ONLY <2>1, <2>2, VelocityIn, l \in Nat \ {0}, phi \in Nat, om \in Nat, vel \in Nat, p \in Int, v \in Int
  <1>3. Within(vs, vel + nv)
    <2>1. Within(vs - v, nv)
      BY DEF SampledNear
    <2>. QED
      BY ONLY <1>2, <2>1, vs \in Int, v \in Int, nv \in Nat, vel \in Nat DEF Within
  <1>4. Within(w * vs, w * (vel + nv))
    <2>1. w \in Nat /\ vs \in Int /\ vel + nv \in Int
      OBVIOUS
    <2>. QED
      BY ONLY <1>3, <2>1, WithinTimes, Zenon
  <1>. PICK push \in Int : push = w * vs
    BY ProductIs
  <1>. PICK feed \in Nat : feed = w * (vel + nv)
    BY NatProductIs
  <1>. PICK drift \in Nat : drift = slope * kap * since
    BY NatProductIs
  <1>. PICK grown \in Nat : grown = slope * kap * scope
    BY NatProductIs
  <1>5. drift <= grown
    <2>1. scope - since \in Nat
      OBVIOUS
    <2>. PICK rest \in Nat : rest = scope - since
      BY <2>1
    <2>2. slope * kap * rest \in Nat
      BY NatProductIs
    <2>3. slope * kap * rest = slope * kap * scope - slope * kap * since
      OBVIOUS
    <2>. QED
      BY <2>2, <2>3
  <1>. PICK given \in Nat : given = kap * most
    BY NatProductIs
  <1>. PICK bound \in Nat : bound = kap * limit
    BY NatProductIs
  <1>6. feed + reach + given + grown <= bound
    <2>1. T!InputReserve(b) + kap * (most + slope * scope) <= kap * limit
      BY DEF T!RefugeAdmits
    <2>2. T!InputReserve(b) = feed + reach
      BY DEF T!InputReserve
    <2>3. kap * (most + slope * scope) = given + grown
      OBVIOUS
    <2>. QED
      BY <2>1, <2>2, <2>3
  <1>. PICK command \in Int : command = -(2 * drift) - 2 * (push + c)
    OBVIOUS
  <1>7. T!Command(b, "refuge", since, width, ps, vs) = command
    <2>1. T!Sliding(b, ps, vs) = seen
      BY DEF T!Sliding
    <2>2. T!CancelledDrift(b, "refuge", since, width) = slope * kap * (2 * since + 0)
      BY DEF T!CancelledDrift
    <2>3. slope * kap * (2 * since + 0) = 2 * drift
      OBVIOUS
    <2>4. T!Command(b, "refuge", since, width, ps, vs)
            = -T!CancelledDrift(b, "refuge", since, width) - 2 * (b.B * vs + T!Clipped(T!Sliding(b, ps, vs), b.L * b.phi))
      BY DEF T!Command
    <2>. QED
      BY ONLY <1>c, <2>1, <2>2, <2>3, <2>4, w = b.B, l = b.L, phi = b.phi, reach = l * phi, push = w * vs,
              command = -(2 * drift) - 2 * (push + c), Zenon
  <1>8. Within(command, 2 * bound - 2 * given)
    BY ONLY <1>1, <1>4, <1>5, <1>6, push = w * vs, feed = w * (vel + nv), command = -(2 * drift) - 2 * (push + c),
            push \in Int, c \in Int, drift \in Nat, feed \in Nat, reach \in Nat, given \in Nat, bound \in Nat, grown \in Nat,
            command \in Int DEF Within
  <1>. PICK big \in Nat : big = T!Magnitude(command)
    BY MagnitudeWithin
  <1>9. big <= 2 * bound - 2 * given
    <2>1. 2 * bound - 2 * given \in Int
      OBVIOUS
    <2>. QED
      BY <1>8, <2>1, MagnitudeWithin
  <1>10. 2 * kap * most = 2 * given /\ 2 * kap * limit = 2 * bound
    OBVIOUS
  <1>11. T!WithinLimits(b, command)
    <2>1. big + 2 * kap * most <= 2 * kap * limit
      BY ONLY <1>9, <1>10, big \in Nat, bound \in Nat, given \in Nat
    <2>. QED
      BY ONLY <2>1, big = T!Magnitude(command), kap = T!Scale(b), most = b.delivery, limit = b.limit, Zenon DEF T!WithinLimits
  <1>. QED
    BY <1>7, <1>11

LEMMA RefugeAccepts ==
  ASSUME NEW b \in TrackingSpecs, NEW p \in Int, NEW v \in Int, T!InSet(b, p, v),
         NEW sample \in [p : Int, v : Int], SampledNear(b, p, v, sample.p, sample.v)
  PROVE  T!Consistent(b, sample)
  <1>b. /\ b.L \in Nat \ {0} /\ b.phi \in Nat /\ b.omega \in Nat /\ b.np \in Nat /\ b.nv \in Nat
        /\ T!Velocity(b) \in Nat /\ b.L * T!Velocity(b) = b.L * b.phi + b.omega
    BY BoundsAre
  <1>. PICK vel \in Nat : vel = T!Velocity(b)
    BY <1>b
  <1>. PICK l \in Nat \ {0} : l = b.L
    BY <1>b
  <1>. PICK nv \in Nat : nv = b.nv
    BY <1>b
  <1>. PICK np \in Nat : np = b.np
    BY <1>b
  <1>. PICK phi \in Nat : phi = b.phi
    BY <1>b
  <1>. PICK om \in Nat : om = b.omega
    BY <1>b
  <1>. PICK reach \in Nat : reach = l * phi
    BY NatProductIs
  <1>. PICK x \in Nat : x = l * nv
    BY NatProductIs
  <1>. PICK ps \in Int : ps = sample.p
    OBVIOUS
  <1>. PICK vs \in Int : vs = sample.v
    OBVIOUS
  <1>. PICK seen \in Int : seen = l * vs + ps
    BY ProductIs
  <1>. PICK s \in Int : s = l * v + p
    BY ProductIs
  <1>1. Within(p, om) /\ Within(s, reach) /\ Within(l * v + p, l * phi)
    BY InSetIs
  <1>2. Within(v, vel)
    BY ONLY <1>b, <1>1, VelocityIn, vel = T!Velocity(b), l = b.L, phi = b.phi, om = b.omega,
            l \in Nat \ {0}, phi \in Nat, om \in Nat, vel \in Nat, p \in Int, v \in Int
  <1>3. Within(vs - v, nv) /\ Within(ps - p, np) /\ Within(seen - s, x + np)
    BY DEF SampledNear
  <1>4. Within(ps, om + np) /\ Within(vs, vel + nv) /\ Within(seen, reach + x + np)
    BY ONLY <1>1, <1>2, <1>3, ps \in Int, vs \in Int, seen \in Int, s \in Int, p \in Int, v \in Int, om \in Nat, np \in Nat,
            nv \in Nat, vel \in Nat, reach \in Nat, x \in Nat DEF Within
  <1>. PICK a \in Nat : a = T!Magnitude(ps)
    BY MagnitudeWithin
  <1>. PICK d \in Nat : d = T!Magnitude(vs)
    BY MagnitudeWithin
  <1>. PICK e \in Nat : e = T!Magnitude(seen)
    BY MagnitudeWithin
  <1>5. a <= om + np /\ d <= vel + nv /\ e <= reach + x + np
    <2>1. om + np \in Int /\ vel + nv \in Int /\ reach + x + np \in Int
      OBVIOUS
    <2>. QED
      BY <1>4, <2>1, MagnitudeWithin
  <1>6. a - np <= om /\ d - nv <= vel /\ e - x - np <= reach
    BY <1>5
  <1>7. T!Sliding(b, sample.p, sample.v) = seen
    BY DEF T!Sliding
  <1>. QED
    BY ONLY <1>6, <1>7, a = T!Magnitude(ps), d = T!Magnitude(vs), e = T!Magnitude(seen), ps = sample.p, vs = sample.v,
            np = b.np, nv = b.nv, l = b.L, phi = b.phi, om = b.omega, x = l * nv, reach = l * phi, vel = T!Velocity(b), Zenon
            DEF T!Consistent

LEMMA HoldKeepsTheSet ==
  ASSUME TrackingInv, T!Hold
  PROVE  TrackingInv'
  <1>1. /\ tracker \in [spec : TrackingSpecs, law : {"start", "midpoint", "refuge"},
                        state : {"built", "tracking", "refused", "stopped"}]
        /\ motion \in [p : Int, v : Int, q : Nat] /\ motion.q <= TrackingScope /\ tracker.state = "tracking"
        /\ T!Admits(tracker.spec, tracker.law) /\ T!InSet(tracker.spec, motion.p, motion.v)
    BY DEF TrackingInv, T!Hold
  <1>. PICK b \in TrackingSpecs : b = tracker.spec
    BY <1>1
  <1>. PICK law \in {"start", "midpoint", "refuge"} : law = tracker.law
    BY <1>1
  <1>2. PICK width \in 1..b.hold, sample \in T!Samples(b) :
          LET command == T!Command(b, law, motion.q, width, sample.p, sample.v)
              runs == T!Accepted(b, law, sample) /\ T!WithinLimits(b, command)
          IN  /\ T!ContainsHold(motion.q, width)
              /\ tracker' = [tracker EXCEPT !.state = IF runs THEN @ ELSE "stopped"]
              /\ motion' \in
                   IF runs THEN {T!After(b, motion.p, motion.v, motion.q, width, input + d) :
                                   input \in T!Delivered(b, command), d \in {-b.disturbance, b.disturbance}}
                   ELSE {motion}
    BY DEF T!Hold
  <1>. DEFINE command == T!Command(b, law, motion.q, width, sample.p, sample.v)
              runs == T!Accepted(b, law, sample) /\ T!WithinLimits(b, command)
  <1>. PICK p \in Int : p = motion.p
    BY <1>1
  <1>. PICK v \in Int : v = motion.v
    BY <1>1
  <1>. PICK since \in Nat : since = motion.q
    BY <1>1
  <1>3. sample.p \in Int /\ sample.v \in Int /\ SampledNear(b, p, v, sample.p, sample.v)
    BY <1>1, SampleNear
  <1>4. b.hold \in Nat /\ width \in Nat /\ width <= b.hold
    BY BoundsAre
  <1>5. since + width <= TrackingScope /\ since <= TrackingScope
    BY <1>2, <1>4, ScopeIs DEF T!ContainsHold
  <1>6. Within(p, b.omega) /\ Within(b.L * v + p, b.L * b.phi)
    BY <1>1, InSetIs
  <1>7. CASE runs
    <2>1. tracker' = tracker
      BY <1>1, <1>2, <1>7
    <2>2. PICK input \in T!Delivered(b, command), d \in {-b.disturbance, b.disturbance} :
            motion' = T!After(b, p, v, since, width, input + d)
      BY <1>2, <1>7
    <2>3. PICK kap \in Nat \ {0}, vel \in Nat, span \in Nat, frc \in Nat, del \in Nat :
            Promised(b, law, kap, vel, span, frc, del)
      BY <1>1, AdmittedPromises
    <2>4. input \in T!Delivered(b, T!Command(b, law, since, width, sample.p, sample.v))
      BY <2>2
    <2>5. Held(b, law, kap, vel, span, frc, del, p, v, sample.p, sample.v, since, width, input, d)
      BY ONLY <1>3, <1>4, <1>6, <2>3, <2>4, b \in TrackingSpecs, law \in {"start", "midpoint", "refuge"}, p \in Int, v \in Int,
              since \in Nat, input \in T!Delivered(b, command), d \in {-b.disturbance, b.disturbance},
              kap \in Nat \ {0}, vel \in Nat, span \in Nat, frc \in Nat, del \in Nat, Zenon DEF Held
    <2>6. LET after == T!After(b, p, v, since, width, input + d)
          IN  /\ after \in [p : Int, v : Int, q : Nat] /\ after.q = since + width
              /\ Within(after.p, b.omega) /\ Within(b.L * after.v + after.p, b.L * b.phi)
      BY ONLY <2>5, HeldStays
    <2>7. /\ motion' \in [p : Int, v : Int, q : Nat] /\ motion'.q = since + width
          /\ Within(motion'.p, b.omega) /\ Within(b.L * motion'.v + motion'.p, b.L * b.phi)
      BY ONLY <2>2, <2>6, Zenon
    <2>8. motion'.p \in Int /\ motion'.v \in Int
      BY <2>7
    <2>9. T!InSet(b, motion'.p, motion'.v)
      BY <2>7, <2>8, InSetIs
    <2>10. tracker'.spec = b /\ tracker'.law = law /\ tracker'.state = "tracking"
      BY <2>1, <1>1
    <2>. QED
      BY <1>1, <1>5, <2>1, <2>7, <2>9, <2>10 DEF TrackingInv
  <1>8. CASE ~runs
    <2>1. motion' = motion
      BY <1>2, <1>8
    <2>2. /\ tracker' \in [spec : TrackingSpecs, law : {"start", "midpoint", "refuge"},
                           state : {"built", "tracking", "refused", "stopped"}]
          /\ tracker'.spec = b /\ tracker'.law = law /\ tracker'.state = "stopped"
      BY <1>1, <1>2, <1>8
    <2>3. law # "refuge"
      <3>. SUFFICES ASSUME law = "refuge" PROVE FALSE
        OBVIOUS
      <3>1. T!RefugeAdmits(b) /\ T!InSet(b, p, v)
        BY <1>1 DEF T!Admits
      <3>2. T!WithinLimits(b, T!Command(b, "refuge", since, width, sample.p, sample.v))
        BY <1>3, <1>4, <1>5, <3>1, RefugeCommands
      <3>3. sample \in [p : Int, v : Int]
        BY <1>3, <1>1 DEF T!Samples
      <3>4. T!Consistent(b, sample)
        BY <1>3, <3>1, <3>3, RefugeAccepts
      <3>. QED
        BY <1>8, <3>2, <3>4 DEF T!Accepted
    <2>. QED
      BY <1>1, <2>1, <2>2, <2>3 DEF TrackingInv
  <1>. QED
    BY <1>7, <1>8

LEMMA TrackingKept ==
  ASSUME TrackingInv, [T!TrackingNext]_sampled
  PROVE  TrackingInv'
  <1>1. CASE T!TrackingNext
    BY <1>1, AdmitKeeps, HoldKeepsTheSet DEF T!TrackingNext
  <1>2. CASE UNCHANGED sampled
    BY <1>2 DEF sampled, TrackingInv
  <1>. QED
    BY <1>1, <1>2

\* Wherever the inequalities admit a set, the actual state is in it at every sample
\* until the scope ends, through the whole of every hold that the law answered an
\* erroneous sample with; and a refuge that was entered is never without its next
\* command.  For every gain, hold, set and error that the inequalities relate.
THEOREM AdmittedSetsHold == GuidanceSpec => []AdmittedSetsAreInvariant
  <1> DEFINE I == part = "tracking" => TrackingInv
  <1>1. GuidanceInit => I
    <2>. SUFFICES ASSUME GuidanceInit, part = "tracking" PROVE TrackingInv
      OBVIOUS
    <2>1. T!TrackingInit
      BY DEF GuidanceInit
    <2>2. /\ tracker \in [spec : TrackingSpecs, law : {"start", "midpoint", "refuge"},
                          state : {"built", "tracking", "refused", "stopped"}]
          /\ tracker.state = "built"
      BY <2>1, ScopeIs DEF T!TrackingInit
    <2>. PICK b \in TrackingSpecs : b = tracker.spec
      BY <2>2
    <2>3. PICK since \in T!Corners(b) : motion = [p |-> since.p, v |-> since.v, q |-> 0]
      BY <2>1 DEF T!TrackingInit
    <2>4. PICK p \in {-(b.omega - b.np), 0, b.omega - b.np}, side \in {-1, 1} :
            since = [p |-> p, v |-> -((p - side * (b.L * (b.phi - b.nv) - b.np)) \div b.L)]
      BY <2>3 DEF T!Corners
    <2>5. b.L \in Nat \ {0} /\ b.phi \in Nat /\ b.nv \in Nat /\ b.np \in Nat /\ b.omega \in Nat
      BY BoundsAre
    <2>6. p \in Int /\ side \in Int
      BY <2>5
    <2>7. b.L * (b.phi - b.nv) \in Int
      BY <2>5, ProductIs
    <2>. PICK far \in Int : far = b.L * (b.phi - b.nv) - b.np
      BY <2>5, <2>7
    <2>8. p - side * far \in Int
      BY <2>6, ProductIs
    <2>9. (p - side * far) \div b.L \in Int
      BY <2>5, <2>8, IntQuotient
    <2>10. since.p \in Int /\ since.v \in Int
      BY <2>4, <2>6, <2>9
    <2>11. motion \in [p : Int, v : Int, q : Nat] /\ motion.q = 0
      BY <2>3, <2>10
    <2>. QED
      BY <2>2, <2>11, ScopeIs DEF TrackingInv
  <1>2. I /\ [GuidanceNext]_<<part, holds, orbital, sampled, continuation, geometry, deployment, attitude>> => I'
    <2>. SUFFICES ASSUME I, [GuidanceNext]_<<part, holds, orbital, sampled, continuation, geometry, deployment, attitude>>,
                         part' = "tracking"
                  PROVE  TrackingInv'
      OBVIOUS
    <2>1. part = "tracking" /\ [T!TrackingNext]_sampled
      BY DEF GuidanceNext, ProveHolds, ProveOrbitalHolds, TrackSamples, ContinueOnBackup, SeparateBodies,
             Deploy, TrackAttitudes
    <2>. QED
      BY <2>1, TrackingKept
  <1>3. I => AdmittedSetsAreInvariant
    BY DEF AdmittedSetsAreInvariant, T!AdmittedSetsAreInvariant, T!EnteredRefugesKeepCommanding, TrackingInv
  <1>. QED
    BY <1>1, <1>2, <1>3, PTL DEF GuidanceSpec
=============================================================================
