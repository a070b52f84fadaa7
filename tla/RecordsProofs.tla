---------------------------- MODULE RecordsProofs ----------------------------
(***************************************************************************)
(* Proofs about the mission loop and the records it leaves, for every      *)
(* budget, horizon, dwell, fleet and archive: the fixed deadline, the      *)
(* finality of a miss and the timing of attempts (MissionRunner); the      *)
(* archive that is never behind the motion (ProofArchive); the study arm   *)
(* that reports what is on disk (StudyArm); the success and the accepted   *)
(* deadline of the historical approach, over any chain of saved, resumed   *)
(* and extended runs (ApproachMission).                                    *)
(***************************************************************************)
EXTENDS MCRecords, SequenceTheorems, FiniteSetTheorems, TLAPS


\* Program points between the motion and the end of the update.
AfterMotion == {"record", "terminal", "checkpoint"}

\* The anchor lies before the endpoint about to be judged.
AnchorIsPast ==
  absolute_deadline_q # None =>
    /\ phase = "docking"
    /\ absolute_deadline_q - (Horizon - 1) <= q
    /\ step \in AfterMotion => absolute_deadline_q - (Horizon - 1) < q

\* A miss leaves only the way out.
MissStops ==
  arrival_deadline_missed =>
    step \in {"checkpoint", "finished", "escaped"} /\ ~valid /\ ~completed

\* Attempts are counted with the loop index, and once more at the end.
AttemptsCounted ==
  /\ step \notin {"finished", "escaped"} => attempts = update
  /\ EveryAttemptTimed

\* The inductive invariant.
Inv == TypeOK /\ AnchorIsPast /\ EntryFollowsAnchor /\ MissStops
       /\ TailEndsRun /\ AttemptsCounted

-----------------------------------------------------------------------------

LEMMA InitInv == Init => Inv
<1> SUFFICES ASSUME Init PROVE Inv
  OBVIOUS
<1> USE RunnerAssumption DEF Init
<1>1. TypeOK
  <2>1. 0 \in 0..(MaxUpdates - 1) /\ 0 \in Nat
    OBVIOUS
  <2>2. arrival_events \in Seq(Events) /\ terminal_records \in Seq(Rows)
    OBVIOUS
  <2> QED
    BY <2>1, <2>2 DEF TypeOK
<1>2. AnchorIsPast /\ EntryFollowsAnchor /\ MissStops /\ TailEndsRun /\ AttemptsCounted
  BY DEF AnchorIsPast, EntryFollowsAnchor, MissStops, TailEndsRun, AttemptsCounted,
         EveryAttemptTimed
<1> QED
  BY <1>1, <1>2 DEF Inv

\* What a recorded failure does to the verdict.
LEMMA RecordFailureTypes ==
  ASSUME TypeOK,
         NEW why \in {"NAVIGATION_RECOVERY_REFUSED", "INITIAL_REFUGE_REFUSED", "EXECUTION_REFUSED"},
         RecordFailure(why)
  PROVE  /\ failure_events' \subseteq {"NAVIGATION_RECOVERY_REFUSED", "INITIAL_REFUGE_REFUSED",
                                       "EXECUTION_REFUSED", "ARRIVAL_DEADLINE_MISSED"}
         /\ valid' \in BOOLEAN /\ completed' \in BOOLEAN /\ attempts' \in Nat
         /\ step' = "finished"
<1>1. failure_events' \subseteq {"NAVIGATION_RECOVERY_REFUSED", "INITIAL_REFUGE_REFUSED",
                                "EXECUTION_REFUSED", "ARRIVAL_DEADLINE_MISSED"}
  BY DEF RecordFailure, TypeOK
<1>2. valid' \in BOOLEAN /\ completed' \in BOOLEAN /\ step' = "finished"
  BY DEF RecordFailure, TypeOK
<1>3. attempts' \in Nat
  BY DEF RecordFailure, TypeOK
<1> QED
  BY <1>1, <1>2, <1>3

\* Recovery, the refuge and a refused execution touch the outcome only.
LEMMA RecoverNavigationKeeps ==
  ASSUME Inv, RecoverNavigation PROVE Inv'
<1> USE RunnerAssumption
<1>1. TypeOK'
  <2>1. CASE RecordFailure("NAVIGATION_RECOVERY_REFUSED") /\ UNCHANGED status
    BY <2>1, RecordFailureTypes DEF Inv, TypeOK, RecoverNavigation, arrival
  <2>2. CASE status' = "VALID" /\ step' = "phase" /\ UNCHANGED <<verdict, attempts>>
    BY <2>2 DEF Inv, TypeOK, RecoverNavigation, arrival, verdict
  <2> QED
    BY <2>1, <2>2 DEF RecoverNavigation
<1>2. AnchorIsPast' /\ EntryFollowsAnchor' /\ MissStops' /\ TailEndsRun'
  BY DEF Inv, TypeOK, AnchorIsPast, EntryFollowsAnchor, MissStops, TailEndsRun, AfterMotion,
         RecoverNavigation, RecordFailure, arrival, verdict
<1>3. AttemptsCounted'
  BY DEF Inv, TypeOK, AttemptsCounted, EveryAttemptTimed, RecoverNavigation, RecordFailure,
         arrival, verdict
<1> QED
  BY <1>1, <1>2, <1>3 DEF Inv

LEMMA SelectPhaseKeeps ==
  ASSUME Inv, SelectPhase PROVE Inv'
<1> USE RunnerAssumption
<1>1. PICK near \in BOOLEAN :
        IF Anchors(near)
        THEN /\ absolute_deadline_q' = q + (Horizon - 1)
             /\ arrival_events' = Append(arrival_events, [status |-> "ANCHORED", at |-> update])
        ELSE UNCHANGED <<absolute_deadline_q, arrival_events>>
  BY DEF SelectPhase
<1>2. absolute_deadline_q' \in Nat \cup {None}
  BY <1>1 DEF Inv, TypeOK
<1>3. arrival_events' \in Seq(Events)
  <2>1. [status |-> "ANCHORED", at |-> update] \in Events
    BY DEF Inv, TypeOK, Events
  <2>2. Append(arrival_events, [status |-> "ANCHORED", at |-> update]) \in Seq(Events)
    BY <2>1 DEF Inv, TypeOK
  <2>3. arrival_events \in Seq(Events)
    BY DEF Inv, TypeOK
  <2> QED
    BY <1>1, <2>2, <2>3
<1>4. TypeOK'
  BY <1>2, <1>3 DEF Inv, TypeOK, SelectPhase, verdict
<1>5. AnchorIsPast'
  BY <1>1 DEF Inv, TypeOK, AnchorIsPast, AfterMotion, SelectPhase, Anchors
<1>6. EntryFollowsAnchor'
  BY <1>1 DEF Inv, TypeOK, EntryFollowsAnchor, SelectPhase, Anchors
<1>7. MissStops' /\ TailEndsRun' /\ AttemptsCounted'
  BY DEF Inv, TypeOK, MissStops, TailEndsRun, AttemptsCounted, EveryAttemptTimed,
         SelectPhase, verdict
<1> QED
  BY <1>4, <1>5, <1>6, <1>7 DEF Inv

LEMMA RefugeKeeps ==
  ASSUME Inv, Refuge PROVE Inv'
<1> USE RunnerAssumption
<1>1. TypeOK'
  <2>1. CASE RecordFailure("INITIAL_REFUGE_REFUSED") /\ UNCHANGED runtime
    BY <2>1, RecordFailureTypes DEF Inv, TypeOK, Refuge, arrival
  <2>2. CASE runtime' = TRUE /\ step' = "advance" /\ UNCHANGED <<verdict, attempts>>
    BY <2>2 DEF Inv, TypeOK, Refuge, arrival, verdict
  <2> QED
    BY <2>1, <2>2 DEF Refuge
<1>2. AnchorIsPast' /\ EntryFollowsAnchor' /\ MissStops' /\ TailEndsRun'
  BY DEF Inv, TypeOK, AnchorIsPast, EntryFollowsAnchor, MissStops, TailEndsRun, AfterMotion,
         Refuge, RecordFailure, arrival, verdict
<1>3. AttemptsCounted'
  BY DEF Inv, TypeOK, AttemptsCounted, EveryAttemptTimed, Refuge, RecordFailure, arrival, verdict
<1> QED
  BY <1>1, <1>2, <1>3 DEF Inv

LEMMA AdvanceKeeps ==
  ASSUME Inv, Advance PROVE Inv'
<1> USE RunnerAssumption
<1>1. TypeOK'
  BY DEF Inv, TypeOK, Advance, arrival, verdict
<1>2. AnchorIsPast'
  BY DEF Inv, TypeOK, AnchorIsPast, AfterMotion, Advance, arrival
<1>3. EntryFollowsAnchor'
  BY DEF Inv, EntryFollowsAnchor, Advance, arrival
<1>4. MissStops' /\ TailEndsRun' /\ AttemptsCounted'
  BY DEF Inv, TypeOK, MissStops, TailEndsRun, AttemptsCounted, EveryAttemptTimed,
         Advance, arrival, verdict
<1> QED
  BY <1>1, <1>2, <1>3, <1>4 DEF Inv

LEMMA ExecutionRefusedKeeps ==
  ASSUME Inv, ExecutionRefused PROVE Inv'
<1> USE RunnerAssumption
<1>1. TypeOK'
  <2>1. tail' \in Nat
    BY DEF Inv, TypeOK, ExecutionRefused
  <2> QED
    BY <2>1, RecordFailureTypes DEF Inv, TypeOK, ExecutionRefused, arrival
<1>2. AnchorIsPast' /\ EntryFollowsAnchor'
  BY DEF Inv, AnchorIsPast, EntryFollowsAnchor, AfterMotion, ExecutionRefused, RecordFailure, arrival
<1>3. MissStops' /\ TailEndsRun' /\ AttemptsCounted'
  BY DEF Inv, TypeOK, MissStops, TailEndsRun, AttemptsCounted, EveryAttemptTimed,
         ExecutionRefused, RecordFailure, arrival
<1> QED
  BY <1>1, <1>2, <1>3 DEF Inv

LEMMA RecordKeeps ==
  ASSUME Inv, Record PROVE Inv'
<1> USE RunnerAssumption
<1>0. valid' \in BOOLEAN
  BY DEF Inv, TypeOK, Record
<1>1. TypeOK'
  BY <1>0 DEF Inv, TypeOK, Record, arrival
<1>2. AnchorIsPast' /\ EntryFollowsAnchor'
  BY DEF Inv, AnchorIsPast, EntryFollowsAnchor, AfterMotion, Record, arrival
<1>3. MissStops' /\ TailEndsRun' /\ AttemptsCounted'
  BY DEF Inv, TypeOK, MissStops, TailEndsRun, AttemptsCounted, EveryAttemptTimed, Record, arrival
<1> QED
  BY <1>1, <1>2, <1>3 DEF Inv

\* An endpoint inside the terminal set is later than the anchor.
LEMMA TerminalKeeps ==
  ASSUME Inv, Terminal PROVE Inv'
<1> USE RunnerAssumption
<1> PICK within \in BOOLEAN :
      LET inside == MayAdmit /\ within
          entry == FirstEntry(inside)
          timely == TimelyEntry(entry)
          miss == AtDeadline /\ (~inside \/ ~timely)
          missed == arrival_deadline_missed \/ miss
          admitted == inside /\ ~missed
      IN
      /\ first_terminal_entry_q' = entry
      /\ arrival_deadline_missed' = missed
      /\ arrival_events' = arrival_events \o EntryEvents(inside) \o MissEvents(miss)
      /\ dwell' = NextDwell(admitted)
      /\ terminal_records' = Append(terminal_records, TerminalRecord(within, admitted))
      /\ completed' = Arrived(timely, missed, NextDwell(admitted))
      /\ valid' = (valid /\ ~missed)
      /\ failure_events' = failure_events \cup
                           (IF missed THEN {"ARRIVAL_DEADLINE_MISSED"} ELSE {})
  BY DEF Terminal
<1> DEFINE inside == MayAdmit /\ within
           entry == FirstEntry(inside)
           timely == TimelyEntry(entry)
           miss == AtDeadline /\ (~inside \/ ~timely)
           missed == arrival_deadline_missed \/ miss
           admitted == inside /\ ~missed
<1>0. inside \in BOOLEAN /\ missed \in BOOLEAN /\ miss \in BOOLEAN /\ admitted \in BOOLEAN
      /\ timely \in BOOLEAN
  BY DEF MayAdmit, AtDeadline, TimelyEntry, Inv, TypeOK
<1>1. /\ first_terminal_entry_q' = entry
      /\ arrival_deadline_missed' = missed
      /\ arrival_events' = arrival_events \o EntryEvents(inside) \o MissEvents(miss)
      /\ dwell' = NextDwell(admitted)
      /\ terminal_records' = Append(terminal_records, TerminalRecord(within, admitted))
      /\ completed' = Arrived(timely, missed, NextDwell(admitted))
      /\ valid' = (valid /\ ~missed)
      /\ failure_events' = failure_events \cup
                           (IF missed THEN {"ARRIVAL_DEADLINE_MISSED"} ELSE {})
  OBVIOUS
<1>2. /\ step = "terminal" /\ step' = "checkpoint"
      /\ UNCHANGED <<update, q, tail, status, phase, runtime, absolute_deadline_q, attempts>>
  BY DEF Terminal
<1>3. inside => absolute_deadline_q # None
  BY DEF MayAdmit
<1>4. admitted => inside /\ ~missed
  OBVIOUS
<1> HIDE DEF inside, timely, miss, missed, admitted
<1>5. entry \in Nat \cup {None}
  BY DEF FirstEntry, Inv, TypeOK
<1>6. NextDwell(admitted) \in Nat /\ (NextDwell(admitted) > 0 => inside)
  BY <1>4 DEF NextDwell, Inv, TypeOK
<1>7. inside => entry # None
  BY DEF FirstEntry, Inv, TypeOK
<1>8. entry # None => first_terminal_entry_q = entry \/ (inside /\ entry = q)
  BY DEF FirstEntry
<1>9. EntryEvents(inside) \in Seq(Events) /\ MissEvents(miss) \in Seq(Events)
  <2>1. [status |-> "WHOLE_SET_ENTRY", at |-> q] \in Events
        /\ [status |-> "DEADLINE_MISSED", at |-> q] \in Events
    BY DEF Inv, TypeOK, Events
  <2> QED
    BY <2>1 DEF EntryEvents, MissEvents
<1>10. TerminalRecord(within, admitted) \in Rows
  <2> DEFINE d == NextDwell(admitted)
             j == (phase = "docking" /\ absolute_deadline_q # None)
  <2>1. TerminalRecord(within, admitted) =
          [exact_q |-> q, arrival_deadline |-> absolute_deadline_q, phase |-> phase,
           status |-> status, within |-> within, admitted |-> admitted,
           judged |-> j, dwell |-> d]
    BY DEF TerminalRecord
  <2>2. d \in Nat /\ j \in BOOLEAN
    BY <1>6
  <2> HIDE DEF d, j
  <2> QED
    BY <1>0, <2>1, <2>2 DEF Rows, Inv, TypeOK
<1> HIDE DEF entry
<1>11. TypeOK'
  <2>0. arrival_events \in Seq(Events) /\ terminal_records \in Seq(Rows)
    BY DEF Inv, TypeOK
  <2>1. arrival_events' \in Seq(Events) /\ terminal_records' \in Seq(Rows)
    <3>1. arrival_events \o EntryEvents(inside) \in Seq(Events)
      BY <1>9, <2>0
    <3>2. arrival_events \o EntryEvents(inside) \o MissEvents(miss) \in Seq(Events)
      BY <1>9, <3>1
    <3>3. Append(terminal_records, TerminalRecord(within, admitted)) \in Seq(Rows)
      BY <1>10, <2>0
    <3> QED
      BY <1>1, <3>2, <3>3
  <2>2. first_terminal_entry_q' \in Nat \cup {None} /\ dwell' \in Nat
    BY <1>1, <1>5, <1>6
  <2>3. valid' \in BOOLEAN /\ arrival_deadline_missed' \in BOOLEAN
    BY <1>0, <1>1 DEF Inv, TypeOK
  <2>4. completed' \in BOOLEAN
    BY <1>1 DEF Arrived
  <2>5. failure_events' \subseteq {"NAVIGATION_RECOVERY_REFUSED", "INITIAL_REFUGE_REFUSED",
                                   "EXECUTION_REFUSED", "ARRIVAL_DEADLINE_MISSED"}
    BY <1>1 DEF Inv, TypeOK
  <2> QED
    BY <1>2, <2>1, <2>2, <2>3, <2>4, <2>5 DEF Inv, TypeOK
<1>12. AnchorIsPast'
  BY <1>2 DEF Inv, AnchorIsPast, AfterMotion
<1>13. EntryFollowsAnchor'
  <2> SUFFICES ASSUME first_terminal_entry_q' # None \/ dwell' > 0
               PROVE  /\ absolute_deadline_q # None /\ entry # None
                      /\ entry > absolute_deadline_q - (Horizon - 1)
    BY <1>1, <1>2 DEF EntryFollowsAnchor
  <2>1. entry # None
    BY <1>1, <1>6, <1>7
  <2>2. CASE inside /\ entry = q
    BY <1>2, <1>3, <2>1, <2>2 DEF Inv, TypeOK, AnchorIsPast, AfterMotion
  <2>3. CASE first_terminal_entry_q = entry
    BY <2>1, <2>3 DEF Inv, EntryFollowsAnchor
  <2> QED
    BY <1>8, <2>1, <2>2, <2>3
<1>14. MissStops'
  BY <1>1, <1>2 DEF MissStops, Arrived
<1>15. TailEndsRun' /\ AttemptsCounted'
  BY <1>2 DEF Inv, TailEndsRun, AttemptsCounted, EveryAttemptTimed
<1> QED
  BY <1>11, <1>12, <1>13, <1>14, <1>15 DEF Inv

LEMMA CheckpointKeeps ==
  ASSUME Inv, Checkpoint PROVE Inv'
<1> USE RunnerAssumption
<1>1. update' \in 0..(MaxUpdates - 1) /\ attempts' \in Nat
  BY DEF Inv, TypeOK, Checkpoint, Stops
<1>2. TypeOK'
  BY <1>1 DEF Inv, TypeOK, Checkpoint, arrival, verdict
<1>3. AnchorIsPast' /\ EntryFollowsAnchor'
  BY DEF Inv, TypeOK, AnchorIsPast, EntryFollowsAnchor, AfterMotion, Checkpoint, arrival
<1>4. MissStops' /\ TailEndsRun'
  BY DEF Inv, MissStops, TailEndsRun, Checkpoint, Stops, arrival, verdict
<1>5. AttemptsCounted'
  BY DEF Inv, TypeOK, AttemptsCounted, EveryAttemptTimed, Checkpoint
<1> QED
  BY <1>2, <1>3, <1>4, <1>5 DEF Inv

LEMMA EscapeKeeps ==
  ASSUME Inv, Escape PROVE Inv'
<1>1. TypeOK'
  BY DEF Inv, TypeOK, Escape, arrival, verdict
<1>2. AnchorIsPast' /\ EntryFollowsAnchor' /\ MissStops' /\ TailEndsRun' /\ AttemptsCounted'
  BY DEF Inv, AnchorIsPast, EntryFollowsAnchor, MissStops, TailEndsRun, AttemptsCounted,
         EveryAttemptTimed, AfterMotion, Escape, arrival, verdict
<1> QED
  BY <1>1, <1>2 DEF Inv

LEMMA StutterKeeps ==
  ASSUME Inv, UNCHANGED vars PROVE Inv'
  BY DEF Inv, TypeOK, AnchorIsPast, EntryFollowsAnchor, MissStops, TailEndsRun, AttemptsCounted,
         EveryAttemptTimed, vars, arrival, verdict

LEMMA NextInv == Inv /\ [Next]_vars => Inv'
<1> SUFFICES ASSUME Inv, [Next]_vars PROVE Inv'
  OBVIOUS
<1> QED
  BY RecoverNavigationKeeps, SelectPhaseKeeps, RefugeKeeps, AdvanceKeeps, ExecutionRefusedKeeps,
     RecordKeeps, TerminalKeeps, CheckpointKeeps, EscapeKeeps, StutterKeeps
  DEF Next, Finished

-----------------------------------------------------------------------------

\* The loop keeps its types within its update budget.
THEOREM TypeCorrect == Spec => []TypeOK
<1>1. Inv => TypeOK
  BY DEF Inv
<1> QED
  BY <1>1, InitInv, NextInv, PTL DEF Spec

\* No endpoint starts entry or dwell before the deadline is anchored, for
\* every horizon and dwell.
THEOREM EntryNeedsAnchor == Spec => []EntryFollowsAnchor
<1>1. Inv => EntryFollowsAnchor
  BY DEF Inv
<1> QED
  BY <1>1, InitInv, NextInv, PTL DEF Spec

\* Motion that was not sampled is the end of the run and is reported.
THEOREM TailIsTold == Spec => []TailEndsRun
<1>1. Inv => TailEndsRun
  BY DEF Inv
<1> QED
  BY <1>1, InitInv, NextInv, PTL DEF Spec

\* A finished run has timed each attempt once, whatever ended it.
THEOREM AttemptsAreTimed == Spec => []EveryAttemptTimed
<1>1. Inv => EveryAttemptTimed
  BY DEF Inv, AttemptsCounted
<1> QED
  BY <1>1, InitInv, NextInv, PTL DEF Spec

\* The action part of DeadlineNeverRecedes.
DeadlineKept ==
  absolute_deadline_q # None =>
    absolute_deadline_q' = absolute_deadline_q /\ phase' = "docking"

\* An anchored deadline is never moved and docking is never left.
THEOREM DeadlineIsFixed == Spec => DeadlineNeverRecedes
<1>1. Inv /\ [Next]_vars => [DeadlineKept]_vars
  <2> SUFFICES ASSUME Inv, Next, absolute_deadline_q # None
               PROVE  absolute_deadline_q' = absolute_deadline_q /\ phase' = "docking"
    BY DEF DeadlineKept
  <2>1. phase = "docking"
    BY DEF Inv, AnchorIsPast
  <2>2. CASE SelectPhase
    BY <2>1, <2>2 DEF SelectPhase, Anchors
  <2>3. CASE Terminal
    BY <2>1, <2>3 DEF Terminal
  <2>4. CASE RecoverNavigation \/ Refuge \/ Advance \/ ExecutionRefused
    BY <2>1, <2>4 DEF RecoverNavigation, Refuge, Advance, ExecutionRefused, RecordFailure, arrival
  <2>5. CASE Record \/ Checkpoint \/ Escape \/ Finished
    BY <2>1, <2>5 DEF Record, Checkpoint, Escape, Finished, arrival, vars
  <2> QED
    BY <2>2, <2>3, <2>4, <2>5 DEF Next
<1> QED
  BY <1>1, InitInv, NextInv, PTL DEF Spec, DeadlineNeverRecedes, DeadlineKept

\* The action part of MissIsFinal.
MissKept == arrival_deadline_missed => tail' = tail /\ ~completed'

LEMMA MissIsKept == Inv /\ [Next]_vars => [MissKept]_vars
<1> SUFFICES ASSUME Inv, Next, arrival_deadline_missed
             PROVE  tail' = tail /\ ~completed'
  BY DEF MissKept
<1>1. step \in {"checkpoint", "finished", "escaped"} /\ ~completed
  BY DEF Inv, MissStops
<1>2. Checkpoint \/ Escape \/ Finished
  BY <1>1 DEF Next, RecoverNavigation, SelectPhase, Refuge, Advance, ExecutionRefused,
              Record, Terminal
<1> QED
  BY <1>1, <1>2 DEF Checkpoint, Escape, Finished, vars, verdict

\* After a miss nothing moves and nothing completes.
THEOREM MissEndsMission == Spec => MissIsFinal
BY MissIsKept, InitInv, NextInv, PTL DEF Spec, MissIsFinal, MissKept

-----------------------------------------------------------------------------
(* The saved history.  What the loop has left behind is what the verifier  *)
(* of the completion phase derives, row by row, as long as no deadline is  *)
(* missed; the clocks say which endpoint the next row is about.            *)

BeforeMotion == {"recover", "phase", "refuge", "advance"}

Clocks ==
  /\ step \in BeforeMotion => q = update /\ Len(terminal_records) = q
  /\ step \in {"record", "terminal"} => q = update + 1 /\ Len(terminal_records) = update
  /\ step = "checkpoint" => q = update + 1 /\ Len(terminal_records) = q
  /\ step = "finished" => Len(terminal_records) = q

\* A row written before the deadline was anchored.
Unanchored(row) ==
  row.arrival_deadline = None /\ ~row.judged /\ ~row.admitted /\ row.dwell = 0

EntryPart(entry) ==
  IF entry = None THEN <<>> ELSE << [status |-> "WHOLE_SET_ENTRY", at |-> entry] >>

\* The history under a deadline anchored at endpoint u.
AnchoredAt(rows, events, u, deadline, entry) ==
  /\ deadline = u + (Horizon - 1)
  /\ events = << [status |-> "ANCHORED", at |-> u] >> \o EntryPart(entry)
  /\ \A i \in 1..Len(rows) : RowHolds(rows, u, deadline, i)
  /\ entry = None => \A k \in 1..Len(rows) : ~Admissible(rows, u, k)
  /\ entry # None => FirstAdmissible(rows, u, entry) /\ u < entry /\ entry <= deadline

HistoryHolds ==
  ~arrival_deadline_missed =>
    /\ \A i \in 1..Len(terminal_records) : terminal_records[i].exact_q = i
    /\ dwell = SavedDwell(terminal_records, Len(terminal_records))
    /\ absolute_deadline_q = None =>
         /\ arrival_events = <<>> /\ first_terminal_entry_q = None
         /\ \A i \in 1..Len(terminal_records) : Unanchored(terminal_records[i])
    /\ absolute_deadline_q # None =>
         \E u \in 0..Len(terminal_records) :
           AnchoredAt(terminal_records, arrival_events, u, absolute_deadline_q,
                      first_terminal_entry_q)

CompletedIsArrived ==
  /\ step \in BeforeMotion \cup {"record", "terminal"} => ~completed
  /\ ~arrival_deadline_missed =>
       (completed <=> first_terminal_entry_q # None /\ dwell >= Dwell)

History == Inv /\ Clocks /\ HistoryHolds /\ CompletedIsArrived

LEMMA InitHistory == Init => History
<1> SUFFICES ASSUME Init PROVE History
  OBVIOUS
<1>1. terminal_records = <<>> /\ Len(terminal_records) = 0
  BY DEF Init
<1>2. Clocks
  BY <1>1 DEF Init, Clocks, BeforeMotion
<1>3. HistoryHolds
  BY <1>1 DEF Init, HistoryHolds, SavedDwell
<1>4. CompletedIsArrived
  BY DEF Init, CompletedIsArrived
<1> QED
  BY <1>2, <1>3, <1>4, InitInv DEF History

\* The history is about the arrival variables only.
LEMMA HistoryFrame ==
  ASSUME HistoryHolds, UNCHANGED arrival PROVE HistoryHolds'
<1>1. /\ absolute_deadline_q' = absolute_deadline_q
      /\ first_terminal_entry_q' = first_terminal_entry_q
      /\ arrival_deadline_missed' = arrival_deadline_missed
      /\ arrival_events' = arrival_events /\ dwell' = dwell
      /\ terminal_records' = terminal_records
  BY DEF arrival
<1> QED
  BY <1>1 DEF HistoryHolds

\* Actions that leave the arrival alone.
LEMMA QuietKeeps ==
  ASSUME History, UNCHANGED arrival, Inv',
         RecoverNavigation \/ Refuge \/ Advance \/ ExecutionRefused \/ Record \/ Checkpoint
         \/ Escape \/ UNCHANGED vars
  PROVE  History'
<1> USE RunnerAssumption
<1>1. HistoryHolds'
  BY HistoryFrame DEF History
<1>2. Clocks'
  BY DEF History, Clocks, BeforeMotion, Inv, TypeOK, RecoverNavigation, Refuge, Advance,
         ExecutionRefused, Record, Checkpoint, Escape, RecordFailure, arrival, vars
<1>3. CompletedIsArrived'
  <2>1. completed' = completed
    BY DEF RecoverNavigation, Refuge, Advance, ExecutionRefused, Record, Checkpoint, Escape,
           RecordFailure, verdict, vars
  <2>2. step' \in BeforeMotion \cup {"record", "terminal"} =>
          step \in BeforeMotion \cup {"record", "terminal"} \/ ~completed
    BY DEF BeforeMotion, RecoverNavigation, Refuge, Advance, ExecutionRefused, Record, Checkpoint,
           Stops, Escape, RecordFailure, vars
  <2>3. /\ first_terminal_entry_q' = first_terminal_entry_q
        /\ arrival_deadline_missed' = arrival_deadline_missed /\ dwell' = dwell
    BY DEF arrival
  <2> QED
    BY <2>1, <2>2, <2>3 DEF History, CompletedIsArrived
<1> QED
  BY <1>1, <1>2, <1>3 DEF History

\* Rows before the anchor satisfy the verifier under any anchor behind them.
LEMMA UnanchoredRowsHold ==
  ASSUME NEW rows \in Seq(Rows),
         \A i \in 1..Len(rows) : rows[i].exact_q = i /\ Unanchored(rows[i])
  PROVE  \A i \in 1..Len(rows) :
           /\ RowHolds(rows, Len(rows), Len(rows) + (Horizon - 1), i)
           /\ ~Admissible(rows, Len(rows), i)
<1> USE RunnerAssumption
<1> SUFFICES ASSUME NEW i \in 1..Len(rows)
             PROVE  /\ RowHolds(rows, Len(rows), Len(rows) + (Horizon - 1), i)
                    /\ ~Admissible(rows, Len(rows), i)
  OBVIOUS
<1>1. Len(rows) \in Nat /\ ~(i > Len(rows))
  OBVIOUS
<1>2. ~Eligible(rows, Len(rows), i) /\ ~Admissible(rows, Len(rows), i)
  BY <1>1 DEF Eligible, Admissible
<1>3. Sample(rows, i - 1) = i - 1
  BY <1>1 DEF Sample
<1>4. NextSavedDwell(rows, Len(rows), i) = 0
  BY <1>2 DEF NextSavedDwell
<1>5. rows[i] \in Rows
  BY <1>1
<1>6. rows[i].exact_q = i /\ i > i - 1 /\ i < Len(rows) + (Horizon - 1)
  BY <1>1
<1>7. rows[i].judged = FALSE /\ rows[i].admitted = FALSE /\ rows[i].dwell = 0
      /\ rows[i].arrival_deadline = None
  BY <1>5 DEF Unanchored, Rows
<1>8. rows[i].judged = Eligible(rows, Len(rows), i)
      /\ rows[i].admitted = Admissible(rows, Len(rows), i)
  BY <1>2, <1>7, Zenon DEF Eligible, Admissible
<1> QED
  BY <1>1, <1>2, <1>3, <1>4, <1>6, <1>7, <1>8 DEF RowHolds

LEMMA SelectPhaseHistory ==
  ASSUME History, SelectPhase, Inv' PROVE History'
<1> USE RunnerAssumption
<1>1. Clocks' /\ CompletedIsArrived'
  BY DEF History, Clocks, CompletedIsArrived, BeforeMotion, SelectPhase, verdict
<1>2. UNCHANGED <<first_terminal_entry_q, arrival_deadline_missed, dwell, terminal_records>>
      /\ step = "phase"
  BY DEF SelectPhase
<1>3. CASE UNCHANGED <<absolute_deadline_q, arrival_events>>
  <2>1. UNCHANGED arrival
    BY <1>2, <1>3 DEF arrival
  <2> QED
    BY <1>1, <2>1, HistoryFrame DEF History
<1>4. CASE /\ absolute_deadline_q = None
           /\ absolute_deadline_q' = q + (Horizon - 1)
           /\ arrival_events' = Append(arrival_events, [status |-> "ANCHORED", at |-> update])
  <2> SUFFICES ASSUME ~arrival_deadline_missed PROVE HistoryHolds'
    BY <1>1, <1>2 DEF History, HistoryHolds
  <2> DEFINE n == Len(terminal_records)
  <2>1. terminal_records \in Seq(Rows) /\ n \in Nat /\ q = n /\ update = n
    BY <1>2 DEF History, Inv, TypeOK, Clocks, BeforeMotion
  <2>2. /\ \A i \in 1..n : terminal_records[i].exact_q = i /\ Unanchored(terminal_records[i])
        /\ arrival_events = <<>> /\ first_terminal_entry_q = None
        /\ dwell = SavedDwell(terminal_records, n)
    BY <1>4 DEF History, HistoryHolds
  <2>3. \A i \in 1..n : RowHolds(terminal_records, n, n + (Horizon - 1), i)
                        /\ ~Admissible(terminal_records, n, i)
    BY <2>1, <2>2, UnanchoredRowsHold
  <2>4. arrival_events' = << [status |-> "ANCHORED", at |-> n] >> \o EntryPart(None)
    BY <1>4, <2>1, <2>2 DEF EntryPart
  <2>5. absolute_deadline_q' = n + (Horizon - 1) /\ absolute_deadline_q' # None
    BY <1>4, <2>1
  <2>6. AnchoredAt(terminal_records, arrival_events', n, absolute_deadline_q', None)
    BY <2>3, <2>4, <2>5 DEF AnchoredAt
  <2>7. n \in 0..n
    BY <2>1
  <2> QED
    BY <1>2, <2>2, <2>5, <2>6, <2>7 DEF HistoryHolds
<1> QED
  BY <1>3, <1>4 DEF SelectPhase, Anchors

\* A new row leaves the verdicts on the earlier ones as they were.
LEMMA OldRows ==
  ASSUME NEW rows \in Seq(Rows), NEW row \in Rows, NEW u \in Nat, NEW deadline \in Nat,
         NEW i \in 1..Len(rows)
  PROVE  /\ Append(rows, row)[i] = rows[i]
         /\ Admissible(Append(rows, row), u, i) <=> Admissible(rows, u, i)
         /\ RowHolds(rows, u, deadline, i) => RowHolds(Append(rows, row), u, deadline, i)
<1> DEFINE longer == Append(rows, row)
<1>1. longer[i] = rows[i]
  OBVIOUS
<1>2. Eligible(longer, u, i) = Eligible(rows, u, i)
      /\ Admissible(longer, u, i) = Admissible(rows, u, i)
  BY <1>1 DEF Eligible, Admissible
<1>3. Sample(longer, i - 1) = Sample(rows, i - 1)
      /\ SavedDwell(longer, i - 1) = SavedDwell(rows, i - 1)
  <2>1. i - 1 = 0 \/ longer[i - 1] = rows[i - 1]
    OBVIOUS
  <2> QED
    BY <2>1 DEF Sample, SavedDwell
<1>4. NextSavedDwell(longer, u, i) = NextSavedDwell(rows, u, i)
  BY <1>2, <1>3 DEF NextSavedDwell
<1> HIDE DEF longer
<1>5. RowHolds(rows, u, deadline, i) => RowHolds(longer, u, deadline, i)
  BY <1>1, <1>2, <1>3, <1>4 DEF RowHolds
<1> QED
  BY <1>1, <1>2, <1>5 DEF longer

\* The first admissible endpoint of a history is that of every longer one.
LEMMA FirstStays ==
  ASSUME NEW rows \in Seq(Rows), NEW row \in Rows, NEW u \in Nat, NEW entry \in Nat,
         FirstAdmissible(rows, u, entry)
  PROVE  FirstAdmissible(Append(rows, row), u, entry)
<1> DEFINE longer == Append(rows, row)
<1>1. PICK i \in 1..Len(rows) :
        /\ rows[i].exact_q = entry /\ Admissible(rows, u, i)
        /\ \A k \in 1..(i - 1) : ~Admissible(rows, u, k)
  BY DEF FirstAdmissible
<1>2. i \in 1..Len(longer) /\ \A k \in 1..(i - 1) : k \in 1..Len(rows)
  OBVIOUS
<1>3. longer[i].exact_q = entry /\ Admissible(longer, u, i)
  BY <1>1, OldRows, 0 \in Nat
<1>4. \A k \in 1..(i - 1) : ~Admissible(longer, u, k)
  BY <1>1, <1>2, OldRows, 0 \in Nat
<1> QED
  BY <1>2, <1>3, <1>4 DEF FirstAdmissible

LEMMA PairJoined ==
  ASSUME NEW a, NEW b PROVE <<a>> \o <<b>> = <<a, b>>
<1> DEFINE S == {a, b}
<1>1. <<a>> \in Seq(S) /\ <<b>> \in Seq(S) /\ <<a, b>> \in Seq(S)
  OBVIOUS
<1>2. Append(<<a>>, b) = <<a>> \o <<b>>
  BY <1>1, AppendIsConcat
<1>3. Append(<<a>>, b) = <<a, b>>
  <2>1. Append(<<a>>, b) \in Seq(S) /\ Len(Append(<<a>>, b)) = 2 /\ Len(<<a, b>>) = 2
    BY <1>1
  <2>2. Append(<<a>>, b)[1] = a /\ Append(<<a>>, b)[2] = b
    BY <1>1
  <2>3. \A i \in 1..2 : Append(<<a>>, b)[i] = <<a, b>>[i]
    <3>1. \A i \in 1..2 : i = 1 \/ i = 2
      OBVIOUS
    <3> QED
      BY <2>2, <3>1
  <2> HIDE DEF S
  <2> QED
    BY <1>1, <2>1, <2>3, SeqEqual
<1> QED
  BY <1>2, <1>3

\* The endpoint that is judged without a miss extends the history.
LEMMA TerminalHistory ==
  ASSUME History, Terminal, Inv' PROVE History'
<1> USE RunnerAssumption
<1> PICK within \in BOOLEAN :
      LET inside == MayAdmit /\ within
          entry == FirstEntry(inside)
          timely == TimelyEntry(entry)
          miss == AtDeadline /\ (~inside \/ ~timely)
          missed == arrival_deadline_missed \/ miss
          admitted == inside /\ ~missed
      IN
      /\ first_terminal_entry_q' = entry
      /\ arrival_deadline_missed' = missed
      /\ arrival_events' = arrival_events \o EntryEvents(inside) \o MissEvents(miss)
      /\ dwell' = NextDwell(admitted)
      /\ terminal_records' = Append(terminal_records, TerminalRecord(within, admitted))
      /\ completed' = Arrived(timely, missed, NextDwell(admitted))
      /\ valid' = (valid /\ ~missed)
      /\ failure_events' = failure_events \cup
                           (IF missed THEN {"ARRIVAL_DEADLINE_MISSED"} ELSE {})
  BY DEF Terminal
<1> DEFINE inside == MayAdmit /\ within
           entry == FirstEntry(inside)
           timely == TimelyEntry(entry)
           miss == AtDeadline /\ (~inside \/ ~timely)
           missed == arrival_deadline_missed \/ miss
           admitted == inside /\ ~missed
           n == Len(terminal_records)
           row == TerminalRecord(within, admitted)
<1>1. /\ first_terminal_entry_q' = entry
      /\ arrival_deadline_missed' = missed
      /\ arrival_events' = arrival_events \o EntryEvents(inside) \o MissEvents(miss)
      /\ dwell' = NextDwell(admitted)
      /\ terminal_records' = Append(terminal_records, row)
      /\ completed' = Arrived(timely, missed, NextDwell(admitted))
  OBVIOUS
<1>2. /\ step = "terminal" /\ step' = "checkpoint"
      /\ q' = q /\ update' = update /\ absolute_deadline_q' = absolute_deadline_q
  BY DEF Terminal
<1>3. /\ terminal_records \in Seq(Rows) /\ n \in Nat /\ q = n + 1 /\ update = n /\ dwell \in Nat
      /\ absolute_deadline_q \in Nat \cup {None} /\ first_terminal_entry_q \in Nat \cup {None}
  BY <1>2 DEF History, Inv, TypeOK, Clocks
<1>4. terminal_records' \in Seq(Rows)
  BY DEF Inv, TypeOK
<1>5. Len(terminal_records') = n + 1 /\ terminal_records'[n + 1] = row
      /\ \A i \in 1..n : terminal_records'[i] = terminal_records[i]
  BY <1>1, <1>3
<1>6. row \in Rows
  BY <1>3, <1>4, <1>5
<1>7. Clocks'
  BY <1>2, <1>3, <1>5 DEF Clocks, BeforeMotion
<1>8. HistoryHolds'
  <2> SUFFICES ASSUME ~missed PROVE HistoryHolds'
    BY <1>1 DEF HistoryHolds
  <2>1. /\ ~arrival_deadline_missed /\ ~miss /\ (admitted <=> inside)
        /\ (AtDeadline => inside /\ timely)
    OBVIOUS
  <2>2. /\ row.exact_q = n + 1 /\ row.arrival_deadline = absolute_deadline_q
        /\ row.phase = phase /\ row.status = status /\ row.within = within
        /\ row.admitted = admitted
        /\ row.judged = (phase = "docking" /\ absolute_deadline_q # None)
        /\ row.dwell = NextDwell(admitted)
    BY <1>3 DEF TerminalRecord
  <2>3. inside => phase = "docking" /\ status = "VALID" /\ absolute_deadline_q # None /\ within
    BY DEF MayAdmit
  <2>4. arrival_events' = arrival_events \o EntryEvents(inside)
    <3>1. arrival_events \o EntryEvents(inside) \in Seq(Events)
      <4>1. [status |-> "WHOLE_SET_ENTRY", at |-> q] \in Events
        BY <1>3 DEF Events
      <4>2. EntryEvents(inside) \in Seq(Events)
        BY <4>1 DEF EntryEvents
      <4>3. arrival_events \in Seq(Events)
        BY DEF History, Inv, TypeOK
      <4> QED
        BY <4>2, <4>3
    <3>2. MissEvents(miss) = <<>>
      BY <2>1 DEF MissEvents
    <3> HIDE DEF inside, miss
    <3>3. arrival_events' = (arrival_events \o EntryEvents(inside)) \o <<>>
      BY <1>1, <3>2
    <3> QED
      BY <3>1, <3>3, ConcatEmptySeq
  <2> HIDE DEF inside, miss, missed, admitted, row, timely
  <2>5. \A i \in 1..(n + 1) : terminal_records'[i].exact_q = i
    BY <1>3, <1>5, <2>1, <2>2 DEF History, HistoryHolds
  <2>6. dwell' = SavedDwell(terminal_records', n + 1)
    BY <1>1, <1>3, <1>5, <2>2 DEF SavedDwell
  <2>7. dwell = SavedDwell(terminal_records, n)
    BY <2>1 DEF History, HistoryHolds
  <2>8. CASE absolute_deadline_q = None
    <3>1. ~inside /\ ~admitted
      BY <2>1, <2>3, <2>8
    <3>2. arrival_events' = <<>> /\ first_terminal_entry_q' = None
      BY <1>1, <2>1, <2>4, <2>8, <3>1 DEF History, HistoryHolds, EntryEvents, FirstEntry
    <3>3. Unanchored(row)
      BY <2>2, <2>8, <3>1 DEF Unanchored, NextDwell
    <3>4. \A i \in 1..(n + 1) : Unanchored(terminal_records'[i])
      BY <1>3, <1>5, <2>1, <2>8, <3>3 DEF History, HistoryHolds
    <3> QED
      BY <1>2, <1>5, <2>5, <2>6, <2>8, <3>2, <3>4 DEF HistoryHolds
  <2>9. CASE absolute_deadline_q # None
    <3>1. PICK u \in 0..n : AnchoredAt(terminal_records, arrival_events, u, absolute_deadline_q,
                                       first_terminal_entry_q)
      BY <2>1, <2>9 DEF History, HistoryHolds
    <3>2. absolute_deadline_q \in Nat /\ u \in Nat /\ u < n + 1 /\ phase = "docking"
      BY <1>3, <2>9 DEF History, Inv, AnchorIsPast
    <3>3. Eligible(terminal_records', u, n + 1)
          /\ (Admissible(terminal_records', u, n + 1) <=> inside)
      <4>1. inside <=> status = "VALID" /\ within
        BY <2>9, <3>2 DEF inside, MayAdmit
      <4> QED
        BY <1>5, <2>2, <3>2, <4>1 DEF Eligible, Admissible
    <3>4. RowHolds(terminal_records', u, absolute_deadline_q, n + 1)
      <4>1. Sample(terminal_records', n) = n
        BY <1>3, <1>5, <2>5 DEF Sample
      <4>2. SavedDwell(terminal_records', n) = dwell
        BY <1>3, <1>5, <2>7 DEF SavedDwell
      <4>3. row.judged = Eligible(terminal_records', u, n + 1)
            /\ row.admitted = Admissible(terminal_records', u, n + 1)
        <5>1. row.judged = TRUE
          BY <2>2, <2>9, <3>2
        <5>2. row.admitted \in BOOLEAN
          BY <1>6 DEF Rows, row
        <5>3. Eligible(terminal_records', u, n + 1) \in BOOLEAN
              /\ Admissible(terminal_records', u, n + 1) \in BOOLEAN
          BY DEF Eligible, Admissible
        <5>4. row.admitted = TRUE <=> inside
          BY <2>1, <2>2, <5>2
        <5> QED
          BY <3>3, <5>1, <5>2, <5>3, <5>4, Zenon
      <4>4. row.dwell = NextSavedDwell(terminal_records', u, n + 1)
        <5>1. (n + 1) - 1 = n
          BY <1>3
        <5> QED
          BY <2>1, <2>2, <3>2, <3>3, <4>2, <5>1 DEF NextDwell, NextSavedDwell
      <4>5. n + 1 < absolute_deadline_q \/ Admissible(terminal_records', u, n + 1)
        BY <1>3, <2>1, <2>9, <3>2, <3>3 DEF AtDeadline
      <4>6. (n + 1) - 1 = n /\ n + 1 > n /\ n + 1 > u
        BY <1>3, <3>2
      <4>7. terminal_records'[n + 1] = row
        BY <1>5
      <4> QED
        BY <2>2, <4>1, <4>3, <4>4, <4>5, <4>6, <4>7 DEF RowHolds
    <3>5. \A i \in 1..n :
            /\ Admissible(terminal_records', u, i) <=> Admissible(terminal_records, u, i)
            /\ RowHolds(terminal_records', u, absolute_deadline_q, i)
      <4> TAKE i \in 1..n
      <4>1. RowHolds(terminal_records, u, absolute_deadline_q, i)
        BY <3>1 DEF AnchoredAt
      <4> QED
        BY <1>1, <1>3, <1>6, <3>2, <4>1, OldRows
    <3>6. \A i \in 1..(n + 1) : RowHolds(terminal_records', u, absolute_deadline_q, i)
      <4>1. \A i \in 1..(n + 1) : i \in 1..n \/ i = n + 1
        BY <1>3
      <4> QED
        BY <3>4, <3>5, <4>1
    <3>7. absolute_deadline_q = u + (Horizon - 1)
          /\ arrival_events = << [status |-> "ANCHORED", at |-> u] >>
                              \o EntryPart(first_terminal_entry_q)
      BY <3>1 DEF AnchoredAt
    <3>8. CASE first_terminal_entry_q # None
      <4>1. entry = first_terminal_entry_q /\ entry \in Nat
        BY <1>3, <3>8 DEF FirstEntry
      <4>2. arrival_events' = arrival_events \o <<>>
        BY <2>4, <3>8 DEF EntryEvents
      <4>3. arrival_events' = arrival_events
        BY <4>2, ConcatEmptySeq DEF History, Inv, TypeOK
      <4>4. FirstAdmissible(terminal_records', u, entry) /\ u < entry
            /\ entry <= absolute_deadline_q
        BY <1>1, <1>3, <1>6, <3>1, <3>2, <3>8, <4>1, FirstStays DEF AnchoredAt
      <4>5. AnchoredAt(terminal_records', arrival_events', u, absolute_deadline_q, entry)
        BY <1>5, <3>6, <3>7, <3>8, <4>1, <4>3, <4>4 DEF AnchoredAt
      <4> QED
        BY <1>1, <1>2, <1>3, <1>5, <2>5, <2>6, <2>9, <3>2, <4>5 DEF HistoryHolds
    <3>9. CASE first_terminal_entry_q = None /\ inside
      <4>1. entry = q /\ q = n + 1 /\ entry # None
        BY <1>3, <3>9 DEF FirstEntry
      <4>2. arrival_events = << [status |-> "ANCHORED", at |-> u] >>
        BY <3>7, <3>9 DEF EntryPart
      <4>3. arrival_events' = << [status |-> "ANCHORED", at |-> u] >> \o EntryPart(entry)
        BY <2>4, <3>9, <4>1, <4>2 DEF EntryEvents, EntryPart
      <4>4. FirstAdmissible(terminal_records', u, entry)
        <5>1. n + 1 \in 1..Len(terminal_records') /\ \A k \in 1..((n + 1) - 1) : k \in 1..n
          BY <1>3, <1>5
        <5>2. terminal_records'[n + 1].exact_q = entry
              /\ Admissible(terminal_records', u, n + 1)
          BY <1>5, <2>2, <3>3, <3>9, <4>1
        <5>3. \A k \in 1..n : ~Admissible(terminal_records', u, k)
          BY <3>1, <3>5, <3>9 DEF AnchoredAt
        <5> QED
          BY <5>1, <5>2, <5>3 DEF FirstAdmissible
      <4>5. u < entry /\ entry <= absolute_deadline_q
        <5>1. u < entry
          BY <3>2, <4>1
        <5>2. CASE AtDeadline
          BY <2>1, <5>1, <5>2 DEF timely, TimelyEntry
        <5>3. CASE ~AtDeadline
          BY <1>3, <2>9, <3>2, <4>1, <5>3 DEF AtDeadline
        <5> QED
          BY <5>1, <5>2, <5>3
      <4> HIDE DEF entry
      <4>6. AnchoredAt(terminal_records', arrival_events', u, absolute_deadline_q, entry)
        BY <1>5, <3>6, <3>7, <4>1, <4>3, <4>4, <4>5 DEF AnchoredAt
      <4> QED
        BY <1>1, <1>2, <1>3, <1>5, <2>5, <2>6, <2>9, <3>2, <4>6 DEF HistoryHolds
    <3>10. CASE first_terminal_entry_q = None /\ ~inside
      <4>1. entry = None
        BY <3>10 DEF FirstEntry
      <4>2. arrival_events' = arrival_events \o <<>>
        BY <2>4, <3>10 DEF EntryEvents
      <4>3. arrival_events' = arrival_events
        BY <4>2, ConcatEmptySeq DEF History, Inv, TypeOK
      <4>4. \A k \in 1..(n + 1) : ~Admissible(terminal_records', u, k)
        <5>1. \A k \in 1..(n + 1) : k \in 1..n \/ k = n + 1
          BY <1>3
        <5> QED
          BY <3>1, <3>3, <3>5, <3>10, <5>1 DEF AnchoredAt
      <4>5. AnchoredAt(terminal_records', arrival_events', u, absolute_deadline_q, entry)
        BY <1>5, <3>6, <3>7, <3>10, <4>1, <4>3, <4>4 DEF AnchoredAt
      <4> QED
        BY <1>1, <1>2, <1>3, <1>5, <2>5, <2>6, <2>9, <3>2, <4>5 DEF HistoryHolds
    <3> QED
      BY <3>8, <3>9, <3>10
  <2> QED
    BY <2>8, <2>9
<1>9. CompletedIsArrived'
  <2> HIDE DEF inside, miss, missed, entry
  <2>1. step' \notin BeforeMotion \cup {"record", "terminal"}
    BY <1>2 DEF BeforeMotion
  <2> SUFFICES ASSUME ~missed PROVE completed' <=> entry # None /\ dwell' >= Dwell
    BY <1>1, <2>1 DEF CompletedIsArrived
  <2>2. entry # None => absolute_deadline_q # None /\ entry <= absolute_deadline_q
    <3> SUFFICES ASSUME entry # None
                 PROVE  absolute_deadline_q # None /\ entry <= absolute_deadline_q
      OBVIOUS
    <3>1. ~arrival_deadline_missed' /\ first_terminal_entry_q' # None
      BY <1>1
    <3>2. absolute_deadline_q' # None
      BY <1>8, <3>1 DEF HistoryHolds
    <3>3. PICK u \in 0..Len(terminal_records') :
            AnchoredAt(terminal_records', arrival_events', u, absolute_deadline_q',
                       first_terminal_entry_q')
      BY <1>8, <3>1, <3>2 DEF HistoryHolds
    <3> QED
      BY <1>1, <1>2, <3>1, <3>2, <3>3 DEF AnchoredAt
  <2> QED
    BY <1>1, <2>2 DEF Arrived, TimelyEntry
<1> QED
  BY <1>7, <1>8, <1>9 DEF History

LEMMA NextHistory == History /\ [Next]_vars => History'
<1> SUFFICES ASSUME History, [Next]_vars PROVE History'
  OBVIOUS
<1>1. Inv'
  BY NextInv DEF History
<1>2. CASE SelectPhase
  BY <1>1, <1>2, SelectPhaseHistory
<1>3. CASE Terminal
  BY <1>1, <1>3, TerminalHistory
<1>4. CASE RecoverNavigation \/ Refuge \/ Advance \/ ExecutionRefused \/ Record \/ Checkpoint
           \/ Escape \/ UNCHANGED vars
  <2>1. UNCHANGED arrival
    BY <1>4 DEF RecoverNavigation, Refuge, Advance, ExecutionRefused, Record, Checkpoint, Escape,
                vars
  <2> QED
    BY <1>1, <1>4, <2>1, QuietKeeps
<1> QED
  BY <1>2, <1>3, <1>4 DEF Next, Finished

\* The history of a finished run is accepted by the completion phase if and
\* only if the loop saw the arrival: the property the run checks.
LEMMA HistoryAgrees == History => CompletionAgrees
<1> USE RunnerAssumption
<1> SUFFICES ASSUME History, step = "finished"
             PROVE  (valid /\ completed => Verified) /\ (Verified => completed)
  BY DEF CompletionAgrees
<1>1. Verified => completed
  BY DEF Verified, ArrivalVerified, History, CompletedIsArrived
<1>2. ASSUME valid, completed PROVE Verified
  <2> DEFINE n == Len(terminal_records)
  <2>1. ~arrival_deadline_missed
    BY <1>2 DEF History, Inv, MissStops
  <2>2. first_terminal_entry_q # None /\ dwell >= Dwell
    BY <1>2, <2>1 DEF History, CompletedIsArrived
  <2>3. /\ terminal_records \in Seq(Rows) /\ n \in Nat /\ q = n /\ tail = n /\ dwell \in Nat
        /\ first_terminal_entry_q \in Nat
    BY <1>2, <2>2 DEF History, Inv, TypeOK, Clocks, TailEndsRun
  <2>4. /\ \A i \in 1..n : terminal_records[i].exact_q = i
        /\ dwell = SavedDwell(terminal_records, n)
        /\ absolute_deadline_q # None
    BY <2>1, <2>2 DEF History, HistoryHolds
  <2>5. n # 0 /\ terminal_records # <<>>
    BY <2>2, <2>3, <2>4 DEF SavedDwell
  <2>6. tail = Sample(terminal_records, n)
    BY <2>3, <2>4, <2>5 DEF Sample
  <2>7. PICK u \in 0..n : AnchoredAt(terminal_records, arrival_events, u, absolute_deadline_q,
                                     first_terminal_entry_q)
    BY <2>1, <2>4 DEF History, HistoryHolds
  <2>8. Sample(terminal_records, u) = u
    BY <2>3, <2>4 DEF Sample
  <2>9. EventsHold(arrival_events, terminal_records, u, absolute_deadline_q,
                   first_terminal_entry_q)
    <3> DEFINE anchored == [status |-> "ANCHORED", at |-> u]
               entered == [status |-> "WHOLE_SET_ENTRY", at |-> first_terminal_entry_q]
    <3>1. arrival_events = <<anchored>> \o <<entered>>
      BY <2>2, <2>7 DEF AnchoredAt, EntryPart
    <3>2. <<anchored>> \o <<entered>> = <<anchored, entered>>
      BY PairJoined
    <3> QED
      BY <2>2, <2>7, <2>8, <3>1, <3>2 DEF EventsHold, AnchoredAt
  <2>10. /\ \A i \in 1..n : RowHolds(terminal_records, u, absolute_deadline_q, i)
         /\ FirstAdmissible(terminal_records, u, first_terminal_entry_q)
    BY <2>2, <2>7 DEF AnchoredAt
  <2>11. u \in 0..(n - 1)
    <3>1. PICK i \in 1..n : Admissible(terminal_records, u, i)
      BY <2>10 DEF FirstAdmissible
    <3>2. i > u
      BY <3>1 DEF Admissible, Eligible
    <3> QED
      BY <2>3, <3>2
  <2> QED
    BY <2>1, <2>2, <2>4, <2>5, <2>6, <2>9, <2>10, <2>11 DEF Verified, ArrivalVerified
<1> QED
  BY <1>1, <1>2

\* For every budget, horizon and dwell, the runner and the completion phase
\* agree on which runs have arrived.
THEOREM ArrivalIsAgreed == Spec => []CompletionAgrees
  BY InitHistory, NextHistory, HistoryAgrees, PTL DEF Spec

-----------------------------------------------------------------------------
(***************************************************************************)
(* The proof archive                                                       *)
(***************************************************************************)

Entries == [kind : Archive!Kinds, hold : Nat]
Bytes == Archive!Lines \cup {TORN}

Appending == {"write", "flush", "sync", "acknowledge"}

\* The record of a failure is the one append that may follow a failed one.
Failure(entry) == entry.kind = "ASSUMPTION_VIOLATION"

ArchiveTypes ==
  /\ at \in Appending \cup {"open", "close", "hash", "closed", "unpublished"}
  /\ at \in Appending => call \in Entries
  /\ stream \in Seq(Bytes) /\ file \in Seq(Bytes)
  /\ synced \in Nat /\ synced <= Len(file) /\ framed \in BOOLEAN
  /\ entries \in Nat /\ holds \in Nat
  /\ rolling \in Seq(Entries) /\ Len(rolling) = entries
  /\ moved \in Nat /\ recorded \in Seq(Nat)
  /\ producer \in {"idle", "staging", "admitted", "moved", "completing", "completed", "failing"}
  /\ outcome \in {"running", "returned", "failed", "raised", "killed"}

\* The stage in which the producer waits tells what is appended, and a run that
\* returns has nothing under way.
StageFits ==
  /\ at \in Appending \cup {"open"} => outcome = "running"
  /\ outcome = "running" => at \in Appending \cup {"open"}
  /\ outcome = "returned" => at \in {"close", "hash", "closed"} /\ producer = "idle"
  /\ at = "open" => producer \in {"idle", "admitted", "moved", "completed"}
  /\ at \in Appending =>
       /\ call.kind = "WITNESS" => producer = "idle"
       /\ call.kind = "ADMITTED_BEFORE_MOTION" => producer = "staging" /\ call.hold = moved + 1
       /\ call.kind = "APPLIED_HOLD_COMPLETE" => producer = "completing" /\ call.hold = moved
       /\ Failure(call) => producer = "failing"

LineOf(rows, i) == [sequence |-> i - 1, kind |-> rows[i].kind, hold |-> rows[i].hold]

\* The file begins with the acknowledged lines.
Matches == \A i \in 1..entries : file[i] = LineOf(rolling, i)

\* What an append has brought to the stream and to the file.
StorageFits ==
  /\ entries <= synced
  /\ at = "open" \/ outcome = "returned" \/ (at = "write" /\ ~Failure(call)) =>
       Matches /\ Len(file) = entries /\ stream = <<>>
  /\ at = "flush" => stream # <<>>
  /\ at = "flush" /\ ~Failure(call) => Matches /\ Len(file) = entries /\ stream = <<Archive!Line>>
  /\ at \in {"sync", "acknowledge"} => entries < Len(file)
  /\ at \in {"sync", "acknowledge"} /\ ~Failure(call) =>
       Matches /\ Len(file) = entries + 1 /\ file[entries + 1] = Archive!Line /\ stream = <<>>
  /\ at = "acknowledge" => synced = Len(file)
  /\ at \in {"hash", "closed"} /\ outcome = "returned" => framed = TRUE

\* Until a failure is recorded the acknowledged lines hold none.
NoFailureYet ==
  outcome \in {"running", "returned"} => \A i \in 1..entries : ~Failure(rolling[i])

\* Staged witnesses and completions in the order of the motion: the witness of
\* hold n has rank 2 n - 1, its completion rank 2 n.
Rank(entry) == IF entry.kind = "ADMITTED_BEFORE_MOTION" THEN 2 * entry.hold - 1 ELSE 2 * entry.hold

Staged(rows) == {i \in 1..Len(rows) : Archive!Staging(rows[i])}

Told(rows, top) ==
  /\ \A i \in Staged(rows) : Rank(rows[i]) \in 1..top
  /\ \A r \in 1..top : \E i \in Staged(rows) : Rank(rows[i]) = r
  /\ \A i, j \in Staged(rows) : i < j => Rank(rows[i]) < Rank(rows[j])

\* How far the story is told at each stage of the producer.
ToldAsMoved(top) ==
  /\ top \in {2 * moved - 1, 2 * moved, 2 * moved + 1}
  /\ outcome \in {"running", "returned"} =>
       /\ producer \in {"idle", "staging", "completed"} => top = 2 * moved
       /\ producer = "admitted" => top = 2 * moved + 1
       /\ producer \in {"moved", "completing"} => top = 2 * moved - 1

Story == \E top \in Nat : Told(rolling, top) /\ ToldAsMoved(top)

\* The index of the recorder and the count of the archive.
CountsFit ==
  /\ Cardinality(Archive!Completions(rolling)) = holds
  /\ producer \in {"moved", "completing", "completed"} => moved > 0
  /\ outcome \in {"running", "returned"} =>
       /\ producer \in {"idle", "staging", "admitted"} => recorded = [n \in 1..moved |-> n]
       /\ producer \in {"moved", "completing", "completed"} =>
            recorded = [n \in 1..(moved - 1) |-> n]

\* What was published is what the archive still holds.
ManifestFits ==
  /\ at # "closed" => manifest = None
  /\ at = "closed" => manifest = Archive!Expected
  /\ reader \in {None, manifest}

ArchiveInv ==
  /\ ArchiveTypes /\ StageFits /\ StorageFits /\ Archive!AcknowledgedIsDurable
  /\ NoFailureYet /\ Story /\ CountsFit /\ ManifestFits

-----------------------------------------------------------------------------

LEMMA LineTypes ==
  ASSUME ArchiveTypes, at \in Appending
  PROVE  Archive!Line \in Archive!Lines /\ call \in Entries /\ call.kind \in Archive!Kinds
<1>1. call \in Entries
  BY DEF ArchiveTypes
<1>2. call.kind \in Archive!Kinds /\ call.hold \in Nat /\ entries \in Nat
  BY <1>1 DEF Entries, ArchiveTypes
<1> QED
  BY <1>1, <1>2 DEF Archive!Line, Archive!Lines

\* What an append that is given up leaves to the producer.
LEMMA GiveUpTypes ==
  ASSUME ArchiveTypes, StageFits, at \in Appending, Archive!GiveUp(call.kind)
  PROVE  /\ at' \in {"close", "write"} /\ (at' = "write" => call' \in Entries)
         /\ producer' \in {"idle", "failing"} /\ outcome' \in {"raised", "failed", "running"}
         /\ at' = "write" => outcome' = "running" /\ Failure(call') /\ producer' = "failing"
         /\ at' = "close" => outcome' # "running"
<1>1. call \in Entries /\ call.kind \in Archive!Kinds
  BY LineTypes
<1>2. CASE call.kind = "WITNESS"
  BY <1>2 DEF Archive!GiveUp, StageFits
<1>3. CASE call.kind = "ASSUMPTION_VIOLATION"
  BY <1>3 DEF Archive!GiveUp
<1>4. CASE call.kind \in {"ADMITTED_BEFORE_MOTION", "APPLIED_HOLD_COMPLETE"}
  <2>1. call' = [kind |-> "ASSUMPTION_VIOLATION", hold |-> moved] /\ at' = "write"
        /\ producer' = "failing" /\ outcome' = outcome
    BY <1>4 DEF Archive!GiveUp
  <2>2. call' \in Entries /\ Failure(call')
    BY <2>1 DEF Entries, Archive!Kinds, ArchiveTypes, Failure
  <2>3. outcome = "running"
    BY DEF StageFits
  <2> QED
    BY <2>1, <2>2, <2>3
<1> QED
  BY <1>1, <1>2, <1>3, <1>4 DEF Archive!Kinds

\* The producer's side of the types.
ProducerTypes ==
  /\ at \in Appending \cup {"open", "close", "hash", "closed", "unpublished"}
  /\ at \in Appending => call \in Entries
  /\ moved \in Nat /\ recorded \in Seq(Nat)
  /\ producer \in {"idle", "staging", "admitted", "moved", "completing", "completed", "failing"}
  /\ outcome \in {"running", "returned", "failed", "raised", "killed"}

LEMMA ProducerStep ==
  ASSUME ArchiveTypes, StageFits, Archive!Next
  PROVE  ProducerTypes' /\ StageFits'
<1> USE DEF Archive!counters, Archive!storage, Archive!published, Archive!producer
<1>1. CASE Archive!OfferWitness
  <2>1. call' = [kind |-> "WITNESS", hold |-> 0]
    BY <1>1 DEF Archive!OfferWitness, Archive!Offer
  <2>2. call' \in Entries
    BY <2>1 DEF Entries, Archive!Kinds
  <2> QED
    BY <1>1, <2>1, <2>2 DEF Archive!OfferWitness, Archive!Offer, ArchiveTypes, ProducerTypes, StageFits, Appending, Failure
<1>2. CASE Archive!Admit
  <2>1. call' = [kind |-> "ADMITTED_BEFORE_MOTION", hold |-> moved + 1]
    BY <1>2 DEF Archive!Admit, Archive!Offer
  <2>2. call' \in Entries
    BY <2>1 DEF Entries, Archive!Kinds, ArchiveTypes
  <2> QED
    BY <1>2, <2>1, <2>2 DEF Archive!Admit, Archive!Offer, ArchiveTypes, ProducerTypes, StageFits, Appending, Failure
<1>3. CASE Archive!Move
  BY <1>3 DEF Archive!Move, ArchiveTypes, ProducerTypes, StageFits, Appending
<1>4. CASE Archive!Complete
  <2>1. call' = [kind |-> "APPLIED_HOLD_COMPLETE", hold |-> moved]
    BY <1>4 DEF Archive!Complete, Archive!Offer
  <2>2. call' \in Entries
    BY <2>1 DEF Entries, Archive!Kinds, ArchiveTypes
  <2> QED
    BY <1>4, <2>1, <2>2 DEF Archive!Complete, Archive!Offer, ArchiveTypes, ProducerTypes, StageFits, Appending, Failure
<1>5. CASE Archive!RecordHold
  <2>1. recorded' \in Seq(Nat)
    BY <1>5 DEF Archive!RecordHold, ArchiveTypes
  <2> QED
    BY <1>5, <2>1 DEF Archive!RecordHold, ArchiveTypes, ProducerTypes, StageFits, Appending
<1>6. CASE Archive!HoldRaises
  <2>1. call' = [kind |-> "ASSUMPTION_VIOLATION", hold |-> moved]
    BY <1>6 DEF Archive!HoldRaises, Archive!Offer
  <2>2. call' \in Entries
    BY <2>1 DEF Entries, Archive!Kinds, ArchiveTypes
  <2> QED
    BY <1>6, <2>1, <2>2 DEF Archive!HoldRaises, Archive!Offer, ArchiveTypes, ProducerTypes, StageFits, Appending, Failure
<1>7. CASE Archive!RunReturns
  BY <1>7 DEF Archive!RunReturns, ArchiveTypes, ProducerTypes, StageFits, Appending
<1>8. CASE Archive!Write \/ Archive!Flush \/ Archive!Sync
  BY <1>8 DEF Archive!Write, Archive!Flush, Archive!Sync, ArchiveTypes, ProducerTypes, StageFits, Appending
<1>9. CASE Archive!Acknowledge
  <2>1. call.kind \in Archive!Kinds
    BY <1>9, LineTypes DEF Archive!Acknowledge, Appending
  <2>2. /\ call.kind = "WITNESS" => producer' = producer /\ outcome' = outcome
        /\ call.kind = "ADMITTED_BEFORE_MOTION" => producer' = "admitted" /\ outcome' = outcome
        /\ call.kind = "APPLIED_HOLD_COMPLETE" => producer' = "completed" /\ outcome' = outcome
        /\ call.kind = "ASSUMPTION_VIOLATION" => producer' = "idle" /\ outcome' = "failed"
    BY <1>9, <2>1 DEF Archive!Acknowledge, Archive!Proceed, Archive!Kinds
  <2>3. at = "acknowledge" /\ UNCHANGED <<moved, recorded>>
        /\ at' = IF call.kind = "ASSUMPTION_VIOLATION" THEN "close" ELSE "open"
    BY <1>9 DEF Archive!Acknowledge
  <2> QED
    BY <2>1, <2>2, <2>3 DEF Archive!Kinds, ArchiveTypes, ProducerTypes, StageFits, Appending
<1>10. CASE Archive!AppendRefused \/ Archive!AppendFails
  <2>1. at \in Appending /\ UNCHANGED <<moved, recorded>>
    BY <1>10 DEF Archive!AppendRefused, Archive!AppendFails, Appending
  <2>2. CASE Archive!GiveUp(call.kind)
    BY <2>1, <2>2, GiveUpTypes DEF ArchiveTypes, ProducerTypes, StageFits, Appending, Failure
  <2>3. CASE call.kind = "WITNESS" /\ at' = "open" /\ call' = None /\ UNCHANGED <<producer, outcome>>
    BY <2>1, <2>3 DEF ArchiveTypes, ProducerTypes, StageFits, Appending
  <2> QED
    BY <1>10, <2>2, <2>3 DEF Archive!AppendRefused, Archive!AppendFails
<1>11. CASE Archive!CloseStream \/ Archive!PublishManifest \/ Archive!ReturnSource
  BY <1>11 DEF Archive!CloseStream, Archive!PublishManifest, Archive!ReturnSource, ArchiveTypes, ProducerTypes, StageFits, Appending
<1>12. CASE Archive!CloseStreamFails \/ Archive!CloseFails \/ Archive!Kill
  BY <1>12 DEF Archive!CloseStreamFails, Archive!CloseFails, Archive!Kill, ArchiveTypes, ProducerTypes, StageFits, Appending
<1> QED
  BY <1>1, <1>2, <1>3, <1>4, <1>5, <1>6, <1>7, <1>8, <1>9, <1>10, <1>11, <1>12 DEF Archive!Next

\* The synced prefix of the file outlives every step, a crash included.
LEMMA SyncedStays ==
  ASSUME ArchiveTypes, Archive!Next
  PROVE  /\ file' \in Seq(Bytes) /\ stream' \in Seq(Bytes)
         /\ synced <= Len(file') /\ \A i \in 1..synced : file'[i] = file[i]
<1> USE DEF Archive!counters, Archive!storage, Archive!published, Archive!producer
<1> DEFINE Kept == synced <= Len(file') /\ \A i \in 1..synced : file'[i] = file[i]
<1>0. /\ file \in Seq(Bytes) /\ stream \in Seq(Bytes) /\ <<>> \in Seq(Bytes) /\ TORN \in Bytes
      /\ synced \in Nat /\ synced <= Len(file)
  BY DEF ArchiveTypes, Bytes
<1>1. PICK joined : joined = file \o stream
  OBVIOUS
<1>10. joined \in Seq(Bytes) /\ synced <= Len(joined) /\ \A i \in 1..synced : joined[i] = file[i]
  BY <1>0, <1>1, ConcatProperties
<1>2. ASSUME NEW n \in synced..Len(file), NEW t, t = SubSeq(file, 1, n)
      PROVE  /\ t \in Seq(Bytes) /\ Len(t) = n /\ \A i \in 1..synced : t[i] = file[i]
  BY <1>0, <1>2, SubSeqProperties
<1>3. ASSUME NEW s \in Seq(Bytes), NEW torn, torn = Append(s, TORN)
      PROVE  torn \in Seq(Bytes) /\ Len(torn) = Len(s) + 1 /\ \A i \in 1..Len(s) : torn[i] = s[i]
  BY <1>0, <1>3, AppendProperties
<1>5. CASE Archive!OfferWitness \/ Archive!Admit \/ Archive!Move \/ Archive!Complete
           \/ Archive!RecordHold \/ Archive!HoldRaises \/ Archive!RunReturns
           \/ Archive!Sync \/ Archive!Acknowledge \/ Archive!AppendRefused
           \/ Archive!PublishManifest \/ Archive!ReturnSource \/ Archive!CloseFails
  <2>1. file' = file /\ stream' = stream
    BY <1>5 DEF Archive!OfferWitness, Archive!Admit, Archive!Move, Archive!Complete, Archive!Offer,
       Archive!RecordHold, Archive!HoldRaises, Archive!RunReturns, Archive!Sync, Archive!Acknowledge,
       Archive!AppendRefused, Archive!PublishManifest, Archive!ReturnSource, Archive!CloseFails
  <2> QED
    BY <1>0, <2>1
<1>6. CASE Archive!Write
  <2>1. file' = file /\ stream' = Append(stream, Archive!Line)
    BY <1>6 DEF Archive!Write
  <2>2. Archive!Line \in Bytes
    BY <1>6, LineTypes DEF Archive!Write, Appending, Bytes
  <2> QED
    BY <1>0, <2>1, <2>2
<1>7. CASE Archive!Flush \/ Archive!CloseStream \/ Archive!CloseStreamFails
  <2>1. stream' = <<>> /\ file' \in {file, joined}
    BY <1>1, <1>7 DEF Archive!Flush, Archive!CloseStream, Archive!CloseStreamFails
  <2> QED
    BY <1>0, <1>10, <2>1
<1>8. CASE Archive!AppendFails
  <2>1. PICK glued, cut : glued = Append(stream, TORN) /\ cut = Append(file, TORN)
    OBVIOUS
  <2>2. stream' \in {stream, <<>>, glued} /\ file' \in {file, cut, joined}
    BY <1>1, <1>8, <2>1 DEF Archive!AppendFails
  <2>3. glued \in Seq(Bytes) /\ cut \in Seq(Bytes) /\ Len(cut) = Len(file) + 1
        /\ \A i \in 1..Len(file) : cut[i] = file[i]
    BY <1>0, <1>3, <2>1
  <2>4. file' \in Seq(Bytes) /\ stream' \in Seq(Bytes)
    BY <1>0, <1>10, <2>2, <2>3
  <2>5. Len(file) \in Nat
    BY <1>0
  <2>6. synced <= Len(cut) /\ \A i \in 1..synced : cut[i] = file[i]
    <3>1. synced \in Nat /\ synced <= Len(file)
      BY <1>0
    <3>2. Len(cut) = Len(file) + 1 /\ \A i \in 1..Len(file) : cut[i] = file[i]
      BY <2>3
    <3> QED
      BY <2>5, <3>1, <3>2
  <2>7. CASE file' = file
    BY <1>0, <2>4, <2>7
  <2>8. CASE file' = cut
    BY <2>4, <2>6, <2>8
  <2>9. CASE file' = joined
    BY <1>10, <2>4, <2>9
  <2> QED
    BY <2>2, <2>7, <2>8, <2>9
<1>9. CASE Archive!Kill
  <2>1. stream' = <<>>
    BY <1>9 DEF Archive!Kill
  <2>2. PICK n \in synced..Len(file), torn \in BOOLEAN :
          file' = IF torn /\ n < Len(file) THEN Append(SubSeq(file, 1, n), TORN) ELSE SubSeq(file, 1, n)
    BY <1>9 DEF Archive!Kill
  <2>3. PICK s : s = SubSeq(file, 1, n)
    OBVIOUS
  <2>4. s \in Seq(Bytes) /\ Len(s) = n /\ \A i \in 1..synced : s[i] = file[i]
    BY <1>2, <2>3
  <2>5. PICK cut : cut = Append(s, TORN)
    OBVIOUS
  <2>6. file' \in {s, cut}
    BY <2>2, <2>3, <2>5
  <2>7. cut \in Seq(Bytes) /\ Len(cut) = n + 1 /\ \A i \in 1..n : cut[i] = s[i]
    BY <1>3, <2>4, <2>5
  <2>8. n \in Nat /\ synced <= n
    BY <1>0
  <2>9. \A i \in 1..synced : cut[i] = file[i]
    BY <1>0, <2>4, <2>7, <2>8
  <2> QED
    BY <1>0, <2>1, <2>4, <2>6, <2>7, <2>8, <2>9
<1> QED
  BY <1>5, <1>6, <1>7, <1>8, <1>9 DEF Archive!Next

LEMMA ArchiveTypesStep ==
  ASSUME ArchiveTypes, StageFits, Archive!Next
  PROVE  ArchiveTypes'
<1> USE DEF Archive!counters, Archive!storage, Archive!published, Archive!producer
<1>1. ProducerTypes'
  BY ProducerStep
<1>2. file' \in Seq(Bytes) /\ stream' \in Seq(Bytes) /\ synced <= Len(file')
  BY SyncedStays
<1>3. synced' \in Nat /\ synced' <= Len(file') /\ framed' \in BOOLEAN
  <2>1. synced' = synced \/ synced' = Len(file')
    BY DEF Archive!Next, Archive!OfferWitness, Archive!Admit, Archive!Move, Archive!Complete, Archive!Offer,
       Archive!RecordHold, Archive!HoldRaises, Archive!RunReturns, Archive!Sync, Archive!Acknowledge,
       Archive!AppendRefused, Archive!PublishManifest, Archive!ReturnSource, Archive!CloseFails,
       Archive!Write, Archive!Flush, Archive!CloseStream, Archive!CloseStreamFails, Archive!AppendFails,
       Archive!Kill
  <2>2. framed' = framed \/ framed' \in BOOLEAN
    BY DEF Archive!Next, Archive!OfferWitness, Archive!Admit, Archive!Move, Archive!Complete, Archive!Offer,
       Archive!RecordHold, Archive!HoldRaises, Archive!RunReturns, Archive!Sync, Archive!Acknowledge,
       Archive!AppendRefused, Archive!PublishManifest, Archive!ReturnSource, Archive!CloseFails,
       Archive!Write, Archive!Flush, Archive!CloseStream, Archive!CloseStreamFails, Archive!AppendFails,
       Archive!Kill
  <2>3. Len(file') \in Nat
    BY <1>2
  <2> QED
    BY <1>2, <2>1, <2>2, <2>3 DEF ArchiveTypes
<1>4. entries' \in Nat /\ holds' \in Nat /\ rolling' \in Seq(Entries) /\ Len(rolling') = entries'
  <2>1. CASE Archive!Acknowledge
    <3>1. call \in Entries
      BY <2>1, LineTypes DEF Archive!Acknowledge, Appending
    <3>2. entries' = entries + 1 /\ holds' \in {holds, holds + 1} /\ rolling' = Append(rolling, call)
      BY <2>1 DEF Archive!Acknowledge, Archive!Count
    <3> QED
      BY <3>1, <3>2 DEF ArchiveTypes
  <2>2. CASE UNCHANGED <<entries, holds, rolling>>
    BY <2>2 DEF ArchiveTypes
  <2> QED
    BY <2>1, <2>2 DEF Archive!Next, Archive!OfferWitness, Archive!Admit, Archive!Move, Archive!Complete, Archive!Offer,
       Archive!RecordHold, Archive!HoldRaises, Archive!RunReturns, Archive!Sync,
       Archive!AppendRefused, Archive!PublishManifest, Archive!ReturnSource, Archive!CloseFails,
       Archive!Write, Archive!Flush, Archive!CloseStream, Archive!CloseStreamFails, Archive!AppendFails,
       Archive!Kill
<1> QED
  BY <1>1, <1>2, <1>3, <1>4 DEF ArchiveTypes, ProducerTypes

\* Only an acknowledgement counts.
LEMMA OnlyAcknowledgeCounts ==
  ASSUME Archive!Next, ~Archive!Acknowledge
  PROVE  UNCHANGED <<entries, holds, rolling>>
  BY DEF Archive!Next, Archive!OfferWitness, Archive!Admit, Archive!Move, Archive!Complete, Archive!Offer,
       Archive!RecordHold, Archive!HoldRaises, Archive!RunReturns, Archive!Sync,
       Archive!AppendRefused, Archive!PublishManifest, Archive!ReturnSource, Archive!CloseFails,
       Archive!Write, Archive!Flush, Archive!CloseStream, Archive!CloseStreamFails, Archive!AppendFails,
       Archive!Kill, Archive!counters, Archive!storage, Archive!published, Archive!producer

\* The line that is being acknowledged.
LEMMA AcknowledgedLine ==
  ASSUME ArchiveTypes, Archive!Acknowledge
  PROVE  /\ call \in Entries
         /\ entries' = entries + 1 /\ entries \in Nat
         /\ rolling' \in Seq(Entries) /\ Len(rolling') = entries + 1
         /\ rolling'[entries + 1] = call
         /\ \A i \in 1..entries : rolling'[i] = rolling[i]
         /\ UNCHANGED <<stream, file, synced, framed>>
<1>1. call \in Entries
  BY LineTypes DEF Archive!Acknowledge, Appending
<1>2. entries' = entries + 1 /\ rolling' = Append(rolling, call) /\ UNCHANGED <<stream, file, synced, framed>>
  BY DEF Archive!Acknowledge, Archive!Count, Archive!storage
<1>3. rolling \in Seq(Entries) /\ Len(rolling) = entries /\ entries \in Nat
  BY DEF ArchiveTypes
<1> QED
  BY <1>1, <1>2, <1>3, AppendProperties

LEMMA MatchesStays ==
  ASSUME ArchiveTypes, entries <= synced, Archive!Next, UNCHANGED <<entries, rolling>>, Matches
  PROVE  Matches'
<1>1. \A i \in 1..synced : file'[i] = file[i]
  BY SyncedStays
<1>2. entries \in Nat /\ synced \in Nat
  BY DEF ArchiveTypes
<1>3. \A i \in 1..entries : i \in 1..synced
  BY <1>2
<1> QED
  BY <1>1, <1>3 DEF Matches, LineOf

LEMMA StorageStep ==
  ASSUME ArchiveTypes, StageFits, StorageFits, Archive!Next
  PROVE  StorageFits'
<1> USE DEF Archive!counters, Archive!storage, Archive!published, Archive!producer
<1>0. /\ entries \in Nat /\ synced \in Nat /\ entries <= synced /\ synced <= Len(file) /\ Len(file) \in Nat
      /\ file \in Seq(Bytes) /\ stream \in Seq(Bytes)
  BY DEF ArchiveTypes, StorageFits
<1>1. CASE Archive!OfferWitness \/ Archive!Admit \/ Archive!Complete \/ Archive!HoldRaises
           \/ Archive!Move \/ Archive!RecordHold \/ Archive!RunReturns
  <2>1. at = "open" /\ at' \in {"open", "write", "close"}
        /\ UNCHANGED <<entries, rolling, stream, file, synced, framed>>
    BY <1>1 DEF Archive!OfferWitness, Archive!Admit, Archive!Move, Archive!Complete, Archive!Offer,
       Archive!RecordHold, Archive!HoldRaises, Archive!RunReturns
  <2>2. Matches /\ Len(file) = entries /\ stream = <<>>
    BY <2>1 DEF StorageFits
  <2>3. Matches'
    BY <2>1, <2>2 DEF Matches, LineOf
  <2> QED
    BY <1>0, <2>1, <2>2, <2>3 DEF StorageFits
<1>2. CASE Archive!Write
  <2>1. at = "write" /\ at' = "flush" /\ stream' = Append(stream, Archive!Line)
        /\ UNCHANGED <<call, file, synced, framed, entries, rolling, outcome>>
    BY <1>2 DEF Archive!Write
  <2>2. outcome = "running"
    BY <2>1 DEF StageFits, Appending
  <2>3. stream' # <<>>
    BY <1>0, <2>1
  <2>4. ASSUME ~Failure(call) PROVE Matches' /\ Len(file) = entries /\ stream' = <<Archive!Line>>
    <3>1. Matches /\ Len(file) = entries /\ stream = <<>>
      BY <2>1, <2>4 DEF StorageFits
    <3>2. Matches'
      BY <2>1, <3>1 DEF Matches, LineOf
    <3> QED
      BY <2>1, <3>1, <3>2
  <2>5. Failure(call') = Failure(call) /\ Archive!Line' = Archive!Line
    BY <2>1 DEF Archive!Line, Failure
  <2> QED
    BY <1>0, <2>1, <2>2, <2>3, <2>4, <2>5 DEF StorageFits
<1>3. CASE Archive!Flush
  <2>1. at = "flush" /\ at' = "sync" /\ file' = file \o stream /\ stream' = <<>>
        /\ UNCHANGED <<call, synced, framed, entries, rolling, outcome>>
    BY <1>3 DEF Archive!Flush
  <2>2. outcome = "running"
    BY <2>1 DEF StageFits, Appending
  <2>3. Len(file') = Len(file) + Len(stream) /\ Len(stream) \in Nat \ {0}
        /\ \A i \in 1..Len(stream) : file'[Len(file) + i] = stream[i]
    <3>1. stream # <<>>
      BY <2>1 DEF StorageFits
    <3>2. Len(stream) \in Nat /\ Len(stream) # 0
      BY <1>0, <3>1, EmptySeq
    <3> QED
      BY <1>0, <2>1, <3>2, ConcatProperties
  <2>4. entries < Len(file')
    <3>1. PICK a, b : a = Len(file) /\ b = Len(stream)
      OBVIOUS
    <3>2. a \in Nat /\ b \in Nat \ {0} /\ Len(file') = a + b /\ entries <= a
      BY <1>0, <2>3, <3>1
    <3> QED
      BY <1>0, <3>2
  <2>5. Failure(call') = Failure(call) /\ Archive!Line' = Archive!Line
    BY <2>1 DEF Archive!Line, Failure
  <2>6. ASSUME ~Failure(call)
        PROVE Matches' /\ Len(file') = entries + 1 /\ file'[entries + 1] = Archive!Line
    <3>1. Matches /\ Len(file) = entries /\ stream = <<Archive!Line>>
      BY <2>1, <2>6 DEF StorageFits
    <3>2. Matches'
      BY <1>0, <2>1, <3>1, MatchesStays
    <3>3. Len(stream) = 1 /\ stream[1] = Archive!Line
      BY <3>1
    <3> QED
      BY <2>3, <3>1, <3>2, <3>3
  <2> QED
    BY <1>0, <2>1, <2>2, <2>4, <2>5, <2>6 DEF StorageFits
<1>4. CASE Archive!Sync
  <2>1. at = "sync" /\ at' = "acknowledge" /\ synced' = Len(file)
        /\ UNCHANGED <<call, stream, file, framed, entries, rolling, outcome>>
    BY <1>4 DEF Archive!Sync
  <2>2. outcome = "running"
    BY <2>1 DEF StageFits, Appending
  <2>3. Failure(call') = Failure(call) /\ Archive!Line' = Archive!Line /\ (Matches => Matches')
    BY <2>1 DEF Archive!Line, Failure, Matches, LineOf
  <2> QED
    BY <1>0, <2>1, <2>2, <2>3 DEF StorageFits
<1>5. CASE Archive!Acknowledge
  <2>1. at = "acknowledge" /\ at' = IF Failure(call) THEN "close" ELSE "open"
    BY <1>5 DEF Archive!Acknowledge, Failure
  <2>2. outcome' # "returned"
    <3>1. call.kind \in Archive!Kinds /\ outcome = "running"
      BY <2>1, LineTypes DEF Appending, StageFits
    <3>2. Archive!Proceed(call.kind)
      BY <1>5 DEF Archive!Acknowledge
    <3> QED
      BY <3>1, <3>2 DEF Archive!Proceed, Archive!Kinds
  <2>3. entries < Len(file) /\ synced = Len(file)
    BY <2>1 DEF StorageFits
  <2>4. entries' <= synced'
    BY <1>0, <1>5, <2>3, AcknowledgedLine
  <2>5. ASSUME ~Failure(call) PROVE Matches' /\ Len(file') = entries' /\ stream' = <<>>
    <3>1. Matches /\ Len(file) = entries + 1 /\ file[entries + 1] = Archive!Line /\ stream = <<>>
      BY <2>1, <2>5 DEF StorageFits
    <3>2. \A i \in 1..(entries + 1) : i \in 1..entries \/ i = entries + 1
      BY <1>0
    <3>3. file'[entries + 1] = LineOf(rolling', entries + 1)
      <4>1. (entries + 1) - 1 = entries
        BY <1>0
      <4> QED
        BY <1>5, <3>1, <4>1, AcknowledgedLine DEF LineOf, Archive!Line
    <3>4. \A i \in 1..entries : file'[i] = LineOf(rolling', i)
      BY <1>5, <3>1, AcknowledgedLine DEF Matches, LineOf
    <3>5. Matches'
      BY <1>5, <3>2, <3>3, <3>4, AcknowledgedLine DEF Matches
    <3> QED
      BY <1>5, <3>1, <3>5, AcknowledgedLine
  <2> QED
    BY <2>1, <2>2, <2>4, <2>5 DEF StorageFits
<1>6. CASE Archive!AppendRefused \/ Archive!AppendFails
  <2>1. at \in Appending /\ UNCHANGED <<entries, rolling, synced, framed>>
    BY <1>6 DEF Archive!AppendRefused, Archive!AppendFails, Appending
  <2>2. CASE Archive!GiveUp(call.kind)
    BY <1>0, <2>1, <2>2, GiveUpTypes DEF StorageFits
  <2>3. CASE Archive!AppendRefused /\ call.kind = "WITNESS" /\ at' = "open" /\ UNCHANGED outcome
    <3>1. at = "write" /\ ~Failure(call) /\ outcome = "running" /\ UNCHANGED <<file, stream>>
      BY <2>1, <2>3 DEF Archive!AppendRefused, Failure, StageFits
    <3>2. Matches /\ Len(file) = entries /\ stream = <<>>
      BY <3>1 DEF StorageFits
    <3>3. Matches'
      BY <2>1, <3>1, <3>2 DEF Matches, LineOf
    <3> QED
      BY <1>0, <2>1, <2>3, <3>1, <3>2, <3>3 DEF StorageFits
  <2> QED
    BY <1>6, <2>2, <2>3 DEF Archive!AppendRefused, Archive!AppendFails
<1>7. CASE Archive!CloseStream
  <2>1. at = "close" /\ at' = "hash" /\ file' = file \o stream /\ stream' = <<>> /\ framed' = TRUE
        /\ UNCHANGED <<synced, entries, rolling, outcome>>
    BY <1>7 DEF Archive!CloseStream
  <2>2. ASSUME outcome = "returned" PROVE Matches' /\ Len(file') = entries'
    <3>1. Matches /\ Len(file) = entries /\ stream = <<>>
      BY <2>2 DEF StorageFits
    <3>2. file' = file
      BY <1>0, <2>1, <3>1, ConcatEmptySeq
    <3>3. Matches'
      BY <2>1, <3>1, <3>2 DEF Matches, LineOf
    <3> QED
      BY <2>1, <3>1, <3>2, <3>3
  <2> QED
    BY <1>0, <2>1, <2>2 DEF StorageFits
<1>8. CASE Archive!CloseStreamFails \/ Archive!CloseFails \/ Archive!Kill
  <2>1. at' \in {"hash", "unpublished"} /\ outcome' \in {"raised", "killed"} /\ UNCHANGED <<synced, entries>>
    BY <1>8 DEF Archive!CloseStreamFails, Archive!CloseFails, Archive!Kill
  <2> QED
    BY <1>0, <2>1 DEF StorageFits
<1>9. CASE Archive!PublishManifest \/ Archive!ReturnSource
  <2>1. at \in {"hash", "closed"} /\ at' = "closed" /\ synced' \in {synced, Len(file)}
        /\ UNCHANGED <<stream, file, framed, entries, rolling, outcome>>
    BY <1>9 DEF Archive!PublishManifest, Archive!ReturnSource
  <2>2. Matches => Matches'
    BY <2>1 DEF Matches, LineOf
  <2> QED
    BY <1>0, <2>1, <2>2 DEF StorageFits
<1> QED
  BY <1>1, <1>2, <1>3, <1>4, <1>5, <1>6, <1>7, <1>8, <1>9 DEF Archive!Next

LEMMA DurableStep ==
  ASSUME ArchiveTypes, StageFits, StorageFits, Archive!AcknowledgedIsDurable, Archive!Next
  PROVE  Archive!AcknowledgedIsDurable'
<1>1. synced' >= entries'
  <2>1. StorageFits' /\ ArchiveTypes'
    BY StorageStep, ArchiveTypesStep
  <2> QED
    BY <2>1 DEF StorageFits, ArchiveTypes
<1>2. /\ entries \in Nat /\ synced \in Nat /\ entries <= synced
      /\ \A i \in 1..synced : file'[i] = file[i]
  BY SyncedStays DEF ArchiveTypes, StorageFits
<1>3. \A i \in 1..entries : i \in 1..synced
  BY <1>2
<1>4. \A i \in 1..entries : ~Failure(rolling[i]) => file[i] # TORN /\ Archive!Payload(file[i]) = rolling[i]
  BY DEF Archive!AcknowledgedIsDurable, Failure
<1>5. CASE ~Archive!Acknowledge
  <2>1. UNCHANGED <<entries, rolling>>
    BY <1>5, OnlyAcknowledgeCounts
  <2> QED
    BY <1>1, <1>2, <1>3, <1>4, <2>1 DEF Archive!AcknowledgedIsDurable, Archive!Payload, Failure
<1>6. CASE Archive!Acknowledge
  <2>1. at = "acknowledge"
    BY <1>6 DEF Archive!Acknowledge
  <2>2. ASSUME ~Failure(call) PROVE file'[entries + 1] # TORN /\ Archive!Payload(file'[entries + 1]) = call
    <3>1. file[entries + 1] = Archive!Line /\ file' = file
      BY <1>6, <2>1, <2>2, AcknowledgedLine DEF StorageFits
    <3>2. Archive!Line \in Archive!Lines /\ call \in Entries
      BY <2>1, LineTypes DEF Appending
    <3>3. Archive!Line # TORN
      BY <3>2, RecordInstances DEF Archive!ArchiveAssumption
    <3>4. Archive!Payload(Archive!Line) = call
      BY <3>2 DEF Archive!Payload, Archive!Line, Entries
    <3> QED
      BY <3>1, <3>3, <3>4 DEF Archive!Payload
  <2>3. \A i \in 1..(entries + 1) : i \in 1..entries \/ i = entries + 1
    BY <1>2
  <2>4. \A i \in 1..entries' : ~Failure(rolling'[i]) =>
           file'[i] # TORN /\ Archive!Payload(file'[i]) = rolling'[i]
    <3> SUFFICES ASSUME NEW i \in 1..(entries + 1), ~Failure(rolling'[i])
                 PROVE  file'[i] # TORN /\ Archive!Payload(file'[i]) = rolling'[i]
      BY <1>6, AcknowledgedLine
    <3>1. CASE i = entries + 1
      BY <1>6, <2>2, <3>1, AcknowledgedLine
    <3>2. CASE i \in 1..entries
      BY <1>2, <1>3, <1>4, <1>6, <3>2, AcknowledgedLine DEF Archive!Payload
    <3> QED
      BY <2>3, <3>1, <3>2
  <2> QED
    BY <1>1, <2>4 DEF Archive!AcknowledgedIsDurable, Archive!Payload, Failure
<1> QED
  BY <1>5, <1>6

LEMMA NoFailureStep ==
  ASSUME ArchiveTypes, StageFits, NoFailureYet, Archive!Next
  PROVE  NoFailureYet'
<1> USE DEF Archive!counters, Archive!storage, Archive!published, Archive!producer
<1>1. CASE Archive!Acknowledge
  <2>1. at = "acknowledge" /\ outcome = "running" /\ call.kind \in Archive!Kinds
    BY <1>1, LineTypes DEF Archive!Acknowledge, StageFits, Appending
  <2>2. Failure(call) => outcome' = "failed"
    BY <1>1 DEF Archive!Acknowledge, Archive!Proceed, Failure
  <2>3. entries \in Nat /\ \A i \in 1..(entries + 1) : i \in 1..entries \/ i = entries + 1
    BY DEF ArchiveTypes
  <2>4. \A i \in 1..entries : ~Failure(rolling[i])
    BY <2>1 DEF NoFailureYet
  <2>5. ~Failure(call) => \A i \in 1..(entries + 1) : ~Failure(rolling'[i])
    BY <1>1, <2>3, <2>4, AcknowledgedLine
  <2> QED
    BY <1>1, <2>2, <2>5, AcknowledgedLine DEF NoFailureYet
<1>2. CASE ~Archive!Acknowledge
  <2>1. UNCHANGED <<entries, rolling>>
    BY <1>2, OnlyAcknowledgeCounts
  <2>2. outcome' \in {"running", "returned"} => outcome \in {"running", "returned"}
    <3>1. CASE Archive!AppendRefused \/ Archive!AppendFails
      <4>1. at \in Appending
        BY <3>1 DEF Archive!AppendRefused, Archive!AppendFails, Appending
      <4> QED
        BY <4>1 DEF StageFits
    <3>2. CASE Archive!RunReturns \/ Archive!Kill \/ Archive!CloseFails \/ Archive!CloseStreamFails
      BY <3>2 DEF Archive!RunReturns, Archive!Kill, Archive!CloseFails, Archive!CloseStreamFails
    <3> QED
      BY <1>2, <3>1, <3>2 DEF Archive!Next, Archive!OfferWitness, Archive!Admit, Archive!Move, Archive!Complete,
         Archive!Offer, Archive!RecordHold, Archive!HoldRaises, Archive!Sync,
         Archive!PublishManifest, Archive!ReturnSource, Archive!Write, Archive!Flush, Archive!CloseStream
  <2> QED
    BY <2>1, <2>2 DEF NoFailureYet, Failure
<1> QED
  BY <1>1, <1>2

\* One more staged line carries the story one rank further.
LEMMA ToldMore ==
  ASSUME NEW rows, NEW more, NEW n \in Nat, Len(rows) = n, Len(more) = n + 1,
         \A i \in 1..n : more[i] = rows[i],
         NEW top \in Nat, Told(rows, top),
         Archive!Staging(more[n + 1]), Rank(more[n + 1]) = top + 1
  PROVE  Told(more, top + 1)
<1>1. Staged(more) = Staged(rows) \cup {n + 1}
  <2>1. \A i : i \in 1..(n + 1) <=> i \in 1..n \/ i = n + 1
    OBVIOUS
  <2> QED
    BY <2>1 DEF Staged
<1>2. /\ \A i \in Staged(rows) : i \in 1..n /\ more[i] = rows[i]
      /\ \A i \in Staged(rows) : Rank(more[i]) \in 1..top
  BY DEF Staged, Told
<1>3. ASSUME NEW i \in Staged(more) PROVE Rank(more[i]) \in 1..(top + 1)
  BY <1>1, <1>2, <1>3
<1>4. ASSUME NEW r \in 1..(top + 1) PROVE \E i \in Staged(more) : Rank(more[i]) = r
  <2>1. CASE r = top + 1
    BY <1>1, <2>1
  <2>2. CASE r \in 1..top
    <3>1. PICK i \in Staged(rows) : Rank(rows[i]) = r
      BY <2>2 DEF Told
    <3> QED
      BY <1>1, <1>2, <3>1
  <2> QED
    BY <1>4, <2>1, <2>2
<1>5. ASSUME NEW i \in Staged(more), NEW j \in Staged(more), i < j
      PROVE  Rank(more[i]) < Rank(more[j])
  <2>1. CASE j = n + 1
    <3>1. i \in Staged(rows)
      BY <1>1, <1>5, <2>1
    <3> QED
      BY <1>2, <2>1, <3>1
  <2>2. CASE j \in Staged(rows)
    <3>1. j \in 1..n
      BY <1>2, <2>2
    <3>2. i \in Staged(rows)
      BY <1>1, <1>5, <3>1
    <3> QED
      BY <1>2, <1>5, <2>2, <3>2 DEF Told
  <2> QED
    BY <1>1, <2>1, <2>2
<1> QED
  BY <1>3, <1>4, <1>5 DEF Told

\* A line that is not staged leaves it as it is.
LEMMA ToldSame ==
  ASSUME NEW rows, NEW more, NEW n \in Nat, Len(rows) = n, Len(more) = n + 1,
         \A i \in 1..n : more[i] = rows[i],
         NEW top, Told(rows, top), ~Archive!Staging(more[n + 1])
  PROVE  Told(more, top)
<1>1. Staged(more) = Staged(rows)
  <2>1. \A i : i \in 1..(n + 1) <=> i \in 1..n \/ i = n + 1
    OBVIOUS
  <2> QED
    BY <2>1 DEF Staged
<1>2. \A i \in Staged(rows) : more[i] = rows[i]
  BY DEF Staged
<1> QED
  BY <1>1, <1>2 DEF Told

LEMMA StoryStep ==
  ASSUME ArchiveTypes, StageFits, Story, Archive!Next
  PROVE  Story'
<1> USE DEF Archive!counters, Archive!storage, Archive!published, Archive!producer
<1>1. PICK top \in Nat : Told(rolling, top) /\ ToldAsMoved(top)
  BY DEF Story
<1>2. moved \in Nat
  BY DEF ArchiveTypes
<1>3. CASE Archive!Acknowledge
  <2>1. at = "acknowledge" /\ outcome = "running" /\ call \in Entries /\ call.kind \in Archive!Kinds
    BY <1>3, LineTypes DEF Archive!Acknowledge, StageFits, Appending
  <2>2. /\ entries \in Nat /\ Len(rolling) = entries /\ Len(rolling') = entries + 1
        /\ rolling'[entries + 1] = call /\ \A i \in 1..entries : rolling'[i] = rolling[i]
        /\ moved' = moved
    BY <1>3, AcknowledgedLine DEF ArchiveTypes, Archive!Acknowledge
  <2>3. Archive!Proceed(call.kind)
    BY <1>3 DEF Archive!Acknowledge
  <2>4. CASE call.kind \in {"WITNESS", "ASSUMPTION_VIOLATION"}
    <3>1. ~Archive!Staging(rolling'[entries + 1])
      BY <2>2, <2>4 DEF Archive!Staging
    <3>2. Told(rolling', top)
      BY <1>1, <2>2, <3>1, ToldSame
    <3>3. ToldAsMoved(top)'
      BY <1>1, <1>2, <2>1, <2>2, <2>3, <2>4 DEF ToldAsMoved, Archive!Proceed
    <3> QED
      BY <3>2, <3>3 DEF Story
  <2>5. CASE call.kind \in {"ADMITTED_BEFORE_MOTION", "APPLIED_HOLD_COMPLETE"}
    <3>1. Archive!Staging(rolling'[entries + 1])
      BY <2>2, <2>5 DEF Archive!Staging
    <3>2. Rank(call) = top + 1
      BY <1>1, <1>2, <2>1, <2>5 DEF Rank, ToldAsMoved, StageFits, Appending
    <3>3. Told(rolling', top + 1)
      BY <1>1, <2>2, <3>1, <3>2, ToldMore
    <3>4. ToldAsMoved(top + 1)'
      <4>1. CASE call.kind = "ADMITTED_BEFORE_MOTION"
        <5>1. top = 2 * moved
          BY <1>1, <2>1, <4>1 DEF ToldAsMoved, StageFits, Appending
        <5>2. producer' = "admitted" /\ moved' = moved
          BY <2>2, <2>3, <4>1 DEF Archive!Proceed
        <5> QED
          BY <1>2, <5>1, <5>2 DEF ToldAsMoved
      <4>2. CASE call.kind = "APPLIED_HOLD_COMPLETE"
        <5>1. top = 2 * moved - 1
          BY <1>1, <2>1, <4>2 DEF ToldAsMoved, StageFits, Appending
        <5>2. producer' = "completed" /\ moved' = moved
          BY <2>2, <2>3, <4>2 DEF Archive!Proceed
        <5> QED
          BY <1>2, <5>1, <5>2 DEF ToldAsMoved
      <4> QED
        BY <2>5, <4>1, <4>2
    <3> QED
      BY <3>3, <3>4 DEF Story
  <2> QED
    BY <2>1, <2>4, <2>5 DEF Archive!Kinds
<1>4. CASE ~Archive!Acknowledge
  <2>1. Told(rolling', top)
    BY <1>1, <1>4, OnlyAcknowledgeCounts
  <2>2. ToldAsMoved(top)'
    <3>1. CASE Archive!AppendRefused \/ Archive!AppendFails
      <4>1. at \in Appending /\ moved' = moved
        BY <3>1 DEF Archive!AppendRefused, Archive!AppendFails, Appending
      <4>2. \/ Archive!GiveUp(call.kind)
            \/ UNCHANGED <<producer, outcome>>
        BY <3>1 DEF Archive!AppendRefused, Archive!AppendFails
      <4> QED
        BY <1>1, <1>2, <4>1, <4>2, GiveUpTypes DEF ToldAsMoved
    <3>2. CASE Archive!Move
      BY <1>1, <1>2, <3>2 DEF ToldAsMoved, Archive!Move, StageFits, Appending
    <3>3. CASE Archive!RunReturns \/ Archive!Kill \/ Archive!CloseFails \/ Archive!CloseStreamFails
      BY <1>1, <1>2, <3>3 DEF ToldAsMoved, Archive!RunReturns, Archive!Kill, Archive!CloseFails, Archive!CloseStreamFails
    <3>4. CASE Archive!OfferWitness \/ Archive!Admit \/ Archive!Complete \/ Archive!HoldRaises \/ Archive!RecordHold
      BY <1>1, <1>2, <3>4 DEF ToldAsMoved, Archive!OfferWitness, Archive!Admit, Archive!Complete,
         Archive!Offer, Archive!RecordHold, Archive!HoldRaises
    <3>5. CASE Archive!Write \/ Archive!Flush \/ Archive!Sync \/ Archive!CloseStream
               \/ Archive!PublishManifest \/ Archive!ReturnSource
      BY <1>1, <1>2, <3>5 DEF ToldAsMoved, Archive!Sync,
         Archive!PublishManifest, Archive!ReturnSource, Archive!Write, Archive!Flush, Archive!CloseStream
    <3> QED
      BY <1>4, <3>1, <3>2, <3>3, <3>4, <3>5 DEF Archive!Next
  <2> QED
    BY <2>1, <2>2 DEF Story
<1> QED
  BY <1>3, <1>4

\* One line more is one completion more or none.
LEMMA CompletionsGrow ==
  ASSUME NEW rows, NEW more, NEW n \in Nat, Len(rows) = n, Len(more) = n + 1,
         \A i \in 1..n : more[i] = rows[i]
  PROVE  Cardinality(Archive!Completions(more)) =
           Cardinality(Archive!Completions(rows))
             + (IF more[n + 1].kind = "APPLIED_HOLD_COMPLETE" THEN 1 ELSE 0)
<1>1. \A i : i \in 1..(n + 1) <=> i \in 1..n \/ i = n + 1
  OBVIOUS
<1>2. IsFiniteSet(Archive!Completions(rows)) /\ n + 1 \notin Archive!Completions(rows)
  <2>1. IsFiniteSet(1..n)
    BY FS_Interval
  <2>2. Archive!Completions(rows) \subseteq 1..n
    BY DEF Archive!Completions, Archive!Places
  <2> QED
    BY <2>1, <2>2, FS_Subset
<1>3. CASE more[n + 1].kind = "APPLIED_HOLD_COMPLETE"
  <2>1. Archive!Completions(more) = Archive!Completions(rows) \cup {n + 1}
    BY <1>1, <1>3 DEF Archive!Completions, Archive!Places
  <2> QED
    BY <1>2, <1>3, <2>1, FS_AddElement
<1>4. CASE more[n + 1].kind # "APPLIED_HOLD_COMPLETE"
  <2>1. Archive!Completions(more) = Archive!Completions(rows)
    BY <1>1, <1>4 DEF Archive!Completions, Archive!Places
  <2>2. Cardinality(Archive!Completions(rows)) \in Nat
    BY <1>2, FS_CardinalityType
  <2> QED
    BY <1>4, <2>1, <2>2
<1> QED
  BY <1>3, <1>4

LEMMA CountsStep ==
  ASSUME ArchiveTypes, StageFits, CountsFit, Archive!Next
  PROVE  CountsFit'
<1> USE DEF Archive!counters, Archive!storage, Archive!published, Archive!producer
<1>1. moved \in Nat
  BY DEF ArchiveTypes
<1>2. Cardinality(Archive!Completions(rolling')) = holds'
  <2>1. CASE Archive!Acknowledge
    <3>1. holds' = holds + IF call.kind = "APPLIED_HOLD_COMPLETE" THEN 1 ELSE 0
      BY <2>1 DEF Archive!Acknowledge, Archive!Count, ArchiveTypes
    <3>2. /\ entries \in Nat /\ Len(rolling) = entries /\ Len(rolling') = entries + 1
          /\ rolling'[entries + 1] = call /\ \A i \in 1..entries : rolling'[i] = rolling[i]
      BY <2>1, AcknowledgedLine DEF ArchiveTypes
    <3>3. Cardinality(Archive!Completions(rolling')) =
            Cardinality(Archive!Completions(rolling))
              + (IF call.kind = "APPLIED_HOLD_COMPLETE" THEN 1 ELSE 0)
      BY <3>2, CompletionsGrow
    <3> QED
      BY <3>1, <3>3 DEF CountsFit
  <2>2. CASE ~Archive!Acknowledge
    BY <2>2, OnlyAcknowledgeCounts DEF CountsFit
  <2> QED
    BY <2>1, <2>2
<1>3. /\ producer' \in {"moved", "completing", "completed"} => moved' > 0
      /\ outcome' \in {"running", "returned"} =>
         /\ producer' \in {"idle", "staging", "admitted"} => recorded' = [n \in 1..moved' |-> n]
         /\ producer' \in {"moved", "completing", "completed"} =>
              recorded' = [n \in 1..(moved' - 1) |-> n]
  <2>1. CASE Archive!Acknowledge
    <3>1. call.kind \in Archive!Kinds /\ at = "acknowledge"
      BY <2>1, LineTypes DEF Archive!Acknowledge, Appending
    <3>2. Archive!Proceed(call.kind) /\ UNCHANGED <<moved, recorded>>
      BY <2>1 DEF Archive!Acknowledge
    <3> QED
      BY <1>1, <3>1, <3>2 DEF CountsFit, StageFits, Appending, Archive!Proceed, Archive!Kinds
  <2>2. CASE Archive!AppendRefused \/ Archive!AppendFails
    <3>1. at \in Appending /\ UNCHANGED <<moved, recorded>>
      BY <2>2 DEF Archive!AppendRefused, Archive!AppendFails, Appending
    <3>2. \/ Archive!GiveUp(call.kind)
          \/ UNCHANGED <<producer, outcome>>
      BY <2>2 DEF Archive!AppendRefused, Archive!AppendFails
    <3> QED
      BY <1>1, <3>1, <3>2, GiveUpTypes DEF CountsFit
  <2>3. CASE Archive!Move
    <3>1. (moved + 1) - 1 = moved /\ moved + 1 > 0
      BY <1>1
    <3> QED
      BY <1>1, <2>3, <3>1 DEF CountsFit, Archive!Move, StageFits, Appending
  <2>4. CASE Archive!RecordHold
    <3>1. moved > 0 /\ recorded = [n \in 1..(moved - 1) |-> n] /\ producer' = "idle"
          /\ recorded' = Append(recorded, moved) /\ moved' = moved
      BY <2>4 DEF CountsFit, Archive!RecordHold, StageFits, Appending
    <3>2. Append([n \in 1..(moved - 1) |-> n], moved) = [n \in 1..moved |-> n]
      BY <1>1, <3>1
    <3> QED
      BY <3>1, <3>2
  <2>5. CASE Archive!RunReturns \/ Archive!Kill \/ Archive!CloseFails \/ Archive!CloseStreamFails
    BY <1>1, <2>5 DEF CountsFit, StageFits, Appending, Archive!RunReturns, Archive!Kill, Archive!CloseFails, Archive!CloseStreamFails
  <2>6. CASE Archive!OfferWitness \/ Archive!Admit \/ Archive!Complete \/ Archive!HoldRaises
    BY <1>1, <2>6 DEF CountsFit, StageFits, Appending, Archive!OfferWitness, Archive!Admit, Archive!Complete,
       Archive!Offer, Archive!HoldRaises
  <2>7. CASE Archive!Write \/ Archive!Flush \/ Archive!Sync \/ Archive!CloseStream
             \/ Archive!PublishManifest \/ Archive!ReturnSource
    BY <2>7 DEF CountsFit, Archive!Sync,
       Archive!PublishManifest, Archive!ReturnSource, Archive!Write, Archive!Flush, Archive!CloseStream
  <2> QED
    BY <2>1, <2>2, <2>3, <2>4, <2>5, <2>6, <2>7 DEF Archive!Next
<1> QED
  BY <1>2, <1>3 DEF CountsFit

LEMMA ManifestStep ==
  ASSUME ArchiveTypes, StageFits, ManifestFits, Archive!Next
  PROVE  ManifestFits'
<1> USE DEF Archive!counters, Archive!storage, Archive!published, Archive!producer
<1>1. CASE Archive!PublishManifest
  BY <1>1 DEF Archive!PublishManifest, Archive!Expected, ManifestFits
<1>2. CASE Archive!ReturnSource
  BY <1>2 DEF Archive!ReturnSource, Archive!Expected, ManifestFits
<1>3. CASE ~(Archive!PublishManifest \/ Archive!ReturnSource)
  <2>1. at # "closed" /\ UNCHANGED <<manifest, reader>>
    BY <1>3 DEF Archive!Next, Archive!OfferWitness, Archive!Admit, Archive!Move, Archive!Complete, Archive!Offer,
       Archive!RecordHold, Archive!HoldRaises, Archive!RunReturns, Archive!Sync, Archive!Acknowledge,
       Archive!AppendRefused, Archive!CloseFails,
       Archive!Write, Archive!Flush, Archive!CloseStream, Archive!CloseStreamFails, Archive!AppendFails,
       Archive!Kill
  <2>2. at' # "closed"
    <3>1. CASE Archive!AppendRefused \/ Archive!AppendFails
      <4>1. at \in Appending
        BY <3>1 DEF Archive!AppendRefused, Archive!AppendFails, Appending
      <4> QED
        BY <3>1, <4>1, GiveUpTypes DEF Archive!AppendRefused, Archive!AppendFails
    <3>2. CASE ~(Archive!AppendRefused \/ Archive!AppendFails)
      BY <1>3, <2>1, <3>2 DEF Archive!Next, Archive!OfferWitness, Archive!Admit, Archive!Move, Archive!Complete, Archive!Offer,
       Archive!RecordHold, Archive!HoldRaises, Archive!RunReturns, Archive!Sync, Archive!Acknowledge, Archive!CloseFails,
       Archive!Write, Archive!Flush, Archive!CloseStream, Archive!CloseStreamFails, Archive!Kill
    <3> QED
      BY <3>1, <3>2
  <2> QED
    BY <2>1, <2>2 DEF ManifestFits
<1> QED
  BY <1>1, <1>2, <1>3

LEMMA SameCardinality == ASSUME NEW S PROVE Archive!Cardinality(S) = Cardinality(S)
  BY DEF Archive!Cardinality, Cardinality

LEMMA ArchiveStarts == Archive!Init => ArchiveInv
<1> SUFFICES ASSUME Archive!Init PROVE ArchiveInv
  OBVIOUS
<1> USE DEF Archive!Init
<1>1. ArchiveTypes
  <2>1. <<>> \in Seq(Bytes) /\ <<>> \in Seq(Entries) /\ <<>> \in Seq(Nat) /\ Len(<<>>) = 0
    OBVIOUS
  <2>2. stream = <<>> /\ file = <<>> /\ rolling = <<>> /\ recorded = <<>> /\ synced = 0 /\ entries = 0
    OBVIOUS
  <2> QED
    <3>1. at = "open" /\ framed = FALSE /\ holds = 0 /\ moved = 0 /\ producer = "idle" /\ outcome = "running"
      OBVIOUS
    <3>2. stream \in Seq(Bytes) /\ file \in Seq(Bytes) /\ rolling \in Seq(Entries) /\ recorded \in Seq(Nat)
      BY <2>1, <2>2
    <3>3. synced \in Nat /\ synced <= Len(file) /\ entries \in Nat /\ Len(rolling) = entries
      BY <2>1, <2>2
    <3> HIDE DEF Archive!Init
    <3> QED
      BY <3>1, <3>2, <3>3 DEF ArchiveTypes, Appending
<1>2. StageFits /\ StorageFits /\ NoFailureYet /\ ManifestFits
  BY DEF StageFits, StorageFits, NoFailureYet, ManifestFits, Appending, Matches, Failure
<1>3. Archive!AcknowledgedIsDurable
  BY DEF Archive!AcknowledgedIsDurable
<1>4. Len(rolling) = 0 /\ 1..0 = {}
  OBVIOUS
<1>5. Story
  <2>1. Staged(rolling) = {}
    BY <1>4 DEF Staged
  <2>2. Told(rolling, 0)
    BY <1>4, <2>1 DEF Told
  <2>3. ToldAsMoved(0)
    BY DEF ToldAsMoved
  <2> QED
    BY <2>2, <2>3 DEF Story
<1>6. CountsFit
  <2>1. Archive!Completions(rolling) = {}
    BY <1>4 DEF Archive!Completions, Archive!Places
  <2>2. Cardinality(Archive!Completions(rolling)) = 0
    BY <2>1, FS_EmptySet
  <2>3. recorded = [n \in 1..0 |-> n]
    OBVIOUS
  <2> QED
    BY <2>2, <2>3 DEF CountsFit
<1> QED
  BY <1>1, <1>2, <1>3, <1>5, <1>6 DEF ArchiveInv

LEMMA ArchiveStep == ArchiveInv /\ [Archive!Next]_Archive!vars => ArchiveInv'
<1> SUFFICES ASSUME ArchiveInv, [Archive!Next]_Archive!vars PROVE ArchiveInv'
  OBVIOUS
<1>1. CASE Archive!Next
  BY <1>1, ArchiveTypesStep, ProducerStep, StorageStep, DurableStep, NoFailureStep, StoryStep, CountsStep,
     ManifestStep DEF ArchiveInv
<1>2. CASE UNCHANGED Archive!vars
  <2> USE DEF Archive!vars, Archive!counters, Archive!storage, Archive!published, Archive!producer
  <2>1. ArchiveTypes' /\ StageFits' /\ NoFailureYet'
    BY <1>2 DEF ArchiveInv, ArchiveTypes, StageFits, NoFailureYet, Failure
  <2>2. StorageFits'
    BY <1>2 DEF ArchiveInv, StorageFits, Matches, Failure, Archive!Line
  <2>3. Archive!AcknowledgedIsDurable'
    BY <1>2 DEF ArchiveInv, Archive!AcknowledgedIsDurable, Archive!Payload
  <2>4. Story'
    BY <1>2 DEF ArchiveInv, Story, ToldAsMoved
  <2>5. CountsFit' /\ ManifestFits'
    BY <1>2 DEF ArchiveInv, CountsFit, ManifestFits, Archive!Expected
  <2> QED
    BY <2>1, <2>2, <2>3, <2>4, <2>5 DEF ArchiveInv
<1> QED
  BY <1>1, <1>2

\* A story that ends with a completion is paired and yields its holds in order.
LEMMA EvenStory ==
  ASSUME NEW lines, NEW n \in Nat, Len(lines) = n, \A i \in 1..n : lines[i].hold \in Nat,
         NEW m \in Nat, Told(lines, 2 * m)
  PROVE  Archive!Paired(lines) /\ Archive!Yields(lines, [k \in 1..m |-> k])
<1> DEFINE admitted == Archive!Places(lines, "ADMITTED_BEFORE_MOTION")
           closed == Archive!Completions(lines)
<1>0. /\ \A i \in Staged(lines) : Rank(lines[i]) \in 1..(2 * m)
      /\ \A r \in 1..(2 * m) : \E i \in Staged(lines) : Rank(lines[i]) = r
      /\ \A i, j \in Staged(lines) : i < j => Rank(lines[i]) < Rank(lines[j])
      /\ \A i \in Staged(lines) : i \in 1..n
  BY DEF Told, Staged
<1>01. \A i \in Staged(lines) : i \in Int /\ Rank(lines[i]) \in Int
  BY <1>0
<1>1. /\ \A i \in admitted : i \in Staged(lines) /\ i \in 1..n /\ Rank(lines[i]) = 2 * lines[i].hold - 1
      /\ \A i \in closed : i \in Staged(lines) /\ i \in 1..n /\ Rank(lines[i]) = 2 * lines[i].hold
      /\ \A i \in Staged(lines) : i \in admitted \/ i \in closed
  BY DEF Archive!Places, Archive!Completions, Staged, Archive!Staging, Rank
<1> HIDE DEF admitted, closed
<1>2. ASSUME NEW i \in Staged(lines), NEW j \in Staged(lines), Rank(lines[i]) < Rank(lines[j])
      PROVE  i < j
  <2>1. j < i => Rank(lines[j]) < Rank(lines[i])
    BY <1>0
  <2>2. i \in Int /\ j \in Int /\ Rank(lines[i]) \in Int /\ Rank(lines[j]) \in Int /\ i # j
    BY <1>01, <1>2
  <2> QED
    BY <1>2, <2>1, <2>2
<1>3. ASSUME NEW i \in Staged(lines), NEW j \in Staged(lines), Rank(lines[i]) = Rank(lines[j])
      PROVE  i = j
  <2>1. (i < j => Rank(lines[i]) < Rank(lines[j])) /\ (j < i => Rank(lines[j]) < Rank(lines[i]))
    BY <1>0
  <2>2. i \in Int /\ j \in Int /\ Rank(lines[i]) \in Int /\ Rank(lines[j]) \in Int
    BY <1>01
  <2> QED
    BY <1>3, <2>1, <2>2
<1>4. ASSUME NEW w \in admitted, NEW i \in closed, lines[w].hold = lines[i].hold
      PROVE  Archive!Closes(lines, w, i)
  <2>1. lines[i].hold \in Nat /\ Rank(lines[w]) + 1 = Rank(lines[i]) /\ w \in Staged(lines) /\ i \in Staged(lines)
        /\ w \in 1..n /\ i \in 1..n /\ Rank(lines[w]) \in Int
    <3>1. /\ w \in Staged(lines) /\ w \in 1..n /\ Rank(lines[w]) = 2 * lines[w].hold - 1
          /\ i \in Staged(lines) /\ i \in 1..n /\ Rank(lines[i]) = 2 * lines[i].hold
      BY <1>1
    <3>2. lines[i].hold \in Nat
      BY <3>1
    <3> QED
      BY <1>4, <3>1, <3>2
  <2>2. w < i
    BY <1>2, <2>1
  <2>3. ASSUME NEW j \in (w + 1)..(i - 1), Archive!Staging(lines[j]) PROVE FALSE
    <3>1. j \in Staged(lines) /\ w < j /\ j < i
      BY <2>1, <2>3 DEF Staged
    <3>2. Rank(lines[w]) < Rank(lines[j]) /\ Rank(lines[j]) < Rank(lines[i])
      BY <1>0, <2>1, <3>1
    <3>3. Rank(lines[j]) \in Int
      BY <1>01, <3>1
    <3> QED
      BY <2>1, <3>2, <3>3
  <2> QED
    BY <1>4, <2>2, <2>3 DEF Archive!Closes
<1>5. ASSUME NEW i \in closed PROVE \E w \in admitted : Archive!Closes(lines, w, i)
  <2>1. lines[i].hold \in Nat /\ 2 * lines[i].hold \in 1..(2 * m)
    BY <1>0, <1>1
  <2>2. 2 * lines[i].hold - 1 \in 1..(2 * m)
    BY <2>1
  <2>3. PICK w \in Staged(lines) : Rank(lines[w]) = 2 * lines[i].hold - 1
    BY <1>0, <2>2
  <2>4. lines[w].hold \in Nat
    BY <1>0
  <2>5. w \notin closed
    BY <1>1, <2>1, <2>3, <2>4
  <2>6. w \in admitted /\ lines[w].hold = lines[i].hold
    BY <1>1, <2>1, <2>3, <2>4, <2>5
  <2> QED
    BY <1>4, <2>6
<1>6. ASSUME NEW w \in admitted PROVE \E i \in closed : Archive!Closes(lines, w, i)
  <2>1. lines[w].hold \in Nat /\ 2 * lines[w].hold - 1 \in 1..(2 * m)
    BY <1>0, <1>1
  <2>2. 2 * lines[w].hold \in 1..(2 * m)
    BY <2>1
  <2>3. PICK i \in Staged(lines) : Rank(lines[i]) = 2 * lines[w].hold
    BY <1>0, <2>2
  <2>4. lines[i].hold \in Nat
    BY <1>0
  <2>5. i \notin admitted
    BY <1>1, <2>1, <2>3, <2>4
  <2>6. i \in closed /\ lines[w].hold = lines[i].hold
    BY <1>1, <2>1, <2>3, <2>4, <2>5
  <2> QED
    BY <1>4, <2>6
<1>7. Archive!Paired(lines)
  BY <1>5, <1>6 DEF Archive!Paired, admitted, closed
<1>8. \A k \in 1..m : \E i \in closed : lines[i].hold = k
  <2> SUFFICES ASSUME NEW k \in 1..m PROVE \E i \in closed : lines[i].hold = k
    OBVIOUS
  <2>1. 2 * k \in 1..(2 * m) /\ k \in Nat
    OBVIOUS
  <2>2. PICK i \in Staged(lines) : Rank(lines[i]) = 2 * k
    BY <1>0, <2>1
  <2>3. lines[i].hold \in Nat
    BY <1>0
  <2>4. i \notin admitted
    BY <1>1, <2>1, <2>2, <2>3
  <2> QED
    BY <1>1, <2>1, <2>2, <2>3, <2>4
<1>9. PICK place : place = [k \in 1..m |-> CHOOSE i \in closed : lines[i].hold = k]
  OBVIOUS
<1>10. \A k \in 1..m : place[k] \in closed /\ lines[place[k]].hold = k
  BY <1>8, <1>9
<1>11. place \in [1..m -> closed]
  BY <1>9, <1>10
<1>12. ASSUME NEW i \in closed PROVE \E k \in 1..m : place[k] = i
  <2>1. lines[i].hold \in Nat /\ 2 * lines[i].hold \in 1..(2 * m)
    BY <1>0, <1>1
  <2>2. lines[i].hold \in 1..m
    BY <2>1
  <2>3. place[lines[i].hold] \in closed /\ lines[place[lines[i].hold]].hold = lines[i].hold
    BY <1>10, <2>2
  <2>4. place[lines[i].hold] = i
    BY <1>1, <1>3, <2>3
  <2> QED
    BY <2>2, <2>4
<1>13. ASSUME NEW k \in 1..m, NEW j \in 1..m, k < j PROVE place[k] < place[j]
  <2>1. /\ place[k] \in closed /\ lines[place[k]].hold = k
        /\ place[j] \in closed /\ lines[place[j]].hold = j
    BY <1>10
  <2>2. Rank(lines[place[k]]) = 2 * k /\ Rank(lines[place[j]]) = 2 * j
    BY <1>1, <2>1
  <2> QED
    BY <1>1, <1>2, <1>13, <2>1, <2>2
<1>14. PICK y : y = [k \in 1..m |-> k]
  OBVIOUS
<1>15. y \in Seq(Nat) /\ Len(y) = m /\ \A k \in 1..m : y[k] = k
  BY <1>14
<1>16. Archive!Yields(lines, y)
  <2>1. /\ place \in [1..Len(y) -> closed]
        /\ \A i \in closed : \E k \in 1..Len(y) : place[k] = i
        /\ \A k \in 1..Len(y) : lines[place[k]].hold = y[k]
        /\ \A k, j \in 1..Len(y) : k < j => place[k] < place[j]
    BY <1>10, <1>11, <1>12, <1>13, <1>15
  <2> QED
    BY <2>1 DEF Archive!Yields, closed
<1> QED
  BY <1>7, <1>14, <1>16

\* One that ends with a witness is not.
LEMMA OddStory ==
  ASSUME NEW lines, NEW n \in Nat, Len(lines) = n, \A i \in 1..n : lines[i].hold \in Nat,
         NEW m \in Nat, Told(lines, 2 * m + 1)
  PROVE  ~Archive!Paired(lines)
<1> SUFFICES ASSUME Archive!Paired(lines) PROVE FALSE
  OBVIOUS
<1>1. PICK w \in Staged(lines) : Rank(lines[w]) = 2 * m + 1
  BY DEF Told
<1>2. w \in 1..n /\ lines[w].hold \in Nat
  BY DEF Staged
<1>3. lines[w].kind = "ADMITTED_BEFORE_MOTION" /\ lines[w].hold = m + 1
  BY <1>1, <1>2 DEF Rank, Staged, Archive!Staging
<1>4. w \in Archive!Places(lines, "ADMITTED_BEFORE_MOTION")
  BY <1>2, <1>3 DEF Archive!Places
<1>5. PICK i \in Archive!Completions(lines) : Archive!Closes(lines, w, i)
  BY <1>4 DEF Archive!Paired
<1>6. i \in Staged(lines) /\ Rank(lines[i]) = 2 * (m + 1)
  BY <1>3, <1>5 DEF Archive!Closes, Archive!Completions, Archive!Places, Staged, Archive!Staging, Rank
<1>7. Rank(lines[i]) \in 1..(2 * m + 1)
  BY <1>6 DEF Told
<1> QED
  BY <1>6, <1>7

\* The story is told alike by lines with the same payloads.
LEMMA ToldAlike ==
  ASSUME NEW rows, NEW lines, NEW n \in Nat, Len(rows) = n, Len(lines) = n,
         \A i \in 1..n : lines[i].kind = rows[i].kind /\ lines[i].hold = rows[i].hold,
         NEW top, Told(rows, top)
  PROVE  Told(lines, top)
<1>1. Staged(lines) = Staged(rows)
  BY DEF Staged, Archive!Staging
<1>2. \A i \in Staged(rows) : Rank(lines[i]) = Rank(rows[i])
  BY DEF Staged, Rank
<1> QED
  BY <1>1, <1>2 DEF Told

LEMMA MotionStaged == ArchiveInv => Archive!MotionIsStaged
<1> SUFFICES ASSUME ArchiveInv, NEW n \in 1..moved
             PROVE  \E i \in 1..synced :
                      file[i] # TORN /\ file[i].kind = "ADMITTED_BEFORE_MOTION" /\ file[i].hold = n
  BY DEF Archive!MotionIsStaged
<1>1. PICK top \in Nat : Told(rolling, top) /\ ToldAsMoved(top)
  BY DEF ArchiveInv, Story
<1>2. /\ moved \in Nat /\ entries \in Nat /\ synced \in Nat /\ entries <= synced
      /\ Len(rolling) = entries /\ rolling \in Seq(Entries)
  BY DEF ArchiveInv, ArchiveTypes, StorageFits
<1>3. 2 * n - 1 \in 1..top
  BY <1>1, <1>2 DEF ToldAsMoved
<1>4. PICK i \in Staged(rolling) : Rank(rolling[i]) = 2 * n - 1
  BY <1>1, <1>3 DEF Told
<1>5. i \in 1..entries /\ i \in 1..synced
  BY <1>2 DEF Staged
<1>6. rolling[i] \in Entries
  BY <1>2, <1>5
<1>7. rolling[i].hold \in Nat
  BY <1>6 DEF Entries
<1>8. rolling[i].kind = "ADMITTED_BEFORE_MOTION" /\ rolling[i].hold = n
  BY <1>2, <1>4, <1>7 DEF Rank, Staged, Archive!Staging
<1>9. file[i] # TORN /\ Archive!Payload(file[i]) = rolling[i]
  BY <1>5, <1>8 DEF ArchiveInv, Archive!AcknowledgedIsDurable
<1> QED
  BY <1>5, <1>8, <1>9 DEF Archive!Payload

LEMMA VerifiedMotion == ArchiveInv => Archive!VerifiedIsTheMotion
<1> SUFFICES ASSUME ArchiveInv, manifest # None, Archive!Verifies(file, manifest)
             PROVE  Archive!Yields(file, [n \in 1..moved |-> n])
  BY DEF Archive!VerifiedIsTheMotion
<1>1. manifest = Archive!Expected
  BY DEF ArchiveInv, ManifestFits
<1>2. Len(file) = entries /\ Archive!Payloads(file) = rolling /\ Archive!Paired(file)
  BY <1>1 DEF Archive!Verifies, Archive!Expected
<1>3. /\ moved \in Nat /\ entries \in Nat /\ Len(rolling) = entries /\ rolling \in Seq(Entries)
  BY DEF ArchiveInv, ArchiveTypes
<1>4. \A i \in 1..entries : /\ file[i].kind = rolling[i].kind /\ file[i].hold = rolling[i].hold
                            /\ file[i].hold \in Nat
  <2> SUFFICES ASSUME NEW i \in 1..entries
               PROVE  /\ file[i].kind = rolling[i].kind /\ file[i].hold = rolling[i].hold
                      /\ file[i].hold \in Nat
    OBVIOUS
  <2>1. rolling[i] = Archive!Payload(file[i])
    BY <1>2 DEF Archive!Payloads
  <2>2. rolling[i] \in Entries
    BY <1>3
  <2> QED
    BY <2>1, <2>2 DEF Archive!Payload, Entries
<1>5. PICK top \in Nat : Told(rolling, top) /\ ToldAsMoved(top)
  BY DEF ArchiveInv, Story
<1>6. Told(file, top)
  BY <1>2, <1>3, <1>4, <1>5, ToldAlike
<1>7. top = 2 * moved
  <2>1. top # 2 * moved + 1
    BY <1>2, <1>3, <1>4, <1>6, OddStory
  <2>2. top # 2 * moved - 1
    <3> SUFFICES ASSUME top = 2 * moved - 1 PROVE FALSE
      OBVIOUS
    <3>1. PICK m \in Nat : m = moved - 1
      BY <1>3, <1>5
    <3>2. top = 2 * m + 1
      BY <1>3, <3>1
    <3> QED
      BY <1>2, <1>3, <1>4, <1>6, <3>2, OddStory
  <2> QED
    BY <1>5, <2>1, <2>2 DEF ToldAsMoved
<1> QED
  BY <1>2, <1>3, <1>4, <1>6, <1>7, EvenStory

LEMMA ReturnedVerifies == ArchiveInv => Archive!ReturnedRunVerifies
<1> SUFFICES ASSUME ArchiveInv, reader # None, outcome = "returned"
             PROVE  framed /\ Archive!Verifies(file, reader) /\ Archive!Yields(file, recorded)
  BY DEF Archive!ReturnedRunVerifies
<1>1. reader = Archive!Expected /\ at = "closed" /\ producer = "idle" /\ framed = TRUE
  BY DEF ArchiveInv, ManifestFits, StageFits, StorageFits
<1>2. Matches /\ Len(file) = entries
  BY DEF ArchiveInv, StorageFits
<1>3. /\ moved \in Nat /\ entries \in Nat /\ Len(rolling) = entries /\ rolling \in Seq(Entries)
      /\ file \in Seq(Bytes)
  BY DEF ArchiveInv, ArchiveTypes
<1>4. \A i \in 1..entries : /\ file[i] = LineOf(rolling, i) /\ rolling[i] \in Entries
                            /\ rolling[i] = Archive!Payload(file[i])
                            /\ file[i] # TORN /\ ~Failure(rolling[i])
  <2> SUFFICES ASSUME NEW i \in 1..entries
               PROVE  /\ file[i] = LineOf(rolling, i) /\ rolling[i] \in Entries
                      /\ rolling[i] = Archive!Payload(file[i])
                      /\ file[i] # TORN /\ ~Failure(rolling[i])
    OBVIOUS
  <2>1. file[i] = LineOf(rolling, i)
    BY <1>2 DEF Matches
  <2>2. rolling[i] \in Entries
    BY <1>3
  <2>3. rolling[i] = Archive!Payload(LineOf(rolling, i))
    BY <2>2 DEF Entries, LineOf, Archive!Payload
  <2>4. ~Failure(rolling[i])
    BY DEF ArchiveInv, NoFailureYet
  <2>5. file[i] # TORN
    BY <2>4 DEF ArchiveInv, Archive!AcknowledgedIsDurable, Failure
  <2> QED
    BY <2>1, <2>2, <2>3, <2>4, <2>5
<1>5. Archive!Readable(file) /\ \A i \in 1..Len(file) : file[i].kind # "ASSUMPTION_VIOLATION"
  BY <1>2, <1>4 DEF Archive!Readable, LineOf, Failure
<1>6. Archive!Payloads(file) = rolling
  <2>1. rolling = [i \in 1..entries |-> rolling[i]]
    BY <1>3
  <2> QED
    BY <1>2, <1>4, <2>1 DEF Archive!Payloads
<1>7. \A i \in 1..entries : /\ file[i].kind = rolling[i].kind /\ file[i].hold = rolling[i].hold
                            /\ file[i].hold \in Nat
  <2> SUFFICES ASSUME NEW i \in 1..entries
               PROVE  /\ file[i].kind = rolling[i].kind /\ file[i].hold = rolling[i].hold
                      /\ file[i].hold \in Nat
    OBVIOUS
  <2>1. file[i] = LineOf(rolling, i) /\ rolling[i] \in Entries
    BY <1>4
  <2>2. rolling[i].hold \in Nat
    BY <2>1 DEF Entries
  <2> QED
    BY <2>1, <2>2 DEF LineOf
<1>8. Told(rolling, 2 * moved)
  <2>1. PICK top \in Nat : Told(rolling, top) /\ ToldAsMoved(top)
    BY DEF ArchiveInv, Story
  <2>2. top = 2 * moved
    BY <1>1, <2>1 DEF ToldAsMoved
  <2> QED
    BY <2>1, <2>2
<1>9. Told(file, 2 * moved)
  BY <1>2, <1>3, <1>7, <1>8, ToldAlike
<1>10. Archive!Paired(file) /\ Archive!Yields(file, [n \in 1..moved |-> n])
  BY <1>2, <1>3, <1>7, <1>9, EvenStory
<1>11. recorded = [n \in 1..moved |-> n]
  BY <1>1 DEF ArchiveInv, CountsFit
<1>12. Cardinality(Archive!Completions(file)) = holds
  <2>1. Archive!Completions(file) = Archive!Completions(rolling)
    BY <1>2, <1>3, <1>7 DEF Archive!Completions, Archive!Places
  <2> QED
    BY <2>1 DEF ArchiveInv, CountsFit
<1>13. Archive!Verifies(file, reader)
  <2>1. /\ reader.raw = file /\ reader.entries = entries /\ reader.completed_holds = holds
        /\ reader.payload_identities = rolling
    BY <1>1 DEF Archive!Expected
  <2>2. Archive!Cardinality(Archive!Completions(file)) = holds
    BY <1>12, SameCardinality
  <2> QED
    BY <1>2, <1>5, <1>6, <1>10, <2>1, <2>2 DEF Archive!Verifies
<1> QED
  BY <1>1, <1>10, <1>11, <1>13

LEMMA RecordsArchiveStep == [RecordsNext]_<<part, loop, archive, study, mission>> => [Archive!Next]_Archive!vars
  BY DEF RecordsNext, RunLoop, KeepArchive, RunArm, RunApproach, Stop, archive,
         Archive!vars, Archive!counters, Archive!storage, Archive!published, Archive!producer

\* For every mission, however many witnesses it streams and whatever write,
\* flush, sync or close fails and whenever the process or the machine dies:
\* what was acknowledged is in the synced file, motion is never ahead of its
\* staged witness there, an archive that verifies yields exactly the holds the
\* plant applied, and a run that returned leaves one that does.
THEOREM ArchiveKeepsTheMotion == RecordsSpec => []ArchiveHoldsTheMotion
<1>1. RecordsInit => ArchiveInv
  BY ArchiveStarts DEF RecordsInit
<1>2. ArchiveInv /\ [RecordsNext]_<<part, loop, archive, study, mission>> => ArchiveInv'
  BY ArchiveStep, RecordsArchiveStep
<1>3. ArchiveInv => ArchiveHoldsTheMotion
  BY MotionStaged, VerifiedMotion, ReturnedVerifies DEF ArchiveInv, ArchiveHoldsTheMotion
<1> QED
  BY <1>1, <1>2, <1>3, PTL DEF RecordsSpec

-----------------------------------------------------------------------------
(***************************************************************************)
(* The study arm                                                           *)
(***************************************************************************)

\* Points of complete() by what must be on disk or have succeeded before them.
WithBudget == {"attitude", "record_attitude", "capture_geometry", "attachment", "propulsion",
               "detumbling", "detumbling_loads", "deorbit", "deorbit_loads", "record_lifecycle"}
WithAttitude == WithBudget \ {"attitude", "record_attitude"}
WithAttachment == {"propulsion", "detumbling", "detumbling_loads", "deorbit", "deorbit_loads"}
WithRest == {"deorbit", "deorbit_loads"}

BeforePerforming == {"off", "approach", "geometry", "budget", "record_budget", "attitude"}

\* Points of run() at which the approach is there, is archived, is saved.
WithApproach == {"close", "save", "authenticate", "complete", "account", "incomplete", "finish"}
WithSource == WithApproach \ {"close"}
WithFile == WithSource \ {"save"}
WithOutcome == {"account", "incomplete", "finish"}
Reporting == {"metrics", "write_metrics", "write_result", "ended"}

Failures == {"none", "attachment", "propulsion_setup", "detumbling", "deorbit"}
Lifecycles == [success : BOOLEAN, keeps : SUBSET Study!Attached, failure : Failures]
Results == [success : BOOLEAN, budget : BOOLEAN, attitude : BOOLEAN, lifecycle : Lifecycles \cup {None}]

ArmTypes ==
  /\ arm \in WithApproach \cup Reporting \cup {"prepare", "approach", "retain", "retain_prefix", "crashed"}
  /\ stage \in WithBudget \cup BeforePerforming \cup {"returned", "raised"}
  /\ passed \subseteq performed /\ performed \subseteq Study!PhysicalStages
  /\ error \in BOOLEAN /\ metrics \in BOOLEAN /\ budget \in BOOLEAN /\ attitude \in BOOLEAN
  /\ stage = "record_lifecycle" => lifecycle \in Lifecycles
  /\ stage = "returned" => result \in Results
  /\ arm \in WithOutcome => completion \in Results

\* complete() has begun only with a saved, archived approach.
ApproachFirst ==
  /\ arm \in WithApproach \cup {"prepare", "approach"} => ~error
  /\ arm = "retain_prefix" => approach = None /\ error
  /\ arm \in WithSource => source
  /\ arm \in WithFile => "approach" \in files
  /\ arm = "complete" => stage # "off"
  /\ stage # "off" => approach = "complete" /\ source /\ "approach" \in files
                      /\ arm \notin {"prepare", "approach", "close", "save", "authenticate"}

\* What each stage of complete() has behind it.
StagesInOrder ==
  /\ stage \in BeforePerforming => performed = {}
  /\ stage \notin {"off", "approach", "raised"} => "approach" \in stored
  /\ performed # {} => {"approach", "translation_budget"} \subseteq stored
  /\ stage \in WithBudget => {"approach", "translation_budget"} \subseteq stored
  /\ stage \in WithAttitude => "attitude" \in passed /\ "chaser_attitude" \in stored
  /\ stage \in WithAttachment => "attachment" \in passed
  /\ stage \in WithRest => "detumbling" \in passed
  /\ "attachment" \in performed => "attitude" \in passed /\ "chaser_attitude" \in stored
  /\ "detumbling" \in performed => "attachment" \in passed
  /\ "deorbit" \in performed => "detumbling" \in passed
  /\ attitude /\ stage \notin {"record_attitude", "raised"} => "chaser_attitude" \in stored
  /\ stage = "record_lifecycle" /\ lifecycle.success => passed = Study!PhysicalStages

\* A result names only what is stored, and succeeds only with every stage.
Backed(out) ==
  /\ out.success => passed = Study!PhysicalStages
  /\ out.attitude => "chaser_attitude" \in stored
  /\ out.lifecycle # None => "lifecycle" \in stored

ResultsBacked ==
  /\ stage = "returned" => Backed(result)
  /\ arm \in WithOutcome => Backed(completion)
  /\ arm \in {"account", "incomplete"} /\ approach = "complete" => "approach" \in stored
  /\ arm = "finish" => "approach" \in stored
  /\ summary # None => Backed(summary) /\ "approach" \in stored

\* What is reported was finished without an error, or is no success.
ReportsFit ==
  /\ arm \in Reporting /\ ~error => summary = completion /\ "approach" \in files
  /\ arm \in {"write_metrics", "write_result", "ended"} /\ metrics =>
       ~error /\ completion # None /\ completion.success
  /\ arm = "ended" => run_result = metrics
  /\ run_result = TRUE => arm = "ended"

StudyInv == ArmTypes /\ ApproachFirst /\ StagesInOrder /\ ResultsBacked /\ ReportsFit

-----------------------------------------------------------------------------

\* What a step of complete() may touch.
LEMMA CompletionFrame ==
  ASSUME ArmTypes, Study!CompletionNext
  PROVE  stored \subseteq stored' /\ passed \subseteq passed' /\ performed \subseteq performed'
         /\ stage \notin {"off", "returned", "raised"} /\ stage' # "off"
<1> USE DEF Study!At, Study!Go, Study!Escape, Study!Reject, Study!Refuse, Study!Record, Study!Perform,
            Study!Deliver, Study!Raises, Study!locals, Study!physics
<1>1. CASE Study!RecordApproach \/ Study!RecordBudget \/ Study!RecordAttitude \/ Study!RecordLifecycle
  BY <1>1 DEF Study!RecordApproach, Study!RecordBudget, Study!RecordAttitude, Study!RecordLifecycle
<1>2. CASE Study!BindGeometry \/ Study!TranslationBudget \/ Study!CaptureGeometry \/ Study!SetUpPropulsion
  BY <1>2 DEF Study!BindGeometry, Study!TranslationBudget, Study!CaptureGeometry, Study!SetUpPropulsion
<1>3. CASE Study!TrackAttitude \/ Study!Attach
  BY <1>3 DEF Study!TrackAttitude, Study!Attach
<1>4. CASE Study!Detumble \/ Study!Deorbit
  BY <1>4 DEF Study!Detumble, Study!Deorbit
<1>5. CASE Study!AuditDetumbling \/ Study!AuditDeorbit
  BY <1>5 DEF Study!AuditDetumbling, Study!AuditDeorbit
<1> QED
  BY <1>1, <1>2, <1>3, <1>4, <1>5 DEF Study!CompletionNext

\* The part of the types that complete() can touch.
CompletionTypes ==
  /\ stage \in WithBudget \cup BeforePerforming \cup {"returned", "raised"}
  /\ passed \subseteq performed /\ performed \subseteq Study!PhysicalStages
  /\ budget \in BOOLEAN /\ attitude \in BOOLEAN
  /\ stage = "record_lifecycle" => lifecycle \in Lifecycles
  /\ stage = "returned" => result \in Results /\ Backed(result)

LEMMA RejectedResult ==
  ASSUME ArmTypes, StagesInOrder, stage \notin {"off", "approach", "raised", "returned", "record_attitude"},
         Study!Reject, stored' = stored
  PROVE  CompletionTypes' /\ StagesInOrder'
<1>1. result' = [success |-> FALSE, budget |-> budget, attitude |-> attitude, lifecycle |-> None]
      /\ stage' = "returned" /\ UNCHANGED <<performed, passed, budget, attitude, lifecycle>>
  BY DEF Study!Reject, Study!locals
<1>2. result' \in Results
  BY <1>1 DEF Results, ArmTypes
<1>3. result'.success = FALSE /\ result'.attitude = attitude /\ result'.lifecycle = None
  BY <1>1
<1>4. attitude => "chaser_attitude" \in stored
  BY DEF StagesInOrder
<1>5. Backed(result)'
  BY <1>3, <1>4 DEF Backed
<1>6. CompletionTypes'
  BY <1>1, <1>2, <1>5 DEF CompletionTypes, ArmTypes, WithBudget, BeforePerforming
<1>7. StagesInOrder'
  BY <1>1, <1>4 DEF StagesInOrder, WithBudget, WithAttitude, WithAttachment, WithRest, BeforePerforming
<1> QED
  BY <1>6, <1>7

LEMMA EscapedResult ==
  ASSUME ArmTypes, StagesInOrder, Study!Escape, stored' = stored
  PROVE  CompletionTypes' /\ StagesInOrder'
<1>1. stage' = "raised" /\ UNCHANGED <<performed, passed, budget, attitude, lifecycle, result>>
  BY DEF Study!Escape, Study!locals
<1> QED
  BY <1>1 DEF CompletionTypes, ArmTypes, StagesInOrder, WithBudget, WithAttitude, WithAttachment, WithRest,
              BeforePerforming

\* A lifecycle is handed over by a stage that failed or by the last one.
Delivered(name, success) ==
  /\ name \in Study!Attached
  /\ name = "detumbling" => "attachment" \in passed
  /\ name = "deorbit" => "detumbling" \in passed
  /\ success => name = "deorbit"
  /\ Study!Perform(name, success) \/ (success = FALSE /\ UNCHANGED <<performed, passed>>)
  /\ stored' = stored
  /\ lifecycle'.success = success /\ lifecycle' \in Lifecycles
  /\ stage' = "record_lifecycle" /\ UNCHANGED <<budget, attitude, result>>

LEMMA DeliveredLifecycle ==
  ASSUME ArmTypes, StagesInOrder, stage \in WithAttitude,
         NEW name, NEW success \in BOOLEAN, Delivered(name, success)
  PROVE  CompletionTypes' /\ StagesInOrder'
<1>1. stage' = "record_lifecycle" /\ UNCHANGED <<budget, attitude, result>>
  BY DEF Delivered
<1>2. lifecycle' \in Lifecycles /\ lifecycle'.success = success
  BY DEF Delivered
<1>3. /\ performed' \in {performed, performed \cup {name}} /\ performed \subseteq performed'
      /\ passed' \in {passed, passed \cup {name}} /\ passed \subseteq passed'
      /\ passed' \subseteq performed' /\ performed' \subseteq Study!PhysicalStages
      /\ success => name \in passed'
  BY DEF Delivered, Study!Perform, ArmTypes, Study!PhysicalStages
<1>4. {"approach", "translation_budget"} \subseteq stored /\ "attitude" \in passed
      /\ "chaser_attitude" \in stored /\ stored' = stored
  BY DEF StagesInOrder, WithAttitude, WithBudget, Delivered
<1>5. /\ "attachment" \in performed => "attitude" \in passed /\ "chaser_attitude" \in stored
      /\ "detumbling" \in performed => "attachment" \in passed
      /\ "deorbit" \in performed => "detumbling" \in passed
      /\ name = "detumbling" => "attachment" \in passed
      /\ name = "deorbit" => "detumbling" \in passed
  BY DEF StagesInOrder, Delivered
<1>6. success => passed' = Study!PhysicalStages
  <2> SUFFICES ASSUME success PROVE passed' = Study!PhysicalStages
    OBVIOUS
  <2>1. name = "deorbit" /\ "deorbit" \in passed' /\ "detumbling" \in passed /\ "detumbling" \in performed
    BY <1>3, <1>5 DEF ArmTypes, Delivered
  <2>2. "attachment" \in passed
    BY <1>5, <2>1
  <2> QED
    BY <1>3, <1>4, <2>1, <2>2 DEF Study!PhysicalStages, Study!Attached
<1>7. CompletionTypes'
  BY <1>1, <1>2, <1>3 DEF CompletionTypes, ArmTypes, WithBudget
<1>8. StagesInOrder'
  <2>1. name \in {"attachment", "detumbling", "deorbit"}
    BY DEF Study!Attached, Delivered
  <2>2. /\ "attachment" \in performed' => "attitude" \in passed' /\ "chaser_attitude" \in stored'
        /\ "detumbling" \in performed' => "attachment" \in passed'
        /\ "deorbit" \in performed' => "detumbling" \in passed'
    BY <1>3, <1>4, <1>5, <2>1
  <2>3. stage' \in WithBudget /\ stage' \in WithAttitude /\ stage' \notin WithAttachment
        /\ stage' \notin WithRest /\ stage' \notin BeforePerforming /\ stage' \notin {"raised", "record_attitude"}
    BY <1>1 DEF WithBudget, WithAttitude, WithAttachment, WithRest, BeforePerforming
  <2>4. lifecycle'.success => passed' = Study!PhysicalStages
    BY <1>2, <1>6, Zenon
  <2>5. {"approach", "translation_budget"} \subseteq stored' /\ "attitude" \in passed'
        /\ "chaser_attitude" \in stored'
    BY <1>3, <1>4
  <2> QED
    BY <2>2, <2>3, <2>4, <2>5 DEF StagesInOrder
<1> QED
  BY <1>7, <1>8

\* A stage that raises with a lifecycle to keep hands that over.
LEMMA RefusedLifecycle ==
  ASSUME ArmTypes, StagesInOrder, stage \in WithAttitude, stored' = stored,
         NEW keeps \in SUBSET Study!Attached, NEW failure \in Failures,
         Study!Deliver(FALSE, keeps, failure), performed' = performed, passed' = passed
  PROVE  CompletionTypes' /\ StagesInOrder'
<1>1. lifecycle' = [success |-> FALSE, keeps |-> keeps, failure |-> failure]
      /\ stage' = "record_lifecycle" /\ UNCHANGED <<budget, attitude, result>>
  BY DEF Study!Deliver
<1>2. lifecycle' \in Lifecycles /\ lifecycle'.success = FALSE
  BY <1>1 DEF Lifecycles
<1>3. Delivered("attachment", FALSE)
  BY <1>1, <1>2 DEF Delivered, Study!Attached
<1> QED
  BY <1>3, DeliveredLifecycle

LEMMA RaisedLifecycle ==
  ASSUME ArmTypes, StagesInOrder, stage \in WithAttitude, stored' = stored,
         NEW keeps \in SUBSET Study!Attached, NEW failure \in Failures, Study!Raises(keeps, failure)
  PROVE  CompletionTypes' /\ StagesInOrder'
<1>1. CASE Study!Deliver(FALSE, keeps, failure) /\ UNCHANGED Study!physics
  <2>1. performed' = performed /\ passed' = passed
    BY <1>1 DEF Study!physics
  <2> QED
    BY <1>1, <2>1, RefusedLifecycle
<1> QED
  BY <1>1, EscapedResult DEF Study!Raises

LEMMA CompletionStep ==
  ASSUME ArmTypes, StagesInOrder, ResultsBacked, Study!CompletionNext
  PROVE  CompletionTypes' /\ StagesInOrder'
<1> USE DEF WithBudget, WithAttitude, WithAttachment, WithRest, BeforePerforming
<1>1. CASE Study!RecordApproach
  <2>1. stage = "approach" /\ stage' \in {"geometry", "raised"} /\ stored \subseteq stored'
        /\ (stage' # "raised" => "approach" \in stored')
        /\ UNCHANGED <<performed, passed, budget, attitude, lifecycle, result>>
    BY <1>1 DEF Study!RecordApproach, Study!At, Study!Record, Study!locals
  <2>2. performed = {}
    BY <2>1 DEF StagesInOrder
  <2> QED
    BY <2>1, <2>2 DEF CompletionTypes, ArmTypes, StagesInOrder
<1>2. CASE Study!BindGeometry
  <2>1. stage = "geometry" /\ stored' = stored
        /\ \/ stage' = "budget" /\ UNCHANGED <<performed, passed, budget, attitude, lifecycle, result>>
           \/ Study!Reject \/ Study!Escape
    BY <1>2 DEF Study!BindGeometry, Study!At, Study!Go, Study!Refuse, Study!locals
  <2>2. CASE stage' = "budget" /\ UNCHANGED <<performed, passed, budget, attitude, lifecycle, result>>
    BY <2>1, <2>2 DEF CompletionTypes, ArmTypes, StagesInOrder
  <2> QED
    BY <2>1, <2>2, RejectedResult, EscapedResult
<1>3. CASE Study!TranslationBudget
  <2>1. stage = "budget" /\ stored' = stored
        /\ \/ /\ stage' = "record_budget" /\ budget' = TRUE
              /\ UNCHANGED <<performed, passed, attitude, lifecycle, result>>
           \/ Study!Reject \/ Study!Escape
    BY <1>3 DEF Study!TranslationBudget, Study!At, Study!Go, Study!Refuse, Study!locals
  <2>2. CASE stage' = "record_budget" /\ budget' = TRUE
             /\ UNCHANGED <<performed, passed, attitude, lifecycle, result>>
    BY <2>1, <2>2 DEF CompletionTypes, ArmTypes, StagesInOrder
  <2> QED
    BY <2>1, <2>2, RejectedResult, EscapedResult
<1>4. CASE Study!RecordBudget
  <2>1. stage = "record_budget" /\ stage' \in {"attitude", "raised"} /\ stored \subseteq stored'
        /\ (stage' # "raised" => "translation_budget" \in stored')
        /\ UNCHANGED <<performed, passed, budget, attitude, lifecycle, result>>
    BY <1>4 DEF Study!RecordBudget, Study!At, Study!Record, Study!locals
  <2>2. performed = {} /\ "approach" \in stored
    BY <2>1 DEF StagesInOrder
  <2> QED
    BY <2>1, <2>2 DEF CompletionTypes, ArmTypes, StagesInOrder
<1>5. CASE Study!TrackAttitude
  <2>1. stage = "attitude" /\ stored' = stored
        /\ \/ /\ stage' = "record_attitude" /\ attitude' = TRUE
              /\ \E success \in BOOLEAN : Study!Perform("attitude", success)
              /\ UNCHANGED <<budget, lifecycle, result>>
           \/ Study!Reject \/ Study!Escape
    BY <1>5 DEF Study!TrackAttitude, Study!At, Study!Go, Study!Refuse, Study!locals
  <2>2. CASE stage' = "record_attitude" /\ attitude' = TRUE
             /\ (\E success \in BOOLEAN : Study!Perform("attitude", success))
             /\ UNCHANGED <<budget, lifecycle, result>>
    <3>1. performed = {} /\ passed = {} /\ {"approach", "translation_budget"} \subseteq stored
      BY <2>1 DEF StagesInOrder, ArmTypes
    <3>2. performed' = {"attitude"} /\ passed' \in {{}, {"attitude"}}
      BY <2>2, <3>1 DEF Study!Perform
    <3> QED
      BY <2>1, <2>2, <3>1, <3>2 DEF CompletionTypes, ArmTypes, StagesInOrder, Study!PhysicalStages
  <2> QED
    BY <2>1, <2>2, RejectedResult, EscapedResult
<1>6. CASE Study!RecordAttitude
  <2>1. /\ stage = "record_attitude"
        /\ stage' \in {IF "attitude" \in passed THEN "capture_geometry" ELSE "returned", "raised"}
        /\ stored \subseteq stored' /\ (stage' # "raised" => "chaser_attitude" \in stored')
        /\ UNCHANGED <<performed, passed, budget, attitude, lifecycle>>
        /\ result' = IF stage' = "returned"
               THEN [success |-> FALSE, budget |-> TRUE, attitude |-> TRUE, lifecycle |-> None]
               ELSE result
    BY <1>6 DEF Study!RecordAttitude, Study!At, Study!Record, Study!locals
  <2>2. stage' = "returned" => result' \in Results /\ Backed(result)'
    <3> SUFFICES ASSUME stage' = "returned" PROVE result' \in Results /\ Backed(result)'
      OBVIOUS
    <3>1. result' = [success |-> FALSE, budget |-> TRUE, attitude |-> TRUE, lifecycle |-> None]
          /\ "chaser_attitude" \in stored'
      BY <2>1
    <3>2. result' \in Results
      BY <3>1 DEF Results
    <3> QED
      BY <3>1, <3>2 DEF Backed
  <2>3. {"approach", "translation_budget"} \subseteq stored
    BY <2>1 DEF StagesInOrder
  <2>4. CompletionTypes'
    BY <2>1, <2>2 DEF CompletionTypes, ArmTypes
  <2>5. StagesInOrder'
    BY <2>1, <2>3 DEF StagesInOrder
  <2> QED
    BY <2>4, <2>5
<1>7. CASE Study!CaptureGeometry
  <2>1. stage = "capture_geometry" /\ stored' = stored
        /\ \/ stage' = "attachment" /\ UNCHANGED <<performed, passed, budget, attitude, lifecycle, result>>
           \/ Study!Reject \/ Study!Escape
    BY <1>7 DEF Study!CaptureGeometry, Study!At, Study!Go, Study!Refuse, Study!locals
  <2>2. CASE stage' = "attachment" /\ UNCHANGED <<performed, passed, budget, attitude, lifecycle, result>>
    BY <2>1, <2>2 DEF CompletionTypes, ArmTypes, StagesInOrder
  <2> QED
    BY <2>1, <2>2, RejectedResult, EscapedResult
<1>8. CASE Study!Attach
  <2>1. stage \in WithAttitude /\ stage = "attachment" /\ stored' = stored
    BY <1>8 DEF Study!Attach, Study!At
  <2>2. CASE Study!Perform("attachment", TRUE) /\ Study!Go("propulsion") /\ UNCHANGED Study!locals
    <3>1. stage' = "propulsion" /\ UNCHANGED <<budget, attitude, lifecycle, result>>
          /\ performed' = performed \cup {"attachment"} /\ passed' = passed \cup {"attachment"}
      BY <2>2 DEF Study!Perform, Study!Go, Study!locals
    <3> QED
      BY <2>1, <3>1 DEF CompletionTypes, ArmTypes, StagesInOrder, Study!PhysicalStages, Study!Attached
  <2>3. CASE Study!Perform("attachment", FALSE) /\ Study!Deliver(FALSE, {"attachment"}, "none")
    <3>1. lifecycle' = [success |-> FALSE, keeps |-> {"attachment"}, failure |-> "none"]
          /\ stage' = "record_lifecycle" /\ UNCHANGED <<budget, attitude, result>>
      BY <2>3 DEF Study!Deliver
    <3>2. lifecycle' \in Lifecycles /\ lifecycle'.success = FALSE
      BY <3>1 DEF Lifecycles, Study!Attached, Failures
    <3>3. Delivered("attachment", FALSE)
      BY <2>1, <2>3, <3>1, <3>2 DEF Delivered, Study!Attached
    <3> QED
      BY <2>1, <3>3, DeliveredLifecycle
  <2>4. CASE Study!Raises({}, "attachment")
    <3>1. {} \in SUBSET Study!Attached /\ "attachment" \in Failures
      BY DEF Failures
    <3> QED
      BY <2>1, <2>4, <3>1, RaisedLifecycle
  <2> QED
    BY <1>8, <2>2, <2>3, <2>4 DEF Study!Attach
<1>9. CASE Study!SetUpPropulsion
  <2>1. stage \in WithAttitude /\ stage = "propulsion" /\ stored' = stored
    BY <1>9 DEF Study!SetUpPropulsion, Study!At
  <2>2. CASE Study!Go("detumbling") /\ UNCHANGED <<performed, passed, Study!locals>>
    <3>1. stage' = "detumbling" /\ UNCHANGED <<performed, passed, budget, attitude, lifecycle, result>>
      BY <2>2 DEF Study!Go, Study!locals
    <3> QED
      BY <2>1, <3>1 DEF CompletionTypes, ArmTypes, StagesInOrder
  <2>3. CASE Study!Raises({"attachment"}, "propulsion_setup")
    <3>1. {"attachment"} \in SUBSET Study!Attached /\ "propulsion_setup" \in Failures
      BY DEF Study!Attached, Failures
    <3> QED
      BY <2>1, <2>3, <3>1, RaisedLifecycle
  <2> QED
    BY <1>9, <2>2, <2>3 DEF Study!SetUpPropulsion
<1>10. CASE Study!Detumble
  <2>1. stage \in WithAttitude /\ stage = "detumbling" /\ stored' = stored
    BY <1>10 DEF Study!Detumble, Study!At
  <2>2. CASE Study!Perform("detumbling", FALSE) /\ Study!Go("detumbling_loads") /\ UNCHANGED Study!locals
    <3>1. stage' = "detumbling_loads" /\ UNCHANGED <<passed, budget, attitude, lifecycle, result>>
          /\ performed' = performed \cup {"detumbling"}
      BY <2>2 DEF Study!Perform, Study!Go, Study!locals
    <3> QED
      BY <2>1, <3>1 DEF CompletionTypes, ArmTypes, StagesInOrder, Study!PhysicalStages, Study!Attached
  <2>3. CASE Study!Raises({"attachment"}, "detumbling")
    <3>1. {"attachment"} \in SUBSET Study!Attached /\ "detumbling" \in Failures
      BY DEF Study!Attached, Failures
    <3> QED
      BY <2>1, <2>3, <3>1, RaisedLifecycle
  <2> QED
    BY <1>10, <2>2, <2>3 DEF Study!Detumble
<1>11. CASE Study!AuditDetumbling
  <2>1. stage \in WithAttitude /\ stage = "detumbling_loads" /\ stored' = stored
    BY <1>11 DEF Study!AuditDetumbling, Study!At
  <2>2. CASE Study!Perform("detumbling", TRUE) /\ Study!Go("deorbit") /\ UNCHANGED Study!locals
    <3>1. stage' = "deorbit" /\ UNCHANGED <<budget, attitude, lifecycle, result>>
          /\ performed' = performed \cup {"detumbling"} /\ passed' = passed \cup {"detumbling"}
      BY <2>2 DEF Study!Perform, Study!Go, Study!locals
    <3> QED
      BY <2>1, <3>1 DEF CompletionTypes, ArmTypes, StagesInOrder, Study!PhysicalStages, Study!Attached
  <2>3. ASSUME NEW failure \in {"none", "detumbling"},
               Study!Deliver(FALSE, {"attachment", "detumbling"}, failure), UNCHANGED Study!physics
        PROVE  CompletionTypes' /\ StagesInOrder'
    <3>1. {"attachment", "detumbling"} \in SUBSET Study!Attached /\ failure \in Failures
      BY DEF Study!Attached, Failures
    <3>2. performed' = performed /\ passed' = passed
      BY <2>3 DEF Study!physics
    <3> QED
      BY <2>1, <2>3, <3>1, <3>2, RefusedLifecycle
  <2>4. CASE Study!Raises({"attachment"}, "detumbling")
    <3>1. {"attachment"} \in SUBSET Study!Attached /\ "detumbling" \in Failures
      BY DEF Study!Attached, Failures
    <3> QED
      BY <2>1, <2>4, <3>1, RaisedLifecycle
  <2> QED
    BY <1>11, <2>2, <2>3, <2>4 DEF Study!AuditDetumbling
<1>12. CASE Study!Deorbit
  <2>1. stage \in WithAttitude /\ stage = "deorbit" /\ stored' = stored
    BY <1>12 DEF Study!Deorbit, Study!At
  <2>2. CASE Study!Perform("deorbit", FALSE) /\ Study!Go("deorbit_loads") /\ UNCHANGED Study!locals
    <3>1. stage' = "deorbit_loads" /\ UNCHANGED <<passed, budget, attitude, lifecycle, result>>
          /\ performed' = performed \cup {"deorbit"}
      BY <2>2 DEF Study!Perform, Study!Go, Study!locals
    <3> QED
      BY <2>1, <3>1 DEF CompletionTypes, ArmTypes, StagesInOrder, Study!PhysicalStages, Study!Attached
  <2>3. CASE Study!Raises({"attachment", "detumbling"}, "deorbit")
    <3>1. {"attachment", "detumbling"} \in SUBSET Study!Attached /\ "deorbit" \in Failures
      BY DEF Study!Attached, Failures
    <3> QED
      BY <2>1, <2>3, <3>1, RaisedLifecycle
  <2> QED
    BY <1>12, <2>2, <2>3 DEF Study!Deorbit
<1>13. CASE Study!AuditDeorbit
  <2>1. stage \in WithAttitude /\ stage = "deorbit_loads" /\ stored' = stored
    BY <1>13 DEF Study!AuditDeorbit, Study!At
  <2>2. "detumbling" \in passed
    BY <2>1 DEF StagesInOrder
  <2>3. CASE Study!Perform("deorbit", TRUE) /\ Study!Deliver(TRUE, Study!Attached, "none")
    <3>1. lifecycle' = [success |-> TRUE, keeps |-> Study!Attached, failure |-> "none"]
          /\ stage' = "record_lifecycle" /\ UNCHANGED <<budget, attitude, result>>
      BY <2>3 DEF Study!Deliver
    <3>2. lifecycle' \in Lifecycles /\ lifecycle'.success = TRUE
      BY <3>1 DEF Lifecycles, Failures
    <3>3. Delivered("deorbit", TRUE)
      BY <2>1, <2>2, <2>3, <3>1, <3>2 DEF Delivered, Study!Attached
    <3> QED
      BY <2>1, <3>3, DeliveredLifecycle
  <2>4. ASSUME NEW failure \in {"none", "deorbit"},
               Study!Deliver(FALSE, Study!Attached, failure), UNCHANGED Study!physics
        PROVE  CompletionTypes' /\ StagesInOrder'
    <3>1. Study!Attached \in SUBSET Study!Attached /\ failure \in Failures
      BY DEF Failures
    <3>2. performed' = performed /\ passed' = passed
      BY <2>4 DEF Study!physics
    <3> QED
      BY <2>1, <2>4, <3>1, <3>2, RefusedLifecycle
  <2>5. CASE Study!Raises({"attachment", "detumbling"}, "deorbit")
    <3>1. {"attachment", "detumbling"} \in SUBSET Study!Attached /\ "deorbit" \in Failures
      BY DEF Study!Attached, Failures
    <3> QED
      BY <2>1, <2>5, <3>1, RaisedLifecycle
  <2> QED
    BY <1>13, <2>3, <2>4, <2>5 DEF Study!AuditDeorbit
<1>14. CASE Study!RecordLifecycle
  <2>1. /\ stage = "record_lifecycle" /\ stage' \in {"returned", "raised"}
        /\ stored \subseteq stored' /\ (stage' # "raised" => "lifecycle" \in stored')
        /\ UNCHANGED <<performed, passed, budget, attitude, lifecycle>>
        /\ result' = IF stage' = "returned"
               THEN [success |-> lifecycle.success, budget |-> TRUE, attitude |-> TRUE, lifecycle |-> lifecycle]
               ELSE result
    BY <1>14 DEF Study!RecordLifecycle, Study!At, Study!Record, Study!locals
  <2>2. lifecycle \in Lifecycles /\ (lifecycle.success => passed = Study!PhysicalStages)
        /\ {"approach", "translation_budget"} \subseteq stored /\ "chaser_attitude" \in stored
    BY <2>1 DEF ArmTypes, StagesInOrder
  <2>3. stage' = "returned" => result' \in Results /\ Backed(result)'
    <3> SUFFICES ASSUME stage' = "returned" PROVE result' \in Results /\ Backed(result)'
      OBVIOUS
    <3>1. result' = [success |-> lifecycle.success, budget |-> TRUE, attitude |-> TRUE, lifecycle |-> lifecycle]
          /\ "lifecycle" \in stored' /\ "chaser_attitude" \in stored'
      BY <2>1, <2>2
    <3>2. lifecycle.success \in BOOLEAN
      BY <2>2 DEF Lifecycles
    <3>3. result' \in Results
      BY <2>2, <3>1, <3>2 DEF Results
    <3> QED
      BY <2>1, <2>2, <3>1, <3>3 DEF Backed
  <2>4. CompletionTypes'
    BY <2>1, <2>3 DEF CompletionTypes, ArmTypes
  <2>5. StagesInOrder'
    BY <2>1, <2>2 DEF StagesInOrder
  <2> QED
    BY <2>4, <2>5
<1> QED
  BY <1>1, <1>2, <1>3, <1>4, <1>5, <1>6, <1>7, <1>8, <1>9, <1>10, <1>11, <1>12, <1>13, <1>14
     DEF Study!CompletionNext

-----------------------------------------------------------------------------

LEMMA PrepareKept ==
  ASSUME StudyInv, Study!Prepare
  PROVE  StudyInv'
<1>1. /\ arm = "prepare" /\ arm' \in {"approach", "retain"}
      /\ UNCHANGED <<stage, stored, performed, passed, budget, attitude, lifecycle, result,
                     approach, source, completion, error, files, summary, metrics, run_result>>
  BY DEF Study!Prepare, Study!Step, Study!Raise, Study!completion, Study!physics, Study!locals,
         Study!arm_locals, Study!arm_disk
<1> USE DEF WithApproach, WithSource, WithFile, WithOutcome, Reporting
<1>2. ArmTypes'
  BY <1>1 DEF StudyInv, ArmTypes
<1>3. ApproachFirst'
  BY <1>1 DEF StudyInv, ApproachFirst
<1>4. StagesInOrder'
  BY <1>1 DEF StudyInv, StagesInOrder
<1>5. ResultsBacked'
  BY <1>1 DEF StudyInv, ResultsBacked, Backed, ApproachFirst
<1>6. ReportsFit'
  BY <1>1 DEF StudyInv, ReportsFit, ApproachFirst
<1> QED
  BY <1>2, <1>3, <1>4, <1>5, <1>6 DEF StudyInv

LEMMA RunApproachKept ==
  ASSUME StudyInv, Study!RunApproach
  PROVE  StudyInv'
<1>1. /\ arm = "approach" /\ arm' \in {"close", "retain"}
      /\ (arm' = "retain" => approach' = approach)
      /\ UNCHANGED <<stage, stored, performed, passed, budget, attitude, lifecycle, result,
                     source, completion, error, files, summary, metrics, run_result>>
  BY DEF Study!RunApproach, Study!Step, Study!Raise, Study!completion, Study!physics, Study!locals,
         Study!arm_locals, Study!arm_disk
<1> USE DEF WithApproach, WithSource, WithFile, WithOutcome, Reporting
<1>2. ArmTypes'
  BY <1>1 DEF StudyInv, ArmTypes
<1>3. ApproachFirst'
  BY <1>1 DEF StudyInv, ApproachFirst
<1>4. StagesInOrder'
  BY <1>1 DEF StudyInv, StagesInOrder
<1>5. ResultsBacked'
  BY <1>1 DEF StudyInv, ResultsBacked, Backed, ApproachFirst
<1>6. ReportsFit'
  BY <1>1 DEF StudyInv, ReportsFit, ApproachFirst
<1> QED
  BY <1>2, <1>3, <1>4, <1>5, <1>6 DEF StudyInv

LEMMA CloseArchiveKept ==
  ASSUME StudyInv, Study!CloseArchive
  PROVE  StudyInv'
<1>1. /\ arm = "close" /\ arm' \in {"save", "retain"}
      /\ (arm' = "save" => source') /\ (arm' = "retain" => source' = source)
      /\ UNCHANGED <<stage, stored, performed, passed, budget, attitude, lifecycle, result,
                     approach, completion, error, files, summary, metrics, run_result>>
  BY DEF Study!CloseArchive, Study!Step, Study!Raise, Study!completion, Study!physics, Study!locals,
         Study!arm_locals, Study!arm_disk
<1> USE DEF WithApproach, WithSource, WithFile, WithOutcome, Reporting
<1>2. ArmTypes'
  BY <1>1 DEF StudyInv, ArmTypes
<1>3. ApproachFirst'
  BY <1>1 DEF StudyInv, ApproachFirst
<1>4. StagesInOrder'
  BY <1>1 DEF StudyInv, StagesInOrder
<1>5. ResultsBacked'
  BY <1>1 DEF StudyInv, ResultsBacked, Backed, ApproachFirst
<1>6. ReportsFit'
  BY <1>1 DEF StudyInv, ReportsFit, ApproachFirst
<1> QED
  BY <1>2, <1>3, <1>4, <1>5, <1>6 DEF StudyInv

LEMMA SaveApproachKept ==
  ASSUME StudyInv, Study!SaveApproach
  PROVE  StudyInv'
<1>1. /\ arm = "save" /\ arm' \in {"authenticate", "retain"} /\ files \subseteq files'
      /\ (arm' = "authenticate" => "approach" \in files')
      /\ UNCHANGED <<stage, stored, performed, passed, budget, attitude, lifecycle, result,
                     approach, source, completion, error, summary, metrics, run_result>>
  BY DEF Study!SaveApproach, Study!Step, Study!Raise, Study!completion, Study!physics, Study!locals,
         Study!arm_locals, Study!arm_disk
<1> USE DEF WithApproach, WithSource, WithFile, WithOutcome, Reporting
<1>2. ArmTypes'
  BY <1>1 DEF StudyInv, ArmTypes
<1>3. ApproachFirst'
  BY <1>1 DEF StudyInv, ApproachFirst
<1>4. StagesInOrder'
  BY <1>1 DEF StudyInv, StagesInOrder
<1>5. ResultsBacked'
  BY <1>1 DEF StudyInv, ResultsBacked, Backed, ApproachFirst
<1>6. ReportsFit'
  BY <1>1 DEF StudyInv, ReportsFit, ApproachFirst
<1> QED
  BY <1>2, <1>3, <1>4, <1>5, <1>6 DEF StudyInv

LEMMA RecordIncompleteKept ==
  ASSUME StudyInv, Study!RecordIncomplete
  PROVE  StudyInv'
<1>1. /\ arm = "incomplete" /\ arm' \in {"finish", "retain"} /\ stored \subseteq stored'
      /\ (arm' = "finish" => approach = "complete" \/ "approach" \in stored')
      /\ UNCHANGED <<stage, performed, passed, budget, attitude, lifecycle, result, approach,
                     source, completion, error, files, summary, metrics, run_result>>
  BY DEF Study!RecordIncomplete, Study!Step, Study!Raise, Study!completion, Study!physics, Study!locals,
         Study!arm_locals, Study!arm_disk
<1> USE DEF WithApproach, WithSource, WithFile, WithOutcome, Reporting
<1>2. ArmTypes'
  BY <1>1 DEF StudyInv, ArmTypes
<1>3. ApproachFirst'
  BY <1>1 DEF StudyInv, ApproachFirst
<1>4. StagesInOrder'
  BY <1>1 DEF StudyInv, StagesInOrder
<1>5. ResultsBacked'
  BY <1>1 DEF StudyInv, ResultsBacked, Backed, ApproachFirst
<1>6. ReportsFit'
  BY <1>1 DEF StudyInv, ReportsFit, ApproachFirst
<1> QED
  BY <1>2, <1>3, <1>4, <1>5, <1>6 DEF StudyInv

LEMMA FinishKept ==
  ASSUME StudyInv, Study!Finish
  PROVE  StudyInv'
<1>1. /\ arm = "finish" /\ arm' \in {"metrics", "retain"}
      /\ (arm' = "metrics" => summary' = completion) /\ (arm' = "retain" => summary' = summary)
      /\ UNCHANGED <<stage, stored, performed, passed, budget, attitude, lifecycle, result,
                     approach, source, completion, error, files, metrics, run_result>>
  BY DEF Study!Finish, Study!Step, Study!Raise, Study!completion, Study!physics, Study!locals,
         Study!arm_locals, Study!arm_disk
<1> USE DEF WithApproach, WithSource, WithFile, WithOutcome, Reporting
<1>2. ArmTypes'
  BY <1>1 DEF StudyInv, ArmTypes
<1>3. ApproachFirst'
  BY <1>1 DEF StudyInv, ApproachFirst
<1>4. StagesInOrder'
  BY <1>1 DEF StudyInv, StagesInOrder
<1>5. ResultsBacked'
  BY <1>1 DEF StudyInv, ResultsBacked, Backed, ApproachFirst
<1>6. ReportsFit'
  BY <1>1 DEF StudyInv, ReportsFit, ApproachFirst
<1> QED
  BY <1>2, <1>3, <1>4, <1>5, <1>6 DEF StudyInv

LEMMA RetainFailureKept ==
  ASSUME StudyInv, Study!RetainFailure
  PROVE  StudyInv'
<1>1. /\ arm = "retain" /\ arm' \in {"retain_prefix", "metrics", "crashed"} /\ error' = TRUE
      /\ files \subseteq files' /\ (arm' = "retain_prefix" => approach = None)
      /\ UNCHANGED <<stage, stored, performed, passed, budget, attitude, lifecycle, result,
                     approach, source, completion, summary, metrics, run_result>>
  BY DEF Study!RetainFailure, Study!Step, Study!Raise, Study!completion, Study!physics, Study!locals,
         Study!arm_locals, Study!arm_disk
<1> USE DEF WithApproach, WithSource, WithFile, WithOutcome, Reporting
<1>2. ArmTypes'
  BY <1>1 DEF StudyInv, ArmTypes
<1>3. ApproachFirst'
  BY <1>1 DEF StudyInv, ApproachFirst
<1>4. StagesInOrder'
  BY <1>1 DEF StudyInv, StagesInOrder
<1>5. ResultsBacked'
  BY <1>1 DEF StudyInv, ResultsBacked, Backed, ApproachFirst
<1>6. ReportsFit'
  BY <1>1 DEF StudyInv, ReportsFit, ApproachFirst
<1> QED
  BY <1>2, <1>3, <1>4, <1>5, <1>6 DEF StudyInv

LEMMA CollectMetricsKept ==
  ASSUME StudyInv, Study!CollectMetrics
  PROVE  StudyInv'
<1>1. /\ arm = "metrics" /\ arm' = "write_metrics" /\ metrics' \in BOOLEAN
      /\ (metrics' => ~error /\ completion # None /\ completion.success)
      /\ UNCHANGED <<stage, stored, performed, passed, budget, attitude, lifecycle, result,
                     approach, source, completion, error, files, summary, run_result>>
  BY DEF Study!CollectMetrics, Study!Step, Study!Raise, Study!completion, Study!physics, Study!locals,
         Study!arm_locals, Study!arm_disk, Study!Reported
<1> USE DEF WithApproach, WithSource, WithFile, WithOutcome, Reporting
<1>2. ArmTypes'
  BY <1>1 DEF StudyInv, ArmTypes
<1>3. ApproachFirst'
  BY <1>1 DEF StudyInv, ApproachFirst
<1>4. StagesInOrder'
  BY <1>1 DEF StudyInv, StagesInOrder
<1>5. ResultsBacked'
  BY <1>1 DEF StudyInv, ResultsBacked, Backed, ApproachFirst
<1>6. ReportsFit'
  BY <1>1 DEF StudyInv, ReportsFit, ApproachFirst
<1> QED
  BY <1>2, <1>3, <1>4, <1>5, <1>6 DEF StudyInv

LEMMA WriteMetricsKept ==
  ASSUME StudyInv, Study!WriteMetrics
  PROVE  StudyInv'
<1>1. /\ arm = "write_metrics" /\ arm' \in {"write_result", "crashed"} /\ files \subseteq files'
      /\ UNCHANGED <<stage, stored, performed, passed, budget, attitude, lifecycle, result,
                     approach, source, completion, error, summary, metrics, run_result>>
  BY DEF Study!WriteMetrics, Study!Step, Study!Raise, Study!completion, Study!physics, Study!locals,
         Study!arm_locals, Study!arm_disk
<1> USE DEF WithApproach, WithSource, WithFile, WithOutcome, Reporting
<1>2. ArmTypes'
  BY <1>1 DEF StudyInv, ArmTypes
<1>3. ApproachFirst'
  BY <1>1 DEF StudyInv, ApproachFirst
<1>4. StagesInOrder'
  BY <1>1 DEF StudyInv, StagesInOrder
<1>5. ResultsBacked'
  BY <1>1 DEF StudyInv, ResultsBacked, Backed, ApproachFirst
<1>6. ReportsFit'
  BY <1>1 DEF StudyInv, ReportsFit, ApproachFirst
<1> QED
  BY <1>2, <1>3, <1>4, <1>5, <1>6 DEF StudyInv

LEMMA WriteRunResultKept ==
  ASSUME StudyInv, Study!WriteRunResult
  PROVE  StudyInv'
<1>1. /\ arm = "write_result" /\ arm' \in {"ended", "crashed"}
      /\ (arm' = "ended" => run_result' = metrics) /\ (arm' = "crashed" => run_result' = run_result)
      /\ UNCHANGED <<stage, stored, performed, passed, budget, attitude, lifecycle, result,
                     approach, source, completion, error, files, summary, metrics>>
  BY DEF Study!WriteRunResult, Study!Step, Study!Raise, Study!completion, Study!physics, Study!locals,
         Study!arm_locals, Study!arm_disk
<1> USE DEF WithApproach, WithSource, WithFile, WithOutcome, Reporting
<1>2. ArmTypes'
  BY <1>1 DEF StudyInv, ArmTypes
<1>3. ApproachFirst'
  BY <1>1 DEF StudyInv, ApproachFirst
<1>4. StagesInOrder'
  BY <1>1 DEF StudyInv, StagesInOrder
<1>5. ResultsBacked'
  BY <1>1 DEF StudyInv, ResultsBacked, Backed, ApproachFirst
<1>6. ReportsFit'
  BY <1>1 DEF StudyInv, ReportsFit, ApproachFirst
<1> QED
  BY <1>2, <1>3, <1>4, <1>5, <1>6 DEF StudyInv

LEMMA KilledKept ==
  ASSUME StudyInv, Study!Killed
  PROVE  StudyInv'
<1>1. /\ arm # "ended" /\ arm' = "crashed"
      /\ UNCHANGED <<stage, stored, performed, passed, budget, attitude, lifecycle, result,
                     approach, source, completion, error, files, summary, metrics, run_result>>
  BY DEF Study!Killed, Study!Step, Study!Raise, Study!completion, Study!physics, Study!locals,
         Study!arm_locals, Study!arm_disk
<1> USE DEF WithApproach, WithSource, WithFile, WithOutcome, Reporting
<1>2. ArmTypes'
  BY <1>1 DEF StudyInv, ArmTypes
<1>3. ApproachFirst'
  BY <1>1 DEF StudyInv, ApproachFirst
<1>4. StagesInOrder'
  BY <1>1 DEF StudyInv, StagesInOrder
<1>5. ResultsBacked'
  BY <1>1 DEF StudyInv, ResultsBacked, Backed, ApproachFirst
<1>6. ReportsFit'
  BY <1>1 DEF StudyInv, ReportsFit, ApproachFirst
<1> QED
  BY <1>2, <1>3, <1>4, <1>5, <1>6 DEF StudyInv

LEMMA RetainPrefixKept ==
  ASSUME RecordInstances, StudyInv, Study!RetainPrefix
  PROVE  StudyInv'
<1>1. /\ arm = "retain_prefix" /\ arm' = "metrics" /\ files \subseteq files'
      /\ UNCHANGED <<stage, stored, performed, passed, budget, attitude, lifecycle, result,
                     source, completion, error, summary, metrics, run_result>>
      /\ approach = None /\ approach # "complete" /\ error
  BY DEF Study!RetainPrefix, Study!Step, Study!completion, Study!physics, Study!locals,
         RecordInstances, Study!ArmAssumption, StudyInv, ApproachFirst, ArmTypes
<1>2. stage = "off"
  BY <1>1 DEF StudyInv, ApproachFirst
<1> USE DEF WithApproach, WithSource, WithFile, WithOutcome, Reporting
<1>3. ArmTypes'
  BY <1>1 DEF StudyInv, ArmTypes
<1>4. ApproachFirst'
  BY <1>1, <1>2 DEF StudyInv, ApproachFirst
<1>5. StagesInOrder'
  BY <1>1 DEF StudyInv, StagesInOrder
<1>6. ResultsBacked'
  BY <1>1 DEF StudyInv, ResultsBacked, Backed, ApproachFirst
<1>7. ReportsFit'
  BY <1>1 DEF StudyInv, ReportsFit, ApproachFirst
<1> QED
  BY <1>3, <1>4, <1>5, <1>6, <1>7 DEF StudyInv

LEMMA IncompleteResult == Study!Incomplete \in Results /\ (Backed(Study!Incomplete))'
<1>1. Study!Incomplete = [success |-> FALSE, budget |-> FALSE, attitude |-> FALSE, lifecycle |-> None]
  BY DEF Study!Incomplete
<1>2. Study!Incomplete \in Results
  BY <1>1 DEF Results
<1>3. Study!Incomplete.success = FALSE /\ Study!Incomplete.attitude = FALSE /\ Study!Incomplete.lifecycle = None
  BY <1>1
<1> QED
  BY <1>2, <1>3 DEF Backed

LEMMA AuthenticateKept ==
  ASSUME StudyInv, Study!Authenticate
  PROVE  StudyInv'
<1>1. /\ arm = "authenticate"
      /\ \/ approach # "complete" /\ arm' = "account" /\ completion' = Study!Incomplete /\ stage' = stage
         \/ approach = "complete" /\ arm' = "complete" /\ stage' = "approach" /\ completion' = completion
         \/ approach = "complete" /\ arm' = "retain" /\ stage' = stage /\ completion' = completion
      /\ UNCHANGED <<stored, performed, passed, budget, attitude, lifecycle, result, approach,
                     source, error, files, summary, metrics, run_result>>
  BY DEF Study!Authenticate, Study!Step, Study!Raise, Study!physics, Study!locals, Study!arm_disk
<1> USE DEF WithApproach, WithSource, WithFile, WithOutcome, Reporting
<1>2. stage = "off" /\ performed = {} /\ source /\ "approach" \in files /\ ~error
  BY <1>1 DEF StudyInv, ApproachFirst, StagesInOrder, BeforePerforming
<1>3. arm' = "account" => completion' \in Results /\ Backed(completion)'
  BY <1>1, IncompleteResult DEF Backed
<1>4. ArmTypes'
  BY <1>1, <1>2, <1>3 DEF StudyInv, ArmTypes, BeforePerforming, WithBudget
<1>5. ApproachFirst'
  BY <1>1, <1>2 DEF StudyInv, ApproachFirst
<1>6. StagesInOrder'
  BY <1>1, <1>2 DEF StudyInv, StagesInOrder, BeforePerforming, WithBudget, WithAttitude, WithAttachment,
        WithRest, ArmTypes
<1>7. ResultsBacked'
  BY <1>1, <1>2, <1>3 DEF StudyInv, ResultsBacked, Backed
<1>8. ReportsFit'
  BY <1>1 DEF StudyInv, ReportsFit
<1> QED
  BY <1>4, <1>5, <1>6, <1>7, <1>8 DEF StudyInv

LEMMA CompleteKept ==
  ASSUME StudyInv, Study!Complete
  PROVE  StudyInv'
<1>1. /\ arm = "complete" /\ Study!CompletionNext
      /\ UNCHANGED <<arm, approach, source, completion, error, files, summary, metrics, run_result>>
  BY DEF Study!Complete, Study!arm_locals, Study!arm_disk
<1>2. ArmTypes /\ StagesInOrder /\ ResultsBacked /\ ApproachFirst /\ ReportsFit
  BY DEF StudyInv
<1>3. stored \subseteq stored' /\ passed \subseteq passed' /\ performed \subseteq performed'
      /\ stage \notin {"off", "returned", "raised"} /\ stage' # "off"
  BY <1>1, <1>2, CompletionFrame
<1>4. CompletionTypes' /\ StagesInOrder'
  BY <1>1, <1>2, CompletionStep
<1> USE DEF WithApproach, WithSource, WithFile, WithOutcome, Reporting
<1>5. passed = Study!PhysicalStages => passed' = Study!PhysicalStages
  BY <1>3, <1>4 DEF CompletionTypes
<1>6. ArmTypes'
  BY <1>1, <1>2, <1>4 DEF ArmTypes, CompletionTypes
<1>7. ApproachFirst'
  BY <1>1, <1>2, <1>3 DEF ApproachFirst
<1>8. ResultsBacked'
  BY <1>1, <1>2, <1>3, <1>4, <1>5 DEF ResultsBacked, Backed, CompletionTypes
<1>9. ReportsFit'
  BY <1>1, <1>2 DEF ReportsFit
<1> QED
  BY <1>4, <1>6, <1>7, <1>8, <1>9 DEF StudyInv

LEMMA CompletedKept ==
  ASSUME StudyInv, Study!Completed
  PROVE  StudyInv'
<1>1. /\ arm = "complete"
      /\ \/ stage = "returned" /\ arm' = "account" /\ completion' = result
         \/ arm' = "retain" /\ completion' = completion
      /\ UNCHANGED <<stage, stored, performed, passed, budget, attitude, lifecycle, result, approach,
                     source, error, files, summary, metrics, run_result>>
  BY DEF Study!Completed, Study!Step, Study!Raise, Study!completion, Study!physics, Study!locals,
         Study!arm_disk
<1> USE DEF WithApproach, WithSource, WithFile, WithOutcome, Reporting
<1>2. arm' = "account" => completion' \in Results /\ Backed(completion)' /\ "approach" \in stored
  BY <1>1 DEF StudyInv, ArmTypes, ResultsBacked, Backed, StagesInOrder
<1>3. ArmTypes'
  BY <1>1, <1>2 DEF StudyInv, ArmTypes
<1>4. ApproachFirst'
  BY <1>1 DEF StudyInv, ApproachFirst
<1>5. StagesInOrder'
  BY <1>1 DEF StudyInv, StagesInOrder
<1>6. ResultsBacked'
  BY <1>1, <1>2 DEF StudyInv, ResultsBacked, Backed
<1>7. ReportsFit'
  BY <1>1 DEF StudyInv, ReportsFit
<1> QED
  BY <1>3, <1>4, <1>5, <1>6, <1>7 DEF StudyInv

LEMMA Budgeted ==
  ASSUME NEW out \in Results
  PROVE  /\ [out EXCEPT !.budget = TRUE] \in Results
         /\ [out EXCEPT !.budget = TRUE].success = out.success
         /\ [out EXCEPT !.budget = TRUE].attitude = out.attitude
         /\ [out EXCEPT !.budget = TRUE].lifecycle = out.lifecycle
  BY DEF Results

LEMMA AccountKept ==
  ASSUME StudyInv, Study!Account
  PROVE  StudyInv'
<1>1. /\ arm = "account" /\ arm' \in {"incomplete", "retain"}
      /\ completion' \in {completion, [completion EXCEPT !.budget = TRUE]}
      /\ stored \subseteq stored' /\ files \subseteq files'
      /\ UNCHANGED <<stage, performed, passed, budget, attitude, lifecycle, result, approach,
                     source, error, summary, metrics, run_result>>
  BY DEF Study!Account, Study!Step, Study!Raise, Study!physics, Study!locals
<1> USE DEF WithApproach, WithSource, WithFile, WithOutcome, Reporting
<1>2. completion \in Results /\ Backed(completion)
  BY <1>1 DEF StudyInv, ArmTypes, ResultsBacked
<1>3. /\ completion' \in Results /\ completion'.success = completion.success
      /\ completion'.attitude = completion.attitude /\ completion'.lifecycle = completion.lifecycle
  BY <1>1, <1>2, Budgeted
<1>4. Backed(completion)'
  BY <1>1, <1>2, <1>3 DEF Backed
<1>5. ArmTypes'
  BY <1>1, <1>3 DEF StudyInv, ArmTypes
<1>6. ApproachFirst'
  BY <1>1 DEF StudyInv, ApproachFirst
<1>7. StagesInOrder'
  BY <1>1 DEF StudyInv, StagesInOrder
<1>8. ResultsBacked'
  BY <1>1, <1>4 DEF StudyInv, ResultsBacked, Backed
<1>9. ReportsFit'
  BY <1>1 DEF StudyInv, ReportsFit
<1> QED
  BY <1>5, <1>6, <1>7, <1>8, <1>9 DEF StudyInv

LEMMA StudyStarts == ASSUME RecordInstances, Study!Init PROVE StudyInv
<1> USE DEF Study!Init, Study!CompletionInit, WithApproach, WithSource, WithFile, WithOutcome, Reporting
<1>1. ArmTypes
  BY DEF ArmTypes, BeforePerforming
<1>2. ApproachFirst
  BY DEF ApproachFirst
<1>3. StagesInOrder
  BY DEF StagesInOrder, WithBudget, WithAttitude, WithAttachment, WithRest
<1>4. ResultsBacked
  BY DEF ResultsBacked
<1>5. ReportsFit
  BY DEF ReportsFit, RecordInstances, Study!ArmAssumption
<1> QED
  BY <1>1, <1>2, <1>3, <1>4, <1>5 DEF StudyInv

LEMMA StudyStep == ASSUME RecordInstances, StudyInv, [Study!Next]_Study!vars PROVE StudyInv'
<1>1. CASE UNCHANGED Study!vars
  <2>1. UNCHANGED <<stage, stored, performed, passed, budget, attitude, lifecycle, result, arm, approach,
                    source, completion, error, files, summary, metrics, run_result>>
    BY <1>1 DEF Study!vars, Study!completion, Study!physics, Study!locals, Study!arm_locals, Study!arm_disk
  <2>2. ArmTypes' /\ ApproachFirst'
    BY <2>1 DEF StudyInv, ArmTypes, ApproachFirst
  <2>3. StagesInOrder'
    BY <2>1 DEF StudyInv, StagesInOrder
  <2>4. ResultsBacked' /\ ReportsFit'
    BY <2>1 DEF StudyInv, ResultsBacked, Backed, ReportsFit
  <2> QED
    BY <2>2, <2>3, <2>4 DEF StudyInv
<1>2. CASE Study!Next
  BY <1>2, PrepareKept, RunApproachKept, CloseArchiveKept, SaveApproachKept, AuthenticateKept, CompleteKept,
     CompletedKept, AccountKept, RecordIncompleteKept, FinishKept, RetainFailureKept, RetainPrefixKept,
     CollectMetricsKept, WriteMetricsKept, WriteRunResultKept, KilledKept
     DEF Study!Next
<1> QED
  BY <1>1, <1>2

LEMMA RecordsStudyStep == [RecordsNext]_<<part, loop, archive, study, mission>> => [Study!Next]_Study!vars
  BY DEF RecordsNext, RunLoop, KeepArchive, RunArm, RunApproach, Stop, study,
         Study!vars, Study!completion, Study!physics, Study!locals, Study!arm_locals, Study!arm_disk

LEMMA StudyBacked == StudyInv => StudyIsBacked
<1> SUFFICES ASSUME StudyInv PROVE StudyIsBacked
  OBVIOUS
<1> USE DEF StudyInv, WithApproach, WithSource, WithFile, WithOutcome, Reporting
<1>1. Study!StagesFollowEvidence
  BY DEF Study!StagesFollowEvidence, StagesInOrder, ApproachFirst, BeforePerforming
<1>2. Study!SummaryIsBacked
  BY DEF Study!SummaryIsBacked, ResultsBacked, Backed, ReportsFit, ArmTypes
<1>3. Study!MissingPrefixIsTold
  BY DEF Study!MissingPrefixIsTold, ReportsFit, ArmTypes
<1> QED
  BY <1>1, <1>2, <1>3 DEF StudyIsBacked

\* For every study arm, whichever call raises or write fails and wherever the
\* process dies: no physical stage is carried out before the evidence it rests
\* on is on disk and every stage before it has succeeded, a summary names only
\* records that are there, success is reported only of a mission whose every
\* stage succeeded, and an arm that ends without its approach says so.
THEOREM StudyReportsWhatItHolds == RecordsSpec => []StudyIsBacked
<1>1. RecordsInit => StudyInv
  BY StudyStarts, RecordInstances DEF RecordsInit
<1>2. StudyInv /\ [RecordsNext]_<<part, loop, archive, study, mission>> => StudyInv'
  BY StudyStep, RecordInstances, RecordsStudyStep
<1> QED
  BY <1>1, <1>2, StudyBacked, PTL DEF RecordsSpec

-----------------------------------------------------------------------------
(***************************************************************************)
(* The historical approach                                                 *)
(***************************************************************************)

Held(r) == Approach!CommittedUpdates(r)

\* The histories of a record have one entry per committed interval.
HistoriesFit(r) ==
  /\ Len(r.clocks) >= 1 /\ Len(r.samples) = Len(r.clocks) /\ Len(r.beliefs) = Len(r.clocks)
  /\ Len(r.controls) = Held(r) /\ Len(r.clear) = Held(r) /\ Len(r.bound) = Held(r)
  /\ Len(r.phases) >= Held(r)
  /\ \A i \in 1..Held(r) : r.clocks[i] < r.clocks[i + 1] /\ r.clocks[i + 1] <= r.clocks[i] + Substeps

\* A record is safe only while every interval was clear.
ClearWhileSafe(r) == r.safe => \A i \in 1..Held(r) : r.clear[i]

\* The last `count' intervals were held as a whole inside the terminal bounds.
Dwelt(r, count) ==
  /\ count <= Held(r)
  /\ \A i \in (Held(r) - count + 1)..Held(r) :
       r.bound[i] /\ r.phases[i] = "docking" /\ r.clocks[i + 1] - r.clocks[i] = Substeps

\* What a run has saved, and a later one begins with.
SavedFits(s) ==
  /\ HistoriesFit(s.rec) /\ ClearWhileSafe(s.rec) /\ Dwelt(s.rec, s.dwell)
  /\ s.rec.clocks[Held(s.rec) + 1] = s.fleet.clock

\* Where a run stands in the record it extends.
RunFits ==
  point # "idle" =>
    /\ HistoriesFit(rec) /\ ClearWhileSafe(rec) /\ Dwelt(rec, run.dwell)
    /\ Held(rec) = run.offset + run.index
    /\ run.completed => run.dwell >= Dwell
    /\ point \in {"plan", "hold", "record"} => ~run.completed
    /\ point = "plan" => Len(rec.phases) = Held(rec)
    /\ point \in {"plan", "finish"} => rec.clocks[Held(rec) + 1] = fleet.clock
    /\ point \in {"hold", "record"} =>
         /\ Len(rec.phases) = Held(rec) + 1 /\ rec.phases[Held(rec) + 1] = run.phase
         /\ rec.clocks[Held(rec) + 1] = run.from /\ fleet.clock = run.from + run.hold
         /\ run.hold <= Substeps
    /\ point = "hold" => run.hold < Substeps
    /\ point = "record" /\ run.good => run.hold = Substeps /\ fleet.contained
    /\ point = "finish" /\ run.valid /\ run.completed => fleet.contained

EarnedInv ==
  /\ RunFits
  /\ store # None => SavedFits(store)
       /\ (store.success => store.rec.safe /\ store.dwell >= Dwell /\ store.fleet.contained)
  /\ seam # None => SavedFits(seam.source)
-----------------------------------------------------------------------------
\* The guard has proved every hold since the mission began, or none.
OwnClock(g) == IF g.holds = 0 THEN g.end = None ELSE g.end = g.holds

LastSample(r) == r.samples[Len(r.samples)]

\* A policy accepts no arrival, and no fleet docks, before its guard has
\* admitted a hold.
Underway(f, leg, rt) == f.goal \/ leg = "docking" \/ Approach!Accepted(rt) # None

GuardFits ==
  /\ OwnClock(guard)
  /\ store # None => OwnClock(store.guard)
  /\ seam # None => /\ OwnClock(seam.guard) /\ seam.guard = seam.source.guard /\ seam.source.mode.guarded
                    /\ seam.guard.end = None => seam.source.fleet.clock = 0
  /\ point # "idle" /\ mode.guarded /\ guard.end = None => fleet.clock = 0

UnderwayFits ==
  /\ point # "idle" /\ mode.guarded /\ Underway(fleet, run.phase, arr) => guard.holds > 0
  /\ point # "idle" /\ LastSample(rec) = "docking" => run.phase = "docking"
  /\ store # None /\ store.mode.guarded /\ Underway(store.fleet, LastSample(store.rec), store.arrival)
       => store.guard.holds > 0
  /\ seam # None /\ Underway(seam.source.fleet, LastSample(seam.source.rec), None) => seam.guard.holds > 0

\* A prepared transition that is not used yet has seen no arrival accepted since.
TransitionFits ==
  seam # None =>
    /\ seam.guard.holds <= guard.holds
    /\ ~seam.used =>
         /\ point # "idle" /\ Underway(fleet, run.phase, arr) => seam.guard.holds < guard.holds
         /\ store # None /\ Approach!Accepted(store.arrival) # None => seam.guard.holds < guard.holds

DeadlineInv == GuardFits /\ UnderwayFits /\ TransitionFits


-----------------------------------------------------------------------------
\* Every proposal but those of the interval under way belongs to its interval.
ProposalsFit(r) ==
  /\ \A c \in Approach!Fleet :
       /\ Len(r.nominal[c]) >= Held(r) /\ Len(r.tries[c]) >= Held(r)
       /\ \A i \in 1..Held(r) : r.nominal[c][i] = r.controls[i]

RunProposals ==
  /\ point # "idle" => ProposalsFit(rec)
  /\ point = "plan" => \A c \in Approach!Fleet : Len(rec.nominal[c]) = Held(rec)
  /\ point \in {"hold", "record"} =>
       \A c \in Approach!Fleet : Len(rec.nominal[c]) = Held(rec) + 1 /\ rec.nominal[c][Held(rec) + 1] = cycle
                                 /\ Len(rec.tries[c]) >= Held(rec) + 1

ProposalsInv ==
  /\ RunProposals
  /\ store # None => ProposalsFit(store.rec)
  /\ seam # None => ProposalsFit(seam.source.rec)

-----------------------------------------------------------------------------
(* The operations on a record, field by field *)

RecordFields == {"clocks", "samples", "phases", "tries", "nominal", "controls", "clear", "bound", "beliefs",
                 "safe", "archive", "seams"}

FieldsOf(r) == DOMAIN r = RecordFields /\ r = [field \in RecordFields |-> r[field]]

LEMMA RecordForm == ASSUME NEW r \in Approach!Records PROVE FieldsOf(r)
  BY DEF Approach!Records, RecordFields, FieldsOf

LEMMA RecordParts ==
  ASSUME NEW r \in Approach!Records
  PROVE  /\ r.samples \in Seq(Approach!MissionPhases) /\ r.phases \in Seq(Approach!MissionPhases)
         /\ r.clocks \in Seq(Nat) /\ r.tries \in [Approach!Fleet -> Seq([cycle : Nat, success : BOOLEAN])]
         /\ r.nominal \in [Approach!Fleet -> Seq(Nat)] /\ r.controls \in Seq(Nat)
         /\ r.clear \in Seq(BOOLEAN) /\ r.bound \in Seq(BOOLEAN) /\ r.beliefs \in Seq(Nat)
         /\ r.safe \in BOOLEAN /\ r.archive \in Seq([Approach!Fleet -> Seq(Nat)])
         /\ r.seams \in Seq(Nat \X Nat)
  BY DEF Approach!Records

LEMMA RecordWhole ==
  ASSUME NEW r, FieldsOf(r),
         r.samples \in Seq(Approach!MissionPhases), r.phases \in Seq(Approach!MissionPhases),
         r.clocks \in Seq(Nat), r.tries \in [Approach!Fleet -> Seq([cycle : Nat, success : BOOLEAN])],
         r.nominal \in [Approach!Fleet -> Seq(Nat)], r.controls \in Seq(Nat),
         r.clear \in Seq(BOOLEAN), r.bound \in Seq(BOOLEAN), r.beliefs \in Seq(Nat),
         r.safe \in BOOLEAN, r.archive \in Seq([Approach!Fleet -> Seq(Nat)]),
         r.seams \in Seq(Nat \X Nat)
  PROVE  r \in Approach!Records
  BY DEF RecordFields, Approach!Records, FieldsOf

LEMMA PhasedRecord ==
  ASSUME NEW r \in Approach!Records, NEW leg \in Approach!MissionPhases, NEW relabel \in BOOLEAN,
         Len(r.samples) >= 1
  PROVE  LET s == Approach!RecordPhase(r, leg, relabel)
         IN  /\ s \in Approach!Records
             /\ s.phases = Append(r.phases, leg)
             /\ s.samples = IF relabel THEN [r.samples EXCEPT ![Len(r.samples)] = leg] ELSE r.samples
             /\ s.clocks = r.clocks /\ s.tries = r.tries /\ s.nominal = r.nominal
             /\ s.controls = r.controls /\ s.clear = r.clear /\ s.bound = r.bound
             /\ s.beliefs = r.beliefs /\ s.safe = r.safe /\ s.archive = r.archive /\ s.seams = r.seams
<1> DEFINE samples == IF relabel THEN [r.samples EXCEPT ![Len(r.samples)] = leg] ELSE r.samples
<1> DEFINE phases == Append(r.phases, leg)
<1>1. samples \in Seq(Approach!MissionPhases)
  BY RecordParts, ExceptSeq
<1>2. phases \in Seq(Approach!MissionPhases)
  BY RecordParts, AppendProperties
<1>3. Approach!RecordPhase(r, leg, relabel) = [r EXCEPT !.phases = phases, !.samples = samples]
  BY DEF Approach!RecordPhase
<1> HIDE DEF samples, phases
<1>4. PICK s : s = [r EXCEPT !.phases = phases, !.samples = samples]
  OBVIOUS
<1>5. FieldsOf(s)
  BY <1>4, RecordForm DEF FieldsOf, RecordFields
<1>6. /\ s.clocks = r.clocks /\ s.samples = samples /\ s.phases = phases /\ s.tries = r.tries
      /\ s.nominal = r.nominal /\ s.controls = r.controls /\ s.clear = r.clear
      /\ s.bound = r.bound /\ s.beliefs = r.beliefs /\ s.safe = r.safe /\ s.archive = r.archive
      /\ s.seams = r.seams
  BY <1>4, RecordForm DEF FieldsOf, RecordFields
<1>7. s \in Approach!Records
  BY <1>1, <1>2, <1>5, <1>6, RecordParts, RecordWhole
<1> QED
  BY <1>3, <1>4, <1>6, <1>7 DEF samples, phases

LEMMA FleetIs == Approach!Fleet = 1..FleetSize /\ Len([n \in 1..FleetSize |-> n]) = FleetSize
<1>1. FleetSize \in Nat
  BY RecordInstances
<1> QED
  BY <1>1 DEF Approach!Fleet

\* A record and the same with the plans of one more cycle.
Tried(s, r, n, solved) ==
  /\ s \in Approach!Records
  /\ \A c \in Approach!Fleet :
       /\ s.nominal[c] = IF c <= solved THEN Append(r.nominal[c], n) ELSE r.nominal[c]
       /\ s.tries[c] = IF c > solved + 1 THEN r.tries[c]
                       ELSE Append(r.tries[c], [cycle |-> n, success |-> c <= solved])
  /\ s.clocks = r.clocks /\ s.samples = r.samples /\ s.phases = r.phases
  /\ s.controls = r.controls /\ s.clear = r.clear /\ s.bound = r.bound
  /\ s.beliefs = r.beliefs /\ s.safe = r.safe /\ s.archive = r.archive /\ s.seams = r.seams

LEMMA PlannedRecord ==
  ASSUME NEW r \in Approach!Records, NEW n \in Nat, NEW solved \in Nat
  PROVE  Tried(Approach!RecordPlanning(r, n, solved), r, n, solved)
<1> DEFINE tries == [c \in Approach!Fleet |-> IF c > solved + 1 THEN r.tries[c]
                                ELSE Append(r.tries[c], [cycle |-> n, success |-> c <= solved])]
<1> DEFINE nominal == [c \in Approach!Fleet |-> IF c <= solved THEN Append(r.nominal[c], n) ELSE r.nominal[c]]
<1>1. nominal \in [Approach!Fleet -> Seq(Nat)]
  <2> SUFFICES ASSUME NEW c \in Approach!Fleet PROVE nominal[c] \in Seq(Nat)
    OBVIOUS
  <2>1. r.nominal[c] \in Seq(Nat)
    BY RecordParts
  <2> QED
    BY <2>1, AppendProperties
<1>2. tries \in [Approach!Fleet -> Seq([cycle : Nat, success : BOOLEAN])]
  <2> SUFFICES ASSUME NEW c \in Approach!Fleet
               PROVE  tries[c] \in Seq([cycle : Nat, success : BOOLEAN])
    OBVIOUS
  <2>1. r.tries[c] \in Seq([cycle : Nat, success : BOOLEAN])
    BY RecordParts
  <2>2. [cycle |-> n, success |-> c <= solved] \in [cycle : Nat, success : BOOLEAN]
    OBVIOUS
  <2> QED
    BY <2>1, <2>2, AppendProperties
<1>3. Approach!RecordPlanning(r, n, solved) = [r EXCEPT !.tries = tries, !.nominal = nominal]
  BY DEF Approach!RecordPlanning
<1>4. /\ \A c \in Approach!Fleet :
           nominal[c] = IF c <= solved THEN Append(r.nominal[c], n) ELSE r.nominal[c]
      /\ \A c \in Approach!Fleet :
           tries[c] = IF c > solved + 1 THEN r.tries[c]
                      ELSE Append(r.tries[c], [cycle |-> n, success |-> c <= solved])
  OBVIOUS
<1> HIDE DEF tries, nominal
<1>5. PICK s : s = [r EXCEPT !.tries = tries, !.nominal = nominal]
  OBVIOUS
<1>6. FieldsOf(s)
  BY <1>5, RecordForm DEF FieldsOf, RecordFields
<1>7. /\ s.clocks = r.clocks /\ s.samples = r.samples /\ s.phases = r.phases /\ s.tries = tries
      /\ s.nominal = nominal /\ s.controls = r.controls /\ s.clear = r.clear
      /\ s.bound = r.bound /\ s.beliefs = r.beliefs /\ s.safe = r.safe /\ s.archive = r.archive
      /\ s.seams = r.seams
  BY <1>5, RecordForm DEF FieldsOf, RecordFields
<1>8. s \in Approach!Records
  BY <1>1, <1>2, <1>6, <1>7, RecordParts, RecordWhole
<1>9. /\ \A c \in Approach!Fleet :
           s.nominal[c] = IF c <= solved THEN Append(r.nominal[c], n) ELSE r.nominal[c]
      /\ \A c \in Approach!Fleet :
           s.tries[c] = IF c > solved + 1 THEN r.tries[c]
                        ELSE Append(r.tries[c], [cycle |-> n, success |-> c <= solved])
  BY <1>4, <1>7
<1>10. Tried(s, r, n, solved)
  BY <1>7, <1>8, <1>9 DEF Tried
<1> QED
  BY <1>3, <1>5, <1>10

\* A record and the same with one more interval.
Extended(s, r, n, clock, leg, sure, held, within) ==
  /\ s \in Approach!Records /\ n \in Nat /\ clock \in Nat /\ leg \in Approach!MissionPhases
  /\ sure \in BOOLEAN /\ held \in Nat /\ within \in BOOLEAN
  /\ s.clocks = Append(r.clocks, clock) /\ s.samples = Append(r.samples, leg)
  /\ s.controls = Append(r.controls, n) /\ s.clear = Append(r.clear, sure)
  /\ s.safe = (r.safe /\ sure) /\ s.beliefs = Append(r.beliefs, held)
  /\ s.bound = Append(r.bound, within)
  /\ s.phases = r.phases /\ s.tries = r.tries /\ s.nominal = r.nominal
  /\ s.archive = r.archive /\ s.seams = r.seams

LEMMA ExecutedRecord ==
  ASSUME NEW r \in Approach!Records, NEW n \in Nat, NEW clock \in Nat, NEW leg \in Approach!MissionPhases,
         NEW sure \in BOOLEAN, NEW held \in Nat, NEW within \in BOOLEAN
  PROVE  Extended(Approach!RecordExecution(r, n, clock, leg, sure, held, within),
                  r, n, clock, leg, sure, held, within)
<1> DEFINE clocks == Append(r.clocks, clock)
<1> DEFINE samples == Append(r.samples, leg)
<1> DEFINE controls == Append(r.controls, n)
<1> DEFINE cleared == Append(r.clear, sure)
<1> DEFINE safe == r.safe /\ sure
<1> DEFINE beliefs == Append(r.beliefs, held)
<1> DEFINE bound == Append(r.bound, within)
<1>1. clocks \in Seq(Nat) /\ samples \in Seq(Approach!MissionPhases) /\ controls \in Seq(Nat)
      /\ cleared \in Seq(BOOLEAN) /\ beliefs \in Seq(Nat) /\ bound \in Seq(BOOLEAN)
  BY RecordParts, AppendProperties
<1>2. safe \in BOOLEAN
  BY RecordParts
<1>3. Approach!RecordExecution(r, n, clock, leg, sure, held, within) =
        [r EXCEPT !.clocks = clocks, !.samples = samples, !.controls = controls, !.clear = cleared,
                  !.safe = safe, !.beliefs = beliefs, !.bound = bound]
  BY DEF Approach!RecordExecution
<1> HIDE DEF clocks, samples, controls, cleared, safe, beliefs, bound
<1>4. PICK s : s = [r EXCEPT !.clocks = clocks, !.samples = samples, !.controls = controls, !.clear = cleared, !.safe = safe, !.beliefs = beliefs, !.bound = bound]
  OBVIOUS
<1>5. FieldsOf(s)
  BY <1>4, RecordForm DEF FieldsOf, RecordFields
<1>6. /\ s.clocks = clocks /\ s.samples = samples /\ s.phases = r.phases /\ s.tries = r.tries
      /\ s.nominal = r.nominal /\ s.controls = controls /\ s.clear = cleared /\ s.bound = bound
      /\ s.beliefs = beliefs /\ s.safe = safe /\ s.archive = r.archive /\ s.seams = r.seams
  BY <1>4, RecordForm DEF FieldsOf, RecordFields
<1>7. s \in Approach!Records
  BY <1>1, <1>2, <1>5, <1>6, RecordParts, RecordWhole
<1> QED
  BY <1>3, <1>4, <1>6, <1>7 DEF Extended, clocks, samples, controls, cleared, safe, beliefs, bound

LEMMA TakenRecord ==
  ASSUME NEW s \in Approach!Results, HistoriesFit(s.rec), ProposalsFit(s.rec)
  PROVE  LET r == s.rec
             t == Approach!FromCheckpoint(s)
         IN  /\ t \in Approach!Records
             /\ t.phases = SubSeq(r.phases, 1, Held(r))
             /\ \A c \in Approach!Fleet : t.nominal[c] = SubSeq(r.nominal[c], 1, Held(r))
             /\ t.archive = Append(r.archive, [c \in Approach!Fleet |->
                              SubSeq(r.nominal[c], Held(r) + 1, Len(r.nominal[c]))])
             /\ t.clocks = r.clocks /\ t.samples = r.samples /\ t.tries = r.tries
             /\ t.controls = r.controls /\ t.clear = r.clear /\ t.bound = r.bound
             /\ t.beliefs = r.beliefs /\ t.safe = r.safe /\ t.seams = r.seams
<1> DEFINE r == s.rec
<1> DEFINE phases == SubSeq(r.phases, 1, Held(r))
<1> DEFINE nominal == [c \in Approach!Fleet |-> SubSeq(r.nominal[c], 1, Held(r))]
<1> DEFINE unused == [c \in Approach!Fleet |-> SubSeq(r.nominal[c], Held(r) + 1, Len(r.nominal[c]))]
<1> DEFINE kept == Append(r.archive, unused)
<1>1. r \in Approach!Records
  BY DEF Approach!Results
<1>2. Held(r) \in Nat /\ Held(r) <= Len(r.phases)
  BY <1>1, RecordParts, LenProperties DEF HistoriesFit, Held, Approach!CommittedUpdates
<1>3. phases \in Seq(Approach!MissionPhases)
  BY <1>1, <1>2, RecordParts, SubSeqProperties
<1>4. nominal \in [Approach!Fleet -> Seq(Nat)] /\ unused \in [Approach!Fleet -> Seq(Nat)]
  <2> SUFFICES ASSUME NEW c \in Approach!Fleet
               PROVE  nominal[c] \in Seq(Nat) /\ unused[c] \in Seq(Nat)
    OBVIOUS
  <2>1. r.nominal[c] \in Seq(Nat)
    BY <1>1, RecordParts
  <2>2. Len(r.nominal[c]) \in Nat /\ Held(r) <= Len(r.nominal[c])
    BY <2>1, LenProperties DEF ProposalsFit
  <2> HIDE DEF r
  <2>3. SubSeq(r.nominal[c], 1, Held(r)) \in Seq(Nat)
    BY <1>2, <2>1, <2>2, SubSeqProperties
  <2>4. SubSeq(r.nominal[c], Held(r) + 1, Len(r.nominal[c])) \in Seq(Nat)
    BY <1>2, <2>1, <2>2, SubSeqProperties
  <2> QED
    BY <2>3, <2>4
<1>5. kept \in Seq([Approach!Fleet -> Seq(Nat)])
  BY <1>1, <1>4, RecordParts, AppendProperties
<1>6. Approach!FromCheckpoint(s) = [r EXCEPT !.nominal = nominal, !.phases = phases, !.archive = kept]
  BY DEF Approach!FromCheckpoint, Held
<1>7. \A c \in Approach!Fleet : nominal[c] = SubSeq(r.nominal[c], 1, Held(r))
  OBVIOUS
<1> HIDE DEF r, nominal, phases, kept
<1>8. PICK t : t = [r EXCEPT !.nominal = nominal, !.phases = phases, !.archive = kept]
  OBVIOUS
<1>9. FieldsOf(t)
  BY <1>8, <1>1, RecordForm DEF FieldsOf, RecordFields
<1>10. /\ t.clocks = r.clocks /\ t.samples = r.samples /\ t.phases = phases /\ t.tries = r.tries
      /\ t.nominal = nominal /\ t.controls = r.controls /\ t.clear = r.clear
      /\ t.bound = r.bound /\ t.beliefs = r.beliefs /\ t.safe = r.safe /\ t.archive = kept
      /\ t.seams = r.seams
  BY <1>8, <1>1, RecordForm DEF FieldsOf, RecordFields
<1>11. t \in Approach!Records
  BY <1>3, <1>4, <1>5, <1>9, <1>10, <1>1, RecordParts, RecordWhole
<1> QED
  BY <1>6, <1>7, <1>8, <1>10, <1>11 DEF r, phases, kept

\* The record that crosses a seam notes where it did.
LEMMA CrossedRecord ==
  ASSUME NEW r \in Approach!Records, NEW pair \in Nat \X Nat
  PROVE  LET s == [r EXCEPT !.seams = Append(@, pair)]
         IN  /\ s \in Approach!Records
             /\ s.seams = Append(r.seams, pair)
             /\ s.clocks = r.clocks /\ s.samples = r.samples /\ s.phases = r.phases /\ s.tries = r.tries
             /\ s.nominal = r.nominal /\ s.controls = r.controls /\ s.clear = r.clear /\ s.bound = r.bound
             /\ s.beliefs = r.beliefs /\ s.safe = r.safe /\ s.archive = r.archive
<1> DEFINE marks == Append(r.seams, pair)
<1>1. marks \in Seq(Nat \X Nat)
  BY RecordParts, AppendProperties
<1> HIDE DEF marks
<1>2. PICK s : s = [r EXCEPT !.seams = marks]
  OBVIOUS
<1>3. FieldsOf(s)
  BY <1>2, RecordForm DEF FieldsOf, RecordFields
<1>4. /\ s.clocks = r.clocks /\ s.samples = r.samples /\ s.phases = r.phases
      /\ s.tries = r.tries /\ s.nominal = r.nominal /\ s.controls = r.controls
      /\ s.clear = r.clear /\ s.bound = r.bound /\ s.beliefs = r.beliefs /\ s.safe = r.safe
      /\ s.archive = r.archive /\ s.seams = marks
  BY <1>2, RecordForm DEF FieldsOf, RecordFields
<1>5. s \in Approach!Records
  BY <1>1, <1>3, <1>4, RecordParts, RecordWhole
<1> QED
  BY <1>2, <1>4, <1>5 DEF marks

-----------------------------------------------------------------------------
(* The operations on an arrival runtime, field by field *)

RuntimeFields == {"enabled", "origin", "seam", "commitment", "events", "first", "latest"}
LoggedEvents == [status : Approach!Statuses, step : Approach!Steps \cup {None}, detail : Nat \cup {None}]

RuntimeOf(rt) == DOMAIN rt = RuntimeFields /\ rt = [field \in RuntimeFields |-> rt[field]]

LEMMA RuntimeForm == ASSUME NEW rt \in Approach!Runtimes PROVE RuntimeOf(rt)
  BY DEF Approach!Runtimes, RuntimeFields, RuntimeOf

LEMMA RuntimeParts ==
  ASSUME NEW rt \in Approach!Runtimes
  PROVE  /\ rt.enabled \in Nat /\ rt.origin \in Nat /\ rt.seam \in BOOLEAN
         /\ rt.commitment \in Approach!Commitments \cup {None} /\ rt.events \in Seq(LoggedEvents)
         /\ rt.first \in Approach!Artifacts \cup {None} /\ rt.latest \in Approach!Artifacts \cup {None}
  BY DEF Approach!Runtimes, LoggedEvents

LEMMA RuntimeWhole ==
  ASSUME NEW rt, RuntimeOf(rt),
         rt.enabled \in Nat, rt.origin \in Nat, rt.seam \in BOOLEAN,
         rt.commitment \in Approach!Commitments \cup {None}, rt.events \in Seq(LoggedEvents),
         rt.first \in Approach!Artifacts \cup {None}, rt.latest \in Approach!Artifacts \cup {None}
  PROVE  rt \in Approach!Runtimes
  BY DEF RuntimeFields, RuntimeOf, Approach!Runtimes, LoggedEvents

LEMMA LoggedRuntime ==
  ASSUME NEW rt \in Approach!Runtimes, NEW kind \in Approach!Statuses,
         NEW plan \in Approach!Steps \cup {None}, NEW detail \in Nat \cup {None}
  PROVE  LET s == Approach!Logged(rt, kind, plan, detail)
         IN  /\ s \in Approach!Runtimes
             /\ s.events = Append(rt.events, [status |-> kind, step |-> plan, detail |-> detail])
             /\ s.enabled = rt.enabled /\ s.origin = rt.origin /\ s.seam = rt.seam
             /\ s.commitment = rt.commitment /\ s.first = rt.first /\ s.latest = rt.latest
<1> DEFINE events == Append(rt.events, [status |-> kind, step |-> plan, detail |-> detail])
<1>1. events \in Seq(LoggedEvents)
  <2>1. [status |-> kind, step |-> plan, detail |-> detail] \in LoggedEvents
    BY DEF LoggedEvents
  <2> QED
    BY <2>1, RuntimeParts, AppendProperties
<1>2. Approach!Logged(rt, kind, plan, detail) = [rt EXCEPT !.events = events]
  BY DEF Approach!Logged
<1> HIDE DEF events
<1>3. PICK s : s = [rt EXCEPT !.events = events]
  OBVIOUS
<1>4. RuntimeOf(s)
  BY <1>3, RuntimeForm DEF RuntimeOf, RuntimeFields
<1>5. /\ s.enabled = rt.enabled /\ s.origin = rt.origin /\ s.seam = rt.seam /\ s.events = events
      /\ s.commitment = rt.commitment /\ s.first = rt.first /\ s.latest = rt.latest
  BY <1>3, RuntimeForm DEF RuntimeOf, RuntimeFields
<1>6. s \in Approach!Runtimes
  BY <1>1, <1>4, <1>5, RuntimeParts, RuntimeWhole
<1> QED
  BY <1>2, <1>3, <1>5, <1>6 DEF events

\* The commitment that the acceptance of a cycle leaves.
CommitmentBy(rt, plan, n) ==
  IF rt.commitment # None THEN rt.commitment
  ELSE [update |-> plan.update, deadline |-> plan.deadline, start |-> plan.clock, due |-> plan.due, id |-> n]

LEMMA AcceptedRuntime ==
  ASSUME NEW rt \in Approach!Runtimes, NEW plan \in Approach!Steps, NEW n \in Nat
  PROVE  LET s == Approach!AcceptCandidate(rt, plan, n)
         IN  /\ s \in Approach!Runtimes
             /\ s.events = Append(rt.events, [status |-> "ACCEPTED", step |-> plan, detail |-> n])
             /\ s.enabled = rt.enabled /\ s.origin = rt.origin /\ s.seam = rt.seam
             /\ s.commitment = CommitmentBy(rt, plan, n)
             /\ s.first = IF rt.commitment # None THEN rt.first ELSE [id |-> n, step |-> plan]
             /\ s.latest = [id |-> n, step |-> plan]
<1> DEFINE artifact == [id |-> n, step |-> plan]
<1> DEFINE anchor == [update |-> plan.update, deadline |-> plan.deadline, start |-> plan.clock,
                      due |-> plan.due, id |-> n]
<1>1. artifact \in Approach!Artifacts /\ anchor \in Approach!Commitments
  BY DEF Approach!Artifacts, Approach!Commitments, Approach!Steps
<1> DEFINE anchored == IF rt.commitment # None THEN rt
                       ELSE [rt EXCEPT !.commitment = anchor, !.first = artifact]
<1> HIDE DEF anchor
<1> HIDE DEF artifact
<1>2. PICK t : t = anchored
  OBVIOUS
<1>3. /\ RuntimeOf(t) /\ t.enabled = rt.enabled /\ t.origin = rt.origin /\ t.seam = rt.seam
      /\ t.events = rt.events /\ t.latest = rt.latest
      /\ t.commitment = IF rt.commitment # None THEN rt.commitment ELSE anchor
      /\ t.first = IF rt.commitment # None THEN rt.first ELSE artifact
  <2>1. CASE rt.commitment # None
    BY <1>2, <2>1, RuntimeForm
  <2>2. CASE rt.commitment = None
    BY <1>2, <2>2, RuntimeForm DEF RuntimeOf, RuntimeFields
  <2> QED
    BY <2>1, <2>2
<1>4. PICK u : u = [t EXCEPT !.latest = artifact]
  OBVIOUS
<1>5. /\ RuntimeOf(u) /\ u.enabled = t.enabled /\ u.origin = t.origin /\ u.seam = t.seam
      /\ u.events = t.events /\ u.commitment = t.commitment /\ u.first = t.first /\ u.latest = artifact
  BY <1>3, <1>4 DEF RuntimeOf, RuntimeFields
<1>6. u \in Approach!Runtimes
  BY <1>1, <1>3, <1>5, RuntimeParts, RuntimeWhole
<1>7. Approach!AcceptCandidate(rt, plan, n) = Approach!Logged(u, "ACCEPTED", plan, n)
  BY <1>2, <1>4 DEF Approach!AcceptCandidate, artifact, anchor
<1>8. "ACCEPTED" \in Approach!Statuses
  BY DEF Approach!Statuses
<1>9. LET s == Approach!Logged(u, "ACCEPTED", plan, n)
      IN  /\ s \in Approach!Runtimes
          /\ s.events = Append(u.events, [status |-> "ACCEPTED", step |-> plan, detail |-> n])
          /\ s.enabled = u.enabled /\ s.origin = u.origin /\ s.seam = u.seam
          /\ s.commitment = u.commitment /\ s.first = u.first /\ s.latest = u.latest
  BY <1>6, <1>8, LoggedRuntime
<1> QED
  BY <1>3, <1>5, <1>7, <1>9 DEF CommitmentBy, artifact, anchor

LEMMA ApproachConstants ==
  /\ Nodes \in Nat /\ Nodes >= 2 /\ Substeps \in Nat /\ Substeps >= 1 /\ Dwell \in Nat /\ Dwell >= 1
  /\ FleetSize \in Nat /\ FleetSize >= 1
  /\ None \notin Nat /\ None \notin Approach!Steps /\ None \notin Approach!Commitments
  /\ None \notin Approach!Artifacts /\ None \notin Approach!Runtimes /\ None \notin Approach!Results
  /\ None \notin Approach!Transitions
  BY RecordInstances DEF Approach!ApproachAssumption

LEMMA PlannedStep ==
  ASSUME NEW rt \in Approach!Runtimes, NEW u \in Nat, NEW clock \in Nat
  PROVE  LET s == Approach!ArrivalPlanningStep(rt, u, clock)
         IN  /\ s \in Approach!Steps /\ s.update = u /\ s.clock = clock
             /\ s.deadline = IF rt.commitment = None THEN u + Nodes - 1 ELSE rt.commitment.deadline
             /\ s.due = IF rt.commitment = None THEN clock + (Nodes - 1) * Substeps ELSE rt.commitment.due
             /\ s.suffix = Approach!Suffix(s.deadline, u)
<1> DEFINE deadline == IF rt.commitment = None THEN u + Nodes - 1 ELSE rt.commitment.deadline
<1> DEFINE due == IF rt.commitment = None THEN clock + (Nodes - 1) * Substeps ELSE rt.commitment.due
<1>1. deadline \in Nat
  BY RuntimeParts, ApproachConstants DEF Approach!Commitments
<1>2. due \in Nat
  <2>1. (Nodes - 1) * Substeps \in Nat
    BY ApproachConstants
  <2> QED
    BY <2>1, RuntimeParts DEF Approach!Commitments
<1>3. Approach!Suffix(deadline, u) \in Nat
  BY <1>1 DEF Approach!Suffix
<1>4. Approach!ArrivalPlanningStep(rt, u, clock) =
        [update |-> u, clock |-> clock, deadline |-> deadline, due |-> due,
         suffix |-> Approach!Suffix(deadline, u)]
  BY DEF Approach!ArrivalPlanningStep
<1> HIDE DEF deadline, due
<1>5. Approach!ArrivalPlanningStep(rt, u, clock) \in Approach!Steps
  BY <1>1, <1>2, <1>3, <1>4 DEF Approach!Steps
<1> QED
  BY <1>4, <1>5 DEF deadline, due

LEMMA ClockTyped == ASSUME NEW g \in Approach!Guards PROVE Approach!ExactClock(g) \in Nat
  BY DEF Approach!ExactClock, Approach!Guards

-----------------------------------------------------------------------------
(* What each action does, field by field *)

RunFieldNames == {"seam", "offset", "index", "phase", "dwell", "valid", "completed", "step", "from", "hold",
                  "good", "clear"}
RunOf(r) == DOMAIN r = RunFieldNames /\ r = [field \in RunFieldNames |-> r[field]]

LEMMA RunForm == ASSUME NEW r \in Approach!Runs PROVE RunOf(r)
  BY DEF Approach!Runs, RunFieldNames, RunOf

LEMMA RunParts ==
  ASSUME NEW r \in Approach!Runs
  PROVE  /\ r.seam \in BOOLEAN /\ r.offset \in Nat /\ r.index \in Nat /\ r.phase \in Approach!MissionPhases
         /\ r.dwell \in Nat /\ r.valid \in BOOLEAN /\ r.completed \in BOOLEAN
         /\ r.step \in Approach!Steps \cup {None} /\ r.from \in Nat /\ r.hold \in Nat
         /\ r.good \in BOOLEAN /\ r.clear \in BOOLEAN
  BY DEF Approach!Runs

LEMMA RunWhole ==
  ASSUME NEW r, RunOf(r),
         r.seam \in BOOLEAN, r.offset \in Nat, r.index \in Nat, r.phase \in Approach!MissionPhases,
         r.dwell \in Nat, r.valid \in BOOLEAN, r.completed \in BOOLEAN,
         r.step \in Approach!Steps \cup {None}, r.from \in Nat, r.hold \in Nat,
         r.good \in BOOLEAN, r.clear \in BOOLEAN
  PROVE  r \in Approach!Runs
  BY DEF RunFieldNames, RunOf, Approach!Runs

LEMMA PhaseTyped == ASSUME run \in Approach!Runs PROVE Approach!Phase \in Approach!MissionPhases
  BY RunParts DEF Approach!Phase, Approach!MissionPhases

LEMMA RefusePlanningRun ==
  ASSUME run \in Approach!Runs, Approach!RefusePlanning
  PROVE  /\ run' \in Approach!Runs
         /\ run'.seam = run.seam /\ run'.offset = run.offset /\ run'.index = run.index
         /\ run'.phase = Approach!Phase /\ run'.dwell = run.dwell /\ run'.valid = FALSE
         /\ run'.completed = run.completed /\ run'.step = run.step /\ run'.from = run.from
         /\ run'.hold = run.hold /\ run'.good = run.good /\ run'.clear = run.clear
<1>1. run' = [run EXCEPT !.phase = Approach!Phase, !.valid = FALSE]
  BY DEF Approach!RefusePlanning
<1>2. /\ RunOf(run')
      /\ run'.seam = run.seam /\ run'.offset = run.offset /\ run'.index = run.index
      /\ run'.phase = Approach!Phase /\ run'.dwell = run.dwell /\ run'.valid = FALSE
      /\ run'.completed = run.completed /\ run'.step = run.step /\ run'.from = run.from
      /\ run'.hold = run.hold /\ run'.good = run.good /\ run'.clear = run.clear
  BY <1>1, RunForm DEF RunOf, RunFieldNames
<1>3. run' \in Approach!Runs
  BY <1>2, RunParts, RunWhole, PhaseTyped
<1> QED
  BY <1>2, <1>3

LEMMA RefuseHoldRun ==
  ASSUME run \in Approach!Runs, Approach!RefuseHold
  PROVE  /\ run' \in Approach!Runs
         /\ run'.seam = run.seam /\ run'.offset = run.offset /\ run'.index = run.index
         /\ run'.phase = run.phase /\ run'.dwell = run.dwell /\ run'.valid = run.valid
         /\ run'.completed = run.completed /\ run'.step = run.step /\ run'.from = run.from
         /\ run'.hold = run.hold /\ run'.good = FALSE /\ run'.clear = run.clear
<1>1. run' = [run EXCEPT !.good = FALSE]
  BY DEF Approach!RefuseHold
<1>2. /\ RunOf(run')
      /\ run'.seam = run.seam /\ run'.offset = run.offset /\ run'.index = run.index
      /\ run'.phase = run.phase /\ run'.dwell = run.dwell /\ run'.valid = run.valid
      /\ run'.completed = run.completed /\ run'.step = run.step /\ run'.from = run.from
      /\ run'.hold = run.hold /\ run'.good = FALSE /\ run'.clear = run.clear
  BY <1>1, RunForm DEF RunOf, RunFieldNames
<1>3. run' \in Approach!Runs
  BY <1>2, RunParts, RunWhole
<1> QED
  BY <1>2, <1>3

LEMMA RecordNothingRun ==
  ASSUME run \in Approach!Runs, Approach!RecordNothing
  PROVE  /\ run' \in Approach!Runs
         /\ run'.seam = run.seam /\ run'.offset = run.offset /\ run'.index = run.index
         /\ run'.phase = run.phase /\ run'.dwell = run.dwell /\ run'.valid = FALSE
         /\ run'.completed = run.completed /\ run'.step = run.step /\ run'.from = run.from
         /\ run'.hold = run.hold /\ run'.good = run.good /\ run'.clear = run.clear
<1>1. run' = [run EXCEPT !.valid = FALSE]
  BY DEF Approach!RecordNothing
<1>2. /\ RunOf(run')
      /\ run'.seam = run.seam /\ run'.offset = run.offset /\ run'.index = run.index
      /\ run'.phase = run.phase /\ run'.dwell = run.dwell /\ run'.valid = FALSE
      /\ run'.completed = run.completed /\ run'.step = run.step /\ run'.from = run.from
      /\ run'.hold = run.hold /\ run'.good = run.good /\ run'.clear = run.clear
  BY <1>1, RunForm DEF RunOf, RunFieldNames
<1>3. run' \in Approach!Runs
  BY <1>2, RunParts, RunWhole
<1> QED
  BY <1>2, <1>3

Planned(solved, sound, plan) ==
  /\ solved \in 0..FleetSize /\ sound \in BOOLEAN /\ (sound => solved = FleetSize)
  /\ plan = IF Approach!Docking THEN Approach!PlanStep ELSE None
  /\ point = "plan" /\ point' = IF sound THEN "hold" ELSE "finish"
  /\ Approach!Docking => Approach!StepAllowed(arr, Approach!Update, Approach!ExactClock(guard))
  /\ cycle' = cycle + 1
  /\ rec' = Approach!RecordPlanning(Approach!Phased, cycle', solved)
  /\ run' = [run EXCEPT !.phase = Approach!Phase, !.valid = sound, !.step = plan, !.from = fleet.clock,
                        !.hold = 0, !.good = TRUE, !.clear = TRUE]
  /\ arr' = IF plan = None THEN arr
            ELSE IF sound THEN Approach!AcceptCandidate(arr, plan, cycle')
            ELSE Approach!RefuseCandidate(arr, plan)
  /\ UNCHANGED <<mode, guard, seam, store, fleet, belief, scenarios>>

LEMMA PlanFleetIs ==
  ASSUME Approach!PlanFleet
  PROVE  \E solved \in 0..FleetSize, sound \in BOOLEAN, plan \in {Approach!PlanStep, None} : Planned(solved, sound, plan)
<1>1. Len([n \in 1..FleetSize |-> n]) = FleetSize
  BY FleetIs
<1>2. PICK solved \in 0..FleetSize, apart \in BOOLEAN, kept \in BOOLEAN :
        LET plan == IF Approach!Docking THEN Approach!PlanStep ELSE None
            sound == solved = FleetSize /\ apart /\ (Approach!Docking => kept)
        IN  /\ rec' = Approach!RecordPlanning(Approach!Phased, cycle', solved)
            /\ run' = [run EXCEPT !.phase = Approach!Phase, !.valid = sound, !.step = plan,
                                  !.from = fleet.clock, !.hold = 0, !.good = TRUE, !.clear = TRUE]
            /\ point' = IF sound THEN "hold" ELSE "finish"
            /\ arr' = IF plan = None THEN arr
                      ELSE IF sound THEN Approach!AcceptCandidate(arr, plan, cycle')
                      ELSE Approach!RefuseCandidate(arr, plan)
  BY <1>1 DEF Approach!PlanFleet
<1> DEFINE plan == IF Approach!Docking THEN Approach!PlanStep ELSE None
<1> DEFINE sound == solved = FleetSize /\ apart /\ (Approach!Docking => kept)
<1>3. Planned(solved, sound, plan)
  BY <1>2 DEF Planned, Approach!PlanFleet, Approach!scenario
<1>4. sound \in BOOLEAN /\ plan \in {Approach!PlanStep, None}
  OBVIOUS
<1> QED
  BY <1>3, <1>4

LEMMA PlannedRun ==
  ASSUME run \in Approach!Runs, fleet \in Approach!Fleets, NEW solved, NEW sound \in BOOLEAN,
         NEW plan \in Approach!Steps \cup {None}, Planned(solved, sound, plan)
  PROVE  /\ run' \in Approach!Runs
         /\ run'.seam = run.seam /\ run'.offset = run.offset /\ run'.index = run.index
         /\ run'.phase = Approach!Phase /\ run'.dwell = run.dwell /\ run'.valid = sound
         /\ run'.completed = run.completed /\ run'.step = plan /\ run'.from = fleet.clock
         /\ run'.hold = 0 /\ run'.good = TRUE /\ run'.clear = TRUE
<1>0. fleet.clock \in Nat
  BY DEF Approach!Fleets
<1>1. run' = [run EXCEPT !.phase = Approach!Phase, !.valid = sound, !.step = plan, !.from = fleet.clock, !.hold = 0, !.good = TRUE, !.clear = TRUE]
  BY DEF Planned
<1>2. /\ RunOf(run')
      /\ run'.seam = run.seam /\ run'.offset = run.offset /\ run'.index = run.index
      /\ run'.phase = Approach!Phase /\ run'.dwell = run.dwell /\ run'.valid = sound
      /\ run'.completed = run.completed /\ run'.step = plan /\ run'.from = fleet.clock
      /\ run'.hold = 0 /\ run'.good = TRUE /\ run'.clear = TRUE
  BY <1>1, RunForm DEF RunOf, RunFieldNames
<1>3. /\ run'.seam \in BOOLEAN /\ run'.offset \in Nat /\ run'.index \in Nat
      /\ run'.phase \in Approach!MissionPhases /\ run'.dwell \in Nat /\ run'.valid \in BOOLEAN
      /\ run'.completed \in BOOLEAN /\ run'.step \in Approach!Steps \cup {None} /\ run'.from \in Nat
      /\ run'.hold \in Nat /\ run'.good \in BOOLEAN /\ run'.clear \in BOOLEAN
  <2>1. run'.seam \in BOOLEAN /\ run'.valid \in BOOLEAN /\ run'.completed \in BOOLEAN
        /\ run'.good \in BOOLEAN /\ run'.clear \in BOOLEAN
    BY <1>2, RunParts
  <2>2. /\ run'.offset \in Nat /\ run'.index \in Nat /\ run'.dwell \in Nat
        /\ run'.from \in Nat /\ run'.hold \in Nat
    BY <1>0, <1>2, RunParts
  <2>3. run'.phase \in Approach!MissionPhases
    BY <1>2, PhaseTyped
  <2>4. run'.step \in Approach!Steps \cup {None}
    BY <1>2
  <2> QED
    BY <2>1, <2>2, <2>3, <2>4
<1>4. run' \in Approach!Runs
  BY <1>2, <1>3, RunWhole
<1> QED
  BY <1>2, <1>4

Committed(contained, sure, goal) ==
  /\ contained \in BOOLEAN /\ sure \in BOOLEAN /\ goal \in BOOLEAN
  /\ point = "hold" /\ (mode.guarded => Approach!Contiguous(guard, fleet.clock))
  /\ guard' = IF mode.guarded THEN Approach!GuardCommits(guard, fleet.clock + 1) ELSE guard
  /\ fleet' = [clock |-> fleet.clock + 1, contained |-> contained, goal |-> goal]
  /\ run' = [run EXCEPT !.hold = run.hold + 1, !.good = contained /\ sure, !.clear = run.clear /\ sure]
  /\ point' = IF (contained /\ sure) /\ run.hold + 1 < Substeps THEN "hold" ELSE "record"
  /\ UNCHANGED <<mode, seam, store, rec, arr, belief, cycle, scenarios>>

LEMMA CommitHoldIs ==
  ASSUME Approach!CommitHold
  PROVE  \E contained, sure, goal \in BOOLEAN : Committed(contained, sure, goal)
  BY DEF Approach!CommitHold, Committed

LEMMA CommittedRun ==
  ASSUME run \in Approach!Runs, NEW contained \in BOOLEAN, NEW sure \in BOOLEAN, NEW goal \in BOOLEAN,
         Committed(contained, sure, goal)
  PROVE  /\ run' \in Approach!Runs
         /\ run'.seam = run.seam /\ run'.offset = run.offset /\ run'.index = run.index
         /\ run'.phase = run.phase /\ run'.dwell = run.dwell /\ run'.valid = run.valid
         /\ run'.completed = run.completed /\ run'.step = run.step /\ run'.from = run.from
         /\ run'.hold = run.hold + 1 /\ run'.good = (contained /\ sure)
         /\ run'.clear = (run.clear /\ sure)
<1>1. run' = [run EXCEPT !.hold = run.hold + 1, !.good = (contained /\ sure), !.clear = (run.clear /\ sure)]
  BY DEF Committed
<1>2. /\ RunOf(run')
      /\ run'.seam = run.seam /\ run'.offset = run.offset /\ run'.index = run.index
      /\ run'.phase = run.phase /\ run'.dwell = run.dwell /\ run'.valid = run.valid
      /\ run'.completed = run.completed /\ run'.step = run.step /\ run'.from = run.from
      /\ run'.hold = run.hold + 1 /\ run'.good = (contained /\ sure)
      /\ run'.clear = (run.clear /\ sure)
  BY <1>1, RunForm DEF RunOf, RunFieldNames
<1>3. run' \in Approach!Runs
  BY <1>2, RunParts, RunWhole
<1> QED
  BY <1>2, <1>3

Updated(consistent, learned, more) ==
  /\ point = "record" /\ Approach!Moved
  /\ arr' = Approach!Executed
  /\ consistent \in BOOLEAN /\ learned \in BOOLEAN /\ more \in BOOLEAN
  /\ LET within == run.phase = "docking" /\ fleet.goal
         sound == run.good /\ consistent
         count == Approach!NextDwell(within, sound)
     IN  /\ belief' = IF learned THEN cycle ELSE belief
         /\ rec' = Approach!RecordExecution(rec, cycle, fleet.clock, run.phase, run.clear, belief', within)
         /\ run' = [run EXCEPT !.dwell = count, !.valid = sound, !.completed = count >= Dwell,
                               !.index = run.index + 1, !.step = None]
         /\ point' = IF sound /\ count < Dwell /\ more THEN "plan" ELSE "finish"
  /\ UNCHANGED <<mode, guard, seam, store, fleet, cycle, scenarios>>

LEMMA RecordUpdateIs ==
  ASSUME Approach!RecordUpdate
  PROVE  \E consistent, learned, more \in BOOLEAN : Updated(consistent, learned, more)
  BY DEF Approach!RecordUpdate, Updated, Approach!scenario

Within == run.phase = "docking" /\ fleet.goal

LEMMA UpdatedRun ==
  ASSUME run \in Approach!Runs, NEW consistent, NEW learned, NEW more,
         Updated(consistent, learned, more)
  PROVE  /\ run' \in Approach!Runs
         /\ run'.seam = run.seam /\ run'.offset = run.offset /\ run'.index = run.index + 1
         /\ run'.phase = run.phase
         /\ run'.dwell = Approach!NextDwell(Within, run.good /\ consistent)
         /\ run'.valid = (run.good /\ consistent)
         /\ run'.completed = (Approach!NextDwell(Within, run.good /\ consistent) >= Dwell)
         /\ run'.step = None /\ run'.from = run.from /\ run'.hold = run.hold
         /\ run'.good = run.good /\ run'.clear = run.clear
<1>0. Approach!NextDwell(Within, run.good /\ consistent) \in Nat
  BY RunParts DEF Approach!NextDwell
<1>1. run' = [run EXCEPT !.dwell = Approach!NextDwell(Within, run.good /\ consistent), !.valid = (run.good /\ consistent), !.completed = (Approach!NextDwell(Within, run.good /\ consistent) >= Dwell), !.index = run.index + 1, !.step = None]
  BY DEF Updated, Within
<1>2. /\ RunOf(run')
      /\ run'.seam = run.seam /\ run'.offset = run.offset /\ run'.index = run.index + 1
      /\ run'.phase = run.phase
      /\ run'.dwell = Approach!NextDwell(Within, run.good /\ consistent)
      /\ run'.valid = (run.good /\ consistent)
      /\ run'.completed = (Approach!NextDwell(Within, run.good /\ consistent) >= Dwell)
      /\ run'.step = None /\ run'.from = run.from /\ run'.hold = run.hold
      /\ run'.good = run.good /\ run'.clear = run.clear
  BY <1>1, RunForm DEF RunOf, RunFieldNames
<1>3. /\ run'.seam \in BOOLEAN /\ run'.offset \in Nat /\ run'.index \in Nat
      /\ run'.phase \in Approach!MissionPhases /\ run'.dwell \in Nat /\ run'.valid \in BOOLEAN
      /\ run'.completed \in BOOLEAN /\ run'.step \in Approach!Steps \cup {None} /\ run'.from \in Nat
      /\ run'.hold \in Nat /\ run'.good \in BOOLEAN /\ run'.clear \in BOOLEAN
  BY <1>0, <1>2, RunParts
<1>4. run' \in Approach!Runs
  BY <1>2, <1>3, RunWhole
<1> QED
  BY <1>2, <1>4

LEMMA IdleRun ==
  /\ Approach!Idle \in Approach!Runs
  /\ Approach!Idle.seam = FALSE /\ Approach!Idle.offset = 0 /\ Approach!Idle.index = 0
  /\ Approach!Idle.phase = "rendezvous" /\ Approach!Idle.dwell = 0 /\ Approach!Idle.valid = TRUE
  /\ Approach!Idle.completed = FALSE /\ Approach!Idle.step = None /\ Approach!Idle.from = 0
  /\ Approach!Idle.hold = 0 /\ Approach!Idle.good = TRUE /\ Approach!Idle.clear = TRUE
<1>1. Approach!Idle \in Approach!Runs
  BY DEF Approach!Idle, Approach!Runs, Approach!MissionPhases
<1> QED
  BY <1>1 DEF Approach!Idle

LEMMA TakenRun ==
  ASSUME NEW s \in Approach!Results, NEW crossing \in BOOLEAN, NEW rt, NEW r, HistoriesFit(s.rec),
         Approach!TakesOver(s, crossing, rt, r)
  PROVE  /\ run' \in Approach!Runs
         /\ run'.seam = crossing /\ run'.offset = Held(s.rec) /\ run'.index = 0
         /\ run'.phase = s.rec.samples[Len(s.rec.samples)] /\ run'.dwell = s.dwell
         /\ run'.valid = TRUE /\ run'.completed = FALSE /\ run'.step = None /\ run'.from = 0
         /\ run'.hold = 0 /\ run'.good = TRUE /\ run'.clear = TRUE
<1>1. s.rec \in Approach!Records /\ s.dwell \in Nat
  BY DEF Approach!Results
<1>2. Held(s.rec) \in Nat /\ s.rec.samples[Len(s.rec.samples)] \in Approach!MissionPhases
  <2>1. s.rec.clocks \in Seq(Nat) /\ s.rec.samples \in Seq(Approach!MissionPhases)
    BY <1>1, RecordParts
  <2>2. Len(s.rec.clocks) \in Nat /\ Len(s.rec.clocks) >= 1 /\ Len(s.rec.samples) = Len(s.rec.clocks)
    BY <2>1, LenProperties DEF HistoriesFit
  <2> QED
    BY <2>1, <2>2, ElementOfSeq DEF Held, Approach!CommittedUpdates
<1>3. run' = [Approach!Idle EXCEPT !.seam = crossing, !.offset = Held(s.rec),
                                  !.phase = s.rec.samples[Len(s.rec.samples)], !.dwell = s.dwell]
  BY DEF Approach!TakesOver, Held
<1>4. /\ RunOf(run')
      /\ run'.seam = crossing /\ run'.offset = Held(s.rec) /\ run'.index = 0
      /\ run'.phase = s.rec.samples[Len(s.rec.samples)] /\ run'.dwell = s.dwell
      /\ run'.valid = TRUE /\ run'.completed = FALSE /\ run'.step = None /\ run'.from = 0
      /\ run'.hold = 0 /\ run'.good = TRUE /\ run'.clear = TRUE
  BY <1>3, IdleRun, RunForm DEF RunOf, RunFieldNames
<1>5. /\ run'.seam \in BOOLEAN /\ run'.offset \in Nat /\ run'.index \in Nat
      /\ run'.phase \in Approach!MissionPhases /\ run'.dwell \in Nat /\ run'.valid \in BOOLEAN
      /\ run'.completed \in BOOLEAN /\ run'.step \in Approach!Steps \cup {None} /\ run'.from \in Nat
      /\ run'.hold \in Nat /\ run'.good \in BOOLEAN /\ run'.clear \in BOOLEAN
  <2>1. run'.seam \in BOOLEAN /\ run'.valid \in BOOLEAN /\ run'.completed \in BOOLEAN
        /\ run'.good \in BOOLEAN /\ run'.clear \in BOOLEAN
    BY <1>4
  <2>2. /\ run'.offset \in Nat /\ run'.index \in Nat /\ run'.dwell \in Nat
        /\ run'.from \in Nat /\ run'.hold \in Nat
    BY <1>1, <1>2, <1>4
  <2>3. run'.phase \in Approach!MissionPhases
    BY <1>2, <1>4
  <2>4. run'.step \in Approach!Steps \cup {None}
    BY <1>4
  <2> QED
    BY <2>1, <2>2, <2>3, <2>4
<1>6. run' \in Approach!Runs
  BY <1>4, <1>5, RunWhole
<1> QED
  BY <1>4, <1>6

-----------------------------------------------------------------------------
(* Types *)

MissionInv == Approach!TypeOK /\ EarnedInv /\ ProposalsInv

LEMMA FreshTyped ==
  /\ Approach!FreshGuard \in Approach!Guards /\ Approach!FreshGuard.end = None
  /\ Approach!FreshGuard.holds = 0 /\ Approach!FreshGuard.pending = FALSE
  /\ Approach!InitialFleet \in Approach!Fleets /\ Approach!InitialFleet.clock = 0
  /\ Approach!InitialFleet.goal = FALSE /\ Approach!InitialFleet.contained = TRUE
<1>1. Approach!FreshGuard \in Approach!Guards /\ Approach!InitialFleet \in Approach!Fleets
  BY DEF Approach!FreshGuard, Approach!Guards, Approach!InitialFleet, Approach!Fleets
<1> QED
  BY <1>1 DEF Approach!FreshGuard, Approach!InitialFleet

LEMMA FreshRecord ==
  /\ Approach!Recorder \in Approach!Records
  /\ Approach!Recorder.clocks = <<0>> /\ Approach!Recorder.samples = <<"rendezvous">>
  /\ Approach!Recorder.phases = <<>> /\ Approach!Recorder.controls = <<>> /\ Approach!Recorder.clear = <<>>
  /\ Approach!Recorder.bound = <<>> /\ Approach!Recorder.beliefs = <<0>> /\ Approach!Recorder.safe = TRUE
  /\ Approach!Recorder.archive = <<>> /\ Approach!Recorder.seams = <<>>
  /\ \A c \in Approach!Fleet : Approach!Recorder.tries[c] = <<>> /\ Approach!Recorder.nominal[c] = <<>>
<1>1. PICK r : r = Approach!Recorder
  OBVIOUS
<1>2. FieldsOf(r)
  BY <1>1 DEF Approach!Recorder, FieldsOf, RecordFields
<1>3. /\ r.clocks = <<0>> /\ r.samples = <<"rendezvous">> /\ r.phases = <<>> /\ r.controls = <<>>
      /\ r.clear = <<>> /\ r.bound = <<>> /\ r.beliefs = <<0>> /\ r.safe = TRUE
      /\ r.archive = <<>> /\ r.seams = <<>>
      /\ r.tries = [c \in Approach!Fleet |-> <<>>] /\ r.nominal = [c \in Approach!Fleet |-> <<>>]
  BY <1>1 DEF Approach!Recorder
<1>4. /\ <<0>> \in Seq(Nat) /\ <<"rendezvous">> \in Seq(Approach!MissionPhases)
      /\ <<>> \in Seq(Approach!MissionPhases) /\ <<>> \in Seq(Nat) /\ <<>> \in Seq(BOOLEAN)
      /\ <<>> \in Seq([Approach!Fleet -> Seq(Nat)]) /\ <<>> \in Seq(Nat \X Nat)
      /\ <<>> \in Seq([cycle : Nat, success : BOOLEAN])
  BY DEF Approach!MissionPhases
<1>5. r.tries \in [Approach!Fleet -> Seq([cycle : Nat, success : BOOLEAN])]
      /\ r.nominal \in [Approach!Fleet -> Seq(Nat)]
  BY <1>3, <1>4
<1>6. r \in Approach!Records
  BY <1>2, <1>3, <1>4, <1>5, RecordWhole
<1> QED
  BY <1>1, <1>3, <1>6

LEMMA NewRuntime ==
  ASSUME NEW u \in Nat, NEW clock \in Nat, NEW crossing \in BOOLEAN
  PROVE  LET rt == Approach!ArrivalRuntime(u, clock, crossing)
         IN  /\ rt \in Approach!Runtimes /\ rt.enabled = u /\ rt.origin = clock /\ rt.seam = crossing
             /\ rt.commitment = None /\ rt.events = <<>> /\ rt.first = None /\ rt.latest = None
<1>1. PICK rt : rt = Approach!ArrivalRuntime(u, clock, crossing)
  OBVIOUS
<1>2. RuntimeOf(rt) /\ rt.enabled = u /\ rt.origin = clock /\ rt.seam = crossing
      /\ rt.commitment = None /\ rt.events = <<>> /\ rt.first = None /\ rt.latest = None
  BY <1>1 DEF Approach!ArrivalRuntime, RuntimeOf, RuntimeFields
<1>3. rt.events \in Seq(LoggedEvents)
  BY <1>2
<1>4. rt \in Approach!Runtimes
  BY <1>2, <1>3, RuntimeWhole
<1> QED
  BY <1>1, <1>2, <1>4

\* A saved result, field by field.
LEMMA ResultParts ==
  ASSUME NEW s \in Approach!Results
  PROVE  /\ s.rec \in Approach!Records /\ s.fleet \in Approach!Fleets /\ s.mode \in Approach!Modes
         /\ s.guard \in Approach!Guards /\ s.arrival \in Approach!Runtimes \cup {None}
         /\ s.belief \in Nat /\ s.dwell \in Nat /\ s.complete \in BOOLEAN /\ s.success \in BOOLEAN
  BY DEF Approach!Results

LEMMA MetadataIs ==
  ASSUME NEW g \in Approach!Guards
  PROVE  /\ Approach!GuardMetadata(g) \in Approach!Guards
         /\ Approach!GuardMetadata(g).end = g.end /\ Approach!GuardMetadata(g).holds = g.holds
  BY DEF Approach!Guards, Approach!GuardMetadata

LEMMA ResultIs ==
  ASSUME Approach!TypeOK
  PROVE  LET s == Approach!Result
         IN  /\ s \in Approach!Results
             /\ s.rec = rec /\ s.fleet = fleet /\ s.mode = mode /\ s.guard = Approach!GuardMetadata(guard)
             /\ s.arrival = arr /\ s.belief = belief /\ s.dwell = run.dwell /\ s.complete = run.completed
             /\ s.success = (run.valid /\ run.completed /\ rec.safe)
<1>1. run.valid \in BOOLEAN /\ run.completed \in BOOLEAN /\ run.dwell \in Nat
  BY RunParts DEF Approach!TypeOK
<1>2. Approach!GuardMetadata(guard) \in Approach!Guards
  BY MetadataIs DEF Approach!TypeOK
<1> DEFINE kept == Approach!GuardMetadata(guard)
<1> DEFINE success == run.valid /\ run.completed /\ rec.safe
<1>3. Approach!Result =
        [rec |-> rec, fleet |-> fleet, mode |-> mode, guard |-> kept, arrival |-> arr, belief |-> belief,
         dwell |-> run.dwell, complete |-> run.completed, success |-> success]
  BY DEF Approach!Result
<1>4. kept \in Approach!Guards /\ success \in BOOLEAN
  BY <1>2
<1> HIDE DEF kept, success
<1>5. Approach!Result \in Approach!Results
  BY <1>1, <1>3, <1>4 DEF Approach!TypeOK, Approach!Results
<1> QED
  BY <1>3, <1>5 DEF kept, success

LEMMA HeldTyped == ASSUME NEW r \in Approach!Records PROVE Held(r) \in Int /\ Len(r.clocks) \in Nat /\ Held(r) = Len(r.clocks) - 1
  BY RecordParts, LenProperties DEF Held, Approach!CommittedUpdates

LEMMA RuntimeKept ==
  ASSUME Approach!TypeOK, arr # None
  PROVE  arr \in Approach!Runtimes
  BY DEF Approach!TypeOK

LEMMA ExecutedTyped ==
  ASSUME Approach!TypeOK, run.step # None => arr # None
  PROVE  Approach!Executed \in Approach!Runtimes \cup {None}
<1>1. CASE run.step = None
  BY <1>1 DEF Approach!Executed, Approach!TypeOK
<1>2. CASE run.step # None
  <2>1. arr \in Approach!Runtimes /\ run.step \in Approach!Steps /\ Approach!ExactClock(guard) \in Nat
    BY <1>2, RuntimeKept, RunParts, ClockTyped DEF Approach!TypeOK
  <2>2. "EXECUTION" \in Approach!Statuses /\ "SCREEN" \in Approach!Statuses
    BY DEF Approach!Statuses
  <2> DEFINE told == Approach!RecordArrivalExecution(arr, run.step, Approach!ExactClock(guard))
  <2>3. told \in Approach!Runtimes
    BY <2>1, <2>2, LoggedRuntime DEF Approach!RecordArrivalExecution
  <2> HIDE DEF told
  <2>4. Approach!ScreenEndpoint(told, Approach!ExactClock(guard)) \in Approach!Runtimes
    BY <2>1, <2>2, <2>3, LoggedRuntime DEF Approach!ScreenEndpoint
  <2> QED
    BY <1>2, <2>3, <2>4 DEF Approach!Executed, told
<1> QED
  BY <1>1, <1>2

\* The runtime exists while its policy does.
PolicyInv ==
  /\ point # "idle" => (arr = None <=> ~mode.arrival)
  /\ point \in {"hold", "record"} /\ run.step # None => arr # None
  /\ store # None => (store.arrival = None <=> ~store.mode.arrival)
  /\ seam # None => mode.arrival

LEMMA StartTyped ==
  ASSUME MissionInv, PolicyInv, Approach!StartFresh \/ Approach!StartResume \/ Approach!StartTransition
  PROVE  Approach!TypeOK'
<1> USE DEF MissionInv
<1>1. CASE Approach!StartFresh
  <2>1. run' = Approach!Idle /\ fleet' = Approach!InitialFleet /\ rec' = Approach!Recorder /\ belief' = 0
        /\ arr' = (IF mode.arrival THEN Approach!ArrivalRuntime(0, 0, FALSE) ELSE None)
        /\ point' = "plan" /\ UNCHANGED <<mode, guard, seam, store, cycle, scenarios>>
    BY <1>1 DEF Approach!StartFresh, Approach!Begins
  <2>2. arr' \in Approach!Runtimes \cup {None}
    BY <2>1, NewRuntime
  <2> QED
    BY <2>1, <2>2, IdleRun, FreshTyped, FreshRecord DEF Approach!TypeOK
<1>2. CASE Approach!StartResume
  <2>1. store # None /\ Approach!TakesOver(store, FALSE, store.arrival, Approach!FromCheckpoint(store))
        /\ guard' = (IF mode.guarded THEN store.guard ELSE guard)
        /\ point' = "plan" /\ UNCHANGED <<mode, seam, store, cycle, scenarios>>
    BY <1>2 DEF Approach!StartResume, Approach!Begins
  <2>2. store \in Approach!Results /\ HistoriesFit(store.rec) /\ ProposalsFit(store.rec)
    BY <2>1 DEF Approach!TypeOK, EarnedInv, SavedFits, ProposalsInv
  <2>3. run' \in Approach!Runs
    BY <2>1, <2>2, TakenRun
  <2>4. rec' \in Approach!Records
    BY <2>1, <2>2, TakenRecord DEF Approach!TakesOver
  <2>5. fleet' \in Approach!Fleets /\ belief' \in Nat /\ arr' \in Approach!Runtimes \cup {None}
        /\ guard' \in Approach!Guards
    BY <2>1, <2>2, ResultParts DEF Approach!TakesOver, Approach!TypeOK
  <2> QED
    BY <2>1, <2>3, <2>4, <2>5 DEF Approach!TypeOK
<1>3. CASE Approach!StartTransition
  <2> DEFINE n == Approach!CommittedUpdates(seam.source.rec)
  <2> DEFINE clock == Approach!ExactClock(seam.guard)
  <2> DEFINE taken == Approach!FromCheckpoint(seam.source)
  <2>1. seam # None /\ Approach!TakesOver(seam.source, TRUE, Approach!ArrivalRuntime(n, clock, TRUE),
                                          [taken EXCEPT !.seams = Append(@, <<n, clock>>)])
        /\ seam' = [seam EXCEPT !.used = TRUE]
        /\ point' = "plan" /\ UNCHANGED <<mode, guard, store, cycle, scenarios>>
    BY <1>3 DEF Approach!StartTransition, Approach!Begins
  <2>2. seam \in Approach!Transitions
    BY <2>1 DEF Approach!TypeOK
  <2>3. seam.source \in Approach!Results /\ seam.guard \in Approach!Guards /\ seam' \in Approach!Transitions
    BY <2>1, <2>2 DEF Approach!Transitions
  <2>4. HistoriesFit(seam.source.rec) /\ ProposalsFit(seam.source.rec)
    BY <2>1 DEF EarnedInv, SavedFits, ProposalsInv
  <2>5. n \in Nat /\ clock \in Nat
    <3>1. Held(seam.source.rec) \in Nat
      BY <2>3, <2>4, ResultParts, HeldTyped DEF HistoriesFit
    <3> QED
      BY <2>3, <3>1, ClockTyped DEF Held
  <2>6. taken \in Approach!Records
    BY <2>3, <2>4, TakenRecord
  <2> HIDE DEF n, clock, taken
  <2>7. rec' \in Approach!Records
    <3>1. <<n, clock>> \in Nat \X Nat
      BY <2>5
    <3> QED
      BY <2>1, <2>6, <3>1, CrossedRecord DEF Approach!TakesOver
  <2>8. arr' \in Approach!Runtimes
    BY <2>1, <2>5, NewRuntime DEF Approach!TakesOver
  <2>9. run' \in Approach!Runs
    BY <2>1, <2>3, <2>4, TakenRun
  <2>10. fleet' \in Approach!Fleets /\ belief' \in Nat
    BY <2>1, <2>3, ResultParts DEF Approach!TakesOver
  <2> QED
    BY <2>1, <2>3, <2>7, <2>8, <2>9, <2>10 DEF Approach!TypeOK
<1> QED
  BY <1>1, <1>2, <1>3

LEMMA PhasedTyped ==
  ASSUME Approach!TypeOK, HistoriesFit(rec)
  PROVE  LET s == Approach!Phased
         IN  /\ s \in Approach!Records
             /\ s.phases = Append(rec.phases, Approach!Phase)
             /\ s.samples = IF Approach!Relabels THEN [rec.samples EXCEPT ![Len(rec.samples)] = Approach!Phase]
                            ELSE rec.samples
             /\ s.clocks = rec.clocks /\ s.tries = rec.tries /\ s.nominal = rec.nominal
             /\ s.controls = rec.controls /\ s.clear = rec.clear /\ s.bound = rec.bound
             /\ s.beliefs = rec.beliefs /\ s.safe = rec.safe /\ s.archive = rec.archive /\ s.seams = rec.seams
<1>1. rec \in Approach!Records /\ Approach!Phase \in Approach!MissionPhases
  BY PhaseTyped DEF Approach!TypeOK
<1>2. Approach!Relabels \in BOOLEAN
  BY DEF Approach!Relabels
<1>3. Len(rec.samples) >= 1
  BY DEF HistoriesFit
<1> QED
  BY <1>1, <1>2, <1>3, PhasedRecord DEF Approach!Phased

LEMMA UpdateTyped ==
  ASSUME Approach!TypeOK
  PROVE  Approach!Update \in Nat /\ Approach!ExactClock(guard) \in Nat
  BY RunParts, ClockTyped DEF Approach!TypeOK, Approach!Update

LEMMA PlanTyped ==
  ASSUME MissionInv, PolicyInv, point = "plan", Approach!Docking
  PROVE  arr \in Approach!Runtimes /\ Approach!PlanStep \in Approach!Steps
<1>1. arr \in Approach!Runtimes
  BY RuntimeKept DEF MissionInv, PolicyInv, Approach!Docking
<1> QED
  BY <1>1, UpdateTyped, PlannedStep DEF MissionInv, Approach!PlanStep

LEMMA PlanningTyped ==
  ASSUME MissionInv, PolicyInv, Approach!RefusePlanning \/ Approach!PlanFleet
  PROVE  Approach!TypeOK'
<1> USE DEF MissionInv
<1>1. CASE Approach!RefusePlanning
  <2>1. point = "plan" /\ Approach!Docking /\ point' = "finish" /\ rec' = Approach!Phased
        /\ arr' = Approach!RefusePolicy(arr, Approach!Update)
        /\ UNCHANGED <<mode, guard, seam, store, fleet, belief, cycle, scenarios>>
    BY <1>1 DEF Approach!RefusePlanning, Approach!scenario
  <2>2. HistoriesFit(rec)
    BY <2>1 DEF EarnedInv, RunFits
  <2>3. rec' \in Approach!Records
    BY <2>1, <2>2, PhasedTyped
  <2>4. run' \in Approach!Runs
    BY <1>1, RefusePlanningRun DEF Approach!TypeOK
  <2>5. arr' \in Approach!Runtimes
    <3>1. "POLICY_REFUSED" \in Approach!Statuses
      BY DEF Approach!Statuses
    <3> QED
      BY <2>1, <3>1, PlanTyped, UpdateTyped, LoggedRuntime DEF Approach!RefusePolicy
  <2> QED
    BY <2>1, <2>3, <2>4, <2>5 DEF Approach!TypeOK
<1>2. CASE Approach!PlanFleet
  <2>1. PICK solved \in 0..FleetSize, sound \in BOOLEAN, plan \in {Approach!PlanStep, None} :
          Planned(solved, sound, plan)
    BY <1>2, PlanFleetIs
  <2>2. /\ point = "plan" /\ point' \in {"hold", "finish"} /\ cycle' = cycle + 1
        /\ plan = (IF Approach!Docking THEN Approach!PlanStep ELSE None)
        /\ rec' = Approach!RecordPlanning(Approach!Phased, cycle', solved)
        /\ arr' = (IF plan = None THEN arr
                   ELSE IF sound THEN Approach!AcceptCandidate(arr, plan, cycle')
                   ELSE Approach!RefuseCandidate(arr, plan))
        /\ UNCHANGED <<mode, guard, seam, store, fleet, belief, scenarios>>
    BY <2>1 DEF Planned
  <2>3. plan # None => Approach!Docking
    BY <2>2
  <2>4. plan \in Approach!Steps \cup {None}
    BY <2>2, PlanTyped
  <2>5. cycle' \in Nat /\ solved \in Nat
    BY <2>1, <2>2, ApproachConstants DEF Approach!TypeOK
  <2>6. HistoriesFit(rec)
    BY <2>2 DEF EarnedInv, RunFits
  <2>7. rec' \in Approach!Records
    BY <2>2, <2>5, <2>6, PhasedTyped, PlannedRecord DEF Tried
  <2>8. run' \in Approach!Runs
    BY <2>1, <2>4, PlannedRun DEF Approach!TypeOK
  <2>9. arr' \in Approach!Runtimes \cup {None}
    <3>1. CASE plan = None
      BY <2>2, <3>1 DEF Approach!TypeOK
    <3>2. CASE plan # None
      <4>1. arr \in Approach!Runtimes /\ plan \in Approach!Steps
        BY <2>2, <2>3, <2>4, <3>2, PlanTyped
      <4>2. Approach!AcceptCandidate(arr, plan, cycle') \in Approach!Runtimes
        BY <2>5, <4>1, AcceptedRuntime
      <4>3. Approach!RefuseCandidate(arr, plan) \in Approach!Runtimes
        <5>1. "REFUSED" \in Approach!Statuses
          BY DEF Approach!Statuses
        <5> QED
          BY <4>1, <5>1, LoggedRuntime DEF Approach!RefuseCandidate
      <4> QED
        BY <2>2, <3>2, <4>2, <4>3
    <3> QED
      BY <3>1, <3>2
  <2> QED
    BY <2>2, <2>5, <2>7, <2>8, <2>9 DEF Approach!TypeOK
<1> QED
  BY <1>1, <1>2

LEMMA HoldTyped ==
  ASSUME MissionInv, Approach!RefuseHold \/ Approach!CommitHold
  PROVE  Approach!TypeOK'
<1> USE DEF MissionInv
<1>1. CASE Approach!RefuseHold
  <2>1. point' = "record" /\ UNCHANGED <<mode, seam, store, fleet, rec, arr, belief, cycle, scenarios>>
    BY <1>1 DEF Approach!RefuseHold
  <2>2. run' \in Approach!Runs
    BY <1>1, RefuseHoldRun DEF Approach!TypeOK
  <2>3. guard' \in Approach!Guards
    <3>1. PICK admitted \in BOOLEAN : guard' = guard \/ guard' = [guard EXCEPT !.pending = mode.guarded /\ admitted]
      BY <1>1 DEF Approach!RefuseHold, Approach!Contiguous
    <3>2. (mode.guarded /\ admitted) \in BOOLEAN /\ guard \in Approach!Guards
      BY DEF Approach!TypeOK
    <3> QED
      BY <3>1, <3>2 DEF Approach!Guards
  <2> QED
    BY <2>1, <2>2, <2>3 DEF Approach!TypeOK
<1>2. CASE Approach!CommitHold
  <2>1. PICK contained \in BOOLEAN, sure \in BOOLEAN, goal \in BOOLEAN : Committed(contained, sure, goal)
    BY <1>2, CommitHoldIs
  <2>2. run' \in Approach!Runs
    BY <2>1, CommittedRun DEF Approach!TypeOK
  <2>3. fleet.clock + 1 \in Nat /\ guard.holds + 1 \in Nat
    BY DEF Approach!TypeOK, Approach!Fleets, Approach!Guards
  <2>4. fleet' \in Approach!Fleets
    BY <2>1, <2>3 DEF Committed, Approach!Fleets
  <2>5. guard' \in Approach!Guards
    BY <2>1, <2>3 DEF Committed, Approach!GuardCommits, Approach!Guards, Approach!TypeOK
  <2>6. point' \in {"hold", "record"} /\ UNCHANGED <<mode, seam, store, rec, arr, belief, cycle, scenarios>>
    BY <2>1 DEF Committed
  <2> QED
    BY <2>2, <2>4, <2>5, <2>6 DEF Approach!TypeOK
<1> QED
  BY <1>1, <1>2

LEMMA RecordTyped ==
  ASSUME MissionInv, PolicyInv, Approach!RecordNothing \/ Approach!RecordUpdate
  PROVE  Approach!TypeOK'
<1> USE DEF MissionInv
<1>1. CASE Approach!RecordNothing
  <2>1. point = "record" /\ point' = "finish" /\ arr' = Approach!Executed
        /\ UNCHANGED <<mode, guard, seam, store, fleet, rec, belief, cycle, scenarios>>
    BY <1>1 DEF Approach!RecordNothing, Approach!scenario
  <2>2. run' \in Approach!Runs
    BY <1>1, RecordNothingRun DEF Approach!TypeOK
  <2>3. arr' \in Approach!Runtimes \cup {None}
    BY <2>1, ExecutedTyped DEF PolicyInv
  <2> QED
    BY <2>1, <2>2, <2>3 DEF Approach!TypeOK
<1>2. CASE Approach!RecordUpdate
  <2>1. PICK consistent \in BOOLEAN, learned \in BOOLEAN, more \in BOOLEAN : Updated(consistent, learned, more)
    BY <1>2, RecordUpdateIs
  <2>2. /\ point = "record" /\ point' \in {"plan", "finish"} /\ arr' = Approach!Executed
        /\ belief' \in {cycle, belief}
        /\ rec' = Approach!RecordExecution(rec, cycle, fleet.clock, run.phase, run.clear, belief', Within)
        /\ UNCHANGED <<mode, guard, seam, store, fleet, cycle, scenarios>>
    BY <2>1 DEF Updated, Within
  <2>3. run' \in Approach!Runs
    BY <2>1, UpdatedRun DEF Approach!TypeOK
  <2>4. arr' \in Approach!Runtimes \cup {None}
    BY <2>2, ExecutedTyped DEF PolicyInv
  <2>5. belief' \in Nat /\ fleet.clock \in Nat /\ cycle \in Nat /\ Within \in BOOLEAN
    BY <2>2 DEF Approach!TypeOK, Approach!Fleets, Within
  <2>6. rec' \in Approach!Records
    <3>1. Extended(rec', rec, cycle, fleet.clock, run.phase, run.clear, belief', Within)
      BY <2>2, <2>5, RunParts, ExecutedRecord DEF Approach!TypeOK
    <3> QED
      BY <3>1 DEF Extended
  <2> QED
    BY <2>2, <2>3, <2>4, <2>5, <2>6 DEF Approach!TypeOK
<1> QED
  BY <1>1, <1>2

LEMMA EndTyped ==
  ASSUME MissionInv, Approach!Finish \/ Approach!LoseRun
  PROVE  Approach!TypeOK'
<1>1. /\ point' = "idle" /\ run' = Approach!Idle /\ fleet' = Approach!InitialFleet
      /\ rec' = Approach!Recorder /\ arr' = None /\ belief' = 0
      /\ UNCHANGED <<mode, guard, seam, cycle, scenarios>>
      /\ store' \in {store, Approach!Result}
  BY DEF Approach!Finish, Approach!LoseRun, Approach!Ended, Approach!scenario
<1>2. store' \in Approach!Results \cup {None}
  BY <1>1, ResultIs DEF MissionInv, Approach!TypeOK
<1> QED
  BY <1>1, <1>2, IdleRun, FreshTyped, FreshRecord DEF MissionInv, Approach!TypeOK

LEMMA ScenarioTyped ==
  ASSUME MissionInv, Approach!NewScenario \/ Approach!PrepareTransition
  PROVE  Approach!TypeOK'
<1> USE DEF MissionInv
<1>1. CASE Approach!NewScenario
  <2>1. /\ mode' \in Approach!Modes /\ guard' = Approach!FreshGuard /\ seam' = None /\ scenarios' = scenarios + 1
        /\ UNCHANGED <<store, point, run, fleet, rec, arr, belief, cycle>>
    BY <1>1 DEF Approach!NewScenario, Approach!mission
  <2> QED
    BY <2>1, FreshTyped DEF Approach!TypeOK
<1>2. CASE Approach!PrepareTransition
  <2>1. /\ store # None /\ guard' = store.guard
        /\ seam' = [source |-> store, guard |-> store.guard, used |-> FALSE]
        /\ UNCHANGED <<mode, store, point, run, fleet, rec, arr, belief, cycle, scenarios>>
    BY <1>2 DEF Approach!PrepareTransition, Approach!mission
  <2>2. store \in Approach!Results /\ store.guard \in Approach!Guards
    BY <2>1, ResultParts DEF Approach!TypeOK
  <2>3. seam' \in Approach!Transitions
    BY <2>1, <2>2 DEF Approach!Transitions
  <2> QED
    BY <2>1, <2>2, <2>3 DEF Approach!TypeOK
<1> QED
  BY <1>1, <1>2

LEMMA ApproachTyped ==
  ASSUME MissionInv, PolicyInv, Approach!Next
  PROVE  Approach!TypeOK'
  BY StartTyped, PlanningTyped, HoldTyped, RecordTyped, EndTyped, ScenarioTyped DEF Approach!Next

LEMMA PolicyKept ==
  ASSUME MissionInv, PolicyInv, Approach!Next
  PROVE  PolicyInv'
<1> USE DEF MissionInv
<1>0. Approach!TypeOK'
  BY ApproachTyped
<1>1. CASE Approach!StartFresh
  <2>1. Approach!ArrivalRuntime(0, 0, FALSE) \in Approach!Runtimes
    BY NewRuntime
  <2> QED
    BY <1>1, <2>1, ApproachConstants DEF Approach!StartFresh, Approach!Begins, PolicyInv
<1>2. CASE Approach!StartResume
  BY <1>2 DEF Approach!StartResume, Approach!Begins, Approach!TakesOver, Approach!ValidScenario, PolicyInv
<1>3. CASE Approach!StartTransition
  <2>1. seam # None /\ arr' = Approach!ArrivalRuntime(Held(seam.source.rec), Approach!ExactClock(seam.guard), TRUE)
        /\ point' = "plan" /\ seam' = [seam EXCEPT !.used = TRUE] /\ UNCHANGED <<mode, store>>
    BY <1>3 DEF Approach!StartTransition, Approach!Begins, Approach!TakesOver, Held
  <2>2. seam \in Approach!Transitions /\ seam.source \in Approach!Results /\ seam.guard \in Approach!Guards
    BY <2>1 DEF Approach!TypeOK, Approach!Transitions
  <2>3. Held(seam.source.rec) \in Nat /\ Approach!ExactClock(seam.guard) \in Nat
    BY <2>1, <2>2, ResultParts, HeldTyped, ClockTyped DEF EarnedInv, SavedFits, HistoriesFit
  <2>4. arr' \in Approach!Runtimes
    BY <2>1, <2>3, NewRuntime
  <2> QED
    BY <2>1, <2>4, ApproachConstants DEF PolicyInv
<1>4. CASE Approach!NewScenario
  BY <1>4 DEF Approach!NewScenario, Approach!mission, PolicyInv
<1>5. CASE Approach!PrepareTransition
  BY <1>5 DEF Approach!PrepareTransition, Approach!mission, PolicyInv
<1>6. CASE Approach!RefusePlanning
  <2>1. point = "plan" /\ point' = "finish" /\ Approach!Docking /\ UNCHANGED <<mode, store, seam>>
        /\ arr' = Approach!RefusePolicy(arr, Approach!Update)
    BY <1>6 DEF Approach!RefusePlanning, Approach!scenario
  <2>2. "POLICY_REFUSED" \in Approach!Statuses
    BY DEF Approach!Statuses
  <2>3. arr' \in Approach!Runtimes
    BY <2>1, <2>2, PlanTyped, UpdateTyped, LoggedRuntime DEF Approach!RefusePolicy
  <2> QED
    BY <2>1, <2>3, ApproachConstants DEF PolicyInv, Approach!Docking
<1>7. CASE Approach!PlanFleet
  <2>1. PICK solved \in 0..FleetSize, sound \in BOOLEAN, plan \in {Approach!PlanStep, None} :
          Planned(solved, sound, plan)
    BY <1>7, PlanFleetIs
  <2>2. /\ point = "plan" /\ point' \in {"hold", "finish"} /\ cycle' = cycle + 1
        /\ plan = (IF Approach!Docking THEN Approach!PlanStep ELSE None)
        /\ arr' = (IF plan = None THEN arr
                   ELSE IF sound THEN Approach!AcceptCandidate(arr, plan, cycle')
                   ELSE Approach!RefuseCandidate(arr, plan))
        /\ UNCHANGED <<mode, seam, store>>
    BY <2>1 DEF Planned
  <2>3. plan \in Approach!Steps \cup {None}
    BY <2>2, PlanTyped
  <2>4. run'.step = plan
    BY <2>1, <2>3, PlannedRun DEF Approach!TypeOK
  <2>5. CASE plan = None
    BY <2>2, <2>4, <2>5 DEF PolicyInv
  <2>6. CASE plan # None
    <3>1. arr \in Approach!Runtimes /\ plan \in Approach!Steps /\ cycle' \in Nat /\ mode.arrival
      BY <2>2, <2>3, <2>6, PlanTyped DEF Approach!TypeOK, Approach!Docking
    <3>2. Approach!AcceptCandidate(arr, plan, cycle') \in Approach!Runtimes
      BY <3>1, AcceptedRuntime
    <3>3. Approach!RefuseCandidate(arr, plan) \in Approach!Runtimes
      <4>1. "REFUSED" \in Approach!Statuses
        BY DEF Approach!Statuses
      <4> QED
        BY <3>1, <4>1, LoggedRuntime DEF Approach!RefuseCandidate
    <3>4. arr' \in Approach!Runtimes
      BY <2>2, <2>6, <3>2, <3>3
    <3> QED
      BY <2>2, <3>1, <3>4, ApproachConstants DEF PolicyInv
  <2> QED
    BY <2>5, <2>6
<1>8. CASE Approach!RefuseHold
  <2>1. run'.step = run.step
    BY <1>8, RefuseHoldRun DEF Approach!TypeOK
  <2> QED
    BY <1>8, <2>1 DEF Approach!RefuseHold, PolicyInv
<1>9. CASE Approach!CommitHold
  <2>1. PICK contained \in BOOLEAN, sure \in BOOLEAN, goal \in BOOLEAN : Committed(contained, sure, goal)
    BY <1>9, CommitHoldIs
  <2>2. run'.step = run.step
    BY <2>1, CommittedRun DEF Approach!TypeOK
  <2> QED
    BY <2>1, <2>2 DEF Committed, PolicyInv
<1>10. ASSUME point = "record", arr' = Approach!Executed, UNCHANGED <<mode, seam, store>>,
              point' \in {"plan", "finish"}
       PROVE  PolicyInv'
  <2>1. arr' = None <=> arr = None
    <3>1. CASE run.step = None
      BY <1>10, <3>1 DEF Approach!Executed
    <3>2. CASE run.step # None
      <4>1. arr # None /\ arr' # None
        <5>1. arr \in Approach!Runtimes /\ run.step \in Approach!Steps /\ Approach!ExactClock(guard) \in Nat
          BY <1>10, <3>2, RuntimeKept, RunParts, ClockTyped DEF Approach!TypeOK, PolicyInv
        <5>2. "EXECUTION" \in Approach!Statuses /\ "SCREEN" \in Approach!Statuses
          BY DEF Approach!Statuses
        <5> DEFINE told == Approach!RecordArrivalExecution(arr, run.step, Approach!ExactClock(guard))
        <5>3. told \in Approach!Runtimes
          BY <5>1, <5>2, LoggedRuntime DEF Approach!RecordArrivalExecution
        <5> HIDE DEF told
        <5>4. Approach!ScreenEndpoint(told, Approach!ExactClock(guard)) \in Approach!Runtimes
          BY <5>1, <5>2, <5>3, LoggedRuntime DEF Approach!ScreenEndpoint
        <5> QED
          BY <1>10, <3>2, <5>1, <5>3, <5>4, ApproachConstants DEF Approach!Executed, told
      <4> QED
        BY <4>1
    <3> QED
      BY <3>1, <3>2
  <2> QED
    BY <1>10, <2>1 DEF PolicyInv
<1>11. CASE Approach!RecordNothing
  BY <1>10, <1>11 DEF Approach!RecordNothing, Approach!scenario
<1>12. CASE Approach!RecordUpdate
  BY <1>10, <1>12 DEF Approach!RecordUpdate, Approach!scenario
<1>13. CASE Approach!Finish
  <2>1. point = "finish" /\ point' = "idle" /\ store' = Approach!Result /\ UNCHANGED <<mode, guard, seam>>
    BY <1>13 DEF Approach!Finish, Approach!Ended, Approach!scenario
  <2> QED
    BY <2>1, ResultIs DEF PolicyInv
<1>14. CASE Approach!LoseRun
  BY <1>14 DEF Approach!LoseRun, Approach!Ended, Approach!scenario, PolicyInv
<1> QED
  BY <1>1, <1>2, <1>3, <1>4, <1>5, <1>6, <1>7, <1>8, <1>9, <1>11, <1>12, <1>13, <1>14 DEF Approach!Next

-----------------------------------------------------------------------------
(* Intervals *)

\* Another record of the same intervals.
Alike(r, s) ==
  /\ s.clocks = r.clocks /\ s.controls = r.controls /\ s.clear = r.clear /\ s.bound = r.bound
  /\ s.beliefs = r.beliefs /\ s.safe = r.safe
  /\ Len(s.samples) = Len(r.samples)
  /\ Len(s.phases) >= Held(r) /\ \A i \in 1..Held(r) : s.phases[i] = r.phases[i]

LEMMA AlikeFits ==
  ASSUME NEW r, NEW s, Alike(r, s), HistoriesFit(r), ClearWhileSafe(r),
         NEW count \in Nat, Dwelt(r, count), Held(r) \in Int
  PROVE  Held(s) = Held(r) /\ HistoriesFit(s) /\ ClearWhileSafe(s) /\ Dwelt(s, count)
<1>1. Held(s) = Held(r)
  BY DEF Held, Approach!CommittedUpdates, Alike
<1>2. HistoriesFit(s) /\ ClearWhileSafe(s)
  BY <1>1 DEF HistoriesFit, ClearWhileSafe, Alike
<1>3. \A i \in (Held(r) - count + 1)..Held(r) : i \in 1..Held(r)
  BY DEF Dwelt
<1>4. Dwelt(s, count)
  BY <1>1, <1>3 DEF Dwelt, Alike
<1> QED
  BY <1>1, <1>2, <1>4

LEMMA FreshFits ==
  /\ Held(Approach!Recorder) = 0 /\ HistoriesFit(Approach!Recorder) /\ ClearWhileSafe(Approach!Recorder)
  /\ Dwelt(Approach!Recorder, 0) /\ ProposalsFit(Approach!Recorder)
  /\ Len(Approach!Recorder.phases) = 0 /\ Approach!Recorder.clocks[1] = 0
  /\ \A c \in Approach!Fleet : Len(Approach!Recorder.nominal[c]) = 0
<1> DEFINE r == Approach!Recorder
<1>1. /\ r.clocks = <<0>> /\ r.samples = <<"rendezvous">> /\ r.phases = <<>> /\ r.controls = <<>>
      /\ r.clear = <<>> /\ r.bound = <<>> /\ r.beliefs = <<0>> /\ r.safe = TRUE
      /\ \A c \in Approach!Fleet : r.tries[c] = <<>> /\ r.nominal[c] = <<>>
  BY FreshRecord
<1> HIDE DEF r
<1>2. Len(<<0>>) = 1 /\ Len(<<"rendezvous">>) = 1 /\ Len(<<>>) = 0 /\ <<0>>[1] = 0
  OBVIOUS
<1>3. Held(r) = 0
  BY <1>1, <1>2 DEF Held, Approach!CommittedUpdates
<1>4. HistoriesFit(r) /\ ClearWhileSafe(r) /\ Dwelt(r, 0) /\ ProposalsFit(r)
  BY <1>1, <1>2, <1>3 DEF HistoriesFit, ClearWhileSafe, Dwelt, ProposalsFit
<1> QED
  BY <1>1, <1>2, <1>3, <1>4 DEF r

\* The record a later run begins with.
LEMMA TakenFits ==
  ASSUME NEW s \in Approach!Results, SavedFits(s), ProposalsFit(s.rec), NEW r \in Approach!Records,
         r.phases = SubSeq(s.rec.phases, 1, Held(s.rec)),
         \A c \in Approach!Fleet : r.nominal[c] = SubSeq(s.rec.nominal[c], 1, Held(s.rec)),
         r.clocks = s.rec.clocks, r.samples = s.rec.samples, r.tries = s.rec.tries,
         r.controls = s.rec.controls, r.clear = s.rec.clear, r.bound = s.rec.bound,
         r.beliefs = s.rec.beliefs, r.safe = s.rec.safe
  PROVE  /\ Held(r) = Held(s.rec) /\ HistoriesFit(r) /\ ClearWhileSafe(r) /\ Dwelt(r, s.dwell)
         /\ Len(r.phases) = Held(r) /\ ProposalsFit(r)
         /\ \A c \in Approach!Fleet : Len(r.nominal[c]) = Held(r)
<1>1. s.rec \in Approach!Records /\ s.dwell \in Nat /\ HistoriesFit(s.rec) /\ ClearWhileSafe(s.rec)
      /\ Dwelt(s.rec, s.dwell)
  BY ResultParts DEF SavedFits
<1>2. PICK n : n = Held(s.rec)
  OBVIOUS
<1>3. n \in Nat /\ n <= Len(s.rec.phases) /\ s.rec.phases \in Seq(Approach!MissionPhases)
  BY <1>1, <1>2, HeldTyped, RecordParts DEF HistoriesFit
<1>4. Len(r.phases) = n /\ \A i \in 1..n : r.phases[i] = s.rec.phases[i]
  BY <1>2, <1>3, SubSeqProperties
<1>5. Alike(s.rec, r)
  BY <1>2, <1>3, <1>4 DEF Alike
<1>6. Held(r) = Held(s.rec) /\ HistoriesFit(r) /\ ClearWhileSafe(r) /\ Dwelt(r, s.dwell)
  BY <1>1, <1>2, <1>3, <1>5, AlikeFits
<1>7. ASSUME NEW c \in Approach!Fleet
      PROVE  /\ Len(r.nominal[c]) = n /\ Len(r.tries[c]) >= n
             /\ \A i \in 1..n : r.nominal[c][i] = r.controls[i]
  <2>1. s.rec.nominal[c] \in Seq(Nat) /\ n <= Len(s.rec.nominal[c])
    BY <1>1, <1>2, RecordParts DEF ProposalsFit
  <2>2. Len(r.nominal[c]) = n /\ \A i \in 1..n : r.nominal[c][i] = s.rec.nominal[c][i]
    BY <1>2, <1>3, <2>1, SubSeqProperties
  <2>3. \A i \in 1..n : s.rec.nominal[c][i] = s.rec.controls[i]
    BY <1>2 DEF ProposalsFit
  <2>4. Len(r.tries[c]) >= n
    BY <1>2 DEF ProposalsFit
  <2>5. \A i \in 1..n : r.nominal[c][i] = r.controls[i]
    BY <2>2, <2>3
  <2> QED
    BY <2>2, <2>4, <2>5
<1>8. Held(r) = n /\ n \in Nat
  BY <1>2, <1>3, <1>6
<1>9. ProposalsFit(r)
  <2> SUFFICES ASSUME NEW c \in Approach!Fleet
               PROVE  /\ Len(r.nominal[c]) >= Held(r) /\ Len(r.tries[c]) >= Held(r)
                      /\ \A i \in 1..Held(r) : r.nominal[c][i] = r.controls[i]
    BY DEF ProposalsFit
  <2>1. Len(r.nominal[c]) = n /\ Len(r.tries[c]) >= n /\ \A i \in 1..n : r.nominal[c][i] = r.controls[i]
    BY <1>7
  <2> QED
    BY <1>8, <2>1
<1>10. \A c \in Approach!Fleet : Len(r.nominal[c]) = Held(r)
  BY <1>7, <1>8
<1>11. Len(r.phases) = Held(r)
  BY <1>4, <1>8
<1> QED
  BY <1>6, <1>9, <1>10, <1>11

LEMMA AppendIs ==
  ASSUME NEW S, NEW seq \in Seq(S), NEW e \in S, NEW g, g = Append(seq, e), NEW n, Len(seq) = n
  PROVE  g \in Seq(S) /\ Len(g) = n + 1 /\ g[n + 1] = e /\ \A i \in 1..n : g[i] = seq[i]
  BY AppendProperties

LEMMA JudgedIs ==
  ASSUME NEW seq \in Seq(BOOLEAN), NEW e, e \in BOOLEAN, NEW g, g = Append(seq, e), NEW n, Len(seq) = n
  PROVE  Len(g) = n + 1 /\ g[n + 1] = e /\ \A i \in 1..n : g[i] = seq[i]
<1>1. PICK S : S = BOOLEAN
  OBVIOUS
<1>2. seq \in Seq(S) /\ e \in S
  BY <1>1
<1> QED
  BY ONLY <1>2, g = Append(seq, e), Len(seq) = n, AppendIs

\* A record that can take one more interval, and one that has.
Extensible(r, clock, leg) ==
  /\ r \in Approach!Records /\ HistoriesFit(r) /\ ClearWhileSafe(r)
  /\ r.clocks[Held(r) + 1] < clock /\ clock <= r.clocks[Held(r) + 1] + Substeps
  /\ Len(r.phases) = Held(r) + 1 /\ r.phases[Held(r) + 1] = leg

Longer(s, r, clock, leg, within) ==
  /\ Held(s) = Held(r) + 1 /\ HistoriesFit(s) /\ ClearWhileSafe(s) /\ Dwelt(s, 0)
  /\ s.clocks[Held(s) + 1] = clock /\ Len(s.phases) = Held(s)
  /\ \A count \in Nat :
       Dwelt(r, count) /\ within /\ leg = "docking" /\ clock = r.clocks[Held(r) + 1] + Substeps
         => Dwelt(s, count + 1)

LEMMA LongerFits ==
  ASSUME NEW r, NEW n, NEW clock, NEW leg, NEW sure, NEW held, NEW within, NEW s,
         Extensible(r, clock, leg), Extended(s, r, n, clock, leg, sure, held, within)
  PROVE  Longer(s, r, clock, leg, within)
<1>0. /\ r \in Approach!Records /\ HistoriesFit(r) /\ ClearWhileSafe(r)
      /\ r.clocks[Held(r) + 1] < clock /\ clock <= r.clocks[Held(r) + 1] + Substeps
      /\ Len(r.phases) = Held(r) + 1 /\ r.phases[Held(r) + 1] = leg
  BY DEF Extensible
<1>1. n \in Nat /\ clock \in Nat /\ leg \in Approach!MissionPhases /\ sure \in BOOLEAN /\ held \in Nat
      /\ within \in BOOLEAN
  BY DEF Extended
<1>2. /\ s \in Approach!Records
      /\ s.clocks = Append(r.clocks, clock) /\ s.samples = Append(r.samples, leg)
      /\ s.controls = Append(r.controls, n) /\ s.clear = Append(r.clear, sure)
      /\ s.safe = (r.safe /\ sure) /\ s.beliefs = Append(r.beliefs, held)
      /\ s.bound = Append(r.bound, within) /\ s.phases = r.phases
  BY DEF Extended
<1>3. PICK k : k = Held(r)
  OBVIOUS
<1>4. k \in Nat /\ Len(r.clocks) = k + 1 /\ Len(r.samples) = k + 1 /\ Len(r.beliefs) = k + 1
      /\ Len(r.controls) = k /\ Len(r.clear) = k /\ Len(r.bound) = k /\ Len(r.phases) = k + 1
  BY <1>0, <1>3, HeldTyped DEF HistoriesFit
<1>5. /\ Len(s.clocks) = k + 2 /\ s.clocks[k + 2] = clock /\ \A i \in 1..(k + 1) : s.clocks[i] = r.clocks[i]
      /\ Len(s.samples) = k + 2 /\ Len(s.beliefs) = k + 2 /\ Len(s.controls) = k + 1
      /\ Len(s.clear) = k + 1 /\ s.clear[k + 1] = sure /\ \A i \in 1..k : s.clear[i] = r.clear[i]
      /\ Len(s.bound) = k + 1 /\ s.bound[k + 1] = within /\ \A i \in 1..k : s.bound[i] = r.bound[i]
  <2>0. /\ r.clocks \in Seq(Nat) /\ r.samples \in Seq(Approach!MissionPhases) /\ r.beliefs \in Seq(Nat)
        /\ r.controls \in Seq(Nat) /\ r.clear \in Seq(BOOLEAN) /\ r.bound \in Seq(BOOLEAN)
    BY <1>0, RecordParts
  <2>1. Len(s.clocks) = (k + 1) + 1 /\ s.clocks[(k + 1) + 1] = clock /\ \A i \in 1..(k + 1) : s.clocks[i] = r.clocks[i]
    <3>1. PICK old : old = r.clocks
      OBVIOUS
    <3>2. PICK g : g = Append(old, clock)
      OBVIOUS
    <3>3. old \in Seq(Nat) /\ Len(old) = (k + 1)
      BY <1>4, <2>0, <3>1
    <3>4. Len(g) = (k + 1) + 1 /\ g[(k + 1) + 1] = clock /\ \A i \in 1..(k + 1) : g[i] = old[i]
      BY <1>1, <3>2, <3>3, AppendIs
    <3> QED
      BY <1>2, <3>1, <3>2, <3>4
  <2>2. Len(s.samples) = (k + 1) + 1
    <3>1. PICK old : old = r.samples
      OBVIOUS
    <3>2. PICK g : g = Append(old, leg)
      OBVIOUS
    <3>3. old \in Seq(Approach!MissionPhases) /\ Len(old) = (k + 1)
      BY <1>4, <2>0, <3>1
    <3>4. Len(g) = (k + 1) + 1 /\ g[(k + 1) + 1] = leg /\ \A i \in 1..(k + 1) : g[i] = old[i]
      BY <1>1, <3>2, <3>3, AppendIs
    <3> QED
      BY <1>2, <3>1, <3>2, <3>4
  <2>3. Len(s.beliefs) = (k + 1) + 1
    <3>1. PICK old : old = r.beliefs
      OBVIOUS
    <3>2. PICK g : g = Append(old, held)
      OBVIOUS
    <3>3. old \in Seq(Nat) /\ Len(old) = (k + 1)
      BY <1>4, <2>0, <3>1
    <3>4. Len(g) = (k + 1) + 1 /\ g[(k + 1) + 1] = held /\ \A i \in 1..(k + 1) : g[i] = old[i]
      BY <1>1, <3>2, <3>3, AppendIs
    <3> QED
      BY <1>2, <3>1, <3>2, <3>4
  <2>4. Len(s.controls) = k + 1
    <3>1. PICK old : old = r.controls
      OBVIOUS
    <3>2. PICK g : g = Append(old, n)
      OBVIOUS
    <3>3. old \in Seq(Nat) /\ Len(old) = k
      BY <1>4, <2>0, <3>1
    <3>4. Len(g) = k + 1 /\ g[k + 1] = n /\ \A i \in 1..k : g[i] = old[i]
      BY <1>1, <3>2, <3>3, AppendIs
    <3> QED
      BY <1>2, <3>1, <3>2, <3>4
  <2>5. Len(s.clear) = k + 1 /\ s.clear[k + 1] = sure /\ \A i \in 1..k : s.clear[i] = r.clear[i]
    <3>1. PICK old : old = r.clear
      OBVIOUS
    <3>2. PICK g : g = Append(old, sure)
      OBVIOUS
    <3>3. old \in Seq(BOOLEAN) /\ Len(old) = k
      BY <1>4, <2>0, <3>1
    <3>4. Len(g) = k + 1 /\ g[k + 1] = sure /\ \A i \in 1..k : g[i] = old[i]
      BY <1>1, <3>2, <3>3, JudgedIs
    <3> QED
      BY <1>2, <3>1, <3>2, <3>4
  <2>6. Len(s.bound) = k + 1 /\ s.bound[k + 1] = within /\ \A i \in 1..k : s.bound[i] = r.bound[i]
    <3>1. PICK old : old = r.bound
      OBVIOUS
    <3>2. PICK g : g = Append(old, within)
      OBVIOUS
    <3>3. old \in Seq(BOOLEAN) /\ Len(old) = k
      BY <1>4, <2>0, <3>1
    <3>4. Len(g) = k + 1 /\ g[k + 1] = within /\ \A i \in 1..k : g[i] = old[i]
      BY <1>1, <3>2, <3>3, JudgedIs
    <3> QED
      BY <1>2, <3>1, <3>2, <3>4
  <2>7. (k + 1) + 1 = k + 2
    BY <1>4
  <2> QED
    BY <2>1, <2>2, <2>3, <2>4, <2>5, <2>6, <2>7
<1>6. Held(s) = k + 1
  BY <1>4, <1>5 DEF Held, Approach!CommittedUpdates
<1>7. HistoriesFit(s)
  <2>1. ASSUME NEW i \in 1..(k + 1)
        PROVE  s.clocks[i] < s.clocks[i + 1] /\ s.clocks[i + 1] <= s.clocks[i] + Substeps
    <3>1. CASE i = k + 1
      <4>1. s.clocks[i] = r.clocks[k + 1] /\ s.clocks[i + 1] = clock
        BY <1>4, <1>5, <3>1
      <4> QED
        BY <1>0, <1>3, <4>1
    <3>2. CASE i # k + 1
      <4>1. i \in 1..k /\ i + 1 \in 1..(k + 1) /\ i \in 1..(k + 1)
        BY <1>4, <3>2
      <4>2. s.clocks[i] = r.clocks[i] /\ s.clocks[i + 1] = r.clocks[i + 1]
        BY <1>5, <4>1
      <4> QED
        BY <1>0, <1>3, <4>1, <4>2 DEF HistoriesFit
    <3> QED
      BY <3>1, <3>2
  <2> QED
    BY <1>2, <1>4, <1>5, <1>6, <2>1 DEF HistoriesFit
<1>8. ClearWhileSafe(s)
  <2> SUFFICES ASSUME s.safe, NEW i \in 1..(k + 1) PROVE s.clear[i]
    BY <1>6 DEF ClearWhileSafe
  <2>1. r.safe /\ sure
    BY <1>2
  <2>2. CASE i = k + 1
    BY <1>5, <2>1, <2>2
  <2>3. CASE i # k + 1
    <3>1. i \in 1..k
      BY <1>4, <2>3
    <3> QED
      BY <1>0, <1>3, <1>5, <2>1, <3>1 DEF ClearWhileSafe
  <2> QED
    BY <2>2, <2>3
<1>9. Dwelt(s, 0)
  BY <1>4, <1>6 DEF Dwelt
<1>10. ASSUME NEW count \in Nat, Dwelt(r, count), within, leg = "docking",
              clock = r.clocks[Held(r) + 1] + Substeps
       PROVE  Dwelt(s, count + 1)
  <2>1. count + 1 <= k + 1
    BY <1>3, <1>4, <1>10 DEF Dwelt
  <2>2. ASSUME NEW i \in ((k + 1) - (count + 1) + 1)..(k + 1)
        PROVE  s.bound[i] /\ s.phases[i] = "docking" /\ s.clocks[i + 1] - s.clocks[i] = Substeps
    <3>1. CASE i = k + 1
      <4>1. s.clocks[i] = r.clocks[k + 1] /\ s.clocks[i + 1] = clock /\ s.bound[i] = within
        BY <1>4, <1>5, <3>1
      <4>2. r.clocks[k + 1] \in Nat /\ Substeps \in Nat
        BY <1>0, <1>4, RecordParts, ElementOfSeq, ApproachConstants
      <4>3. clock - r.clocks[k + 1] = Substeps
        BY <1>3, <1>10, <4>2
      <4> QED
        BY <1>0, <1>2, <1>3, <1>10, <3>1, <4>1, <4>3
    <3>2. CASE i # k + 1
      <4>1. i \in (k - count + 1)..k /\ i \in 1..k /\ i + 1 \in 1..(k + 1) /\ i \in 1..(k + 1)
        BY <1>4, <2>1, <3>2
      <4>2. s.clocks[i] = r.clocks[i] /\ s.clocks[i + 1] = r.clocks[i + 1] /\ s.bound[i] = r.bound[i]
            /\ s.phases[i] = r.phases[i]
        BY <1>2, <1>5, <4>1
      <4> QED
        BY <1>3, <1>10, <4>1, <4>2 DEF Dwelt
    <3> QED
      BY <3>1, <3>2
  <2> QED
    BY <1>6, <2>1, <2>2 DEF Dwelt
<1>11. Held(s) = Held(r) + 1 /\ s.clocks[Held(s) + 1] = clock /\ Len(s.phases) = Held(s)
  <2>1. (k + 1) + 1 = k + 2
    BY <1>4
  <2> QED
    BY <1>0, <1>2, <1>3, <1>4, <1>5, <1>6, <2>1
<1>12. \A count \in Nat :
         Dwelt(r, count) /\ within /\ leg = "docking" /\ clock = r.clocks[Held(r) + 1] + Substeps
           => Dwelt(s, count + 1)
  BY <1>10
<1> QED
  BY <1>7, <1>8, <1>9, <1>11, <1>12 DEF Longer

-----------------------------------------------------------------------------
(* A run and the record it extends *)

RunInv == RunFits /\ RunProposals

\* A run that is about to plan its first update.
Beginning ==
  /\ point = "plan" /\ HistoriesFit(rec) /\ ClearWhileSafe(rec) /\ Dwelt(rec, run.dwell)
  /\ Held(rec) = run.offset + run.index /\ run.completed = FALSE
  /\ Len(rec.phases) = Held(rec) /\ rec.clocks[Held(rec) + 1] = fleet.clock
  /\ ProposalsFit(rec) /\ \A c \in Approach!Fleet : Len(rec.nominal[c]) = Held(rec)

LEMMA TakesOverBegins ==
  ASSUME MissionInv, NEW s \in Approach!Results, SavedFits(s), ProposalsFit(s.rec),
         NEW crossing \in BOOLEAN, NEW rt, NEW r \in Approach!Records,
         r.phases = SubSeq(s.rec.phases, 1, Held(s.rec)),
         \A c \in Approach!Fleet : r.nominal[c] = SubSeq(s.rec.nominal[c], 1, Held(s.rec)),
         r.clocks = s.rec.clocks, r.samples = s.rec.samples, r.tries = s.rec.tries,
         r.controls = s.rec.controls, r.clear = s.rec.clear, r.bound = s.rec.bound,
         r.beliefs = s.rec.beliefs, r.safe = s.rec.safe,
         Approach!TakesOver(s, crossing, rt, r), point' = "plan"
  PROVE  Beginning'
<1>1. /\ Held(r) = Held(s.rec) /\ HistoriesFit(r) /\ ClearWhileSafe(r) /\ Dwelt(r, s.dwell)
      /\ Len(r.phases) = Held(r) /\ ProposalsFit(r)
      /\ \A c \in Approach!Fleet : Len(r.nominal[c]) = Held(r)
  BY TakenFits
<1>2. rec' = r /\ fleet' = s.fleet
  BY DEF Approach!TakesOver
<1>3. run'.offset = Held(s.rec) /\ run'.index = 0 /\ run'.dwell = s.dwell /\ run'.completed = FALSE
  BY TakenRun DEF SavedFits
<1>4. r.clocks[Held(r) + 1] = s.fleet.clock
  BY <1>1 DEF SavedFits
<1>5. Held(r) \in Int
  BY HeldTyped
<1> QED
  BY <1>1, <1>2, <1>3, <1>4, <1>5 DEF Beginning

LEMMA StartsRun ==
  ASSUME MissionInv, PolicyInv, Approach!StartFresh \/ Approach!StartResume \/ Approach!StartTransition
  PROVE  RunInv'
<1>1. CASE Approach!StartFresh
  <2>1. run' = Approach!Idle /\ fleet' = Approach!InitialFleet /\ rec' = Approach!Recorder /\ point' = "plan"
    BY <1>1 DEF Approach!StartFresh, Approach!Begins
  <2>2. Beginning'
    BY <2>1, FreshFits, IdleRun, FreshTyped DEF Beginning
  <2> QED
    BY <2>2 DEF Beginning, RunInv, RunFits, RunProposals
<1>2. CASE Approach!StartResume
  <2>1. store # None /\ point' = "plan"
        /\ Approach!TakesOver(store, FALSE, store.arrival, Approach!FromCheckpoint(store))
    BY <1>2 DEF Approach!StartResume, Approach!Begins
  <2>2. store \in Approach!Results /\ SavedFits(store) /\ ProposalsFit(store.rec)
    BY <2>1 DEF MissionInv, Approach!TypeOK, EarnedInv, ProposalsInv
  <2>3. HistoriesFit(store.rec)
    BY <2>2 DEF SavedFits
  <2>4. PICK r : r = Approach!FromCheckpoint(store)
    OBVIOUS
  <2>5. /\ r \in Approach!Records /\ r.phases = SubSeq(store.rec.phases, 1, Held(store.rec))
        /\ \A c \in Approach!Fleet : r.nominal[c] = SubSeq(store.rec.nominal[c], 1, Held(store.rec))
        /\ r.clocks = store.rec.clocks /\ r.samples = store.rec.samples /\ r.tries = store.rec.tries
        /\ r.controls = store.rec.controls /\ r.clear = store.rec.clear /\ r.bound = store.rec.bound
        /\ r.beliefs = store.rec.beliefs /\ r.safe = store.rec.safe
    BY <2>2, <2>3, <2>4, TakenRecord
  <2>6. Beginning'
    BY <2>1, <2>2, <2>4, <2>5, TakesOverBegins
  <2> QED
    BY <2>6 DEF Beginning, RunInv, RunFits, RunProposals
<1>3. CASE Approach!StartTransition
  <2> DEFINE s == seam.source
  <2> DEFINE here == Held(s.rec)
  <2> DEFINE clock == Approach!ExactClock(seam.guard)
  <2>1. seam # None /\ point' = "plan"
        /\ Approach!TakesOver(s, TRUE, Approach!ArrivalRuntime(here, clock, TRUE),
             [Approach!FromCheckpoint(s) EXCEPT !.seams = Append(@, <<here, clock>>)])
    BY <1>3 DEF Approach!StartTransition, Approach!Begins, Held
  <2>2. s \in Approach!Results /\ SavedFits(s) /\ ProposalsFit(s.rec) /\ seam.guard \in Approach!Guards
    BY <2>1 DEF MissionInv, Approach!TypeOK, Approach!Transitions, EarnedInv, ProposalsInv
  <2>3. HistoriesFit(s.rec) /\ here \in Nat /\ clock \in Nat
    BY <2>2, ResultParts, HeldTyped, ClockTyped DEF SavedFits, HistoriesFit
  <2>4. PICK t : t = Approach!FromCheckpoint(s)
    OBVIOUS
  <2>5. /\ t \in Approach!Records /\ t.phases = SubSeq(s.rec.phases, 1, Held(s.rec))
        /\ \A c \in Approach!Fleet : t.nominal[c] = SubSeq(s.rec.nominal[c], 1, Held(s.rec))
        /\ t.clocks = s.rec.clocks /\ t.samples = s.rec.samples /\ t.tries = s.rec.tries
        /\ t.controls = s.rec.controls /\ t.clear = s.rec.clear /\ t.bound = s.rec.bound
        /\ t.beliefs = s.rec.beliefs /\ t.safe = s.rec.safe
    BY <2>2, <2>3, <2>4, TakenRecord
  <2>6. PICK r : r = [t EXCEPT !.seams = Append(@, <<here, clock>>)]
    OBVIOUS
  <2>7. r \in Approach!Records /\ r.clocks = t.clocks /\ r.samples = t.samples /\ r.phases = t.phases
        /\ r.tries = t.tries /\ r.nominal = t.nominal /\ r.controls = t.controls /\ r.clear = t.clear
        /\ r.bound = t.bound /\ r.beliefs = t.beliefs /\ r.safe = t.safe
    <3>1. <<here, clock>> \in Nat \X Nat
      BY <2>3
    <3> HIDE DEF here, clock, s
    <3> QED
      BY <2>5, <2>6, <3>1, CrossedRecord
  <2>8. Approach!TakesOver(s, TRUE, Approach!ArrivalRuntime(here, clock, TRUE), r)
    BY <2>1, <2>4, <2>6
  <2> HIDE DEF s, here, clock
  <2>9. /\ r.phases = SubSeq(s.rec.phases, 1, Held(s.rec))
        /\ \A c \in Approach!Fleet : r.nominal[c] = SubSeq(s.rec.nominal[c], 1, Held(s.rec))
        /\ r.clocks = s.rec.clocks /\ r.samples = s.rec.samples /\ r.tries = s.rec.tries
        /\ r.controls = s.rec.controls /\ r.clear = s.rec.clear /\ r.bound = s.rec.bound
        /\ r.beliefs = s.rec.beliefs /\ r.safe = s.rec.safe
    BY <2>5, <2>7
  <2>10. Beginning'
    BY <2>1, <2>2, <2>7, <2>8, <2>9, TakesOverBegins
  <2> QED
    BY <2>10 DEF Beginning, RunInv, RunFits, RunProposals
<1> QED
  BY <1>1, <1>2, <1>3

\* A record with one more phase, and the samples of as many updates.
LEMMA PhasedFits ==
  ASSUME MissionInv, point = "plan"
  PROVE  LET s == Approach!Phased
         IN  /\ s \in Approach!Records /\ Alike(rec, s)
             /\ Len(s.phases) = Held(rec) + 1 /\ s.phases[Held(rec) + 1] = Approach!Phase
             /\ s.nominal = rec.nominal /\ s.tries = rec.tries
<1>1. HistoriesFit(rec) /\ Len(rec.phases) = Held(rec) /\ rec \in Approach!Records
      /\ Approach!Phase \in Approach!MissionPhases
  BY PhaseTyped DEF MissionInv, EarnedInv, RunFits, Approach!TypeOK
<1>2. PICK s : s = Approach!Phased
  OBVIOUS
<1>3. /\ s \in Approach!Records
      /\ s.phases = Append(rec.phases, Approach!Phase)
      /\ s.samples = IF Approach!Relabels THEN [rec.samples EXCEPT ![Len(rec.samples)] = Approach!Phase]
                     ELSE rec.samples
      /\ s.clocks = rec.clocks /\ s.tries = rec.tries /\ s.nominal = rec.nominal
      /\ s.controls = rec.controls /\ s.clear = rec.clear /\ s.bound = rec.bound
      /\ s.beliefs = rec.beliefs /\ s.safe = rec.safe
  BY <1>1, <1>2, PhasedTyped DEF MissionInv
<1>4. PICK n : n = Held(rec)
  OBVIOUS
<1>5. n \in Nat /\ Len(rec.phases) = n /\ rec.phases \in Seq(Approach!MissionPhases)
      /\ rec.samples \in Seq(Approach!MissionPhases) /\ Len(rec.samples) >= 1
  BY <1>1, <1>4, RecordParts, HeldTyped DEF HistoriesFit
<1>6. Len(s.phases) = n + 1 /\ s.phases[n + 1] = Approach!Phase /\ \A i \in 1..n : s.phases[i] = rec.phases[i]
  BY <1>1, <1>3, <1>5, AppendIs
<1>7. Len(s.samples) = Len(rec.samples)
  <2>1. Len([rec.samples EXCEPT ![Len(rec.samples)] = Approach!Phase]) = Len(rec.samples)
    BY <1>1, <1>5, ExceptSeq
  <2> QED
    BY <1>3, <2>1
<1>8. Alike(rec, s)
  BY <1>3, <1>4, <1>5, <1>6, <1>7 DEF Alike
<1> QED
  BY <1>2, <1>3, <1>4, <1>6, <1>8

LEMMA PlansRun ==
  ASSUME MissionInv, PolicyInv, Approach!RefusePlanning \/ Approach!PlanFleet
  PROVE  RunInv'
<1> DEFINE s == Approach!Phased
<1>0. point = "plan"
  BY DEF Approach!RefusePlanning, Approach!PlanFleet
<1>1. /\ HistoriesFit(rec) /\ ClearWhileSafe(rec) /\ Dwelt(rec, run.dwell) /\ ProposalsFit(rec)
      /\ Held(rec) = run.offset + run.index /\ run.completed = FALSE
      /\ rec.clocks[Held(rec) + 1] = fleet.clock
      /\ \A c \in Approach!Fleet : Len(rec.nominal[c]) = Held(rec)
  BY <1>0, RunParts DEF MissionInv, Approach!TypeOK, EarnedInv, RunFits, ProposalsInv, RunProposals
<1>2. rec \in Approach!Records /\ run.dwell \in Nat
  BY RunParts DEF MissionInv, Approach!TypeOK
<1>3. /\ s \in Approach!Records /\ Alike(rec, s) /\ Len(s.phases) = Held(rec) + 1
      /\ s.phases[Held(rec) + 1] = Approach!Phase /\ s.nominal = rec.nominal /\ s.tries = rec.tries
  BY <1>0, PhasedFits
<1> HIDE DEF s
<1>4. PICK n : n = Held(rec)
  OBVIOUS
<1>5. n \in Nat
  BY <1>1, <1>2, <1>4, HeldTyped DEF HistoriesFit
<1>6. CASE Approach!RefusePlanning
  <2>1. point' = "finish" /\ rec' = s /\ fleet' = fleet
    BY <1>6 DEF Approach!RefusePlanning, s
  <2>2. run'.offset = run.offset /\ run'.index = run.index /\ run'.dwell = run.dwell
        /\ run'.valid = FALSE /\ run'.completed = run.completed
    BY <1>6, RefusePlanningRun DEF MissionInv, Approach!TypeOK
  <2>3. Held(s) = n /\ HistoriesFit(s) /\ ClearWhileSafe(s) /\ Dwelt(s, run.dwell)
    BY <1>1, <1>2, <1>3, <1>4, <1>5, AlikeFits
  <2>4. s.clocks = rec.clocks /\ s.controls = rec.controls
    BY <1>3 DEF Alike
  <2>5. ProposalsFit(s)
    BY <1>1, <1>3, <1>4, <2>3, <2>4 DEF ProposalsFit
  <2>6. RunFits'
    BY <1>1, <1>4, <2>1, <2>2, <2>3, <2>4 DEF RunFits
  <2>7. RunProposals'
    BY <2>1, <2>5 DEF RunProposals
  <2> QED
    BY <2>6, <2>7 DEF RunInv
<1>7. CASE Approach!PlanFleet
  <2>1. PICK solved \in 0..FleetSize, sound \in BOOLEAN, plan \in {Approach!PlanStep, None} :
          Planned(solved, sound, plan)
    BY <1>7, PlanFleetIs
  <2>2. /\ point' = (IF sound THEN "hold" ELSE "finish") /\ cycle' = cycle + 1 /\ fleet' = fleet
        /\ sound => solved = FleetSize
        /\ plan = (IF Approach!Docking THEN Approach!PlanStep ELSE None)
        /\ rec' = Approach!RecordPlanning(s, cycle', solved)
    BY <2>1 DEF Planned, s
  <2>3. plan \in Approach!Steps \cup {None}
    BY <1>0, <2>2, PlanTyped
  <2>4. /\ run'.offset = run.offset /\ run'.index = run.index /\ run'.phase = Approach!Phase
        /\ run'.dwell = run.dwell /\ run'.valid = sound /\ run'.completed = run.completed
        /\ run'.from = fleet.clock /\ run'.hold = 0 /\ run'.good = TRUE
    BY <2>1, <2>3, PlannedRun DEF MissionInv, Approach!TypeOK
  <2>5. cycle' \in Nat /\ solved \in Nat /\ fleet.clock \in Nat
    BY <2>1, <2>2, ApproachConstants DEF MissionInv, Approach!TypeOK, Approach!Fleets
  <2>6. PICK t : t = rec'
    OBVIOUS
  <2>7. /\ t \in Approach!Records
        /\ \A c \in Approach!Fleet :
             /\ t.nominal[c] = IF c <= solved THEN Append(rec.nominal[c], cycle') ELSE rec.nominal[c]
             /\ t.tries[c] = IF c > solved + 1 THEN rec.tries[c]
                             ELSE Append(rec.tries[c], [cycle |-> cycle', success |-> c <= solved])
        /\ t.clocks = s.clocks /\ t.samples = s.samples /\ t.phases = s.phases
        /\ t.controls = s.controls /\ t.clear = s.clear /\ t.bound = s.bound
        /\ t.beliefs = s.beliefs /\ t.safe = s.safe
    <3>1. PICK k : k = cycle'
      OBVIOUS
    <3>2. t = Approach!RecordPlanning(s, k, solved) /\ k \in Nat
      BY <2>2, <2>5, <2>6, <3>1
    <3>3. Tried(t, s, k, solved)
      BY <1>3, <2>5, <3>2, PlannedRecord
    <3> QED
      BY <1>3, <3>1, <3>3 DEF Tried
  <2>8. Alike(rec, t)
    BY <1>3, <2>7 DEF Alike
  <2>9. Held(t) = n /\ HistoriesFit(t) /\ ClearWhileSafe(t) /\ Dwelt(t, run.dwell)
    BY <1>1, <1>2, <1>4, <1>5, <2>8, AlikeFits
  <2>10. t.clocks = rec.clocks /\ t.controls = rec.controls
    BY <2>8 DEF Alike
  <2>11. Len(t.phases) = n + 1 /\ t.phases[n + 1] = Approach!Phase
    BY <1>3, <1>4, <2>7
  <2>12. ASSUME NEW c \in Approach!Fleet
         PROVE  /\ Len(t.nominal[c]) >= n /\ Len(t.tries[c]) >= n
                /\ \A i \in 1..n : t.nominal[c][i] = rec.controls[i]
                /\ sound => Len(t.nominal[c]) = n + 1 /\ t.nominal[c][n + 1] = cycle' /\ Len(t.tries[c]) >= n + 1
    <3>1. PICK old : old = rec.nominal[c]
      OBVIOUS
    <3>2. old \in Seq(Nat) /\ Len(old) = n /\ \A i \in 1..n : old[i] = rec.controls[i]
      BY <1>1, <1>2, <1>4, <3>1, RecordParts DEF ProposalsFit
    <3>3. PICK g : g = Append(old, cycle')
      OBVIOUS
    <3>4. Len(g) = n + 1 /\ g[n + 1] = cycle' /\ \A i \in 1..n : g[i] = old[i]
      BY <2>5, <3>2, <3>3, AppendIs
    <3>5. t.nominal[c] = IF c <= solved THEN g ELSE old
      BY <2>7, <3>1, <3>3
    <3>6. sound => c <= solved
      BY <2>2, FleetIs
    <3>7. /\ Len(t.nominal[c]) >= n /\ \A i \in 1..n : t.nominal[c][i] = rec.controls[i]
          /\ sound => Len(t.nominal[c]) = n + 1 /\ t.nominal[c][n + 1] = cycle'
      BY <1>5, <3>2, <3>4, <3>5, <3>6
    <3>8. Len(t.tries[c]) >= n /\ (sound => Len(t.tries[c]) >= n + 1)
      <4>1. PICK past : past = rec.tries[c]
        OBVIOUS
      <4>2. PICK try : try = [cycle |-> cycle', success |-> c <= solved]
        OBVIOUS
      <4>3. try \in [cycle : Nat, success : BOOLEAN]
        BY <2>5, <4>2
      <4>4. past \in Seq([cycle : Nat, success : BOOLEAN]) /\ Len(past) >= n
        BY <1>1, <1>2, <1>4, <4>1, RecordParts DEF ProposalsFit
      <4>5. Len(past) \in Nat
        BY <4>4, LenProperties
      <4>6. Len(Append(past, try)) = Len(past) + 1
        BY <4>3, <4>4, AppendProperties
      <4>7. t.tries[c] = IF c > solved + 1 THEN past ELSE Append(past, try)
        BY <2>7, <4>1, <4>2
      <4>8. sound => ~(c > solved + 1)
        BY <2>2, <2>5, FleetIs, <3>6
      <4> QED
        BY <1>5, <4>4, <4>5, <4>6, <4>7, <4>8
    <3> QED
      BY <3>7, <3>8
  <2>13. ProposalsFit(t)
    BY <2>9, <2>10, <2>12 DEF ProposalsFit
  <2>14. sound => \A c \in Approach!Fleet : Len(t.nominal[c]) = n + 1 /\ t.nominal[c][n + 1] = cycle'
                                            /\ Len(t.tries[c]) >= n + 1
    BY <2>12
  <2>15. point' = "hold" => sound
    BY <2>2
  <2>16. Len(t.phases) = Held(t) + 1 /\ t.phases[Held(t) + 1] = run'.phase
    BY <2>4, <2>9, <2>11
  <2>17. t.clocks[Held(t) + 1] = fleet.clock
    BY <1>1, <1>4, <2>9, <2>10
  <2>18. Held(t) = run'.offset + run'.index /\ run'.completed = FALSE
    BY <1>1, <1>4, <2>4, <2>9
  <2>19. RunFits'
    BY <2>2, <2>4, <2>5, <2>6, <2>9, <2>15, <2>16, <2>17, <2>18, ApproachConstants DEF RunFits
  <2>20. RunProposals'
    BY <2>2, <2>6, <2>9, <2>13, <2>14, <2>15 DEF RunProposals
  <2> QED
    BY <2>19, <2>20 DEF RunInv
<1> QED
  BY <1>6, <1>7

LEMMA HoldsRun ==
  ASSUME MissionInv, Approach!RefuseHold \/ Approach!CommitHold
  PROVE  RunInv'
<1>0. point = "hold" /\ rec' = rec /\ cycle' = cycle
  BY DEF Approach!RefuseHold, Approach!CommitHold
<1>1. /\ HistoriesFit(rec) /\ ClearWhileSafe(rec) /\ Dwelt(rec, run.dwell)
      /\ Held(rec) = run.offset + run.index /\ run.completed = FALSE
      /\ Len(rec.phases) = Held(rec) + 1 /\ rec.phases[Held(rec) + 1] = run.phase
      /\ rec.clocks[Held(rec) + 1] = run.from /\ fleet.clock = run.from + run.hold
      /\ run.hold < Substeps
  BY <1>0, RunParts DEF MissionInv, Approach!TypeOK, EarnedInv, RunFits
<1>2. run.hold \in Nat /\ run.from \in Nat /\ Substeps \in Nat /\ fleet.clock \in Nat
  BY RunParts, ApproachConstants DEF MissionInv, Approach!TypeOK, Approach!Fleets
<1>3. point' \in {"hold", "record"} => RunProposals'
  BY <1>0 DEF MissionInv, ProposalsInv, RunProposals
<1>4. CASE Approach!RefuseHold
  <2>1. point' = "record" /\ fleet' = fleet
    BY <1>4 DEF Approach!RefuseHold
  <2>2. /\ run'.offset = run.offset /\ run'.index = run.index /\ run'.phase = run.phase
        /\ run'.dwell = run.dwell /\ run'.completed = run.completed /\ run'.from = run.from
        /\ run'.hold = run.hold /\ run'.good = FALSE
    BY <1>4, RefuseHoldRun DEF MissionInv, Approach!TypeOK
  <2>3. RunFits'
    BY <1>0, <1>1, <1>2, <2>1, <2>2 DEF RunFits
  <2> QED
    BY <1>3, <2>1, <2>3 DEF RunInv
<1>5. CASE Approach!CommitHold
  <2>1. PICK contained \in BOOLEAN, sure \in BOOLEAN, goal \in BOOLEAN : Committed(contained, sure, goal)
    BY <1>5, CommitHoldIs
  <2>2. /\ point' = (IF (contained /\ sure) /\ run.hold + 1 < Substeps THEN "hold" ELSE "record")
        /\ fleet' = [clock |-> fleet.clock + 1, contained |-> contained, goal |-> goal]
    BY <2>1 DEF Committed
  <2>3. /\ run'.offset = run.offset /\ run'.index = run.index /\ run'.phase = run.phase
        /\ run'.dwell = run.dwell /\ run'.completed = run.completed /\ run'.from = run.from
        /\ run'.hold = run.hold + 1 /\ run'.good = (contained /\ sure)
    BY <2>1, CommittedRun DEF MissionInv, Approach!TypeOK
  <2>4. fleet'.clock = fleet.clock + 1 /\ fleet'.contained = contained
    BY <2>2
  <2>5. fleet'.clock = run'.from + run'.hold /\ run'.hold <= Substeps
    BY <1>1, <1>2, <2>3, <2>4
  <2>6. point' = "hold" => run'.hold < Substeps
    BY <2>2, <2>3
  <2>7. point' = "record" /\ run'.good => run'.hold = Substeps /\ fleet'.contained
    BY <1>1, <1>2, <2>2, <2>3, <2>4
  <2>8. point' \in {"hold", "record"}
    BY <2>2
  <2>9. RunFits'
    BY <1>0, <1>1, <2>3, <2>5, <2>6, <2>7, <2>8 DEF RunFits
  <2> QED
    BY <1>3, <2>8, <2>9 DEF RunInv
<1> QED
  BY <1>4, <1>5

LEMMA RecordsRun ==
  ASSUME MissionInv, Approach!RecordNothing \/ Approach!RecordUpdate
  PROVE  RunInv'
<1>0. point = "record"
  BY DEF Approach!RecordNothing, Approach!RecordUpdate
<1>1. /\ HistoriesFit(rec) /\ ClearWhileSafe(rec) /\ Dwelt(rec, run.dwell)
      /\ Held(rec) = run.offset + run.index /\ run.completed = FALSE
      /\ Len(rec.phases) = Held(rec) + 1 /\ rec.phases[Held(rec) + 1] = run.phase
      /\ rec.clocks[Held(rec) + 1] = run.from /\ fleet.clock = run.from + run.hold
      /\ run.hold <= Substeps /\ (run.good => run.hold = Substeps /\ fleet.contained)
  BY <1>0, RunParts DEF MissionInv, Approach!TypeOK, EarnedInv, RunFits
<1>2. ProposalsFit(rec)
      /\ \A c \in Approach!Fleet : Len(rec.nominal[c]) = Held(rec) + 1 /\ rec.nominal[c][Held(rec) + 1] = cycle
                                   /\ Len(rec.tries[c]) >= Held(rec) + 1
  BY <1>0 DEF MissionInv, ProposalsInv, RunProposals
<1>3. run.hold \in Nat /\ run.from \in Nat /\ run.dwell \in Nat /\ run.offset \in Nat /\ run.index \in Nat
      /\ Substeps \in Nat /\ Dwell \in Nat /\ fleet.clock \in Nat /\ rec \in Approach!Records /\ cycle \in Nat
      /\ run.phase \in Approach!MissionPhases
  BY RunParts, ApproachConstants DEF MissionInv, Approach!TypeOK, Approach!Fleets
<1>4. CASE Approach!RecordNothing
  <2>1. point' = "finish" /\ fleet' = fleet /\ rec' = rec /\ fleet.clock = run.from
    BY <1>4 DEF Approach!RecordNothing, Approach!Moved
  <2>2. /\ run'.offset = run.offset /\ run'.index = run.index /\ run'.dwell = run.dwell
        /\ run'.valid = FALSE /\ run'.completed = run.completed
    BY <1>4, RecordNothingRun DEF MissionInv, Approach!TypeOK
  <2>3. RunFits'
    BY <1>1, <2>1, <2>2 DEF RunFits
  <2>4. RunProposals'
    BY <1>2, <2>1 DEF RunProposals
  <2> QED
    BY <2>3, <2>4 DEF RunInv
<1>5. CASE Approach!RecordUpdate
  <2>1. PICK consistent \in BOOLEAN, learned \in BOOLEAN, more \in BOOLEAN : Updated(consistent, learned, more)
    BY <1>5, RecordUpdateIs
  <2> DEFINE count == Approach!NextDwell(Within, run.good /\ consistent)
  <2>2. /\ fleet.clock # run.from /\ fleet' = fleet /\ belief' \in Nat
        /\ rec' = Approach!RecordExecution(rec, cycle, fleet.clock, run.phase, run.clear, belief', Within)
        /\ point' = (IF (run.good /\ consistent) /\ count < Dwell /\ more THEN "plan" ELSE "finish")
    BY <2>1 DEF Updated, Approach!Moved, Within, MissionInv, Approach!TypeOK
  <2>3. /\ run'.offset = run.offset /\ run'.index = run.index + 1 /\ run'.dwell = count
        /\ run'.valid = (run.good /\ consistent) /\ run'.completed = (count >= Dwell)
    BY <2>1, UpdatedRun DEF MissionInv, Approach!TypeOK
  <2>4. Within \in BOOLEAN /\ run.clear \in BOOLEAN
    BY RunParts DEF MissionInv, Approach!TypeOK, Approach!Fleets, Within
  <2>5. PICK s : s = rec'
    OBVIOUS
  <2>6. Extended(s, rec, cycle, fleet.clock, run.phase, run.clear, belief', Within)
    BY <1>3, <2>2, <2>4, <2>5, ExecutedRecord
  <2>7. rec.clocks[Held(rec) + 1] < fleet.clock /\ fleet.clock <= rec.clocks[Held(rec) + 1] + Substeps
    BY <1>1, <1>3, <2>2
  <2>8. /\ Held(s) = Held(rec) + 1 /\ HistoriesFit(s) /\ ClearWhileSafe(s) /\ Dwelt(s, 0)
        /\ s.clocks[Held(s) + 1] = fleet.clock /\ Len(s.phases) = Held(s)
        /\ \A held \in Nat :
             Dwelt(rec, held) /\ Within /\ run.phase = "docking"
               /\ fleet.clock = rec.clocks[Held(rec) + 1] + Substeps => Dwelt(s, held + 1)
    <3>1. PICK n, clock, leg, sure, known, within :
            /\ n = cycle /\ clock = fleet.clock /\ leg = run.phase /\ sure = run.clear /\ known = belief'
            /\ within = Within
      OBVIOUS
    <3>2. Extended(s, rec, n, clock, leg, sure, known, within)
      BY <2>6, <3>1
    <3>3. Extensible(rec, clock, leg)
      BY <1>1, <1>3, <2>7, <3>1 DEF Extensible
    <3>4. Longer(s, rec, clock, leg, within)
      BY <3>2, <3>3, LongerFits
    <3> QED
      BY <3>1, <3>4 DEF Longer
  <2>9. Dwelt(s, count)
    <3>1. CASE Within /\ run.good /\ consistent
      <4>1. count = run.dwell + 1
        BY <3>1 DEF Approach!NextDwell
      <4>2. run.phase = "docking" /\ fleet.clock = rec.clocks[Held(rec) + 1] + Substeps
        BY <1>1, <3>1 DEF Within
      <4> QED
        BY <1>1, <1>3, <2>8, <3>1, <4>1, <4>2
    <3>2. CASE ~(Within /\ run.good /\ consistent)
      <4>1. count = 0
        BY <3>2 DEF Approach!NextDwell
      <4> QED
        BY <2>8, <4>1
    <3> QED
      BY <3>1, <3>2
  <2>10. count \in Nat
    BY <1>3 DEF Approach!NextDwell
  <2> HIDE DEF count
  <2>11. Held(s) = run'.offset + run'.index
    <3>1. Held(s) = Held(rec) + 1
      BY <2>8
    <3>2. run'.offset = run.offset /\ run'.index = run.index + 1
      BY <2>3
    <3>3. Held(rec) = run.offset + run.index
      BY <1>1
    <3>4. run.offset \in Nat /\ run.index \in Nat
      BY <1>3
    <3> QED
      BY <3>1, <3>2, <3>3, <3>4
  <2>12. run'.completed => run'.dwell >= Dwell
    BY <2>3
  <2>13. point' = "plan" => ~run'.completed
    <3>1. point' = "plan" => count < Dwell
      BY <2>2
    <3>2. run'.completed = (count >= Dwell)
      BY <2>3
    <3>3. count \in Nat /\ Dwell \in Nat
      BY <1>3, <2>10
    <3>4. (point' = "plan") => ~(count >= Dwell)
      BY <3>1, <3>3
    <3> QED
      BY <3>2, <3>4, Zenon
  <2>14. run'.valid => fleet'.contained
    BY <1>1, <2>2, <2>3
  <2>15. point' \in {"plan", "finish"}
    BY <2>2
  <2>16. RunFits'
    BY <2>2, <2>3, <2>5, <2>8, <2>9, <2>11, <2>12, <2>13, <2>14, <2>15 DEF RunFits
  <2>17. ASSUME NEW c \in Approach!Fleet
         PROVE  /\ Len(s.nominal[c]) = Held(s) /\ Len(s.tries[c]) >= Held(s)
                /\ \A i \in 1..Held(s) : s.nominal[c][i] = s.controls[i]
    <3>1. PICK n : n = Held(rec)
      OBVIOUS
    <3>2. n \in Nat /\ rec.controls \in Seq(Nat) /\ Len(rec.controls) = n
      <4>1. rec \in Approach!Records /\ HistoriesFit(rec)
        BY <1>1, <1>3
      <4> QED
        BY <3>1, <4>1, RecordParts, HeldTyped DEF HistoriesFit
    <3>3. s.nominal = rec.nominal /\ s.tries = rec.tries /\ s.controls = Append(rec.controls, cycle)
      BY <2>6 DEF Extended
    <3>4. s.controls[n + 1] = cycle /\ \A i \in 1..n : s.controls[i] = rec.controls[i]
      BY <1>3, <3>2, <3>3, AppendIs
    <3>5. \A i \in 1..n : s.nominal[c][i] = s.controls[i]
      BY <1>2, <3>1, <3>3, <3>4 DEF ProposalsFit
    <3>6. \A i \in 1..(n + 1) : i \in 1..n \/ i = n + 1
      BY <3>2
    <3>7. s.nominal[c][n + 1] = s.controls[n + 1] /\ Len(s.nominal[c]) = n + 1 /\ Len(s.tries[c]) >= n + 1
      BY <1>2, <3>1, <3>3, <3>4
    <3>8. \A i \in 1..(n + 1) : s.nominal[c][i] = s.controls[i]
      BY <3>5, <3>6, <3>7
    <3> QED
      BY <2>8, <3>1, <3>7, <3>8
  <2>18. Held(s) \in Int /\ ProposalsFit(s)
    <3>1. Held(s) \in Int
      BY <1>1, <1>3, <2>8
    <3> QED
      BY <2>17, <3>1 DEF ProposalsFit
  <2>19. RunProposals'
    BY <2>5, <2>15, <2>17, <2>18 DEF RunProposals
  <2> QED
    BY <2>16, <2>19 DEF RunInv
<1> QED
  BY <1>4, <1>5

LEMMA EndsRun ==
  ASSUME MissionInv, Approach!Finish \/ Approach!LoseRun
  PROVE  RunInv'
<1>1. point' = "idle"
  BY DEF Approach!Finish, Approach!LoseRun, Approach!Ended
<1> QED
  BY <1>1 DEF RunInv, RunFits, RunProposals

LEMMA PreparesRun ==
  ASSUME MissionInv, Approach!NewScenario \/ Approach!PrepareTransition
  PROVE  RunInv'
<1>1. point = "idle" /\ point' = point
  BY DEF Approach!NewScenario, Approach!PrepareTransition
<1> QED
  BY <1>1 DEF RunInv, RunFits, RunProposals

LEMMA RunKept ==
  ASSUME MissionInv, PolicyInv, Approach!Next
  PROVE  RunInv'
  BY StartsRun, PlansRun, HoldsRun, RecordsRun, EndsRun, PreparesRun DEF Approach!Next

\* What is kept outside of a run.
SavedInv ==
  /\ store # None => SavedFits(store) /\ ProposalsFit(store.rec)
       /\ (store.success => store.rec.safe /\ store.dwell >= Dwell /\ store.fleet.contained)
  /\ seam # None => SavedFits(seam.source) /\ ProposalsFit(seam.source.rec)

LEMMA SavedKept ==
  ASSUME MissionInv, PolicyInv, Approach!Next
  PROVE  SavedInv'
<1>0. SavedInv
  BY DEF MissionInv, EarnedInv, ProposalsInv, SavedInv
<1>1. CASE Approach!Finish
  <2>1. point = "finish" /\ store' = Approach!Result /\ seam' = seam
    BY <1>1 DEF Approach!Finish, Approach!Ended, Approach!scenario
  <2>2. PICK s : s = Approach!Result
    OBVIOUS
  <2>3. s.rec = rec /\ s.fleet = fleet /\ s.dwell = run.dwell
        /\ s.success = (run.valid /\ run.completed /\ rec.safe)
    BY <2>2, ResultIs DEF MissionInv
  <2>4. /\ HistoriesFit(rec) /\ ClearWhileSafe(rec) /\ Dwelt(rec, run.dwell) /\ ProposalsFit(rec)
        /\ rec.clocks[Held(rec) + 1] = fleet.clock
        /\ run.valid /\ run.completed => run.dwell >= Dwell /\ fleet.contained
    BY <2>1 DEF MissionInv, EarnedInv, RunFits, ProposalsInv, RunProposals
  <2>5. SavedFits(s) /\ ProposalsFit(s.rec)
    BY <2>3, <2>4 DEF SavedFits
  <2>6. s.success => s.rec.safe /\ s.dwell >= Dwell /\ s.fleet.contained
    BY <2>3, <2>4
  <2> QED
    BY <1>0, <2>1, <2>2, <2>5, <2>6 DEF SavedInv
<1>2. CASE Approach!PrepareTransition
  <2>1. store # None /\ store' = store /\ seam' = [source |-> store, guard |-> store.guard, used |-> FALSE]
    BY <1>2 DEF Approach!PrepareTransition
  <2>2. seam'.source = store
    BY <2>1
  <2> QED
    BY <1>0, <2>1, <2>2 DEF SavedInv
<1>3. CASE Approach!StartTransition
  <2>1. seam # None /\ store' = store /\ seam' = [seam EXCEPT !.used = TRUE]
    BY <1>3 DEF Approach!StartTransition, Approach!Begins
  <2>2. seam \in Approach!Transitions
    BY <2>1 DEF MissionInv, Approach!TypeOK
  <2>3. seam'.source = seam.source
    BY <2>1, <2>2 DEF Approach!Transitions
  <2> QED
    BY <1>0, <2>1, <2>3 DEF SavedInv
<1>4. CASE Approach!NewScenario
  <2>1. store' = store /\ seam' = None
    BY <1>4 DEF Approach!NewScenario
  <2> QED
    BY <1>0, <2>1 DEF SavedInv
<1>5. CASE UNCHANGED <<store, seam>>
  BY <1>0, <1>5 DEF SavedInv
<1>6. CASE Approach!StartFresh \/ Approach!StartResume
  <2>1. UNCHANGED <<store, seam>>
    BY <1>6 DEF Approach!StartFresh, Approach!StartResume, Approach!Begins
  <2> QED
    BY <1>5, <2>1
<1>7. CASE Approach!RefusePlanning \/ Approach!PlanFleet
  <2>1. UNCHANGED <<store, seam>>
    BY <1>7 DEF Approach!RefusePlanning, Approach!PlanFleet, Approach!scenario
  <2> QED
    BY <1>5, <2>1
<1>8. CASE Approach!RefuseHold \/ Approach!CommitHold
  <2>1. UNCHANGED <<store, seam>>
    BY <1>8 DEF Approach!RefuseHold, Approach!CommitHold
  <2> QED
    BY <1>5, <2>1
<1>9. CASE Approach!RecordNothing \/ Approach!RecordUpdate
  <2>1. UNCHANGED <<store, seam>>
    BY <1>9 DEF Approach!RecordNothing, Approach!RecordUpdate, Approach!scenario
  <2> QED
    BY <1>5, <2>1
<1>10. CASE Approach!LoseRun
  <2>1. UNCHANGED <<store, seam>>
    BY <1>10 DEF Approach!LoseRun, Approach!Ended, Approach!scenario
  <2> QED
    BY <1>5, <2>1
<1> QED
  BY <1>1, <1>2, <1>3, <1>4, <1>6, <1>7, <1>8, <1>9, <1>10 DEF Approach!Next

LEMMA MissionKept ==
  ASSUME MissionInv, PolicyInv, Approach!Next
  PROVE  MissionInv' /\ PolicyInv'
<1>1. Approach!TypeOK' /\ PolicyInv' /\ RunInv' /\ SavedInv'
  BY ApproachTyped, PolicyKept, RunKept, SavedKept
<1> QED
  BY <1>1 DEF MissionInv, EarnedInv, ProposalsInv, RunInv, SavedInv

LEMMA MissionBegins == Approach!Init => MissionInv /\ PolicyInv
<1> SUFFICES ASSUME Approach!Init PROVE MissionInv /\ PolicyInv
  OBVIOUS
<1>1. /\ mode \in Approach!Modes /\ guard = Approach!FreshGuard /\ seam = None /\ store = None
      /\ point = "idle" /\ run = Approach!Idle /\ fleet = Approach!InitialFleet /\ rec = Approach!Recorder
      /\ arr = None /\ belief = 0 /\ cycle = 0 /\ scenarios = 1
  BY DEF Approach!Init
<1>2. Approach!TypeOK
  BY <1>1, IdleRun, FreshTyped, FreshRecord DEF Approach!TypeOK
<1>3. EarnedInv /\ ProposalsInv /\ PolicyInv
  BY <1>1 DEF EarnedInv, RunFits, ProposalsInv, RunProposals, PolicyInv
<1> QED
  BY <1>2, <1>3 DEF MissionInv

LEMMA RecordsMissionStep ==
  ASSUME [RecordsNext]_<<part, loop, archive, study, mission>>
  PROVE  Approach!Next \/ UNCHANGED mission
  BY DEF RecordsNext, RunLoop, KeepArchive, RunArm, RunApproach, Stop, mission, loop, archive, study

LEMMA MissionStutters ==
  ASSUME MissionInv, PolicyInv, UNCHANGED mission
  PROVE  MissionInv' /\ PolicyInv'
<1>1. UNCHANGED <<mode, guard, seam, store, point, run, fleet, rec, arr, belief, cycle, scenarios>>
  BY DEF mission
<1>2. Approach!TypeOK'
  BY <1>1 DEF MissionInv, Approach!TypeOK
<1>3. EarnedInv'
  BY <1>1 DEF MissionInv, EarnedInv, RunFits
<1>4. ProposalsInv'
  BY <1>1 DEF MissionInv, ProposalsInv, RunProposals
<1>5. PolicyInv'
  BY <1>1 DEF PolicyInv
<1> QED
  BY <1>2, <1>3, <1>4, <1>5 DEF MissionInv

LEMMA MissionHolds == RecordsSpec => [](MissionInv /\ PolicyInv)
<1>1. RecordsInit => MissionInv /\ PolicyInv
  BY MissionBegins DEF RecordsInit
<1>2. MissionInv /\ PolicyInv /\ [RecordsNext]_<<part, loop, archive, study, mission>> => (MissionInv /\ PolicyInv)'
  BY RecordsMissionStep, MissionKept, MissionStutters
<1> QED
  BY <1>1, <1>2, PTL DEF RecordsSpec

LEMMA SavedIsEarned == MissionInv => SuccessIsEarned
<1> SUFFICES ASSUME MissionInv, store # None, store.success
             PROVE  LET n == Held(store.rec)
                    IN  /\ n >= Dwell /\ store.fleet.contained
                        /\ \A i \in 1..n : store.rec.clear[i]
                        /\ \A i \in (n - Dwell + 1)..n :
                             /\ store.rec.bound[i] /\ store.rec.phases[i] = "docking"
                             /\ store.rec.clocks[i + 1] - store.rec.clocks[i] = Substeps
  BY DEF SuccessIsEarned, Approach!SuccessIsEarned, Held
<1>1. SavedFits(store) /\ store.rec.safe /\ store.dwell >= Dwell /\ store.fleet.contained
  BY DEF MissionInv, EarnedInv
<1>2. PICK n : n = Held(store.rec)
  OBVIOUS
<1>3. store.rec \in Approach!Records /\ store.dwell \in Nat
  BY ResultParts DEF MissionInv, Approach!TypeOK
<1>4. n \in Int /\ Dwell \in Nat
  BY <1>2, <1>3, HeldTyped, ApproachConstants
<1>5. \A i \in 1..n : store.rec.clear[i]
  BY <1>1, <1>2 DEF SavedFits, ClearWhileSafe
<1>6. store.dwell <= n
      /\ \A i \in (n - store.dwell + 1)..n :
           /\ store.rec.bound[i] /\ store.rec.phases[i] = "docking"
           /\ store.rec.clocks[i + 1] - store.rec.clocks[i] = Substeps
  BY <1>1, <1>2 DEF SavedFits, Dwelt
<1>7. n >= Dwell /\ \A i \in (n - Dwell + 1)..n : i \in (n - store.dwell + 1)..n
  BY <1>1, <1>3, <1>4, <1>6
<1> QED
  BY <1>1, <1>2, <1>5, <1>6, <1>7

\* Success over any chain of runs was flown.
THEOREM SuccessWasFlown == RecordsSpec => []SuccessIsEarned
<1>1. MissionInv /\ PolicyInv => SuccessIsEarned
  BY SavedIsEarned
<1> QED
  BY <1>1, MissionHolds, PTL

-----------------------------------------------------------------------------
(* The accepted deadline *)

\* The run is between its start and its end.
Inside ==
  \/ Approach!RefusePlanning \/ Approach!PlanFleet \/ Approach!RefuseHold \/ Approach!CommitHold
  \/ Approach!RecordNothing \/ Approach!RecordUpdate

LEMMA InsideIs ==
  ASSUME Inside
  PROVE  point # "idle" /\ point' # "idle" /\ UNCHANGED <<mode, seam, store>>
<1>1. CASE Approach!RefusePlanning
  BY <1>1 DEF Approach!RefusePlanning, Approach!scenario
<1>2. CASE Approach!PlanFleet
  <2>1. PICK solved \in 0..FleetSize, sound \in BOOLEAN, plan \in {Approach!PlanStep, None} :
          Planned(solved, sound, plan)
    BY <1>2, PlanFleetIs
  <2> QED
    BY <2>1 DEF Planned
<1>3. CASE Approach!RefuseHold
  BY <1>3 DEF Approach!RefuseHold
<1>4. CASE Approach!CommitHold
  <2>1. PICK contained \in BOOLEAN, sure \in BOOLEAN, goal \in BOOLEAN : Committed(contained, sure, goal)
    BY <1>4, CommitHoldIs
  <2> QED
    BY <2>1 DEF Committed
<1>5. CASE Approach!RecordNothing
  BY <1>5 DEF Approach!RecordNothing, Approach!scenario
<1>6. CASE Approach!RecordUpdate
  <2>1. PICK consistent \in BOOLEAN, learned \in BOOLEAN, more \in BOOLEAN : Updated(consistent, learned, more)
    BY <1>6, RecordUpdateIs
  <2> QED
    BY <2>1 DEF Updated
<1> QED
  BY <1>1, <1>2, <1>3, <1>4, <1>5, <1>6 DEF Inside

KeepsCommitment(s, rt) == s \in Approach!Runtimes /\ s.commitment = rt.commitment

\* A logged event leaves the commitment alone.
LEMMA LoggedKeeps ==
  ASSUME NEW rt \in Approach!Runtimes, NEW kind \in Approach!Statuses,
         NEW plan \in Approach!Steps \cup {None}, NEW detail \in Nat \cup {None}
  PROVE  KeepsCommitment(Approach!Logged(rt, kind, plan, detail), rt)
<1>1. PICK s : s = Approach!Logged(rt, kind, plan, detail)
  OBVIOUS
<1>2. s \in Approach!Runtimes /\ s.commitment = rt.commitment
  BY <1>1, LoggedRuntime
<1> QED
  BY <1>1, <1>2 DEF KeepsCommitment

\* What an update logs leaves the commitment alone.
LEMMA LogsKeep ==
  ASSUME NEW rt \in Approach!Runtimes, NEW plan \in Approach!Steps, NEW n \in Nat
  PROVE  /\ KeepsCommitment(Approach!RefusePolicy(rt, n), rt)
         /\ KeepsCommitment(Approach!RefuseCandidate(rt, plan), rt)
         /\ KeepsCommitment(Approach!RecordArrivalExecution(rt, plan, n), rt)
         /\ KeepsCommitment(Approach!ScreenEndpoint(rt, n), rt)
<1>1. /\ "POLICY_REFUSED" \in Approach!Statuses /\ "REFUSED" \in Approach!Statuses
      /\ "EXECUTION" \in Approach!Statuses /\ "SCREEN" \in Approach!Statuses
  BY DEF Approach!Statuses
<1>2. /\ None \in Approach!Steps \cup {None} /\ None \in Nat \cup {None}
      /\ plan \in Approach!Steps \cup {None} /\ n \in Nat \cup {None}
  OBVIOUS
<1> QED
  BY <1>1, <1>2, LoggedKeeps
     DEF Approach!RefusePolicy, Approach!RefuseCandidate, Approach!RecordArrivalExecution,
         Approach!ScreenEndpoint

LEMMA ExecutedKeeps ==
  ASSUME MissionInv, PolicyInv, point = "record"
  PROVE  Approach!Accepted(Approach!Executed) = Approach!Accepted(arr)
<1>1. CASE run.step = None
  BY <1>1 DEF Approach!Executed
<1>2. CASE run.step # None
  <2>1. arr # None /\ arr \in Approach!Runtimes /\ run.step \in Approach!Steps
        /\ Approach!ExactClock(guard) \in Nat
    BY <1>2, RuntimeKept, RunParts, ClockTyped DEF MissionInv, Approach!TypeOK, PolicyInv
  <2>3. PICK told : told = Approach!RecordArrivalExecution(arr, run.step, Approach!ExactClock(guard))
    OBVIOUS
  <2>4. told \in Approach!Runtimes /\ told.commitment = arr.commitment
    BY <2>1, <2>3, LogsKeep DEF KeepsCommitment
  <2>5. PICK seen : seen = Approach!ScreenEndpoint(told, Approach!ExactClock(guard))
    OBVIOUS
  <2>6. seen \in Approach!Runtimes /\ seen.commitment = told.commitment
    BY <2>1, <2>4, <2>5, LogsKeep DEF KeepsCommitment
  <2>7. Approach!Executed = IF Approach!Moved THEN seen ELSE told
    BY <1>2, <2>3, <2>5 DEF Approach!Executed
  <2>8. told # None /\ seen # None
    BY <2>4, <2>6, ApproachConstants
  <2> QED
    BY <2>1, <2>4, <2>6, <2>7, <2>8 DEF Approach!Accepted
<1> QED
  BY <1>1, <1>2

\* Inside a run an accepted deadline stays, and one is accepted only while docking.
LEMMA AcceptedKept ==
  ASSUME MissionInv, PolicyInv, Inside
  PROVE  /\ Approach!Accepted(arr) # None => Approach!Accepted(arr') = Approach!Accepted(arr)
         /\ Approach!Accepted(arr') # None =>
              Approach!Accepted(arr) # None \/ Approach!Phase = "docking"
<1>1. CASE Approach!RefusePlanning
  <2>1. point = "plan" /\ Approach!Docking /\ arr' = Approach!RefusePolicy(arr, Approach!Update)
    BY <1>1 DEF Approach!RefusePlanning
  <2>2. arr \in Approach!Runtimes /\ Approach!Update \in Nat /\ Approach!PlanStep \in Approach!Steps
    BY <2>1, PlanTyped, UpdateTyped DEF MissionInv
  <2>3. arr' \in Approach!Runtimes /\ arr'.commitment = arr.commitment
    BY <2>1, <2>2, LogsKeep DEF KeepsCommitment
  <2> QED
    BY <2>2, <2>3, ApproachConstants DEF Approach!Accepted
<1>2. CASE Approach!PlanFleet
  <2>1. PICK solved \in 0..FleetSize, sound \in BOOLEAN, plan \in {Approach!PlanStep, None} :
          Planned(solved, sound, plan)
    BY <1>2, PlanFleetIs
  <2>2. /\ point = "plan" /\ cycle' = cycle + 1
        /\ plan = (IF Approach!Docking THEN Approach!PlanStep ELSE None)
        /\ arr' = (IF plan = None THEN arr
                   ELSE IF sound THEN Approach!AcceptCandidate(arr, plan, cycle')
                   ELSE Approach!RefuseCandidate(arr, plan))
    BY <2>1 DEF Planned
  <2>3. CASE plan = None
    BY <2>2, <2>3
  <2>4. CASE plan # None
    <3>1. Approach!Docking
      BY <2>2, <2>4
    <3>2. arr \in Approach!Runtimes /\ plan \in Approach!Steps /\ cycle' \in Nat /\ Approach!Phase = "docking"
      BY <2>2, <2>4, <3>1, PlanTyped DEF MissionInv, Approach!TypeOK, Approach!Docking
    <3>3. PICK n : n = cycle'
      OBVIOUS
    <3>4. PICK taken : taken = Approach!AcceptCandidate(arr, plan, n)
      OBVIOUS
    <3>5. taken \in Approach!Runtimes /\ taken.commitment = CommitmentBy(arr, plan, n)
      BY <3>2, <3>3, <3>4, AcceptedRuntime
    <3>6. PICK refused : refused = Approach!RefuseCandidate(arr, plan)
      OBVIOUS
    <3>7. refused \in Approach!Runtimes /\ refused.commitment = arr.commitment
      BY <3>2, <3>3, <3>6, LogsKeep DEF KeepsCommitment
    <3>8. arr' = IF sound THEN taken ELSE refused
      BY <2>2, <2>4, <3>3, <3>4, <3>6
    <3>9. arr # None /\ taken # None /\ refused # None
      BY <3>2, <3>5, <3>7, ApproachConstants
    <3>10. arr.commitment # None => CommitmentBy(arr, plan, n) = arr.commitment
      BY DEF CommitmentBy
    <3> QED
      BY <2>2, <3>2, <3>5, <3>7, <3>8, <3>9, <3>10 DEF Approach!Accepted
  <2> QED
    BY <2>3, <2>4
<1>3. CASE Approach!RefuseHold \/ Approach!CommitHold
  <2>1. arr' = arr
    BY <1>3 DEF Approach!RefuseHold, Approach!CommitHold
  <2> QED
    BY <2>1
<1>4. CASE Approach!RecordNothing \/ Approach!RecordUpdate
  <2>1. point = "record" /\ arr' = Approach!Executed
    BY <1>4 DEF Approach!RecordNothing, Approach!RecordUpdate
  <2>2. Approach!Accepted(arr') = Approach!Accepted(arr)
    BY <2>1, ExecutedKeeps
  <2> QED
    BY <2>2
<1> QED
  BY <1>1, <1>2, <1>3, <1>4 DEF Inside

\* Only a committed hold brings the mission under way.
LEMMA UnderwayKept ==
  ASSUME MissionInv, PolicyInv, Inside, ~Approach!CommitHold,
         Underway(fleet', run'.phase, arr')
  PROVE  Underway(fleet, run.phase, arr)
<1>1. fleet' = fleet
  BY DEF Inside, Approach!RefusePlanning, Approach!PlanFleet, Approach!RefuseHold, Approach!RecordNothing,
         Approach!RecordUpdate
<1>2. Approach!Phase = "docking" => run.phase = "docking" \/ fleet.goal
  BY DEF Approach!Phase
<1>3. run'.phase = run.phase \/ run'.phase = Approach!Phase
  <2>1. CASE Approach!RefusePlanning
    BY <2>1, RefusePlanningRun DEF MissionInv, Approach!TypeOK
  <2>2. CASE Approach!PlanFleet
    <3>1. PICK solved \in 0..FleetSize, sound \in BOOLEAN, plan \in {Approach!PlanStep, None} :
            Planned(solved, sound, plan)
      BY <2>2, PlanFleetIs
    <3>2. plan \in Approach!Steps \cup {None}
      BY <3>1, PlanTyped DEF Planned
    <3> QED
      BY <3>1, <3>2, PlannedRun DEF MissionInv, Approach!TypeOK
  <2>3. CASE Approach!RefuseHold
    BY <2>3, RefuseHoldRun DEF MissionInv, Approach!TypeOK
  <2>4. CASE Approach!RecordNothing
    BY <2>4, RecordNothingRun DEF MissionInv, Approach!TypeOK
  <2>5. CASE Approach!RecordUpdate
    <3>1. PICK consistent \in BOOLEAN, learned \in BOOLEAN, more \in BOOLEAN : Updated(consistent, learned, more)
      BY <2>5, RecordUpdateIs
    <3> QED
      BY <3>1, UpdatedRun DEF MissionInv, Approach!TypeOK
  <2> QED
    BY <2>1, <2>2, <2>3, <2>4, <2>5 DEF Inside
<1>4. Approach!Accepted(arr') # None => Approach!Accepted(arr) # None \/ Approach!Phase = "docking"
  BY AcceptedKept
<1> QED
  BY <1>1, <1>2, <1>3, <1>4 DEF Underway

LEMMA FleetInside ==
  ASSUME Inside, ~Approach!CommitHold
  PROVE  fleet' = fleet
  BY DEF Inside, Approach!RefusePlanning, Approach!PlanFleet, Approach!RefuseHold, Approach!RecordNothing,
         Approach!RecordUpdate

\* A committed hold is the only step of a run that the guard proves.
LEMMA GuardInside ==
  ASSUME MissionInv, Inside
  PROVE  \/ guard'.holds = guard.holds /\ guard'.end = guard.end /\ (mode.guarded => ~Approach!CommitHold)
         \/ /\ mode.guarded /\ Approach!CommitHold /\ Approach!Contiguous(guard, fleet.clock)
            /\ guard'.holds = guard.holds + 1 /\ guard'.end = fleet.clock + 1
<1>0. guard \in Approach!Guards
  BY DEF MissionInv, Approach!TypeOK
<1>1. CASE Approach!CommitHold
  <2>1. (mode.guarded => Approach!Contiguous(guard, fleet.clock))
        /\ guard' = IF mode.guarded THEN Approach!GuardCommits(guard, fleet.clock + 1) ELSE guard
    BY <1>1 DEF Approach!CommitHold
  <2>2. mode.guarded => guard'.holds = guard.holds + 1 /\ guard'.end = fleet.clock + 1
    BY <2>1 DEF Approach!GuardCommits
  <2> QED
    BY <1>1, <2>1, <2>2
<1>2. CASE Approach!RefuseHold
  <2>1. point' = "record"
        /\ guard' \in {guard} \cup {[guard EXCEPT !.pending = mode.guarded /\ admitted] :
                                      admitted \in {FALSE, Approach!Contiguous(guard, fleet.clock)}}
    BY <1>2 DEF Approach!RefuseHold
  <2>2. guard'.holds = guard.holds /\ guard'.end = guard.end
    BY <1>0, <2>1 DEF Approach!Guards
  <2>3. CASE ~Approach!CommitHold
    BY <2>2, <2>3
  <2> QED
    BY <1>1, <2>3
<1>3. CASE Approach!RefusePlanning \/ Approach!PlanFleet \/ Approach!RecordNothing \/ Approach!RecordUpdate
  <2>1. guard' = guard
    BY <1>3 DEF Approach!RefusePlanning, Approach!PlanFleet, Approach!RecordNothing, Approach!RecordUpdate,
                Approach!scenario
  <2>2. point # "hold"
    BY <1>3 DEF Approach!RefusePlanning, Approach!PlanFleet, Approach!RecordNothing, Approach!RecordUpdate
  <2>3. ~Approach!CommitHold
    BY <2>2 DEF Approach!CommitHold
  <2> QED
    BY <2>1, <2>3
<1> QED
  BY <1>1, <1>2, <1>3 DEF Inside

LEMMA GuardTypes ==
  ASSUME MissionInv
  PROVE  /\ guard.holds \in Nat /\ guard.end \in Nat \cup {None} /\ fleet.clock \in Nat
         /\ mode.guarded \in BOOLEAN /\ (mode.arrival => mode.guarded)
         /\ store # None => store.guard.holds \in Nat /\ store.guard.end \in Nat \cup {None} /\ store.fleet.clock \in Nat
         /\ seam # None => seam.guard.holds \in Nat /\ seam.guard.end \in Nat \cup {None} /\ seam.source.fleet.clock \in Nat
<1>1. guard \in Approach!Guards /\ fleet \in Approach!Fleets /\ mode \in Approach!Modes
  BY DEF MissionInv, Approach!TypeOK
<1>2. ASSUME store # None
      PROVE  store.guard.holds \in Nat /\ store.guard.end \in Nat \cup {None} /\ store.fleet.clock \in Nat
  <2>1. store.guard \in Approach!Guards /\ store.fleet \in Approach!Fleets
    BY <1>2, ResultParts DEF MissionInv, Approach!TypeOK
  <2> QED
    BY <2>1 DEF Approach!Guards, Approach!Fleets
<1>3. ASSUME seam # None
      PROVE  seam.guard.holds \in Nat /\ seam.guard.end \in Nat \cup {None} /\ seam.source.fleet.clock \in Nat
  <2>1. seam.guard \in Approach!Guards /\ seam.source \in Approach!Results
    BY <1>3 DEF MissionInv, Approach!TypeOK, Approach!Transitions
  <2>2. seam.source.fleet \in Approach!Fleets
    BY <2>1, ResultParts
  <2> QED
    BY <2>1, <2>2 DEF Approach!Guards, Approach!Fleets
<1> QED
  BY <1>1, <1>2, <1>3 DEF Approach!Guards, Approach!Fleets, Approach!Modes

LEMMA GuardFitsInside ==
  ASSUME MissionInv, DeadlineInv, Inside
  PROVE  GuardFits'
<1>0. point # "idle" /\ point' # "idle" /\ UNCHANGED <<mode, seam, store>>
  BY InsideIs
<1>1. CASE guard'.holds = guard.holds /\ guard'.end = guard.end /\ (mode.guarded => ~Approach!CommitHold)
  <2>1. mode.guarded => fleet' = fleet
    BY <1>1, FleetInside
  <2> QED
    BY <1>0, <1>1, <2>1 DEF DeadlineInv, GuardFits, OwnClock
<1>2. CASE /\ mode.guarded /\ Approach!Contiguous(guard, fleet.clock)
           /\ guard'.holds = guard.holds + 1 /\ guard'.end = fleet.clock + 1
  <2>1. fleet.clock = guard.holds
    BY <1>0, <1>2, GuardTypes, ApproachConstants DEF DeadlineInv, GuardFits, OwnClock, Approach!Contiguous
  <2>2. OwnClock(guard') /\ guard'.end # None
    BY <1>2, <2>1, GuardTypes, ApproachConstants DEF OwnClock
  <2> QED
    BY <1>0, <2>2 DEF DeadlineInv, GuardFits
<1> QED
  BY <1>1, <1>2, GuardInside

LEMMA LastSampleInside ==
  ASSUME MissionInv, PolicyInv, DeadlineInv, Inside, LastSample(rec') = "docking"
  PROVE  run'.phase = "docking"
<1>0. LastSample(rec) = "docking" => run.phase = "docking"
  BY InsideIs DEF DeadlineInv, UnderwayFits
<1>1. CASE Approach!RefusePlanning \/ Approach!PlanFleet
  <2>1. point = "plan"
    BY <1>1 DEF Approach!RefusePlanning, Approach!PlanFleet
  <2>2. HistoriesFit(rec) /\ rec.samples \in Seq(Approach!MissionPhases) /\ Approach!Phase \in Approach!MissionPhases
    BY <2>1, RecordParts, PhaseTyped DEF MissionInv, EarnedInv, RunFits, Approach!TypeOK
  <2>3. PICK s : s = Approach!Phased
    OBVIOUS
  <2>4. s \in Approach!Records
        /\ s.samples = IF Approach!Relabels THEN [rec.samples EXCEPT ![Len(rec.samples)] = Approach!Phase]
                       ELSE rec.samples
    BY <2>2, <2>3, PhasedTyped DEF MissionInv
  <2>5. LastSample(s) = IF Approach!Relabels THEN Approach!Phase ELSE LastSample(rec)
    <3>1. Len(rec.samples) \in 1..Len(rec.samples)
      BY <2>2, LenProperties DEF HistoriesFit
    <3>2. PICK g : g = [rec.samples EXCEPT ![Len(rec.samples)] = Approach!Phase]
      OBVIOUS
    <3>3. Len(g) = Len(rec.samples) /\ g[Len(rec.samples)] = Approach!Phase
      BY <2>2, <3>1, <3>2, ExceptSeq
    <3> QED
      BY <2>4, <3>2, <3>3 DEF LastSample
  <2>6. rec'.samples = s.samples
    <3>1. CASE Approach!RefusePlanning
      BY <2>3, <3>1 DEF Approach!RefusePlanning
    <3>2. CASE Approach!PlanFleet
      <4>1. PICK solved \in 0..FleetSize, sound \in BOOLEAN, plan \in {Approach!PlanStep, None} :
              Planned(solved, sound, plan)
        BY <3>2, PlanFleetIs
      <4>2. PICK n : n = cycle'
        OBVIOUS
      <4>3. rec' = Approach!RecordPlanning(s, n, solved) /\ n \in Nat /\ solved \in Nat
        BY <2>3, <4>1, <4>2, ApproachConstants DEF Planned, MissionInv, Approach!TypeOK
      <4>4. Tried(rec', s, n, solved)
        BY <2>4, <4>3, PlannedRecord
      <4> QED
        BY <4>4 DEF Tried
    <3> QED
      BY <1>1, <3>1, <3>2
  <2>7. run'.phase = Approach!Phase
    <3>1. CASE Approach!RefusePlanning
      BY <3>1, RefusePlanningRun DEF MissionInv, Approach!TypeOK
    <3>2. CASE Approach!PlanFleet
      <4>1. PICK solved \in 0..FleetSize, sound \in BOOLEAN, plan \in {Approach!PlanStep, None} :
              Planned(solved, sound, plan)
        BY <3>2, PlanFleetIs
      <4>2. plan \in Approach!Steps \cup {None}
        BY <4>1, PlanTyped DEF Planned
      <4> QED
        BY <4>1, <4>2, PlannedRun DEF MissionInv, Approach!TypeOK
    <3> QED
      BY <1>1, <3>1, <3>2
  <2>8. LastSample(rec') = LastSample(s)
    BY <2>6 DEF LastSample
  <2> QED
    BY <1>0, <2>5, <2>7, <2>8 DEF Approach!Phase
<1>2. CASE Approach!RefuseHold \/ Approach!CommitHold
  <2>1. rec' = rec
    BY <1>2 DEF Approach!RefuseHold, Approach!CommitHold
  <2>2. run'.phase = run.phase
    <3>1. CASE Approach!RefuseHold
      BY <3>1, RefuseHoldRun DEF MissionInv, Approach!TypeOK
    <3>2. CASE Approach!CommitHold
      <4>1. PICK contained \in BOOLEAN, sure \in BOOLEAN, goal \in BOOLEAN : Committed(contained, sure, goal)
        BY <3>2, CommitHoldIs
      <4> QED
        BY <4>1, CommittedRun DEF MissionInv, Approach!TypeOK
    <3> QED
      BY <1>2, <3>1, <3>2
  <2> QED
    BY <1>0, <2>1, <2>2
<1>3. CASE Approach!RecordNothing
  <2>1. rec' = rec /\ run'.phase = run.phase
    BY <1>3, RecordNothingRun DEF Approach!RecordNothing, MissionInv, Approach!TypeOK
  <2> QED
    BY <1>0, <2>1
<1>4. CASE Approach!RecordUpdate
  <2>1. PICK consistent \in BOOLEAN, learned \in BOOLEAN, more \in BOOLEAN : Updated(consistent, learned, more)
    BY <1>4, RecordUpdateIs
  <2>2. run'.phase = run.phase
    BY <2>1, UpdatedRun DEF MissionInv, Approach!TypeOK
  <2>3. PICK held : held = belief'
    OBVIOUS
  <2>4. rec' = Approach!RecordExecution(rec, cycle, fleet.clock, run.phase, run.clear, held, Within)
        /\ held \in Nat
    BY <2>1, <2>3 DEF Updated, Within, MissionInv, Approach!TypeOK
  <2>5. fleet.clock \in Nat /\ cycle \in Nat /\ rec \in Approach!Records /\ run.phase \in Approach!MissionPhases
        /\ run.clear \in BOOLEAN /\ Within \in BOOLEAN
    BY RunParts DEF Within, MissionInv, Approach!TypeOK, Approach!Fleets
  <2>6. Extended(rec', rec, cycle, fleet.clock, run.phase, run.clear, held, Within)
    BY <2>4, <2>5, ExecutedRecord
  <2>7. rec'.samples = Append(rec.samples, run.phase)
    BY <2>6 DEF Extended
  <2>8. LastSample(rec') = run.phase
    <3>1. PICK seq : seq = rec.samples
      OBVIOUS
    <3>2. seq \in Seq(Approach!MissionPhases) /\ Len(seq) \in Nat
      BY <2>5, <3>1, RecordParts, LenProperties
    <3>3. PICK g : g = Append(seq, run.phase)
      OBVIOUS
    <3>4. Len(g) = Len(seq) + 1 /\ g[Len(seq) + 1] = run.phase
      BY <2>5, <3>2, <3>3, AppendIs
    <3>5. g[Len(g)] = run.phase
      BY <3>4
    <3>6. rec'.samples = g
      BY <2>7, <3>1, <3>3
    <3> QED
      BY <3>5, <3>6 DEF LastSample
  <2> QED
    BY <2>2, <2>8
<1> QED
  BY <1>1, <1>2, <1>3, <1>4 DEF Inside

LEMMA UnderwayInside ==
  ASSUME MissionInv, PolicyInv, DeadlineInv, Inside
  PROVE  UnderwayFits' /\ TransitionFits'
<1>0. point # "idle" /\ point' # "idle" /\ UNCHANGED <<mode, seam, store>>
  BY InsideIs
<1>1. LastSample(rec') = "docking" => run'.phase = "docking"
  BY LastSampleInside
<1>2. guard'.holds >= guard.holds
  BY GuardInside, GuardTypes
<1>3. ASSUME mode.guarded, Underway(fleet', run'.phase, arr')
      PROVE  guard'.holds > guard.holds \/ Underway(fleet, run.phase, arr)
  <2>1. CASE Approach!CommitHold
    BY <1>3, <2>1, GuardInside, GuardTypes
  <2>2. CASE ~Approach!CommitHold
    BY <1>3, <2>2, UnderwayKept
  <2> QED
    BY <2>1, <2>2
<1>4. guard.holds \in Nat /\ guard'.holds \in Int
  BY GuardInside, GuardTypes
<1>5. mode.guarded /\ Underway(fleet', run'.phase, arr') => guard'.holds > 0
  BY <1>0, <1>2, <1>3, <1>4 DEF DeadlineInv, UnderwayFits
<1>6. UnderwayFits'
  BY <1>0, <1>1, <1>5 DEF DeadlineInv, UnderwayFits
<1>7. TransitionFits'
  <2> SUFFICES ASSUME seam # None
               PROVE  /\ seam.guard.holds <= guard'.holds
                      /\ ~seam.used =>
                           /\ Underway(fleet', run'.phase, arr') => seam.guard.holds < guard'.holds
                           /\ store # None /\ Approach!Accepted(store.arrival) # None => seam.guard.holds < guard'.holds
    BY <1>0 DEF TransitionFits
  <2>1. mode.guarded /\ seam.guard.holds \in Nat
    BY GuardTypes DEF PolicyInv
  <2>2. seam.guard.holds <= guard.holds
        /\ (~seam.used =>
              /\ Underway(fleet, run.phase, arr) => seam.guard.holds < guard.holds
              /\ store # None /\ Approach!Accepted(store.arrival) # None => seam.guard.holds < guard.holds)
    BY <1>0 DEF DeadlineInv, TransitionFits
  <2> QED
    BY <1>2, <1>3, <1>4, <2>1, <2>2
<1> QED
  BY <1>6, <1>7

LEMMA OutsideRun ==
  ASSUME MissionInv, DeadlineInv, Approach!NewScenario \/ Approach!PrepareTransition
  PROVE  point = "idle" /\ point' = "idle" /\ store' = store
  BY DEF Approach!NewScenario, Approach!PrepareTransition

LEMMA ScenarioFits ==
  ASSUME MissionInv, PolicyInv, DeadlineInv, Approach!NewScenario
  PROVE  DeadlineInv'
<1>1. guard' = Approach!FreshGuard /\ seam' = None /\ point' = "idle" /\ store' = store
  BY DEF Approach!NewScenario
<1> QED
  BY <1>1, FreshTyped DEF DeadlineInv, GuardFits, UnderwayFits, TransitionFits, OwnClock

LEMMA PreparesFit ==
  ASSUME MissionInv, PolicyInv, DeadlineInv, Approach!PrepareTransition
  PROVE  DeadlineInv'
<1>1. /\ store # None /\ mode.arrival /\ guard' = store.guard
      /\ seam' = [source |-> store, guard |-> store.guard, used |-> FALSE]
      /\ Approach!ValidScenario(store, [mode EXCEPT !.arrival = FALSE]) /\ Approach!Restores(store, guard)
      /\ point' = "idle" /\ store' = store
  BY DEF Approach!PrepareTransition
<1>2. seam'.source = store /\ seam'.guard = store.guard /\ seam' # None
  <2>1. Approach!TypeOK'
    BY ScenarioTyped
  <2>2. store \in Approach!Results /\ store.guard \in Approach!Guards
    BY <1>1, ResultParts DEF MissionInv, Approach!TypeOK
  <2>3. seam' \in Approach!Transitions
    BY <1>1, <2>2 DEF Approach!Transitions
  <2> QED
    BY <1>1, <2>3, ApproachConstants
<1>3. store.mode.guarded /\ ~store.mode.arrival
  <2>1. mode \in Approach!Modes /\ store.mode = [mode EXCEPT !.arrival = FALSE]
    BY <1>1 DEF MissionInv, Approach!TypeOK, Approach!ValidScenario
  <2> QED
    BY <1>1, <2>1 DEF Approach!Modes
<1>4. Approach!Accepted(store.arrival) = None
  BY <1>1, <1>3 DEF PolicyInv, Approach!Accepted
<1>5. store.guard.end = None => store.fleet.clock = 0
  BY <1>1, <1>3, GuardTypes, ApproachConstants
     DEF Approach!Restores, Approach!GuardRestores, DeadlineInv, GuardFits, OwnClock
<1>6. GuardFits'
  BY <1>1, <1>2, <1>3, <1>5 DEF DeadlineInv, GuardFits
<1>7. Underway(store.fleet, LastSample(store.rec), None) => store.guard.holds > 0
  BY <1>1, <1>3, <1>4 DEF DeadlineInv, UnderwayFits, Underway, Approach!Accepted
<1>8. UnderwayFits'
  BY <1>1, <1>2, <1>7 DEF DeadlineInv, UnderwayFits
<1>9. TransitionFits'
  <2>1. seam'.guard.holds <= guard'.holds
    BY <1>1, <1>2, GuardTypes
  <2> QED
    BY <1>1, <1>4, <2>1 DEF TransitionFits
<1> QED
  BY <1>6, <1>8, <1>9 DEF DeadlineInv

LEMMA FreshRunFits ==
  ASSUME MissionInv, PolicyInv, DeadlineInv, Approach!StartFresh
  PROVE  DeadlineInv'
<1>1. /\ run' = Approach!Idle /\ fleet' = Approach!InitialFleet /\ rec' = Approach!Recorder
      /\ arr' = (IF mode.arrival THEN Approach!ArrivalRuntime(0, 0, FALSE) ELSE None)
      /\ point' = "plan" /\ UNCHANGED <<mode, guard, seam, store>>
  BY DEF Approach!StartFresh, Approach!Begins
<1>2. Approach!Accepted(arr') = None
  <2>1. Approach!ArrivalRuntime(0, 0, FALSE) \in Approach!Runtimes
        /\ Approach!ArrivalRuntime(0, 0, FALSE).commitment = None
    BY NewRuntime
  <2> QED
    BY <1>1, <2>1 DEF Approach!Accepted
<1>3. fleet'.clock = 0 /\ fleet'.goal = FALSE /\ run'.phase = "rendezvous"
  BY <1>1, FreshTyped, IdleRun
<1>4. ~Underway(fleet', run'.phase, arr')
  BY <1>2, <1>3 DEF Underway
<1>5. LastSample(rec') = "rendezvous"
  <2>1. rec'.samples = <<"rendezvous">>
    BY <1>1, FreshRecord
  <2> QED
    BY <2>1 DEF LastSample
<1> QED
  BY <1>1, <1>3, <1>4, <1>5 DEF DeadlineInv, GuardFits, UnderwayFits, TransitionFits

LEMMA ResumedFits ==
  ASSUME MissionInv, PolicyInv, DeadlineInv, Approach!StartResume
  PROVE  DeadlineInv' /\ arr' = store.arrival
<1>1. /\ store # None /\ Approach!ValidScenario(store, mode) /\ Approach!Restores(store, guard)
      /\ guard' = (IF mode.guarded THEN store.guard ELSE guard)
      /\ Approach!TakesOver(store, FALSE, store.arrival, Approach!FromCheckpoint(store))
      /\ point' = "plan" /\ UNCHANGED <<mode, seam, store>>
  BY DEF Approach!StartResume, Approach!Begins
<1>2. store.mode = mode /\ fleet' = store.fleet /\ arr' = store.arrival
      /\ rec' = Approach!FromCheckpoint(store)
  BY <1>1 DEF Approach!ValidScenario, Approach!TakesOver
<1>3. store \in Approach!Results /\ HistoriesFit(store.rec) /\ ProposalsFit(store.rec)
  BY <1>1 DEF MissionInv, Approach!TypeOK, EarnedInv, SavedFits, ProposalsInv
<1>4. run'.phase = LastSample(store.rec)
  BY <1>1, <1>3, TakenRun DEF LastSample
<1>5. LastSample(rec') = LastSample(store.rec)
  <2>1. rec'.samples = store.rec.samples
    BY <1>2, <1>3, TakenRecord
  <2> QED
    BY <2>1 DEF LastSample
<1>6. mode.guarded => /\ guard = Approach!FreshGuard /\ guard.holds = 0 /\ guard' = store.guard
                      /\ (store.guard.end = None => store.fleet.clock = 0)
  BY <1>1, <1>2, FreshTyped, GuardTypes, ApproachConstants
     DEF Approach!Restores, Approach!GuardRestores, DeadlineInv, GuardFits, OwnClock
<1>7. ~mode.guarded => guard' = guard
  BY <1>1
<1>8. GuardFits'
  BY <1>1, <1>2, <1>6, <1>7 DEF DeadlineInv, GuardFits
<1>9. mode.guarded /\ Underway(fleet', run'.phase, arr') => guard'.holds > 0
  BY <1>1, <1>2, <1>4, <1>6 DEF DeadlineInv, UnderwayFits
<1>10. UnderwayFits'
  BY <1>1, <1>4, <1>5, <1>9 DEF DeadlineInv, UnderwayFits
<1>11. TransitionFits'
  <2> SUFFICES ASSUME seam # None
               PROVE  /\ seam.guard.holds <= guard'.holds
                      /\ ~seam.used =>
                           /\ Underway(fleet', run'.phase, arr') => seam.guard.holds < guard'.holds
                           /\ store # None /\ Approach!Accepted(store.arrival) # None => seam.guard.holds < guard'.holds
    BY <1>1 DEF TransitionFits
  <2>1. mode.guarded
    BY GuardTypes DEF PolicyInv
  <2>2. seam.guard.holds = 0 /\ store.guard.holds \in Nat
    BY <1>1, <1>6, <2>1, GuardTypes DEF DeadlineInv, TransitionFits
  <2>3. ~seam.used => Approach!Accepted(store.arrival) = None
    BY <1>1, <1>6, <2>1, <2>2 DEF DeadlineInv, TransitionFits
  <2> QED
    BY <1>6, <1>9, <2>1, <2>2, <2>3
<1> QED
  BY <1>2, <1>8, <1>10, <1>11 DEF DeadlineInv

LEMMA CrossesFit ==
  ASSUME MissionInv, PolicyInv, DeadlineInv, Approach!StartTransition
  PROVE  DeadlineInv' /\ (store # None => Approach!Accepted(store.arrival) = None)
<1> DEFINE s == seam.source
<1>1. /\ seam # None /\ ~seam.used /\ Approach!GuardMetadata(guard) = seam.guard
      /\ seam' = [seam EXCEPT !.used = TRUE]
      /\ Approach!TakesOver(s, TRUE, Approach!ArrivalRuntime(Held(s.rec), Approach!ExactClock(seam.guard), TRUE),
           [Approach!FromCheckpoint(s) EXCEPT !.seams = Append(@, <<Held(s.rec), Approach!ExactClock(seam.guard)>>)])
      /\ point' = "plan" /\ UNCHANGED <<mode, guard, store>>
  BY DEF Approach!StartTransition, Approach!Begins, Held
<1>2. seam \in Approach!Transitions /\ s \in Approach!Results /\ HistoriesFit(s.rec) /\ ProposalsFit(s.rec)
      /\ seam.guard \in Approach!Guards /\ guard \in Approach!Guards
  BY <1>1 DEF MissionInv, Approach!TypeOK, Approach!Transitions, EarnedInv, SavedFits, ProposalsInv
<1>3. seam'.source = s /\ seam'.guard = seam.guard /\ seam'.used = TRUE /\ seam' # None
  <2>1. seam' \in Approach!Transitions
    BY <1>1, <1>2 DEF Approach!Transitions
  <2> QED
    BY <1>1, <1>2, <2>1, ApproachConstants DEF Approach!Transitions
<1>4. guard.end = seam.guard.end /\ guard.holds = seam.guard.holds
  BY <1>1, <1>2, MetadataIs
<1>5. Held(s.rec) \in Nat /\ Approach!ExactClock(seam.guard) \in Nat
  BY <1>2, ResultParts, HeldTyped, ClockTyped DEF HistoriesFit
<1>6. fleet' = s.fleet /\ Approach!Accepted(arr') = None
  <2>1. PICK rt : rt = Approach!ArrivalRuntime(Held(s.rec), Approach!ExactClock(seam.guard), TRUE)
    OBVIOUS
  <2>2. rt.commitment = None
    BY <1>5, <2>1, NewRuntime
  <2>3. arr' = rt /\ fleet' = s.fleet
    BY <1>1, <2>1 DEF Approach!TakesOver
  <2> QED
    BY <2>2, <2>3 DEF Approach!Accepted
<1>7. run'.phase = LastSample(s.rec)
  BY <1>1, <1>2, TakenRun DEF LastSample
<1>8. LastSample(rec') = LastSample(s.rec)
  <2>1. PICK t : t = Approach!FromCheckpoint(s)
    OBVIOUS
  <2>2. t \in Approach!Records /\ t.samples = s.rec.samples
    BY <1>2, <2>1, TakenRecord
  <2>3. PICK pair : pair = <<Held(s.rec), Approach!ExactClock(seam.guard)>>
    OBVIOUS
  <2>4. rec' = [t EXCEPT !.seams = Append(@, pair)] /\ pair \in Nat \X Nat
    BY <1>1, <1>5, <2>1, <2>3 DEF Approach!TakesOver
  <2>5. rec'.samples = t.samples
    BY <2>2, <2>4, CrossedRecord
  <2> QED
    BY <2>2, <2>5 DEF LastSample
<1>9. GuardFits'
  BY <1>1, <1>3, <1>4, <1>6 DEF DeadlineInv, GuardFits
<1>10. Underway(fleet', run'.phase, arr') => guard'.holds > 0
  BY <1>1, <1>4, <1>6, <1>7 DEF DeadlineInv, UnderwayFits, Underway, Approach!Accepted
<1>11. UnderwayFits'
  BY <1>1, <1>3, <1>7, <1>8, <1>10 DEF DeadlineInv, UnderwayFits
<1>12. TransitionFits'
  BY <1>1, <1>3, <1>4, GuardTypes DEF TransitionFits
<1>13. store # None => Approach!Accepted(store.arrival) = None
  BY <1>1, <1>4, GuardTypes DEF DeadlineInv, TransitionFits
<1> QED
  BY <1>9, <1>11, <1>12, <1>13 DEF DeadlineInv

LEMMA EndsFit ==
  ASSUME MissionInv, PolicyInv, DeadlineInv, Approach!Finish \/ Approach!LoseRun
  PROVE  DeadlineInv'
<1>1. point # "idle" /\ point' = "idle" /\ UNCHANGED <<mode, guard, seam>>
  BY DEF Approach!Finish, Approach!LoseRun, Approach!Ended, Approach!scenario
<1>2. CASE Approach!LoseRun
  <2>1. store' = store
    BY <1>2 DEF Approach!LoseRun
  <2> QED
    BY <1>1, <2>1 DEF DeadlineInv, GuardFits, UnderwayFits, TransitionFits
<1>3. CASE Approach!Finish
  <2>1. PICK s : s = Approach!Result
    OBVIOUS
  <2>2. store' = s /\ point = "finish"
    BY <1>3, <2>1 DEF Approach!Finish
  <2>3. /\ s.rec = rec /\ s.fleet = fleet /\ s.mode = mode /\ s.arrival = arr
        /\ s.guard.end = guard.end /\ s.guard.holds = guard.holds
    BY <2>1, ResultIs, MetadataIs DEF MissionInv, Approach!TypeOK
  <2>4. GuardFits'
    BY <1>1, <2>2, <2>3 DEF DeadlineInv, GuardFits, OwnClock
  <2>5. Underway(fleet, LastSample(rec), arr) => Underway(fleet, run.phase, arr)
    BY <1>1 DEF DeadlineInv, UnderwayFits, Underway
  <2>6. UnderwayFits'
    BY <1>1, <2>2, <2>3, <2>5 DEF DeadlineInv, UnderwayFits
  <2>7. Approach!Accepted(arr) # None => Underway(fleet, run.phase, arr)
    BY DEF Underway
  <2>8. TransitionFits'
    BY <1>1, <2>2, <2>3, <2>7 DEF DeadlineInv, TransitionFits
  <2> QED
    BY <2>4, <2>6, <2>8 DEF DeadlineInv
<1> QED
  BY <1>2, <1>3

LEMMA DeadlineInvKept ==
  ASSUME MissionInv, PolicyInv, DeadlineInv, Approach!Next
  PROVE  DeadlineInv'
<1>1. CASE Inside
  BY <1>1, GuardFitsInside, UnderwayInside DEF DeadlineInv
<1> QED
  BY <1>1, ScenarioFits, PreparesFit, FreshRunFits, ResumedFits, CrossesFit, EndsFit DEF Inside, Approach!Next

LEMMA DeadlineStep ==
  ASSUME MissionInv, PolicyInv, DeadlineInv, Approach!Next
  PROVE  /\ (point # "idle" /\ point' # "idle" /\ Approach!Accepted(arr) # None)
              => Approach!Accepted(arr') = Approach!Accepted(arr)
         /\ (store' # store) => Approach!Accepted(store'.arrival) = Approach!Accepted(arr)
         /\ (point = "idle" /\ point' # "idle" /\ run'.offset > 0 /\ store # None
               /\ Approach!Accepted(store.arrival) # None)
              => Approach!Accepted(arr') = Approach!Accepted(store.arrival)
<1>1. CASE Inside
  BY <1>1, InsideIs, AcceptedKept
<1>2. CASE Approach!NewScenario \/ Approach!PrepareTransition
  BY <1>2, OutsideRun
<1>3. CASE Approach!StartFresh
  <2>1. point = "idle" /\ store' = store /\ run'.offset = 0
    BY <1>3, IdleRun DEF Approach!StartFresh, Approach!Begins
  <2> QED
    BY <2>1
<1>4. CASE Approach!StartResume
  <2>1. point = "idle" /\ store' = store
    BY <1>4 DEF Approach!StartResume, Approach!Begins
  <2> QED
    BY <1>4, <2>1, ResumedFits
<1>5. CASE Approach!StartTransition
  <2>1. point = "idle" /\ store' = store
    BY <1>5 DEF Approach!StartTransition, Approach!Begins
  <2> QED
    BY <1>5, <2>1, CrossesFit
<1>6. CASE Approach!Finish
  <2>1. point # "idle" /\ point' = "idle" /\ store' = Approach!Result
    BY <1>6 DEF Approach!Finish, Approach!Ended
  <2>2. Approach!Result.arrival = arr
    BY ResultIs DEF MissionInv
  <2> QED
    BY <2>1, <2>2
<1>7. CASE Approach!LoseRun
  <2>1. point # "idle" /\ point' = "idle" /\ store' = store
    BY <1>7 DEF Approach!LoseRun, Approach!Ended
  <2> QED
    BY <2>1
<1> QED
  BY <1>1, <1>2, <1>3, <1>4, <1>5, <1>6, <1>7 DEF Inside, Approach!Next

LEMMA DeadlineBegins == Approach!Init => DeadlineInv
<1> SUFFICES ASSUME Approach!Init PROVE DeadlineInv
  OBVIOUS
<1>1. guard = Approach!FreshGuard /\ seam = None /\ store = None /\ point = "idle"
  BY DEF Approach!Init
<1> QED
  BY <1>1, FreshTyped DEF DeadlineInv, GuardFits, UnderwayFits, TransitionFits, OwnClock

LEMMA DeadlineStutters ==
  ASSUME DeadlineInv, UNCHANGED mission
  PROVE  DeadlineInv'
<1>1. UNCHANGED <<mode, guard, seam, store, point, run, fleet, rec, arr>>
  BY DEF mission
<1> QED
  BY <1>1 DEF DeadlineInv, GuardFits, UnderwayFits, TransitionFits, OwnClock, Underway, LastSample

LEMMA DeadlineHolds == RecordsSpec => [](MissionInv /\ PolicyInv /\ DeadlineInv)
<1> DEFINE All == MissionInv /\ PolicyInv /\ DeadlineInv
<1>1. RecordsInit => All
  BY MissionBegins, DeadlineBegins DEF RecordsInit
<1>2. All /\ [RecordsNext]_<<part, loop, archive, study, mission>> => All'
  BY RecordsMissionStep, MissionKept, MissionStutters, DeadlineInvKept, DeadlineStutters
<1> HIDE DEF All
<1>3. RecordsSpec => []All
  BY <1>1, <1>2, PTL DEF RecordsSpec
<1> QED
  BY <1>3 DEF All

LEMMA DeadlinesFixed == RecordsSpec => Approach!DeadlineIsFixed
<1> DEFINE All == MissionInv /\ PolicyInv /\ DeadlineInv
<1> DEFINE Fixed == /\ (point # "idle" /\ point' # "idle" /\ Approach!Accepted(arr) # None)
                         => Approach!Accepted(arr') = Approach!Accepted(arr)
                    /\ (store' # store) => Approach!Accepted(store'.arrival) = Approach!Accepted(arr)
                    /\ (point = "idle" /\ point' # "idle" /\ run'.offset > 0 /\ store # None
                          /\ Approach!Accepted(store.arrival) # None)
                         => Approach!Accepted(arr') = Approach!Accepted(store.arrival)
<1>1. All /\ [RecordsNext]_<<part, loop, archive, study, mission>> => [Fixed]_(Approach!vars)
  <2> SUFFICES ASSUME All, [RecordsNext]_<<part, loop, archive, study, mission>>
               PROVE  [Fixed]_(Approach!vars)
    OBVIOUS
  <2>1. CASE Approach!Next
    <3>1. Fixed
      BY <2>1, DeadlineStep
    <3> QED
      BY <3>1
  <2>2. CASE UNCHANGED mission
    <3>1. UNCHANGED Approach!vars
      BY <2>2 DEF mission, Approach!vars, Approach!scenario, Approach!mission
    <3> QED
      BY <3>1
  <2> QED
    BY <2>1, <2>2, RecordsMissionStep
<1> HIDE DEF All
<1>2. RecordsSpec => []All
  BY DeadlineHolds DEF All
<1> QED
  BY <1>1, <1>2, PTL DEF RecordsSpec, Approach!DeadlineIsFixed

\* A missed deadline stays missed, and an accepted one never moves.
THEOREM DeadlinesStay == RecordsSpec => DeadlinesAreFinal
<1>1. RecordsInit => Inv
  BY InitInv DEF RecordsInit
<1>2. [RecordsNext]_<<part, loop, archive, study, mission>> => [Next]_vars
  BY DEF RecordsNext, RunLoop, KeepArchive, RunArm, RunApproach, Stop, loop
<1>3. Inv /\ [Next]_vars => [MissKept]_vars
  BY MissIsKept
<1>4. RecordsSpec => MissIsFinal
  BY <1>1, <1>2, <1>3, NextInv, PTL DEF RecordsSpec, MissIsFinal, MissKept
<1> QED
  BY <1>4, DeadlinesFixed DEF DeadlinesAreFinal
==============================================================================
