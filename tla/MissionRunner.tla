---------------------------- MODULE MissionRunner -----------------------------
(***************************************************************************)
(* The outer loop of scripts/simulation/nonlinear/runner.py: one update    *)
(* recovers navigation after a blackout, selects the phase, anchors the    *)
(* arrival deadline, keeps or replaces the fallback runtime, plans, lets the*)
(* executor move the fleet by one outer step, adapts, and judges the       *)
(* endpoint against the fixed deadline and the terminal dwell.             *)
(*                                                                         *)
(* verify_nonlinear_arrival (scripts/simulation/completion/nonlinear/      *)
(* boundary.py) walks the saved terminal history again and derives deadline,*)
(* entry, admission and dwell from it, without trusting the verdicts the   *)
(* loop has left there.                                                    *)
(*                                                                         *)
(* The executor is seen through what advance() promises (HoldExecution): it*)
(* commits exactly one outer step or raises, perhaps after part of the     *)
(* motion.  Clocks count outer steps; outer endpoints are numbered from 1, *)
(* endpoint 0 is the start.                                                *)
(***************************************************************************)
EXTENDS Integers, Sequences

CONSTANTS Horizon,   \* prediction nodes of the docking phase
          Dwell,     \* terminal_dwell_updates
          None

\* exact_samples: the clock of an outer endpoint.
Sample(rows, i) == IF i = 0 THEN 0 ELSE rows[i].exact_q

Eligible(rows, u, i) == i > u /\ rows[i].phase = "docking"

\* The whole fleet is within the tolerances at an endpoint after the anchor.
Admissible(rows, u, i) ==
  Eligible(rows, u, i) /\ rows[i].status = "VALID" /\ rows[i].within

\* The dwell saved with an endpoint; each row is compared with the one before.
SavedDwell(rows, i) == IF i = 0 THEN 0 ELSE rows[i].dwell

NextSavedDwell(rows, u, i) ==
  IF Admissible(rows, u, i) THEN SavedDwell(rows, i - 1) + 1 ELSE 0

\* Every row repeats the verdict the verifier derives from its bounds.
RowHolds(rows, u, deadline, i) ==
  /\ rows[i].exact_q > Sample(rows, i - 1)
  /\ rows[i].arrival_deadline = IF i > u THEN deadline ELSE None
  /\ rows[i].judged = Eligible(rows, u, i)
  /\ rows[i].admitted = Admissible(rows, u, i)
  /\ rows[i].dwell = NextSavedDwell(rows, u, i)
  /\ rows[i].exact_q < deadline \/ Admissible(rows, u, i)

\* One anchor, then one timely entry, and nothing else.
EventsHold(events, rows, u, deadline, entry) ==
  /\ events = << [status |-> "ANCHORED", at |-> u],
                 [status |-> "WHOLE_SET_ENTRY", at |-> entry] >>
  /\ deadline = Sample(rows, u) + (Horizon - 1)
  /\ Sample(rows, u) < entry /\ entry <= deadline

\* first = entry: the entry is the first admissible endpoint.
FirstAdmissible(rows, u, entry) ==
  \E i \in 1..Len(rows) :
    /\ rows[i].exact_q = entry /\ Admissible(rows, u, i)
    /\ \A k \in 1..(i - 1) : ~Admissible(rows, u, k)

\* verify_nonlinear_arrival
ArrivalVerified(rows, events, deadline, entry, missed, final_dwell, physical_end) ==
  /\ rows # <<>> /\ deadline # None /\ entry # None /\ ~missed
  /\ physical_end = Sample(rows, Len(rows))
  /\ \E u \in 0..(Len(rows) - 1) :
       /\ EventsHold(events, rows, u, deadline, entry)
       /\ \A i \in 1..Len(rows) : RowHolds(rows, u, deadline, i)
       /\ FirstAdmissible(rows, u, entry)
       /\ SavedDwell(rows, Len(rows)) = final_dwell
  /\ final_dwell >= Dwell

-----------------------------------------------------------------------------
(* The loop                                                                *)

CONSTANTS MaxUpdates,    \* update budget of the run
          ContractEvery  \* cadence of membership contraction (20 in the code)

ASSUME RunnerAssumption ==
  /\ MaxUpdates \in Nat \ {0} /\ Horizon \in Nat \ {0, 1} /\ Dwell \in Nat \ {0}
  /\ ContractEvery \in Nat \ {0}
  /\ None \notin Nat

VARIABLES
  step,             \* program point of the update
  update,           \* loop index
  q,                \* exact clock of the navigation estimate
  tail,             \* physical motion beyond the last sampled outer endpoint
  status,           \* of the navigation estimate
  phase,
  runtime,          \* a fallback runtime is installed in the executor
  absolute_deadline_q, first_terminal_entry_q, arrival_deadline_missed,
  arrival_events, dwell, terminal_records,
  valid, completed,
  failure_events,   \* stages of the recorded failures
  attempts          \* rows of update_wall_timing

arrival == <<absolute_deadline_q, first_terminal_entry_q, arrival_deadline_missed,
             arrival_events, dwell, terminal_records>>
verdict == <<valid, completed, failure_events>>
vars == <<step, update, q, tail, status, phase, runtime, arrival, verdict, attempts>>

Init ==
  /\ step = "recover" /\ update = 0 /\ q = 0 /\ tail = 0
  /\ status = "VALID" /\ phase = "rendezvous" /\ runtime = FALSE
  /\ absolute_deadline_q = None /\ first_terminal_entry_q = None
  /\ arrival_deadline_missed = FALSE /\ arrival_events = <<>>
  /\ dwell = 0 /\ terminal_records = <<>>
  /\ valid = TRUE /\ completed = FALSE /\ failure_events = {} /\ attempts = 0

\* _record_failure: the attempt is timed, the stage retained, the run ends.
RecordFailure(stage) ==
  /\ failure_events' = failure_events \cup {stage}
  /\ valid' = FALSE
  /\ attempts' = attempts + 1
  /\ step' = "finished"
  /\ UNCHANGED completed

-----------------------------------------------------------------------------
(* Before the motion                                                       *)

RecoverNavigation ==
  /\ step = "recover"
  /\ \/ status' = "VALID" /\ step' = "phase" /\ UNCHANGED <<verdict, attempts>>
     \/ /\ status = "BLACKOUT_CONDITIONAL"
        /\ RecordFailure("NAVIGATION_RECOVERY_REFUSED")
        /\ UNCHANGED status
  /\ UNCHANGED <<update, q, tail, phase, runtime, arrival>>

\* The deadline is anchored once, when the whole fleet is near its goals.
Anchors(near) == phase' = "docking" /\ absolute_deadline_q = None /\ near

\* Docking begins when the rendezvous goal is met and never ends.
SelectPhase ==
  /\ step = "phase"
  /\ phase' \in {phase, "docking"}
  /\ \E near \in BOOLEAN :
       IF Anchors(near)
       THEN /\ absolute_deadline_q' = q + (Horizon - 1)
            /\ arrival_events' = Append(arrival_events, [status |-> "ANCHORED", at |-> update])
       ELSE UNCHANGED <<absolute_deadline_q, arrival_events>>
  /\ step' = "refuge"
  /\ UNCHANGED <<update, q, tail, status, runtime, first_terminal_entry_q,
                 arrival_deadline_missed, dwell, terminal_records, verdict, attempts>>

\* The installed runtime is retained, or replaced by a prepared one.  When
\* neither can be had the installed one goes on, and without any the run ends.
Refuge ==
  /\ step = "refuge"
  /\ \/ runtime' = TRUE /\ step' = "advance" /\ UNCHANGED <<verdict, attempts>>
     \/ ~runtime /\ RecordFailure("INITIAL_REFUGE_REFUSED") /\ UNCHANGED runtime
  /\ UNCHANGED <<update, q, tail, status, phase, arrival>>

-----------------------------------------------------------------------------
(* The motion                                                              *)

\* A performance plan or the stored fallback moves the fleet by one outer
\* step; whether planning succeeded changes nothing else in the loop.  A
\* truth outside its enclosures raises, so a returned outcome is a success.
Advance ==
  /\ step = "advance"
  /\ q' = q + 1 /\ tail' = q + 1
  /\ status' \in {"VALID", "BLACKOUT_CONDITIONAL"}
  /\ step' = "record"
  /\ UNCHANGED <<update, phase, runtime, arrival, verdict, attempts>>

\* The executor raised, perhaps after holds that really moved the fleet.
ExecutionRefused ==
  /\ step = "advance"
  /\ RecordFailure("EXECUTION_REFUSED")
  /\ tail' \in {q, q + 1}
  /\ UNCHANGED <<update, q, status, phase, runtime, arrival>>

-----------------------------------------------------------------------------
(* After the motion                                                        *)

\* Every ContractEvery updates the belief is contracted; batches that refute
\* every candidate leave the belief alone and make the run invalid.
Record ==
  /\ step = "record"
  /\ IF update > 0 /\ update % ContractEvery = 0
     THEN valid' \in {valid, FALSE} ELSE UNCHANGED valid
  /\ step' = "terminal"
  /\ UNCHANGED <<update, q, tail, status, phase, runtime, arrival, completed,
                 failure_events, attempts>>

\* An endpoint is admitted in docking, under valid navigation and an anchored
\* deadline only.
MayAdmit == phase = "docking" /\ status = "VALID" /\ absolute_deadline_q # None

\* Mutant: the endpoint on the deadline itself is not looked at.
AfterDeadline == absolute_deadline_q # None /\ q > absolute_deadline_q

AtDeadline == absolute_deadline_q # None /\ q >= absolute_deadline_q

FirstEntry(inside) ==
  IF inside /\ first_terminal_entry_q = None THEN q ELSE first_terminal_entry_q

TimelyEntry(entry) ==
  absolute_deadline_q # None /\ entry # None /\ entry <= absolute_deadline_q

\* record_terminal
NextDwell(admitted) == IF admitted /\ phase = "docking" THEN dwell + 1 ELSE 0

Arrived(timely, missed, count) == timely /\ ~missed /\ count >= Dwell

EntryEvents(inside) ==
  IF inside /\ first_terminal_entry_q = None
  THEN << [status |-> "WHOLE_SET_ENTRY", at |-> q] >> ELSE <<>>

MissEvents(miss) == IF miss THEN << [status |-> "DEADLINE_MISSED", at |-> q] >> ELSE <<>>

TerminalRecord(within, admitted) ==
  [exact_q |-> q, arrival_deadline |-> absolute_deadline_q, phase |-> phase,
   status |-> status, within |-> within, admitted |-> admitted,
   judged |-> phase = "docking" /\ absolute_deadline_q # None,
   dwell |-> NextDwell(admitted)]

\* _terminal: the bounds of the whole fleet are within the tolerances or not.
Terminal ==
  /\ step = "terminal"
  /\ \E within \in BOOLEAN :
       LET inside == MayAdmit /\ within
           entry == FirstEntry(inside)
           timely == TimelyEntry(entry)
           miss == AtDeadline /\ (~inside \/ ~timely)
           missed == arrival_deadline_missed \/ miss
           admitted == inside /\ ~missed
       IN
       /\ first_terminal_entry_q' = entry
       /\ arrival_deadline_missed' = missed
       /\ arrival_events' = arrival_events \o EntryEvents(inside) \o MissEvents(miss)
       /\ dwell' = NextDwell(admitted)
       /\ terminal_records' = Append(terminal_records, TerminalRecord(within, admitted))
       /\ completed' = Arrived(timely, missed, NextDwell(admitted))
       /\ valid' = (valid /\ ~missed)
       /\ failure_events' = failure_events \cup
                            (IF missed THEN {"ARRIVAL_DEADLINE_MISSED"} ELSE {})
  /\ step' = "checkpoint"
  /\ UNCHANGED <<update, q, tail, status, phase, runtime, absolute_deadline_q, attempts>>

\* Mutant: only a completed run stops before its budget.
StopsWhenCompleted == completed \/ update + 1 = MaxUpdates

Stops == completed \/ ~valid \/ update + 1 = MaxUpdates

\* The checkpoint is written, the attempt timed, and the loop goes on.
Checkpoint ==
  /\ step = "checkpoint"
  /\ attempts' = attempts + 1
  /\ IF Stops THEN step' = "finished" /\ UNCHANGED update
              ELSE step' = "recover" /\ update' = update + 1
  /\ UNCHANGED <<q, tail, status, phase, runtime, arrival, verdict>>

\* Recording, adaptation, the sinks and unexpected errors of the planners
\* are not guarded: what they raise leaves run() without a result.
Escape ==
  /\ step \in {"phase", "refuge", "record", "terminal", "checkpoint"}
  /\ step' = "escaped"
  /\ UNCHANGED <<update, q, tail, status, phase, runtime, arrival, verdict, attempts>>

Finished == step \in {"finished", "escaped"} /\ UNCHANGED vars

Next == RecoverNavigation \/ SelectPhase \/ Refuge \/ Advance \/ ExecutionRefused
        \/ Record \/ Terminal \/ Checkpoint \/ Escape \/ Finished

Spec == Init /\ [][Next]_vars

-----------------------------------------------------------------------------
(* Properties                                                              *)

Rows == [exact_q : Nat, arrival_deadline : Nat \cup {None},
         phase : {"rendezvous", "docking"}, status : {"VALID", "BLACKOUT_CONDITIONAL"},
         within : BOOLEAN, admitted : BOOLEAN, judged : BOOLEAN, dwell : Nat]

Events == [status : {"ANCHORED", "WHOLE_SET_ENTRY", "DEADLINE_MISSED"}, at : Nat]

\* Types, and the clocks of the loop: each committed update samples one
\* endpoint, and the plant is never more than one outer step ahead.
TypeOK ==
  /\ step \in {"recover", "phase", "refuge", "advance", "record", "terminal",
               "checkpoint", "finished", "escaped"}
  /\ update \in 0..(MaxUpdates - 1) /\ q \in Nat /\ tail \in Nat
  /\ status \in {"VALID", "BLACKOUT_CONDITIONAL"}
  /\ phase \in {"rendezvous", "docking"} /\ runtime \in BOOLEAN
  /\ absolute_deadline_q \in Nat \cup {None} /\ first_terminal_entry_q \in Nat \cup {None}
  /\ arrival_deadline_missed \in BOOLEAN /\ arrival_events \in Seq(Events)
  /\ dwell \in Nat /\ terminal_records \in Seq(Rows)
  /\ valid \in BOOLEAN /\ completed \in BOOLEAN
  /\ failure_events \subseteq {"NAVIGATION_RECOVERY_REFUSED", "INITIAL_REFUGE_REFUSED",
                               "EXECUTION_REFUSED", "ARRIVAL_DEADLINE_MISSED"}
  /\ attempts \in Nat

Verified == ArrivalVerified(terminal_records, arrival_events, absolute_deadline_q,
                            first_terminal_entry_q, arrival_deadline_missed, dwell, tail)

\* A run that ends valid and completed leaves a history the completion phase
\* accepts when it derives deadline, entry, admission and dwell again, and it
\* accepts the history of no run that the runner has not seen completed.
CompletionAgrees ==
  step = "finished" =>
    /\ valid /\ completed => Verified
    /\ Verified => completed

\* Entry and dwell start only under a deadline that was anchored in the same
\* or an earlier update.
EntryFollowsAnchor ==
  first_terminal_entry_q # None \/ dwell > 0 =>
    /\ absolute_deadline_q # None /\ first_terminal_entry_q # None
    /\ first_terminal_entry_q > absolute_deadline_q - (Horizon - 1)

\* The deadline does not recede and is not switched off after a retreat.
DeadlineNeverRecedes ==
  [][absolute_deadline_q # None =>
       absolute_deadline_q' = absolute_deadline_q /\ phase' = "docking"]_vars

\* After a late entry or a lost dwell the fleet is not moved any more, and
\* the run does not complete.
MissIsFinal == [][arrival_deadline_missed => tail' = tail /\ ~completed']_vars

\* Motion nobody sampled ends the run, which says so.
TailEndsRun ==
  tail # q => step = "finished" /\ ~valid /\ "EXECUTION_REFUSED" \in failure_events

\* Every attempted update is timed once, refused ones included.
EveryAttemptTimed == step = "finished" => attempts = update + 1

=============================================================================
