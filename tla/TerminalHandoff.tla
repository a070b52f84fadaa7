---------------------------- MODULE TerminalHandoff ----------------------------
(***************************************************************************)
(* From an approach record and a terminal execution to a propellant budget *)
(* (simulation/approach/terminal/handoff.py, completion/accounting/held.py *)
(* and completion/coordinator.py).  The completer loads the approach, the  *)
(* handoff reads both files again and reproves every hold, the accountant  *)
(* is bound to the files as they are, and the budget debits the holds of   *)
(* both stages from files that may have been replaced since.               *)
(*                                                                         *)
(* A file is known by its contents; a later approach run has more holds,   *)
(* so a replaced file never gets its old contents back.                    *)
(***************************************************************************)
EXTENDS TerminalExecution

CONSTANTS Entries,   \* the boxes an approach may end in
          MaxHolds,  \* bound on the holds of an approach
          MaxRuns    \* bound on terminal runs

ASSUME HandoffAssumption == Entries \subseteq Boxes /\ MaxHolds \in Nat /\ MaxRuns \in Nat

VARIABLES
  approach,  \* the saved approach record
  guarded,   \* the guard journal beside it: [holds, box]
  runs,      \* terminal runs so far
  stage,     \* program point of the completer
  loaded,    \* the approach it loaded
  handoff,   \* its handoff: being read, then verified
  bound,     \* the accountant's binding, or Nothing
  ledger     \* the debited holds: <<start, end>>

completer == <<stage, loaded, handoff, bound, ledger>>
files == <<approach, guarded, runs>>
vars == <<terminal, files, completer>>

Away == /\ stage = "idle" /\ loaded = Nothing /\ handoff = Nothing /\ bound = Nothing /\ ledger = <<>>

\* The journal may hold a row of an earlier run that was lost.
Init ==
  /\ exe = Nothing /\ journal \in {<<>>, <<Nothing>>} /\ result = Nothing /\ runs = 0
  /\ guarded \in [holds : {1}, box : Entries]
  /\ approach \in [end : {1}, state : guarded.box, box : {guarded.box}, complete : BOOLEAN]
  /\ Away

-----------------------------------------------------------------------------
(* The producers                                                           *)

\* Another approach run writes its guard journal, and saves its record at the
\* end, if it gets there.  (Not within a terminal run, which has read the
\* record it continues.)
WriteGuardJournal ==
  /\ exe = Nothing /\ guarded.holds < MaxHolds
  /\ \E box \in Entries : guarded' = [holds |-> guarded.holds + 1, box |-> box]
  /\ UNCHANGED <<terminal, approach, runs, completer>>

SaveApproach ==
  /\ exe = Nothing /\ approach.end < guarded.holds
  /\ approach' \in [end : {guarded.holds}, state : guarded.box, box : {guarded.box}, complete : BOOLEAN]
  /\ UNCHANGED <<terminal, guarded, runs, completer>>

StartExecution ==
  /\ runs < MaxRuns /\ runs' = runs + 1
  /\ StartTerminal(approach)
  /\ UNCHANGED <<approach, guarded, completer>>

Execute == TerminalNext /\ UNCHANGED <<files, completer>>

-----------------------------------------------------------------------------
(* PhysicalTerminalHandoff.from_files                                      *)

Kept == UNCHANGED <<terminal, files>>

LoadApproach ==
  /\ stage = "idle" /\ result # Nothing
  /\ stage' = "read" /\ loaded' = approach
  /\ UNCHANGED <<handoff, bound, ledger>> /\ Kept

\* Every hold follows the one before it, and its witnesses reproduce.
HoldsReproduce(e) ==
  \A i \in 1..Len(e.records) :
    LET hold == e.records[i]
        previous == IF i = 1 THEN e.first ELSE e.records[i - 1].endpoint
    IN  /\ hold.executed /\ hold.stage = i - 1
        /\ hold.start = e.clocks[i] /\ hold.width = e.clocks[i + 1] - e.clocks[i]
        /\ hold.state = e.path[i + 1]
        /\ i = 1 => hold.seen = e.first
        /\ e.path[i] \in hold.seen /\ hold.seen \subseteq previous /\ Robust(hold.seen)
        /\ e.path[i + 1] \in hold.endpoint

\* The record continues exactly this approach, from its endpoint and its box.
SameEntry(a, e) ==
  /\ e.source = a
  /\ e.clocks[1] = a.end /\ e.path[1] = a.state /\ e.first \subseteq a.box

\* _from_files, up to the journal.
Verified(a, e) ==
  LET n == Len(e.clocks)
  IN  /\ a.complete /\ e.status = Complete
      /\ SameEntry(a, e)
      /\ e.seenAt = e.clocks[n] /\ e.clocks[n] = e.clocks[1] + Window
      /\ Len(e.records) = n - 1 /\ Len(e.path) = n
      /\ Robust(e.first) /\ HoldsReproduce(e)
      /\ e.path[n] \in e.seen /\ e.seen \subseteq e.records[n - 1].endpoint /\ Robust(e.seen)

Leave ==
  /\ stage' = "idle" /\ loaded' = Nothing /\ handoff' = Nothing /\ bound' = Nothing /\ ledger' = <<>>

\* Both files are read, then every proof is done again.
ReadHandoff ==
  /\ stage = "read"
  /\ IF Verified(approach, result)
     THEN /\ stage' = "journal" /\ handoff' = [approach |-> approach, exe |-> result]
          /\ UNCHANGED <<loaded, bound, ledger>>
     ELSE Leave
  /\ Kept

\* The journal beside the result must be the records of the execution.
CheckJournal ==
  /\ stage = "journal"
  /\ IF journal = handoff.exe.records
     THEN stage' = "verified" /\ UNCHANGED <<loaded, handoff, bound, ledger>>
     ELSE Leave
  /\ Kept

-----------------------------------------------------------------------------
(* CompleteMissionRunner.complete                                          *)

\* HeldInputPropellantAccountant.from_files: the identities of the files now.
BindAccountant ==
  /\ stage = "verified" /\ bound = Nothing
  /\ bound' = [approach |-> approach, guarded |-> guarded]
  /\ UNCHANGED <<stage, loaded, handoff, ledger>> /\ Kept

\* complete() goes on only with a handoff of the approach it is given;
\* everything it refuses ends the completion.
BeginCompletion ==
  /\ stage = "verified"
  /\ IF handoff.approach = loaded
     THEN stage' = "budget" /\ UNCHANGED <<loaded, handoff, bound, ledger>>
     ELSE Leave
  /\ Kept

\* _authenticate
Authentic == bound.approach = loaded /\ approach = bound.approach /\ guarded = bound.guarded

Steps(from, n) == [i \in 1..n |-> <<from + i - 1, from + i>>]

\* Without an accountant the debit is one interval: the handoff's own history.
BudgetFromHistory ==
  /\ stage = "budget" /\ bound = Nothing
  /\ stage' = "done"
  /\ ledger' = <<<<0, Last(handoff.exe.clocks)>>>>
  /\ UNCHANGED <<loaded, handoff, bound>> /\ Kept

\* The guard journal is replayed: contiguous, as long as the record says, and
\* ending in the record's box.
DebitApproach ==
  /\ stage = "budget" /\ bound # Nothing
  /\ IF Authentic
     THEN stage' = "replay" /\ UNCHANGED <<loaded, handoff, bound, ledger>>
     ELSE Leave
  /\ Kept

ReplayJournal ==
  /\ stage = "replay"
  /\ IF guarded.holds = loaded.end /\ guarded.box = loaded.box
     THEN stage' = "tail" /\ ledger' = Steps(0, guarded.holds) /\ UNCHANGED <<loaded, handoff, bound>>
     ELSE Leave
  /\ Kept

\* Mutant: the file is read again without its identity.
AnyTail(e) == e.status = Complete

\* _verified_terminal_holds: the execution file is still the verified one.
SameTail(e) == e = handoff.exe

TailHolds(e) == [i \in 1..Len(e.records) |->
              <<e.records[i].start, e.records[i].start + e.records[i].width>>]

DebitTail ==
  /\ stage = "tail"
  /\ IF SameTail(result)
     THEN stage' = "again" /\ ledger' = ledger \o TailHolds(result) /\ UNCHANGED <<loaded, handoff, bound>>
     ELSE Leave
  /\ Kept

AuthenticateAgain ==
  /\ stage = "again"
  /\ IF Authentic THEN stage' = "done" /\ UNCHANGED <<loaded, handoff, bound, ledger>> ELSE Leave
  /\ Kept

\* The completion raises, or ends.
EndCompletion ==
  /\ stage # "idle"
  /\ Leave /\ Kept

CompleteStep == LoadApproach \/ ReadHandoff \/ CheckJournal \/ BindAccountant \/ BeginCompletion
             \/ BudgetFromHistory \/ DebitApproach \/ ReplayJournal \/ DebitTail
             \/ AuthenticateAgain \/ EndCompletion

Next == WriteGuardJournal \/ SaveApproach \/ StartExecution \/ Execute \/ CompleteStep

Spec == Init /\ [][Next]_vars

-----------------------------------------------------------------------------
(* Properties                                                              *)

\* Over a whole run the plant moves only from a box that held it, that lay in
\* the terminal set and that the flow before it had proved; only the last
\* record may be a refusal, and the histories and records stay in step.
MovesAreProved(e) ==
  LET n == Cardinality({i \in 1..Len(e.records) : e.records[i].executed})
  IN  /\ Len(e.path) = n + 1 /\ Len(e.clocks) = n + 1 /\ Len(e.records) <= n + 1
      /\ \A i \in 1..n :
           LET hold == e.records[i]
           IN  /\ hold.executed /\ Robust(hold.seen) /\ e.path[i] \in hold.seen
               /\ i > 1 => hold.seen \subseteq e.records[i - 1].endpoint
               /\ i < n => hold.state \in hold.endpoint
               /\ <<hold.start, hold.start + hold.width>> = <<e.clocks[i], e.clocks[i + 1]>>

EveryMoveIsProved == exe # Nothing => MovesAreProved(exe)

\* What the runner calls completed is what the handoff accepts: a run over its
\* whole window, from the endpoint and in the box of a complete approach, is
\* never refused for its holds, its clocks or its last observation
\* (docs/terminal-handoff.md).
CompletedRunsVerify ==
  (result # Nothing /\ result.status = Complete /\ result.source.complete
     /\ SameEntry(result.source, result)
     /\ Last(result.clocks) = result.clocks[1] + Window)
    => Verified(result.source, result)

\* A budget debits one unbroken history: every hold of the approach that is
\* completed, then every hold of the one execution that continues it, whatever
\* was written to the files meanwhile.
BudgetCoversBothStages ==
  stage = "done" =>
    /\ ledger[1][1] = 0 /\ Last(ledger)[2] = Last(handoff.exe.clocks)
    /\ \A i \in 1..(Len(ledger) - 1) : ledger[i][2] = ledger[i + 1][1]
    /\ handoff.approach = loaded /\ handoff.exe.source = loaded
    /\ bound # Nothing => Len(ledger) = loaded.end + Len(handoff.exe.records)

\* Dividing what is left evenly never leaves a tail that is too short to be
\* tried: of a hold no shorter than min_step, only a failed inclusion takes a
\* substep below it (reachability.py:479-481).
TailsAreUsable ==
  (exe # Nothing /\ exe.flow # Nothing /\ Unfinished(exe.flow, exe.hold) /\ ~exe.flow.halved
     /\ Leq(MinStep, Whole(exe.hold)))
    => Leq(MinStep, exe.flow.width)

\* The terminal stage moves the fleet only as proved, in usable substeps.
TerminalMovesAreProved == EveryMoveIsProved /\ TailsAreUsable

\* What the terminal stage leaves behind is accepted and accounted as a whole.
HandoffIsWhole == CompletedRunsVerify /\ BudgetCoversBothStages

=============================================================================
