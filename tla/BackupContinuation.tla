------------------------- MODULE BackupContinuation -------------------------
(***************************************************************************)
(* Admission and execution of a finite held-input backup                   *)
(* (control/fallback/continuation.py).  A chain of holds is certified up   *)
(* to the terminal set before it is entered; at every hold a proposed      *)
(* input replaces the stored one only when its own flow is proved safe and *)
(* ends inside the entry box of the next stored hold.                      *)
(*                                                                         *)
(* One axis on integers: a box is the set of the integers in it, and the   *)
(* empty set stands for a box that is not given.  The plant doubles its    *)
(* state in a tick, so that a backup is needed; only even values are       *)
(* executable, which is what binary rounding does to exact input boxes.    *)
(***************************************************************************)
EXTENDS Integers, Sequences, FiniteSetsExt

CONSTANTS EntryStates,     \* boxes of the state when a backup is asked for
          BackupControls,  \* sequences of [width, input, entry]
          ReferenceClocks, \* the clock of the terminal reference sample
          ScopeEnds,       \* where the terminal proof ends
          PerformanceInputs, InputLimits, TerminalBox,
          FreeSpace(_),    \* the free positions during the i-th hold
          SensorError, PlantDisturbance

\* An IntervalBox is never empty.
IsBox(states) == states \subseteq Int /\ \E lower, upper \in states : states = lower..upper

ContinuationAssumption ==
  /\ SensorError \in Nat /\ PlantDisturbance \in Nat
  /\ ReferenceClocks \subseteq Nat /\ ScopeEnds \subseteq Nat
  /\ IsBox(InputLimits) /\ \A box \in EntryStates : IsBox(box)
  /\ BackupControls \subseteq Seq([width : Nat \ {0}, input : SUBSET Int, entry : SUBSET Int]) \ {<<>>}
  /\ \A c \in BackupControls : \A i \in DOMAIN c :
       IsBox(c[i].input) /\ (c[i].entry # {} => IsBox(c[i].entry))

VARIABLES backup,      \* what is asked for, and the certificate
          supervisor,  \* the index, the belief and the pending decision
          checker,     \* flows the geometry service cleared lately
          craft        \* the actual position and clock, and what it flew through
continuationVars == <<backup, supervisor, checker, craft>>

-----------------------------------------------------------------------------
BoxHull(states) == Min(states)..Max(states)

Reached(states, input) ==
  BoxHull({2 * x + u + d : x \in states, u \in input, d \in {-PlantDisturbance, PlantDisturbance}})

\* The trusted flow of one hold: its boxes at the ticks.
HeldFlow(entry, input, width) ==
  LET box[i \in 0..width] == IF i = 0 THEN entry ELSE Reached(box[i - 1], input)
  IN  [i \in 1..width + 1 |-> box[i - 1]]

Endpoint(flow) == flow[Len(flow)]
Swept(flow) == BoxHull(UNION {flow[i] : i \in DOMAIN flow})

\* _binary_command
Executable(input) ==
  LET middle == (Min(input) + Max(input)) \div 2 IN (middle - (middle % 2)) \in input

\* A flow is known by its boxes and by the clock it begins at.
Fingerprint(start, flow) == [start |-> start, flow |-> flow]

\* What the geometry service answers for a flow: its verdict on that flow, or a
\* certificate of another flow it cleared.
GeometryAnswers(i, start, flow) ==
  {[admissible |-> Swept(flow) \subseteq FreeSpace(i), of |-> Fingerprint(start, flow)]}
    \cup {[admissible |-> TRUE, of |-> f] : f \in checker}

\* Mutant: any admissible certificate clears the hold.
ClearsAnything(answer, start, flow) == answer.admissible

Clears(answer, start, flow) == answer.admissible /\ answer.of = Fingerprint(start, flow)

-----------------------------------------------------------------------------
(* ContinuationBuilder.certify                                             *)

EntryOf(control, current) == IF control.entry = {} THEN current ELSE control.entry

EndClock(stage) == stage.start + stage.width

\* A hold that begins at a clock, entered from a box of states.
BackupStage(start, current, control) ==
  LET entry == EntryOf(control, current)
  IN  [start |-> start, entry |-> entry, input |-> control.input, width |-> control.width,
       joined |-> current \subseteq entry, flow |-> HeldFlow(entry, control.input, control.width)]

\* The chain, as far as it holds.
Stages(initial, controls) ==
  LET stage[i \in 1..Len(controls)] ==
        IF i = 1 THEN BackupStage(0, initial, controls[1])
        ELSE BackupStage(EndClock(stage[i - 1]), Endpoint(stage[i - 1].flow), controls[i])
  IN  stage

\* A certificate names the entry box of every hold.
StoredControls(controls, stages) ==
  [i \in DOMAIN stages |-> [controls[i] EXCEPT !.entry = stages[i].entry]]

StageProved(i, stage) ==
  /\ stage.joined
  /\ stage.input \subseteq InputLimits /\ Executable(stage.input)
  /\ Swept(stage.flow) \subseteq FreeSpace(i)

\* Mutant: the last successor need not lie in the terminal set.
AdmissibleAnywhere(stages, reference, scope) ==
  /\ \A i \in DOMAIN stages : StageProved(i, stages[i])
  /\ reference = EndClock(stages[Len(stages)]) /\ reference + 1 <= scope

Admissible(stages, reference, scope) ==
  /\ \A i \in DOMAIN stages : StageProved(i, stages[i])
  /\ reference = EndClock(stages[Len(stages)])
  /\ Endpoint(stages[Len(stages)].flow) \subseteq TerminalBox
  /\ reference + 1 <= scope

-----------------------------------------------------------------------------
NoDecision == [source |-> "none", input |-> {}, flow |-> <<>>]

ContinuationInit ==
  /\ backup \in [initial : EntryStates, controls : BackupControls, reference : ReferenceClocks,
                 scope : ScopeEnds, stages : {<<>>}]
  /\ supervisor = [state |-> "offered", index |-> 1, belief |-> {}, pending |-> NoDecision]
  /\ checker = {}
  /\ craft \in {[x |-> x, q |-> 0, flown |-> FALSE, clear |-> TRUE] : x \in backup.initial}

\* The chain is certified, and again from its own entry boxes: the status of a
\* certificate that comes from a file is not read.
Supervise ==
  /\ supervisor.state = "offered"
  /\ LET first == Stages(backup.initial, backup.controls)
         stages == Stages(first[1].entry, StoredControls(backup.controls, first))
         admitted == /\ first[1].joined
                     /\ Admissible(stages, backup.reference, backup.scope)
     IN  IF admitted
         THEN /\ backup' = [backup EXCEPT !.stages = stages]
              /\ supervisor' = [supervisor EXCEPT !.state = "running", !.belief = stages[1].entry]
              /\ checker' = {Fingerprint(stages[i].start, stages[i].flow) : i \in DOMAIN stages}
         ELSE /\ supervisor' = [supervisor EXCEPT !.state = "refused"]
              /\ UNCHANGED <<backup, checker>>
  /\ UNCHANGED craft

Finished == supervisor.index > Len(backup.stages)

\* Where the state must be after the i-th hold.
NextAdmissible(box, i) ==
  IF i < Len(backup.stages) THEN box \subseteq backup.stages[i + 1].entry
  ELSE box \subseteq TerminalBox

\* Mutant: a proposal needs a safe flow and no successor.
ProvesSafety(input, flow, answer, i) ==
  /\ input \subseteq InputLimits /\ Executable(input)
  /\ Clears(answer, backup.stages[i].start, flow)

ProvesSuccessor(input, flow, answer, i) ==
  /\ input \subseteq InputLimits /\ Executable(input)
  /\ Clears(answer, backup.stages[i].start, flow)
  /\ NextAdmissible(Endpoint(flow), i)

Decidable ==
  /\ supervisor.state = "running" /\ ~Finished /\ supervisor.pending = NoDecision
  /\ supervisor.belief \subseteq backup.stages[supervisor.index].entry

\* No proposal, or one whose proof fails, is not given or raises.
DecideBackup ==
  /\ Decidable
  /\ LET stage == backup.stages[supervisor.index]
     IN  supervisor' = [supervisor EXCEPT
           !.pending = [source |-> "backup", input |-> stage.input, flow |-> stage.flow]]
  /\ UNCHANGED <<backup, checker, craft>>

DecidePerformance(input) ==
  /\ Decidable
  /\ LET i == supervisor.index
         stage == backup.stages[i]
         flow == HeldFlow(supervisor.belief, input, stage.width)
     IN  \E answer \in GeometryAnswers(i, stage.start, flow) :
           /\ ProvesSuccessor(input, flow, answer, i)
           /\ supervisor' = [supervisor EXCEPT
                !.pending = [source |-> "performance", input |-> input, flow |-> flow]]
           /\ checker' = IF answer.of = Fingerprint(stage.start, flow) THEN {answer.of} ELSE checker
  /\ UNCHANGED <<backup, craft>>

\* The places at the ticks of a hold.
Places(from, u, d, width) ==
  LET x[i \in 0..width] == IF i = 0 THEN from ELSE 2 * x[i - 1] + u + d[i]
  IN  x

\* The hold: any input of the decided box, any disturbance in every tick.
FlyHold ==
  /\ supervisor.pending # NoDecision /\ ~craft.flown
  /\ \E u \in supervisor.pending.input :
       LET width == backup.stages[supervisor.index].width
           ticks == [1..width -> {-PlantDisturbance, 0, PlantDisturbance}]
       IN  \E d \in ticks :
             LET x == Places(craft.x, u, d, width)
             IN  craft' = [x |-> x[width], q |-> craft.q + width, flown |-> TRUE,
                           clear |-> /\ craft.clear
                                     /\ \A i \in 0..width : x[i] \in FreeSpace(supervisor.index)]
  /\ UNCHANGED <<backup, supervisor, checker>>

\* The proved endpoint, cut with an observation when there is one; an observation
\* that contradicts it is refused and the decision stays pending.
Advance ==
  /\ craft.flown
  /\ LET predicted == Endpoint(supervisor.pending.flow)
         seen == {x - SensorError..x + SensorError :
                    x \in craft.x - SensorError..craft.x + SensorError}
     IN  \E successor \in {predicted} \cup {predicted \cap box : box \in seen} :
           /\ NextAdmissible(successor, supervisor.index)
           /\ supervisor' = [supervisor EXCEPT !.belief = successor, !.index = @ + 1,
                                               !.pending = NoDecision]
  /\ craft' = [craft EXCEPT !.flown = FALSE]
  /\ UNCHANGED <<backup, checker>>

\* terminal_handoff: the tracking controller takes over.
HandOff ==
  /\ supervisor.state = "running" /\ Finished
  /\ supervisor.belief \subseteq TerminalBox
  /\ supervisor' = [supervisor EXCEPT !.state = "handed"]
  /\ UNCHANGED <<backup, checker, craft>>

ContinuationNext ==
  \/ Supervise \/ DecideBackup \/ FlyHold \/ Advance \/ HandOff
  \/ \E input \in PerformanceInputs : DecidePerformance(input)

ContinuationSpec == ContinuationInit /\ [][ContinuationNext]_continuationVars

-----------------------------------------------------------------------------
\* While a backup runs the actual state is, at the end of every hold, where the
\* next stored hold is proved or, after the last, in the terminal set, whatever
\* mix of stored and proposed inputs was flown; the belief holds the actual state;
\* nothing flown met an obstacle; and the terminal controller takes over at the
\* clock of its reference and before its scope ends.
BackupIsAlwaysThere ==
  /\ craft.clear
  /\ (supervisor.state = "running") =>
       LET next == supervisor.index + (IF craft.flown THEN 1 ELSE 0)
       IN  /\ craft.x \in (IF next <= Len(backup.stages) THEN backup.stages[next].entry
                           ELSE TerminalBox)
           /\ ~craft.flown => craft.x \in supervisor.belief
  /\ (supervisor.state = "handed") =>
       craft.x \in TerminalBox /\ craft.q = backup.reference /\ craft.q < backup.scope

=============================================================================
