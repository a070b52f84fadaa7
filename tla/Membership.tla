------------------------------ MODULE Membership ------------------------------
(***************************************************************************)
(* Set membership of the physical parameters (estimation/membership/       *)
(* linked.py and nonlinear.py, driven by estimation/adaptation/            *)
(* nonlinear.py): boxes of the drag parameter are candidates, each with    *)
(* cells of every agent's fixed actuator hypothesis; a window of observed  *)
(* holds prunes what is proven disjoint from the observations, within a    *)
(* budget of flows and of cells.                                           *)
(*                                                                         *)
(* Boxes are integer intervals.  Every state box is written relative to    *)
(* the actual state at its time, so the truth is 0 in all of them; the     *)
(* actual drag and actuators are chosen once.  The target and the relative *)
(* motion drift by the drag parameter, thrust is the actuator times the    *)
(* command, and an unobserved hold moves the actual state by one.          *)
(***************************************************************************)
EXTENDS Integers, Sequences, FiniteSets, SequencesExt

CONSTANTS
  Observers,     \* the declared fleet, in the order of its history
  WindowHolds,   \* observed holds kept per agent
  MaxBoxes,      \* candidates examined in one contraction
  MaxCells,      \* cells kept per candidate and agent
  MaxFlows,      \* flow evaluations, and cell evaluations, per candidate
  Partitions,    \* the candidate boxes of the prior, in order
  Affine,        \* cell of the whole actuator prior
  Support,       \* held-input support of a unit command
  Nothing

Observing == ToSet(Observers)

ASSUME MembershipAssumption ==
  /\ Observers \in Seq(Observing) /\ Partitions \in Seq(Int \X Int)
  /\ Affine \in Int \X Int /\ Support \in Int \X Int
  /\ WindowHolds \in Nat \ {0} /\ MaxBoxes \in Nat \ {0}
  /\ MaxCells \in Nat \ {0} /\ MaxFlows \in Nat \ {0}
  /\ Support[1] >= Affine[1] /\ Support[2] <= Affine[2]

-----------------------------------------------------------------------------
(* Boxes                                                                   *)

Within(value, box) == box[1] <= value /\ value <= box[2]
Larger(a, b) == IF a < b THEN b ELSE a
Smaller(a, b) == IF a < b THEN a ELSE b

\* estimation/navigation/boxes.py intersect
Meet(a, b) == <<Larger(a[1], b[1]), Smaller(a[2], b[2])>>
Empty(box) == box[1] > box[2]
Around(width) == <<-width, width>>
Moved(box, by) == <<box[1] + by, box[2] + by>>
Spread(box, by) == <<box[1] + by[1], box[2] + by[2]>>
Scaled(box, by) == <<box[1] * by, box[2] * by>>

\* SharedAffineActuationCell.split: two closed halves of the widest influential
\* coordinate; without a command the actuator has no influence.  Cells of
\* width one are the finest here.
Halves(cell, holds) ==
  LET middle == (cell[1] + cell[2]) \div 2
  IN  IF cell[2] - cell[1] < 2 \/ \A i \in DOMAIN holds : holds[i].command = 0 THEN <<>>
      ELSE << <<cell[1], middle>>, <<middle, cell[2]>> >>

\* SharedAffineActuationCell.applied_input
Applied(cell, command) == Meet(Scaled(cell, command), Scaled(Support, command))

-----------------------------------------------------------------------------

VARIABLES
  actual,      \* [drag, actuator]: the fixed truth, never read by the estimator
  mode,        \* adaptive or frozen
  policy,      \* linked or independent holds
  history,     \* LinkedObservationWindow: per agent, the observed holds
  pending_transitions,  \* of the independent policy
  candidates,
  active_model,         \* hull of the candidates
  surviving_cells,      \* per candidate and agent
  search                \* the contraction in progress, or Nothing

memberVars == <<actual, mode, policy, history, pending_transitions, candidates,
                active_model, surviving_cells, search>>

Hull(boxes) == << CHOOSE low \in {boxes[i][1] : i \in DOMAIN boxes} :
                    \A i \in DOMAIN boxes : low <= boxes[i][1],
                  CHOOSE high \in {boxes[i][2] : i \in DOMAIN boxes} :
                    \A i \in DOMAIN boxes : boxes[i][2] <= high >>

MemberInit ==
  /\ mode \in {"adaptive", "frozen"} /\ policy \in {"linked", "independent"}
  /\ history = [agent \in Observing |-> <<>>] /\ pending_transitions = <<>>
  /\ candidates = Partitions /\ active_model = Hull(Partitions)
  /\ surviving_cells = <<>> /\ search = Nothing

-----------------------------------------------------------------------------
(* Observed holds                                                          *)

End(hold) == hold.start + 1

\* deque(maxlen): the oldest hold falls out.
Latest(holds, count) == IF Len(holds) > count THEN Tail(holds) ELSE holds

\* LinkedObservationWindow.append: a repeated hold is skipped.
Appended(holds, hold) ==
  IF holds # <<>> /\ hold = Last(holds) THEN holds ELSE Latest(Append(holds, hold), WindowHolds)

\* append() refuses a hold that starts before the last one ended.
Chronological(holds, hold) ==
  holds # <<>> => (hold = Last(holds) \/ hold.start >= End(Last(holds)))

\* retain_transitions: one hold of every agent.
RetainTransitions(holdOf) ==
  IF mode = "frozen" THEN UNCHANGED <<history, pending_transitions>>
  ELSE IF policy = "linked"
  THEN /\ \A agent \in Observing : Chronological(history[agent], holdOf[agent])
       /\ history' = [agent \in Observing |-> Appended(history[agent], holdOf[agent])]
       /\ UNCHANGED pending_transitions
  ELSE /\ pending_transitions' = [i \in DOMAIN Observers |-> holdOf[Observers[i]]]
       /\ UNCHANGED history

-----------------------------------------------------------------------------
(* Flows.  A proven flow encloses the endpoint of every state, input and   *)
(* parameter it was asked for.                                             *)

Drift(model) == Moved(model, -actual.drag)
TargetFlow(initial, model) == Spread(initial, Drift(model))
RelativeFlow(initial, applied, model, agent, command) ==
  Spread(Spread(initial, Drift(model)), Moved(applied, -(actual.actuator[agent] * command)))

\* Mutant: an endpoint is carried over a gap of the observations.
CarriedOverGaps(endpoint, ended, hold) == endpoint # Nothing

\* An endpoint is carried to the next hold only if that starts where it ended.
Carried(endpoint, ended, hold) == endpoint # Nothing /\ ended = hold.start

\* The initial box of a hold, cut by the endpoint carried to it.
Linked(endpoint, ended, hold) ==
  IF Carried(endpoint, ended, hold)
  THEN Meet(Moved(endpoint, ended - hold.start), Around(hold.initial))
  ELSE Around(hold.initial)

-----------------------------------------------------------------------------
(* LinkedNonlinearMembershipContractor.contract                            *)

\* The agents with a history; a hold is retained of all of them at once.
Observed == IF \A agent \in Observing : history[agent] = <<>> THEN <<>> ELSE Observers
Model == candidates[search.index]
Agent == Observed[search.agent]
Holds == history[Agent]
Hold == Holds[search.item]
Key == <<Model, Agent>>

Cells(key) == IF key \in DOMAIN surviving_cells THEN surviving_cells[key] ELSE <<Affine>>

Fresh == [at |-> "candidate", index |-> 1, retained |-> <<>>, agent |-> 1, item |-> 1,
          flows |-> 0, evaluated |-> 0, targets |-> <<>>, endpoint |-> Nothing, ended |-> 0,
          pending |-> <<>>, survivors |-> <<>>, cell |-> Nothing]

\* The next candidate; what was gathered about this one is forgotten.
Onwards(kept) ==
  [Fresh EXCEPT !.index = search.index + 1,
                !.retained = IF kept THEN Append(search.retained, Model) ELSE search.retained]

KeepCandidate == search' = Onwards(TRUE)
RejectCandidate == search' = Onwards(FALSE)

BeginContraction == search = Nothing /\ search' = Fresh

\* Candidates past the budget are retained unexamined.
TakeCandidate ==
  /\ search.at = "candidate" /\ search.index <= Len(candidates)
  /\ IF search.index > MaxBoxes THEN KeepCandidate
     ELSE search' = [search EXCEPT !.at = IF policy = "linked" THEN "agent" ELSE "transition"]
  /\ UNCHANGED surviving_cells

TakeAgent ==
  /\ search.at = "agent"
  /\ IF search.agent > Len(Observed) THEN KeepCandidate
     ELSE search' = [search EXCEPT !.at = "target"]
  /\ UNCHANGED surviving_cells

\* _target_sequence: the target endpoints are linked through the window.  An
\* exhausted budget ends the candidate undecided, with its cells untouched.
LinkTarget(proven) ==
  /\ search.at = "target" /\ search.item <= Len(Holds)
  /\ LET initial == Linked(search.endpoint, search.ended, Hold)
         endpoint == IF ~proven THEN Nothing
                     ELSE Meet(TargetFlow(initial, Model), Around(Hold.observed))
     IN  IF Empty(initial) THEN RejectCandidate
         ELSE IF search.flows >= MaxFlows THEN KeepCandidate
         ELSE IF endpoint # Nothing /\ Empty(endpoint) THEN RejectCandidate
         ELSE search' = [search EXCEPT !.item = @ + 1, !.flows = @ + 1, !.endpoint = endpoint,
                                       !.ended = End(Hold), !.targets = Append(@, proven)]
  /\ UNCHANGED surviving_cells

TargetsLinked ==
  /\ search.at = "target" /\ search.item > Len(Holds)
  /\ search' = [search EXCEPT !.at = "cells", !.pending = Cells(Key), !.endpoint = Nothing,
                              !.item = 1, !.ended = 0]
  /\ UNCHANGED surviving_cells

\* Cells the budget leaves untested survive.
Untested(untested) == untested

\* Either the next cell is evaluated, or the budget retains all the rest.
TakeCell ==
  /\ search.at = "cells" /\ search.pending # <<>>
  /\ IF search.evaluated >= MaxFlows \/ search.flows >= MaxFlows
     THEN search' = [search EXCEPT !.survivors = @ \o Untested(search.pending), !.pending = <<>>]
     ELSE search' = [search EXCEPT !.at = "cell", !.cell = Head(search.pending),
                       !.pending = Tail(@), !.evaluated = @ + 1]
  /\ UNCHANGED surviving_cells

\* The cells again, with nothing left of the one just evaluated.
Remaining == [search EXCEPT !.at = "cells", !.cell = Nothing, !.endpoint = Nothing,
                            !.item = 1, !.ended = 0]

DropCell == search' = Remaining

\* Mutant: room is made for one child only.
RoomForOne == Len(search.survivors) + Len(search.pending) + 1 <= MaxCells

\* Both children of a split cell must fit.
Room == Len(search.survivors) + Len(search.pending) + 2 <= MaxCells

\* A cell that is not rejected is split, if its children fit and the budget
\* can test them, or survives.
KeepCell ==
  LET children == Halves(search.cell, Holds)
  IN  search' = [Remaining EXCEPT
        !.pending = IF children # <<>> /\ Room /\ search.flows < MaxFlows THEN @ \o children ELSE @,
        !.survivors = IF children # <<>> /\ Room /\ search.flows < MaxFlows THEN @
                      ELSE Append(@, search.cell)]

\* _evaluate_cell, one observed hold.
TestCell(proven) ==
  /\ search.at = "cell" /\ search.item <= Len(Holds)
  /\ LET initial == Linked(search.endpoint, search.ended, Hold)
         applied == Applied(search.cell, Hold.command)
         endpoint == IF ~proven THEN Nothing
                     ELSE Meet(RelativeFlow(initial, applied, Model, Agent, Hold.command),
                               Around(Hold.observed))
         next == [search EXCEPT !.item = @ + 1, !.ended = End(Hold)]
     IN  IF Empty(initial) \/ Empty(applied) THEN DropCell
         ELSE IF ~search.targets[search.item] THEN search' = [next EXCEPT !.endpoint = Nothing]
         ELSE IF search.flows >= MaxFlows THEN KeepCell
         ELSE IF endpoint # Nothing /\ Empty(endpoint)
         THEN search' = [Remaining EXCEPT !.flows = @ + 1]
         ELSE search' = [next EXCEPT !.endpoint = endpoint, !.flows = @ + 1]
  /\ UNCHANGED surviving_cells

CellTested ==
  /\ search.at = "cell" /\ search.item > Len(Holds)
  /\ KeepCell
  /\ UNCHANGED surviving_cells

\* The cells of this agent are settled; none left refutes the candidate.
SettleCells ==
  /\ search.at = "cells" /\ search.pending = <<>>
  /\ surviving_cells' = [key \in DOMAIN surviving_cells \cup {Key} |->
                           IF key = Key THEN search.survivors ELSE surviving_cells[key]]
  /\ IF search.survivors = <<>> THEN RejectCandidate
     ELSE search' = [search EXCEPT !.at = "agent", !.agent = @ + 1,
                                   !.targets = <<>>, !.survivors = <<>>]

-----------------------------------------------------------------------------
(* NonlinearMembershipContractor.contract: every transition on its own,    *)
(* with the whole held-input support and no budget of flows.               *)

TestTransition(targetProven, relativeProven) ==
  /\ search.at = "transition"
  /\ IF search.item > Len(pending_transitions) THEN KeepCandidate
     ELSE LET hold == pending_transitions[search.item]
              agent == Observers[search.item]
              disjoint(flow) == Empty(Meet(flow, Around(hold.observed)))
          IN  IF targetProven /\ \/ disjoint(TargetFlow(Around(hold.initial), Model))
                                 \/ /\ relativeProven
                                    /\ disjoint(RelativeFlow(Around(hold.initial),
                                         Scaled(Support, hold.command), Model, agent, hold.command))
              THEN RejectCandidate
              ELSE search' = [search EXCEPT !.item = @ + 1]
  /\ UNCHANGED surviving_cells

-----------------------------------------------------------------------------
(* NonlinearMissionAdaptation.contract                                     *)

\* Cells of discarded candidates are forgotten, whatever the result.
Pruned == [key \in {key \in DOMAIN surviving_cells : key[1] \in ToSet(search.retained)} |->
             surviving_cells[key]]

\* All candidates refuted: the belief stays as it was.
CloseContraction(consistent) ==
  /\ search # Nothing /\ search.at = "candidate" /\ search.index > Len(candidates)
  /\ consistent = (search.retained # <<>>)
  /\ IF consistent
     THEN candidates' = search.retained /\ active_model' = Hull(search.retained)
     ELSE UNCHANGED <<candidates, active_model>>
  /\ surviving_cells' = Pruned
  /\ search' = Nothing

ContractionStep ==
  /\ search # Nothing
  /\ \/ TakeCandidate \/ TakeAgent \/ TargetsLinked \/ TakeCell \/ CellTested \/ SettleCells
     \/ \E proven \in BOOLEAN : LinkTarget(proven) \/ TestCell(proven)
     \/ \E target, relative \in BOOLEAN : TestTransition(target, relative)
  /\ UNCHANGED <<actual, mode, policy, history, pending_transitions, candidates, active_model>>

-----------------------------------------------------------------------------
(* Properties                                                              *)

\* No contraction discards the truth: some candidate contains the actual drag
\* parameter, and among the cells kept for it and any agent one contains that
\* agent's actual actuator -- through unproven flows, exhausted budgets, gaps
\* of the observations, splits, and windows that reuse observations
\* (LinkedNonlinearMembershipContractor, NonlinearMissionAdaptation.contract).
TruthIsRetained ==
  /\ Within(actual.drag, active_model)
  /\ \E i \in DOMAIN candidates :
       /\ Within(actual.drag, candidates[i])
       /\ \A agent \in Observing :
            \E j \in DOMAIN Cells(<<candidates[i], agent>>) :
              Within(actual.actuator[agent], Cells(<<candidates[i], agent>>)[j])

\* Splitting never keeps more cells than declared for a candidate and agent,
\* and one candidate never costs more flows or cells than its budget
\* (_FlowBudget and the room asked for before a split).
BudgetsHold ==
  /\ \A key \in DOMAIN surviving_cells : Len(surviving_cells[key]) <= MaxCells
  /\ search # Nothing =>
       /\ search.flows <= MaxFlows /\ search.evaluated <= MaxFlows
       /\ Len(search.survivors) + Len(search.pending)
            + (IF search.cell = Nothing THEN 0 ELSE 1) <= MaxCells

=============================================================================
