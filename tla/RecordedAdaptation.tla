-------------------------- MODULE RecordedAdaptation --------------------------
(***************************************************************************)
(* The parameter belief of the coupled approach (estimation/adaptation/    *)
(* mission.py): a window of recorded transitions contracts a parameter box *)
(* by interval membership, and a local estimator moves the point in it.    *)
(*                                                                         *)
(* One coefficient stands for eccentricity and the two drags. A recorded   *)
(* transition is its excitation and the displacement it showed, which is   *)
(* their product unless a gust outside the model acted. Optimisers may     *)
(* answer anything inside the box they are given, or fail.                 *)
(***************************************************************************)
EXTENDS Integers, Sequences, SequencesExt, FiniteSets

CONSTANTS
  Truth, Top,          \* the coefficient, and the end of its prior
  Excitations, Gusts,
  Substeps,            \* transitions of an update
  Window, Used,        \* window_intervals, and how many the membership reads
  Period,              \* membership_update_period
  MaxBoxes,            \* membership_box_budget
  MeasurementError,    \* membership_error_bound
  Domain,              \* displacements above it cannot be evaluated
  Threshold, ErrorBound, MinimumWidth,
  Estimators,          \* "smid", or "injected": some other PointEstimator
  Modes,               \* "adaptive", "frozen"
  MaxUpdates

Values == 0..Top

RecordedAssumption ==
  /\ Top \in Nat /\ Truth \in Values /\ Domain \in Nat
  /\ Excitations \subseteq Nat /\ Gusts \subseteq Int /\ 0 \in Gusts
  /\ Substeps \in Nat \ {0} /\ Window \in Nat \ {0} /\ Used \in Nat \ {0}
  /\ Period \in Nat \ {0} /\ MaxBoxes \in Nat /\ MeasurementError \in Nat
  /\ Threshold \in Nat /\ ErrorBound \in Nat /\ MinimumWidth \in Nat
  /\ Estimators \subseteq {"smid", "injected"} /\ Modes \subseteq {"adaptive", "frozen"}
  /\ MaxUpdates \in Nat

VARIABLES
  mode, estimator,
  box, point,        \* ParameterBelief
  window,            \* states and controls, as transitions
  pc, update,        \* the mission loop around it
  substep,
  consistent,
  disturbed          \* a gust has acted

adaptationVars == <<mode, estimator, box, point, window, pc, update, substep, consistent, disturbed>>

Least(a, b) == IF a < b THEN a ELSE b
Most(a, b) == IF a < b THEN b ELSE a
Clip(value, range) == Least(Most(value, range[1]), range[2])
Inside(value, range) == range[1] <= value /\ value <= range[2]
Size(value) == IF value < 0 THEN -value ELSE value

\* ParameterBelief.__post_init__
ValidBelief(range, value) == 0 <= range[1] /\ range[1] <= range[2] /\ Inside(value, range)

\* from_config_prior: a point of the prior which is not the plant's.
Init ==
  /\ mode \in Modes /\ estimator \in Estimators
  /\ box = <<0, Top>> /\ point \in Values
  /\ window = <<>> /\ pc = "EXECUTE" /\ update = 0 /\ substep = 0
  /\ consistent = TRUE /\ disturbed = FALSE

-----------------------------------------------------------------------------
(* Interval membership                                                     *)

\* The recorded step carries a whole box of initial states and coefficients.
Predicted(range, transition) ==
  <<transition.excitation * range[1] - MeasurementError,
    transition.excitation * range[2] + MeasurementError>>

Observation(transition) ==
  <<transition.displacement - MeasurementError, transition.displacement + MeasurementError>>

\* _box_consistent, which the first transition that is not consistent ends.
BoxConsistent(range, transitions) ==
  FoldLeft(LAMBDA verdict, transition :
             IF verdict # "CONSISTENT" THEN verdict
             ELSE IF transition.excitation * range[2] > Domain THEN "UNRESOLVED"
             ELSE IF Predicted(range, transition)[2] < Observation(transition)[1]
                     \/ Observation(transition)[2] < Predicted(range, transition)[1]
             THEN "EXCLUDED" ELSE "CONSISTENT",
           "CONSISTENT", transitions)

\* The first box is kept, cut in two or dropped.
Processed(work, transitions) ==
  IF work.queue = <<>> THEN work ELSE
  LET range == Head(work.queue)
      middle == (range[1] + range[2]) \div 2
      rest == Tail(work.queue)
      verdict == BoxConsistent(range, transitions)
  IN  IF verdict = "UNRESOLVED" THEN [queue |-> rest, retained |-> work.retained \cup {range}]
      ELSE IF verdict = "EXCLUDED" THEN [work EXCEPT !.queue = rest]
      ELSE IF range[1] < middle /\ middle < range[2]
      THEN [work EXCEPT !.queue = rest \o <<<<range[1], middle>>, <<middle, range[2]>>>>]
      ELSE [queue |-> rest, retained |-> work.retained \cup {range}]

\* Mutant: what the budget left in the queue is forgotten.
SurvivorsEvaluated(transitions) ==
  LET work[n \in 0..MaxBoxes] ==
        IF n = 0 THEN [queue |-> <<box>>, retained |-> {}] ELSE Processed(work[n - 1], transitions)
  IN  work[MaxBoxes].retained

\* Every box that was kept or never looked at counts.
Survivors(transitions) ==
  LET work[n \in 0..MaxBoxes] ==
        IF n = 0 THEN [queue |-> <<box>>, retained |-> {}] ELSE Processed(work[n - 1], transitions)
  IN  work[MaxBoxes].retained \cup ToSet(work[MaxBoxes].queue)

Hull(ranges) ==
  <<CHOOSE low \in {range[1] : range \in ranges} : \A range \in ranges : low <= range[1],
    CHOOSE high \in {range[2] : range \in ranges} : \A range \in ranges : range[2] <= high>>

Latest(transitions, count) ==
  SubSeq(transitions, Most(1, Len(transitions) - count + 1), Len(transitions))

\* contract_parameter_box never returns an empty box.
Contracted ==
  LET kept == Survivors(Latest(window, Used))
  IN  IF kept = {} THEN [box |-> box, consistent |-> FALSE]
      ELSE [box |-> Hull(kept), consistent |-> TRUE]

MembershipRead ==
  IF update % Period = 0 THEN Contracted ELSE [box |-> box, consistent |-> TRUE]

-----------------------------------------------------------------------------
(* The point estimate                                                      *)

\* The state predicted through the whole window, against the last recorded.
PredictionError(value) ==
  Size(FoldLeft(LAMBDA error, transition : error + transition.displacement - transition.excitation * value,
                0, window))

\* The largest one-step residual stands for their root mean square.
FitError(value) ==
  FoldLeft(LAMBDA error, transition : Most(error, Size(transition.displacement - transition.excitation * value)),
           0, window)

PointMetrics(value) == PredictionError(value) <= ErrorBound /\ FitError(value) <= ErrorBound

NoPoint == -1

\* The furthest point towards the refined one that lies in the range.
Blend(previous, refined, range) ==
  LET between == {value \in Values : /\ Inside(value, range)
                                     /\ Inside(value, <<Least(previous, refined), Most(previous, refined)>>)}
  IN  IF between = {} THEN NoPoint
      ELSE CHOOSE value \in between :
             \A other \in between : Size(refined - value) <= Size(refined - other)

\* _time_series_estimate: a fit projected onto what the window shows, or a
\* failure; a coefficient the window does not show is held.
Fits(range) ==
  {[ok |-> TRUE, value |-> value, held |-> held] :
      value \in {v \in Values : Inside(v, range)}, held \in BOOLEAN}
  \cup {[ok |-> FALSE, value |-> NoPoint, held |-> FALSE]}

\* solve_parameter_bound: a failed solve answers the bound it was given.
Bounds(range) == {v \in Values : Inside(v, range)}

\* _apply_minimum_widths
Widened(candidate, previous) ==
  LET floor == Least(MinimumWidth, previous[2] - previous[1])
      centre == Clip(candidate[1] + candidate[2], <<2 * previous[1] + floor, 2 * previous[2] - floor>>)
      low == (centre - floor) \div 2
  IN  IF candidate[2] - candidate[1] >= floor THEN candidate ELSE <<low, low + floor>>

Candidate(range, held, low, high) ==
  IF held THEN range
  ELSE IF low > high THEN Widened(range, range)
  ELSE Widened(<<low, high>>, range)

\* The point that is returned is verified, not the witness of a set.
Verified(previous, fit, range) ==
  LET value == Blend(previous, IF fit.ok THEN fit.value ELSE previous, range)
  IN  IF value # NoPoint /\ PointMetrics(value) THEN value ELSE previous

\* SMIDAdaptor.update: the sets and points it may return.
Smid(range, previous) ==
  IF Len(window) < 1 THEN {[box |-> range, point |-> previous]}
  ELSE IF PredictionError(previous) <= Threshold
  THEN {[box |-> range, point |-> Verified(previous, fit, range)] : fit \in Fits(range)}
  ELSE UNION {
    LET candidate == Candidate(range, fit.held, low, high)
        value == Verified(previous, fit, candidate)
        blended == Blend(previous, IF fit.ok THEN fit.value ELSE previous, candidate)
    IN  {[box |-> range, point |-> previous],       \* the set was not verified
         [box |-> IF blended = value /\ PointMetrics(value) THEN candidate ELSE range, point |-> value]} :
    fit \in Fits(range), low \in Bounds(range), high \in Bounds(range)}

Estimates(range, previous) ==
  IF estimator = "smid" THEN Smid(range, previous)
  ELSE {[box |-> <<low, low>>, point |-> value] : low \in Values, value \in Values}

-----------------------------------------------------------------------------
(* The mission loop                                                        *)

\* append_transition, once per committed dense substep.
Execute ==
  /\ pc = "EXECUTE" /\ update < MaxUpdates
  /\ \E excitation \in Excitations, gust \in Gusts :
       /\ window' = Latest(Append(window, [excitation |-> excitation,
                                           displacement |-> Truth * excitation + gust]), Window)
       /\ disturbed' = (disturbed \/ gust # 0)
  /\ substep' = (substep + 1) % Substeps
  /\ pc' = IF substep' = 0 THEN "UPDATE" ELSE "EXECUTE"
  /\ UNCHANGED <<mode, estimator, box, point, update, consistent>>

\* A hold refused part way leaves the window and ends the run: not eligible.
Refuse ==
  /\ pc = "EXECUTE" /\ substep > 0
  /\ pc' = "ENDED" /\ substep' = 0
  /\ UNCHANGED <<mode, estimator, box, point, window, update, consistent, disturbed>>

\* A resumed run starts from the belief and an empty window.
Resume ==
  /\ pc = "ENDED" /\ consistent /\ update < MaxUpdates
  /\ pc' = "EXECUTE" /\ window' = <<>>
  /\ UNCHANGED <<mode, estimator, box, point, update, substep, consistent, disturbed>>

Eligible == mode = "adaptive" /\ Len(window) = Window

\* Mutant: the estimator's set replaces the box.
InstalledEstimate(range, estimate) == estimate.box

\* Whatever set the estimator returns, the box is the membership's.
Installed(range, estimate) == range

SkipUpdate ==
  /\ pc = "UPDATE" /\ ~Eligible
  /\ pc' = "EXECUTE" /\ update' = update + 1
  /\ UNCHANGED <<mode, estimator, box, point, window, substep, consistent, disturbed>>

\* Membership contracts first; an estimate that is no belief is not taken, and
\* ends the run.
Update ==
  /\ pc = "UPDATE" /\ Eligible
  /\ LET read == MembershipRead
         clipped == Clip(point, read.box)
     IN  \E estimate \in Estimates(read.box, clipped) :
           LET valid == ValidBelief(read.box, estimate.point)
           IN  /\ box' = Installed(read.box, estimate)
               /\ point' = IF valid THEN estimate.point ELSE clipped
               /\ consistent' = (read.consistent /\ valid)
  /\ pc' = IF consistent' THEN "EXECUTE" ELSE "ENDED"
  /\ update' = update + 1
  /\ UNCHANGED <<mode, estimator, window, substep, disturbed>>

Next == Execute \/ Refuse \/ Resume \/ SkipUpdate \/ Update

Spec == Init /\ [][Next]_adaptationVars

-----------------------------------------------------------------------------
(* Properties                                                              *)

\* While the plant follows the model no update loses its coefficient, however
\* few boxes were evaluated and whatever the estimator returned
\* (contract_parameter_box, MissionAdaptation.update), and no update calls the
\* records inconsistent.
ModelledTruthIsKept ==
  /\ ~disturbed => Inside(Truth, box)
  /\ ~disturbed /\ estimator = "smid" => consistent
  /\ ValidBelief(box, point)

=============================================================================
