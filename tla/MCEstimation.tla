---------------------------- MODULE MCEstimation ----------------------------
(***************************************************************************)
(* What the mission believes (navigation, observation, identification,     *)
(* adaptation), the rolling mission that plans on it, and the allocation   *)
(* of tasks before it.  These components share no state: `part` is the one *)
(* that is explored, the variables of the others are absent.               *)
(***************************************************************************)
EXTENDS Integers, Sequences, TLC, Functions

VARIABLES part,
          filter, plant, packets,                                   \* NavigationFilter
          observer, sensed, vehicle,                                \* RelativeObserver
          ledger, snapshots, cuts, support, motion,                 \* IntegralIdentification
          mode, estimator, box, point, window, pc, update, substep,
          consistent, disturbed,                                    \* RecordedAdaptation
          rolling, problem, adaptor,                                \* RollingMission
          policy, neighbors, start, goal, assignment, prices, winners  \* TaskAllocation

-----------------------------------------------------------------------------
(* One craft and a target that may turn, two packets over three ticks; the  *)
(* observer has up to two packets over four ticks of holds of one or two    *)
(* ticks, of which two are retained.                                        *)

CONSTANTS HistoryLength, HoldWidths, DriftBound,
          NavigationInputs, NavigationClock, NavigationPackets, TargetDrift, AngularBound,
          AngularAccelerations, RangeNoise, GnssNoise, PoseNoise, RateNoise, ConditionSlack,
          SensingHorizon, ObserverInputs, ObserverClock, ObserverPackets, SensorNoise

N == INSTANCE NavigationFilter WITH
       HeldInputs <- NavigationInputs, LastClock <- NavigationClock, LastPacket <- NavigationPackets
O == INSTANCE RelativeObserver WITH
       HeldInputs <- ObserverInputs, LastClock <- ObserverClock, LastPacket <- ObserverPackets

(* Three holds, up to four snapshots and one row.                           *)

CONSTANTS Prior, TrueParameters, Excitation, Commands, MomentError, PositionNoise, LastHold,
          MaximumRows, Cells, Objectives, Weights

Theta(drag, gain, bias) == [drag |-> drag, gain |-> gain, bias |-> bias]
PriorCell == Theta(<<0, 2>>, <<1, 2>>, <<-1, 1>>)
TwoParameters == {Theta(2, 1, 0), Theta(0, 2, 1)}
ExcitationRange == <<0, 2>>
TwoCells == {PriorCell, Theta(<<1, 2>>, <<1, 1>>, <<0, 1>>)}
TwoObjectives == {Theta(0, 0, 0), Theta(1, -1, 1)}
TwoWeights == {<<0, 1>>, <<1, 2>>}

I == INSTANCE IntegralIdentification WITH ErrorBound <- MomentError

(* A coefficient of 3 in a prior of 0..6, windows of two transitions.       *)

CONSTANTS Truth, Top, Excitations, Gusts, Substeps, Window, Used, Period, MaxBoxes,
          MeasurementError, Domain, Threshold, ErrorBound, MinimumWidth, Estimators, Modes, RecordedUpdates

R == INSTANCE RecordedAdaptation WITH MaxUpdates <- RecordedUpdates

(* Two free parameters; the first adaptation misses an input, later ones do *)
(* not.                                                                     *)

CONSTANTS FreeParameters, Grades, InitialRanges, PlanSteps, ActSteps, MissionSteps, DataRange,
          AdaptationRange, GuessLength

TwoRanges == {[p \in FreeParameters |-> <<1, 2>>], [p \in FreeParameters |-> <<1 + p, 2>>]}

M == INSTANCE RollingMission WITH Free <- FreeParameters

(* Three agents on a line, all start orders and all at one place, one       *)
(* nearest neighbour or a radius of two.  The auction stops at the bound on *)
(* prices.                                                                  *)

CONSTANTS LastAgent, Layouts, TaskAt, Policies, Nearest, Radius, Noise, Prices

LayoutsOnALine == {layout \in [0..2 -> {0, 1, 3}] : IsInjective(layout)} \cup {[agent \in 0..2 |-> 0]}
ThreeTasks == (0 :> 1) @@ (1 :> 4) @@ (2 :> 2)
PricesUpToFour == -1..4

A == INSTANCE TaskAllocation

ASSUME EstimationInstances ==
  /\ N!NavigationAssumption /\ O!ObserverAssumption /\ I!IdentificationAssumption
  /\ R!RecordedAssumption /\ M!RollingAssumption /\ A!AllocationAssumption

-----------------------------------------------------------------------------
Absent == "absent"

navigation == <<filter, plant, packets>>
observation == <<observer, sensed, vehicle>>
identification == <<ledger, snapshots, cuts, support, motion>>
adaptation == <<mode, estimator, box, point, window, pc, update, substep, consistent, disturbed>>
rollingMission == <<rolling, problem, adaptor>>
allocation == <<policy, neighbors, start, goal, assignment, prices, winners>>
estimationVars == <<part, navigation, observation, identification, adaptation, rollingMission, allocation>>

EstimationInit ==
  /\ part \in {"navigation", "observation", "identification", "adaptation", "rolling", "allocation"}
  /\ IF part = "navigation" THEN N!NavigationInit ELSE filter = Absent /\ plant = Absent /\ packets = Absent
  /\ IF part = "observation" THEN O!ObserverInit ELSE observer = Absent /\ sensed = Absent /\ vehicle = Absent
  /\ IF part = "identification" THEN I!IdentificationInit
     ELSE ledger = Absent /\ snapshots = Absent /\ cuts = Absent /\ support = Absent /\ motion = Absent
  /\ IF part = "adaptation" THEN R!Init
     ELSE /\ mode = Absent /\ estimator = Absent /\ box = Absent /\ point = Absent /\ window = Absent
          /\ pc = Absent /\ update = Absent /\ substep = Absent /\ consistent = Absent /\ disturbed = Absent
  /\ IF part = "rolling" THEN M!RollingInit ELSE rolling = Absent /\ problem = Absent /\ adaptor = Absent
  /\ IF part = "allocation" THEN A!Init
     ELSE /\ policy = Absent /\ neighbors = Absent /\ start = Absent /\ goal = Absent
          /\ assignment = Absent /\ prices = Absent /\ winners = Absent

Navigate ==
  /\ part = "navigation" /\ N!NavigationNext
  /\ UNCHANGED <<part, observation, identification, adaptation, rollingMission, allocation>>

Observe ==
  /\ part = "observation" /\ O!ObserverNext
  /\ UNCHANGED <<part, navigation, identification, adaptation, rollingMission, allocation>>

Identify ==
  /\ part = "identification" /\ I!IdentificationNext
  /\ UNCHANGED <<part, navigation, observation, adaptation, rollingMission, allocation>>

Adapt ==
  /\ part = "adaptation" /\ R!Next
  /\ UNCHANGED <<part, navigation, observation, identification, rollingMission, allocation>>

RunMission ==
  /\ part = "rolling" /\ M!RollingNext
  /\ UNCHANGED <<part, navigation, observation, identification, adaptation, allocation>>

Allocate ==
  /\ part = "allocation" /\ A!Next
  /\ UNCHANGED <<part, navigation, observation, identification, adaptation, rollingMission>>

EstimationNext == Navigate \/ Observe \/ Identify \/ Adapt \/ RunMission \/ Allocate

EstimationSpec ==
  EstimationInit /\ [][EstimationNext]_estimationVars

-----------------------------------------------------------------------------
\* NavigationFilter: the estimate contains the craft and the target, however
\* late a packet is applied (filter.py, target_pose.py).
NavigationKeepsTheTruth == part = "navigation" => N!NavigationKeepsTheTruth

\* RelativeObserver: so does the observer of the online executor, and no hold
\* outlasts its sensing (observation.py).
ObserverKeepsTheState ==
  part = "observation" => O!ObserverKeepsTheState /\ O!SensingCoversEveryHold

\* IntegralIdentification: no certificate excludes the actual parameters
\* (integral.py).
SupportsHoldTheTruth == part = "identification" => I!SupportsHoldTheTruth

\* RecordedAdaptation: the belief keeps the coefficient while the plant follows
\* the model (mission.py, interval.py).
ModelledTruthIsKept == part = "adaptation" => R!ModelledTruthIsKept

\* RollingMission: plans start where the fleet is, the data window matches the
\* controls, and the ranges keep what fits (controller.py, batch.py).
RollingPlansFit == part = "rolling" => M!PlansAndWindowsAlign /\ M!RangesKeepTheFeasible

\* TaskAllocation: no task is lost or doubled (allocation/).
EveryTaskKeepsItsAgent == part = "allocation" => A!EveryTaskKeepsItsAgent /\ A!RestIsAssignment
=============================================================================
