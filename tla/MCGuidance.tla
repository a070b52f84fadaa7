----------------------------- MODULE MCGuidance -----------------------------
(***************************************************************************)
(* The geometric and dynamic certificates that planning relies on, and the *)
(* tracking that carries them out.  These components share no state:       *)
(* `part` is the one that is explored, the variables of the others are     *)
(* absent.                                                                 *)
(***************************************************************************)
EXTENDS Integers, Sequences, FiniteSets, SequencesExt

VARIABLES part,
          hold, flow, certified, verdict, flight,               \* HoldProofs
          service, sourceFile, savedHold, heldFlow, orbit,      \* OrbitalHolds
          tracker, motion,                                      \* SampledTracking
          backup, supervisor, checker, craft,                   \* BackupContinuation
          request, separation, flown,                           \* FleetGeometry
          plan, schedule, staged,                               \* StagedDeployment
          body, flownHolds, tracking                            \* AttitudeTracking

-----------------------------------------------------------------------------
(* Two chasers on a line with a target of a bus and a panel, one hold of    *)
(* four ticks in one or two Picard steps.                                   *)

Box(lo, hi) == [lo |-> lo, hi |-> hi]

H == INSTANCE HoldProofs WITH
       HoldWidth <- 4, LargestStep <- 4, SmallestStep <- 2, SubstepBudget <- 2,
       Disturbance <- 1, RegionLimit <- 50, PoseError <- 1, BodyRates <- Box(-1, -1),
       Parts <- {[lo |-> -1, hi |-> 1, lever |-> 0], [lo |-> 1, hi |-> 2, lever |-> 1]},
       OtherParts <- {[lo |-> -1, hi |-> 3, lever |-> 2]},
       BodyRadius <- 1, PairDistance <- 3,
       Entries <- {Box(-18, -18), Box(24, 25), Box(36, 37)},
       HeldInputs <- {-1, 0, 1}, Turned <- 12

-----------------------------------------------------------------------------
(* Two contexts, two source versions and two requests, one of them refined  *)
(* from a larger entry, and a third that is refused.                        *)

CONSTANTS Contexts, Coefficient, Requests, Sources

TwoContexts == {[disturbance |-> d, authority |-> 3, domain |-> 3] : d \in 0..1}
ThreeRequests ==
  {[initial |-> Box(0, 1), entry |-> Box(-1, 2), input |-> Box(1, 2),
    delivery |-> 1, start |-> 0, width |-> 2],
   [initial |-> Box(0, 1), entry |-> Box(0, 1), input |-> Box(-1, 0),
    delivery |-> 1, start |-> 1, width |-> 2],
   [initial |-> Box(0, 1), entry |-> Box(0, 1), input |-> Box(3, 3),
    delivery |-> 1, start |-> 0, width |-> 1]}

O == INSTANCE OrbitalHolds

-----------------------------------------------------------------------------
(* Bounds that are admitted, bounds with too large a delivery error, and    *)
(* bounds that would only hold with a current sample or more fuel.          *)

Sound == [L |-> 32, B |-> 32, hold |-> 2, phi |-> 384, omega |-> 12288, slope |-> 1,
          disturbance |-> 1, delivery |-> 1, np |-> 8, nv |-> 1, limit |-> 60,
          acceleration |-> 60, fuelRate |-> 1, fuel |-> 6]

CONSTANTS TrackingSpecs, TrackingScope, Laws

FourSpecs == {Sound, [Sound EXCEPT !.delivery = 13], [Sound EXCEPT !.hold = 4], [Sound EXCEPT !.fuel = 5]}

T == INSTANCE SampledTracking

-----------------------------------------------------------------------------
(* Two holds of one or two ticks; the second hold passes a narrower gap.    *)

CONSTANTS EntryStates, BackupControls, ReferenceClocks, ScopeEnds, PerformanceInputs,
          InputLimits, TerminalBox, FreeSpace(_), SensorError, PlantDisturbance

StoredControls == [width : {1, 2}, input : {{-2}, {0}, {-1}, -1..1, {-8}}, entry : {{}, -2..4}]
Gap(i) == IF i = 1 THEN -8..8 ELSE -6..7

TwoEntries == {0..1, -1..1}
OneOrTwoHolds == {<<c>> : c \in StoredControls} \cup {<<c, d>> : c, d \in StoredControls}
OfferedInputs == {{-4}, {0}, -2..0, {2}}
Limits == -6..6
Terminal == -7..6

B == INSTANCE BackupContinuation

-----------------------------------------------------------------------------
(* Three ticks; flows that stay, cross or approach, and twelve splines.     *)

Steps(ks, values) ==
  {[q \in 0..3 |-> IF q < k THEN a ELSE b] : k \in ks, a \in values, b \in values}
Cubic(a, b) == [i \in 0..3 |-> CASE i = 0 -> a [] i = 1 -> b [] OTHER -> 0]

G == INSTANCE FleetGeometry WITH
       LastTick <- 3, Motions <- Steps({1, 2}, {-6, 0, 6}),
       PartMotions <- {[q \in 0..3 |-> 0], [q \in 0..3 |-> 4 * q]},
       Splines <- [c : {Cubic(a, b) : a \in {-12, 6, 12}, b \in {0, 6}}, knot : {1, 2}, jump : {0, -6}],
       TrackingErrors <- {0, 2}, BoxSlack <- 1, BodyRadius <- 1, Clearance <- 1, CenterDistance <- 3

-----------------------------------------------------------------------------
(* Two craft around a square spacecraft; patches on one, two or four faces. *)

Faces == {<<0, 1>>, <<0, -1>>, <<1, 0>>, <<-1, 0>>}

D == INSTANCE StagedDeployment WITH
       Half <- 1, Padding <- 1, CornerBuffer <- 1, ReleaseClearance <- 2, MinSeparation <- 1,
       TubeRadius <- 1, PitchBuffer <- 1, Standoff <- 2, StagingOffset <- 3,
       PatchSets <- {p \in SUBSET Faces : Cardinality(p) \in {1, 2, 4}},
       CarrierCenter <- <<0, -12>>, TransferDurations <- {0, 2}, Speed <- 5, Acceleration <- 6,
       MinDuration <- 1, PositionTolerance <- 2, Offsets <- {<<0, 0>>, <<0, -2>>},
       flight <- staged

-----------------------------------------------------------------------------
(* Two buses; a target recorded at three uneven nodes and a control period  *)
(* that meets none of the inner ones.                                       *)

CONSTANTS Buses, NodeTimes, NodeAngles, NodeRates, ControlPeriod, TorqueLimit, Stiffness, Damping,
          InstalledFuel, TranslationDebits, MassChange, BusNoise, InitialAngles, MaxAngle, MaxRate

ThreeTimes == <<0, 3, 5>>
ThreeAngles == <<0, 6, 6>>
ThreeRates == <<1, 1, 0>>
ThreeErrors == {-2, 0, 2}
TwoAngles == {-4, 2}

A == INSTANCE AttitudeTracking

ASSUME GuidanceInstances ==
  /\ H!HoldProofAssumption /\ O!OrbitalAssumption /\ T!TrackingAssumption
  /\ B!ContinuationAssumption /\ G!GeometryAssumption /\ D!DeploymentAssumption
  /\ A!AttitudeAssumption

-----------------------------------------------------------------------------
Absent == "absent"

GuidanceInit ==
  /\ part \in {"holds", "orbital", "tracking", "backup", "geometry", "deployment", "attitude"}
  /\ IF part = "holds" THEN H!HoldProofInit
     ELSE hold = Absent /\ flow = Absent /\ certified = Absent /\ verdict = Absent /\ flight = Absent
  /\ IF part = "orbital" THEN O!OrbitalInit
     ELSE service = Absent /\ sourceFile = Absent /\ savedHold = Absent /\ heldFlow = Absent /\ orbit = Absent
  /\ IF part = "tracking" THEN T!TrackingInit ELSE tracker = Absent /\ motion = Absent
  /\ IF part = "backup" THEN B!ContinuationInit
     ELSE backup = Absent /\ supervisor = Absent /\ checker = Absent /\ craft = Absent
  /\ IF part = "geometry" THEN G!GeometryInit ELSE request = Absent /\ separation = Absent /\ flown = Absent
  /\ IF part = "deployment" THEN D!DeploymentInit ELSE plan = Absent /\ schedule = Absent /\ staged = Absent
  /\ IF part = "attitude" THEN A!AttitudeInit ELSE body = Absent /\ flownHolds = Absent /\ tracking = Absent

holds == <<hold, flow, certified, verdict, flight>>
orbital == <<service, sourceFile, savedHold, heldFlow, orbit>>
sampled == <<tracker, motion>>
continuation == <<backup, supervisor, checker, craft>>
geometry == <<request, separation, flown>>
deployment == <<plan, schedule, staged>>
attitude == <<body, flownHolds, tracking>>

ProveHolds ==
  /\ part = "holds" /\ H!HoldProofNext
  /\ UNCHANGED <<part, orbital, sampled, continuation, geometry, deployment, attitude>>

ProveOrbitalHolds ==
  /\ part = "orbital" /\ O!OrbitalNext
  /\ UNCHANGED <<part, holds, sampled, continuation, geometry, deployment, attitude>>

TrackSamples ==
  /\ part = "tracking" /\ T!TrackingNext
  /\ UNCHANGED <<part, holds, orbital, continuation, geometry, deployment, attitude>>

ContinueOnBackup ==
  /\ part = "backup" /\ B!ContinuationNext
  /\ UNCHANGED <<part, holds, orbital, sampled, geometry, deployment, attitude>>

SeparateBodies ==
  /\ part = "geometry" /\ G!GeometryNext
  /\ UNCHANGED <<part, holds, orbital, sampled, continuation, deployment, attitude>>

Deploy ==
  /\ part = "deployment" /\ D!DeploymentNext
  /\ UNCHANGED <<part, holds, orbital, sampled, continuation, geometry, attitude>>

TrackAttitudes ==
  /\ part = "attitude" /\ A!AttitudeNext
  /\ UNCHANGED <<part, holds, orbital, sampled, continuation, geometry, deployment>>

GuidanceNext ==
  \/ ProveHolds \/ ProveOrbitalHolds \/ TrackSamples \/ ContinueOnBackup
  \/ SeparateBodies \/ Deploy \/ TrackAttitudes

GuidanceSpec ==
  GuidanceInit /\ [][GuidanceNext]_<<part, holds, orbital, sampled, continuation, geometry, deployment, attitude>>

-----------------------------------------------------------------------------
\* HoldProofs: a hold the composite guard admits keeps every body clear of
\* the target and of each other (geometry.py, reachability.py), and the
\* inclusions of a point keep the actual attitude.
ProvenHoldsStayClear ==
  part = "holds" => H!ProvenHoldsStayClear /\ H!PointInclusionsKeepTheAttitude

\* OrbitalHolds: a flow a caller relies on, fresh or rebuilt from a file,
\* keeps the motion (orbital.py).
ReliedFlowsKeepTheMotion == part = "orbital" => O!ReliedFlowsKeepTheMotion

\* SampledTracking: an admitted set is invariant under the sampled feedback,
\* and an entered refuge commands to the end of its scope (tracking.py,
\* refuge.py).
AdmittedSetsAreInvariant ==
  part = "tracking" => T!AdmittedSetsAreInvariant /\ T!EnteredRefugesKeepCommanding

\* BackupContinuation: a stored backup is there whenever it is needed
\* (continuation.py).
BackupIsAlwaysThere == part = "backup" => B!BackupIsAlwaysThere

\* FleetGeometry: bodies certified apart stay apart (geometry.py,
\* polynomial.py).
CertifiedBodiesStayApart == part = "geometry" => G!CertifiedBodiesStayApart

\* StagedDeployment: the timed references of the craft stay apart and outside
\* the spacecraft (routes.py, component.py).
ReferencesStayApart == part = "deployment" => D!ReferencesStayApart

\* AttitudeTracking: a returned attitude was flown (physical/attitude.py).
AttitudesAreFlown == part = "attitude" => A!AttitudesAreFlown
=============================================================================
