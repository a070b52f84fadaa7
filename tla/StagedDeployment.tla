-------------------------- MODULE StagedDeployment --------------------------
(***************************************************************************)
(* The staged deployment of a fleet around a spacecraft                    *)
(* (planning/rendezvous/routes.py, carrier.py and simulation/approach/     *)
(* deployment/component.py): a released cluster is matched with attachment *)
(* patches, one route after another is found past the spacecraft and past  *)
(* the craft that stand still, and the references fly those routes in the  *)
(* order of release, after a common transfer with the carrier.             *)
(*                                                                         *)
(* One component, two craft, and the plane of the release direction and    *)
(* its tangent, where segments and distances are exact.  The anomaly is    *)
(* counted in ticks; the target turns by a quarter every tick.  Lengths of *)
(* routes are irrational: any route without a shortcut may be the          *)
(* shortest, and any craft that has one may have the shorter.              *)
(***************************************************************************)
EXTENDS Integers, Sequences, FiniteSets, SequencesExt

CONSTANTS Half, Padding, CornerBuffer,
          ReleaseClearance, MinSeparation, TubeRadius, PitchBuffer,
          Standoff, StagingOffset, PatchSets,
          CarrierCenter, TransferDurations,
          Speed, Acceleration, MinDuration,
          PositionTolerance, Offsets

DeploymentAssumption ==
  /\ {Half, Padding, CornerBuffer, ReleaseClearance, PitchBuffer} \subseteq Nat \ {0}
  /\ Standoff > Padding /\ StagingOffset > Standoff
  /\ (MinSeparation + 2 * TubeRadius + PitchBuffer) % 2 = 0
  /\ {Speed, Acceleration, MinDuration} \subseteq Nat \ {0}

VARIABLES plan,     \* the matching and the routes found so far
          schedule, \* the timed legs of every craft, once all are routed
          flight    \* the anomaly and the phase
deploymentVars == <<plan, schedule, flight>>

Craft == {1, 2}
Origin == <<0, 0>>
Enlarged == Half + Padding
PairRadius == MinSeparation + 2 * TubeRadius

Moved(p, k, v) == <<p[1] + k * v[1], p[2] + k * v[2]>>
Difference(p, q) == Moved(p, -1, q)
Inner(u, v) == u[1] * v[1] + u[2] * v[2]
Size(x) == IF x < 0 THEN -x ELSE x
Corners(center, half) == {<<center[1] + half * i, center[2] + half * j>> : i, j \in {-1, 1}}

\* The released craft stand side by side across the release direction <<0, -1>>.
ReleaseCenter == <<0, -(Enlarged + ReleaseClearance)>>
ClusterOffset(c) == <<((2 * c - 3) * (PairRadius + PitchBuffer)) \div 2, 0>>
ReleasePoint(c) == Moved(ReleaseCenter, 1, ClusterOffset(c))

\* Patches are named by their outward normal.
StagingPoint(patch) == Moved(Origin, Half + StagingOffset, patch)
FinalPoint(patch) == Moved(Origin, Half + Standoff, patch)

(***************************************************************************)
(* Route search.                                                           *)
(***************************************************************************)
\* The segment misses the closed enlarged box: some axis separates them.
SegmentClear(a, b) ==
  LET d == Difference(b, a)
  IN  \/ \E i \in 1..2 : Max({a[i], b[i]}) < -Enlarged \/ Min({a[i], b[i]}) > Enlarged
      \/ Size(d[1] * a[2] - d[2] * a[1]) > Enlarged * (Size(d[1]) + Size(d[2]))

\* segment_point_distance(a, b, p) > pair_radius, without the root.
FarFrom(a, b, p) ==
  LET d == Difference(b, a)
      n == Max({1, Inner(d, d)})
      t == Max({0, Min({n, Inner(Difference(p, a), d)})})
      gap == <<n * (p[1] - a[1]) - t * d[1], n * (p[2] - a[2]) - t * d[2]>>
  IN  Inner(gap, gap) > n * n * PairRadius * PairRadius

FreeLeg(a, b, stationary) == SegmentClear(a, b) /\ \A p \in stationary : FarFrom(a, b, p)

Waypoints == {p \in Corners(Origin, Enlarged + CornerBuffer) : SegmentClear(p, p)}

\* Paths of the visibility graph that no free leg shortens.
ShortestRoutes(start, goal, stationary) ==
  LET nodes == {p \in Waypoints \cup UNION {Corners(s, PairRadius + CornerBuffer) : s \in stationary} :
                  FreeLeg(p, p, stationary)} \ {start, goal}
      inner == UNION {{via \in [1..k -> nodes] : Cardinality({via[i] : i \in 1..k}) = k} : k \in 1..2}
      paths == {<<start>> \o via \o <<goal>> : via \in inner}
  IN  IF ~FreeLeg(start, start, stationary) \/ ~FreeLeg(goal, goal, stationary) THEN {}
      ELSE IF FreeLeg(start, goal, stationary) THEN {<<start, goal>>}
      ELSE {path \in paths : \A i, j \in 1..Len(path) :
              i < j => (FreeLeg(path[i], path[j], stationary) <=> j = i + 1)}

Remaining == {c \in Craft : plan.routes[c].path = <<>>}

\* Mutant: everyone else is thought to stand where it was released.
ReleasedPosition(c) == ReleasePoint(c)

\* Where a craft stands while another one is routed.
Position(c) == IF c \in Remaining THEN ReleasePoint(c) ELSE StagingPoint(plan.patch[c])

RoutesOf(c) == ShortestRoutes(ReleasePoint(c), StagingPoint(plan.patch[c]),
                              {Position(other) : other \in Craft \ {c}})

\* Patches with a clear normal corridor that keep the fleet apart, and a route for each alone.
Matchings(patches) ==
  {match \in [Craft -> {p \in patches : SegmentClear(StagingPoint(p), FinalPoint(p))}] :
     /\ match[1] # match[2]
     /\ \A c \in Craft : ShortestRoutes(ReleasePoint(c), StagingPoint(match[c]), {}) # {}}

FleetApart(match) ==
  /\ FarFrom(FinalPoint(match[1]), FinalPoint(match[1]), FinalPoint(match[2]))
  /\ FarFrom(StagingPoint(match[1]), StagingPoint(match[1]), StagingPoint(match[2]))

(***************************************************************************)
(* Schedule and references.                                                *)
(***************************************************************************)
\* The least whole duration within the limits on speed and acceleration.
LegDuration(a, b) ==
  LET d == Difference(b, a)
      squared == Inner(d, d)
      slow(n) == /\ 64 * (n * Speed) * (n * Speed) >= 225 * squared
                 /\ 3 * (n * n * Acceleration) * (n * n * Acceleration) >= 100 * squared
  IN  CHOOSE n \in MinDuration..10 : slow(n) /\ \A k \in MinDuration..n - 1 : ~slow(k)

\* Mutant: the routes fly in the order of the craft.
InCraftOrder(routes) == SetToSortSeq(Craft, LAMBDA a, b : a < b)

\* Routes are kept by craft; the schedule takes them in the order of their release.
InReleaseOrder(routes) == SetToSortSeq(Craft, LAMBDA a, b : routes[a].order < routes[b].order)

Legs(routes) ==
  LET order == InReleaseOrder(routes)
  IN  FlattenSeq([i \in 1..Len(order) |->
        LET path == routes[order[i]].path
        IN  [k \in 1..Len(path) - 1 |-> [craft |-> order[i], first |-> path[k], last |-> path[k + 1]]]])

ScheduleOf(routes, transfer) ==
  LET legs == Legs(routes)
      duration(i) == LegDuration(legs[i].first, legs[i].last)
      start[i \in 1..Len(legs) + 1] == IF i = 1 THEN transfer ELSE start[i - 1] + duration(i - 1)
  IN  [i \in 1..Len(legs) |-> legs[i] @@ [start |-> start[i], end |-> start[i + 1]]]

StagingAnomaly == schedule[Len(schedule)].end

\* _quintic at tick k of D, as a fraction.
Progress(k, D) ==
  LET n == k * k * k * (10 * D * D - 15 * D * k + 6 * k * k)
      d == D * D * D * D * D
      g == Max({i \in 1..D : n % i = 0 /\ d % i = 0})
  IN  IF k <= 0 THEN <<0, 1>> ELSE IF k >= D THEN <<1, 1>> ELSE <<n \div g, d \div g>>

\* A point is a pair of numerators over one denominator.
At(p) == [at |-> p, over |-> 1]
Between(a, b, s) == [at |-> <<(s[2] - s[1]) * a[1] + s[1] * b[1], (s[2] - s[1]) * a[2] + s[1] * b[2]>>,
                     over |-> s[2]]

BodyPoint(c, q) ==
  LET legs == SelectSeq(schedule, LAMBDA leg : leg.craft = c)
      current == {i \in 1..Len(legs) : q < legs[i].end}
      leg == legs[Min(current)]
  IN  IF q <= legs[1].start THEN At(ReleasePoint(c))
      ELSE IF current # {} THEN Between(leg.first, leg.last, Progress(q - leg.start, leg.end - leg.start))
      ELSE At(StagingPoint(plan.patch[c]))

\* The rotation of the target: a quarter turn every tick.
Turned(q, v) == CASE q % 4 = 0 -> v
                  [] q % 4 = 1 -> <<-v[2], v[1]>>
                  [] q % 4 = 2 -> <<-v[1], -v[2]>>
                  [] q % 4 = 3 -> <<v[2], -v[1]>>

\* The carrier centre moves on a line; the small cluster turns with the target.
CarrierPoint(c, q) ==
  LET s == Progress(q, plan.transfer)
      near == Moved(Origin, s[1], ReleaseCenter)
      local == Turned(q, Moved(near, s[2], ClusterOffset(c)))
  IN  [at |-> Moved(local, s[2] - s[1], CarrierCenter), over |-> s[2]]

Kinematics(c, q) ==
  IF q < plan.transfer THEN CarrierPoint(c, q)
  ELSE LET p == BodyPoint(c, q) IN [p EXCEPT !.at = Turned(q, @)]

PhaseReference(c) ==
  IF flight.phase = "docking" THEN At(Turned(flight.anomaly, FinalPoint(plan.patch[c])))
  ELSE Kinematics(c, flight.anomaly)

(***************************************************************************)
(* The readiness gate.                                                     *)
(***************************************************************************)
Near(offset, radius) ==
  (Size(offset[1]) + radius) * (Size(offset[1]) + radius)
    + (Size(offset[2]) + radius) * (Size(offset[2]) + radius) <= PositionTolerance * PositionTolerance

OutsideBox(p, margin) == \E i \in 1..2 : Size(p[i]) >= Enlarged + margin

Spaced(p, q, gap) == LET d == Difference(p, q) IN Inner(d, d) >= gap * gap

\* staging_margins are all nonnegative: both velocity margins are `slow`.
StagingReady(q, tracks) ==
  LET staged(c) == StagingPoint(plan.patch[c])
      center(c) == Moved(staged(c), 1, tracks[c].center)
      actual(c) == Moved(center(c), 1, tracks[c].error)
  IN  /\ q >= StagingAnomaly
      /\ \A c \in Craft : /\ tracks[c].slow
                          /\ Near(tracks[c].center, TubeRadius)
                          /\ Near(Difference(actual(c), staged(c)), 0)
                          /\ OutsideBox(center(c), 0) /\ OutsideBox(actual(c), 0)
      /\ Spaced(center(1), center(2), MinSeparation + 2 * TubeRadius)
      /\ Spaced(actual(1), actual(2), MinSeparation)

SelectPhase(phase, q, tracks) ==
  CASE phase = "docking" -> phase
    [] phase # "docking" /\ q < plan.transfer -> IF q = 0 THEN "carrier_departure" ELSE "transfer"
    [] phase # "docking" /\ q >= plan.transfer /\ q < StagingAnomaly -> "deployment"
    [] phase # "docking" /\ q >= plan.transfer /\ q >= StagingAnomaly ->
         IF StagingReady(q, tracks) THEN "docking" ELSE "staging"

Tracks == [center : Offsets, error : {e \in Offsets : Inner(e, e) <= TubeRadius * TubeRadius}, slow : BOOLEAN]
OnReference == [c \in Craft |-> [center |-> Origin, error |-> Origin, slow |-> TRUE]]

(***************************************************************************)
(* Construction and flight.                                                *)
(***************************************************************************)
DeploymentInit ==
  /\ plan \in [status : {"matching"}, patches : PatchSets, transfer : TransferDurations,
               patch : {<<>>}, routes : {[c \in Craft |-> [path |-> <<>>, order |-> 0]]}]
  /\ schedule = <<>>
  /\ flight = [anomaly |-> 0, phase |-> "none"]

\* linear_sum_assignment and the separation of what it selected
MatchPatches ==
  /\ plan.status = "matching"
  /\ IF Matchings(plan.patches) = {} THEN plan' = [plan EXCEPT !.status = "refused"]
     ELSE \E match \in Matchings(plan.patches) :
            plan' = IF FleetApart(match) THEN [plan EXCEPT !.status = "routing", !.patch = match]
                    ELSE [plan EXCEPT !.status = "refused"]
  /\ UNCHANGED <<schedule, flight>>

RouteNext ==
  /\ plan.status = "routing" /\ Remaining # {}
  /\ IF \A c \in Remaining : RoutesOf(c) = {} THEN plan' = [plan EXCEPT !.status = "refused"]
     ELSE \E c \in Remaining : \E path \in RoutesOf(c) :
            plan' = [plan EXCEPT !.routes[c] = [path |-> path, order |-> Cardinality(Craft \ Remaining)]]
  /\ UNCHANGED <<schedule, flight>>

StartReferences ==
  /\ plan.status = "routing" /\ Remaining = {}
  /\ plan' = [plan EXCEPT !.status = "flying"]
  /\ schedule' = ScheduleOf(plan.routes, plan.transfer)
  /\ flight' = [flight EXCEPT !.phase = IF plan.transfer > 0 THEN "carrier_departure" ELSE "deployment"]

FlyTick ==
  /\ plan.status = "flying"
  /\ flight.phase # "docking" /\ flight.anomaly < StagingAnomaly + 1
  /\ LET q == flight.anomaly + 1
     IN  \E tracks \in IF q < StagingAnomaly THEN {OnReference} ELSE [Craft -> Tracks] :
           flight' = [anomaly |-> q, phase |-> SelectPhase(flight.phase, q, tracks)]
  /\ UNCHANGED <<plan, schedule>>

DeploymentNext == MatchPatches \/ RouteNext \/ StartReferences \/ FlyTick

DeploymentSpec == DeploymentInit /\ [][DeploymentNext]_deploymentVars

(***************************************************************************)
(* Two references stay more than the pair radius apart from the release    *)
(* to the final points, and from the end of the transfer each one stays    *)
(* outside the enlarged spacecraft, although every route was screened only *)
(* against where the others stood when it was planned                      *)
(* (planning/rendezvous/routes.py:207-225, deployment/component.py:115).   *)
(***************************************************************************)
ReferencesStayApart ==
  plan.status = "flying" =>
    LET one == PhaseReference(1)
        two == PhaseReference(2)
        over == one.over * two.over
        dx == Size(one.at[1] * two.over - two.at[1] * one.over)
        dy == Size(one.at[2] * two.over - two.at[2] * one.over)
    IN  /\ \/ dx > PairRadius * over
           \/ dy > PairRadius * over
           \/ dx * dx + dy * dy > PairRadius * over * PairRadius * over
        /\ flight.anomaly >= plan.transfer =>
             \A c \in Craft : LET r == PhaseReference(c)
                              IN  \E i \in 1..2 : Size(r.at[i]) > Enlarged * r.over
=============================================================================
