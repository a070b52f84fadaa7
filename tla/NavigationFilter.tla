-------------------------- MODULE NavigationFilter --------------------------
(***************************************************************************)
(* The bounded navigation filter (estimation/navigation/filter.py with     *)
(* moments.py, target_pose.py and sensors.py): proved flows carry the      *)
(* boxes of a hold, and range, GNSS and pose packets that arrive late, out *)
(* of order or twice narrow them, at their own event and through every     *)
(* hold since.                                                             *)
(*                                                                         *)
(* One craft and one axis.  Clocks are ticks of one second, positions and  *)
(* angles are counted in half units so that half of an acceleration is an  *)
(* integer, and a division is rounded outwards.  Physical time is known    *)
(* exactly and the flows are the exact images of their boxes.              *)
(***************************************************************************)
EXTENDS Integers, SequencesExt

CONSTANTS HistoryLength, HoldWidths, HeldInputs,
          DriftBound, TargetDrift,   \* disturbance of the craft, per tick of the target
          AngularBound,              \* the declared angular acceleration
          AngularAccelerations,      \* what the target may really do
          RangeNoise, GnssNoise, PoseNoise, RateNoise,
          ConditionSlack,            \* how far below the craft a stored invariant reaches
          LastClock, LastPacket

NavigationAssumption ==
  /\ HistoryLength \in Nat \ {0} /\ HoldWidths \subseteq Nat \ {0}
  /\ {DriftBound, TargetDrift, AngularBound, RangeNoise, GnssNoise, PoseNoise, RateNoise,
      LastClock, LastPacket} \subseteq Nat

VARIABLES filter,  \* the estimate, its history and what it has accepted
          plant,   \* the actual fleet and target
          packets  \* what the sensors made
navigationVars == <<filter, plant, packets>>

Span(lo, hi) == [lo |-> lo, hi |-> hi]
Around(x, r) == Span(x - r, x + r)
Intersect(a, b) == Span(Max({a.lo, b.lo}), Min({a.hi, b.hi}))
IsEmpty(a) == a.lo > a.hi
Holds(a, x) == a.lo <= x /\ x <= a.hi
Padded(a, r) == Span(a.lo - r, a.hi + r)
RoundUp(a, b) == -((-a) \div b)

-----------------------------------------------------------------------------
\* The endpoint of a proved relative flow.
Enclosed(box, a, h) ==
  [p |-> Span(box.p.lo + 2 * h * box.v.lo + h * h * a.lo, box.p.hi + 2 * h * box.v.hi + h * h * a.hi),
   v |-> Span(box.v.lo + h * a.lo, box.v.hi + h * a.hi)]

\* Mutant: the acceleration of the target is left out of the pose error.
PoseWithoutAcceleration(angle, error, rate, h) ==
  [angle |-> angle + (rate.lo + rate.hi) * h, error |-> error + (rate.hi - rate.lo) * h]

\* propagate_pose_estimate: the midpoint rate, and the error it may make.
PropagatedPose(angle, error, rate, h) ==
  [angle |-> angle + (rate.lo + rate.hi) * h,
   error |-> error + (rate.hi - rate.lo) * h + AngularBound * h * h]

\* Mutant: the hold that ends at the event.
HoldEndingAt(q) == {i \in DOMAIN filter.history : filter.history[i].end = q}

\* The hold that starts at the event of a packet.
HoldAt(q) == {i \in DOMAIN filter.history : filter.history[i].start = q}

EarliestClock == IF filter.history = <<>> THEN filter.q ELSE filter.history[1].start

\* The integral of (s - q0) times the acceleration bounds, doubled.
Moment(q0, q1) ==
  FoldFunctionOnSet(
    LAMBDA hold, sum :
      LET lo == Max({q0, hold.start})
          hi == Min({q1, hold.end})
          weight == IF hi <= lo THEN 0 ELSE (hi - q0) * (hi - q0) - (lo - q0) * (lo - q0)
      IN  Span(sum.lo + weight * hold.a.lo, sum.hi + weight * hold.a.hi),
    Span(0, 0), filter.history, DOMAIN filter.history)

\* The velocity at the later of two positions.
BaselineVelocity(acquired, position, sample) ==
  LET d == acquired - sample.q
      m == Moment(sample.q, acquired)
  IN  Span((position.lo - sample.range.hi + m.lo) \div (2 * d),
           RoundUp(position.hi - sample.range.lo + m.hi, 2 * d))

\* The oldest position, the one that was applied first, and those a power of
\* two from the newest.
Baselines(acquired) ==
  LET usable == SelectSeq(filter.positions, LAMBDA s : EarliestClock <= s.q /\ s.q < acquired)
      ranked == {[q |-> usable[i].q, range |-> usable[i].range, i |-> i] : i \in DOMAIN usable}
      later(s) == Cardinality({r \in ranked : r.q > s.q \/ (r.q = s.q /\ r.i >= s.i)})
      power[k \in 0..Len(usable)] == IF k = 0 THEN 1 ELSE 2 * power[k - 1]
  IN  {s \in ranked : \/ later(s) = Len(usable)
                      \/ s.i = 1
                      \/ \E k \in DOMAIN power : later(s) = power[k]}

\* _observation_state
Narrowed(box, acquired, position) ==
  [p |-> Intersect(box.p, position),
   v |-> FoldSet(LAMBDA s, v : Intersect(v, BaselineVelocity(acquired, position, s)),
                 box.v, Baselines(acquired))]

VoidBox(box) == IsEmpty(box.p) \/ IsEmpty(box.v)
IntersectBox(a, b) == [p |-> Intersect(a.p, b.p), v |-> Intersect(a.v, b.v)]

\* The holds from the given one on, through which a value of the past is carried.
HoldsSince(first) == SubSeq(filter.history, first, Len(filter.history))

RelativeImage(box, hold) == Enclosed(box, hold.a, hold.end - hold.start)
TargetImage(range, hold) == Padded(range, (hold.end - hold.start) * TargetDrift)

-----------------------------------------------------------------------------
NavigationInit ==
  /\ plant \in [p : {-2}, v : {1}, t : {0}, angle : {1}, rate : {0}, acceleration : AngularAccelerations]
  /\ filter = [status |-> "VALID", gate |-> FALSE, q |-> 0,
               box |-> [p |-> Span(-2, 2), v |-> Span(-1, 1)], target |-> Span(-1, 1),
               angle |-> 0, error |-> 1, rate |-> Span(-1, 1),
               history |-> <<>>, positions |-> <<>>, accepted |-> {}, dropped |-> {}]
  /\ packets = {}

\* verify_angular_acceleration_bound: an attitude inclusion must not exceed the declared bound.
VerifyAcceleration ==
  /\ filter.status = "VALID" /\ ~filter.gate
  /\ \E proved \in {plant.acceleration, AngularBound} :
       /\ proved >= plant.acceleration
       /\ filter' = IF proved > AngularBound THEN [filter EXCEPT !.status = "INCONSISTENT"]
                    ELSE [filter EXCEPT !.gate = TRUE]
  /\ UNCHANGED <<plant, packets>>

\* condition_on_admitted_fallback: the plan keeps the craft in an invariant of its own.
ConditionOnFallback ==
  /\ filter.status = "VALID" /\ ~filter.gate /\ filter.q > 0
  /\ LET invariant == Span(plant.v - ConditionSlack, plant.v + 1)
     IN  filter' = [filter EXCEPT !.box.v = Intersect(@, invariant)]
  /\ UNCHANGED <<plant, packets>>

Newest(entries) == IF Len(entries) > HistoryLength THEN Tail(entries) ELSE entries

\* predict, over the oldest retained hold
Predicted(width, a) ==
  LET hold == [start |-> filter.q, end |-> filter.q + width, a |-> a, box |-> filter.box, target |-> filter.target]
      pose == PropagatedPose(filter.angle, filter.error, filter.rate, width)
  IN  [filter EXCEPT
        !.gate = FALSE, !.q = @ + width, !.history = Newest(Append(@, hold)),
        !.box = RelativeImage(@, hold), !.target = TargetImage(@, hold),
        !.angle = pose.angle, !.error = pose.error, !.rate = Padded(@, AngularBound * width)]

\* The sensors report one thing of the new state, with its noise.
Reports(q, state) ==
  [kind : {"range_bearing"}, q : {q}, value : {state.p - RangeNoise, state.p + RangeNoise}]
    \cup [kind : {"chaser_gnss"}, q : {q}, value : {state.p + state.t + e : e \in {-GnssNoise, GnssNoise}}]
    \cup [kind : {"target_pose"}, q : {q}, value : {state.angle + e : e \in {-PoseNoise, PoseNoise}},
          rate : {state.rate + e : e \in {-RateNoise, RateNoise}}]

\* One admitted hold: the fleet moves, the sensors sample, and the filter predicts.
CompleteHold(width, input) ==
  /\ filter.status = "VALID" /\ filter.gate /\ filter.q + width <= LastClock
  /\ filter' = Predicted(width, Around(input, DriftBound))
  /\ \E drift \in {-DriftBound, DriftBound}, side \in {-1, 1} :
       LET turn == side * plant.acceleration
           shift == side * TargetDrift
       IN plant' = [plant EXCEPT
                  !.p = @ + 2 * width * plant.v + width * width * (input + drift),
                  !.v = @ + width * (input + drift), !.t = @ + width * shift,
                  !.angle = @ + 2 * width * plant.rate + width * width * turn, !.rate = @ + width * turn]
  /\ \/ UNCHANGED packets
     \/ /\ Cardinality(packets) < LastPacket
        /\ \E report \in Reports(filter.q + width, plant') :
             packets' = packets \cup {[id |-> Cardinality(packets), report |-> report]}

-----------------------------------------------------------------------------
Accepted(packet, estimate) == [estimate EXCEPT !.accepted = @ \cup {packet.id}]
Unresolved(packet) == [filter EXCEPT !.dropped = @ \cup {packet.id}]
Inconsistent == [filter EXCEPT !.status = "INCONSISTENT"]

ConsumeRange(packet) ==
  LET acquired == packet.report.q
      position == Around(packet.report.value, RangeNoise)
      current == Narrowed(filter.box, acquired, position)
      index == Min(HoldAt(acquired))
      observed == Narrowed(filter.history[index].box, acquired, position)
      narrowed == IF acquired = filter.q THEN current
                  ELSE IF VoidBox(observed) THEN observed
                  ELSE IntersectBox(filter.box, FoldLeft(RelativeImage, observed, HoldsSince(index)))
  IN  filter' = IF acquired # filter.q /\ HoldAt(acquired) = {} THEN Unresolved(packet)
                ELSE IF VoidBox(narrowed) THEN Inconsistent
                ELSE Accepted(packet, [filter EXCEPT
                       !.box = narrowed,
                       !.positions = Newest(Append(@, [q |-> acquired, range |-> position]))])

\* infer_target_ephemeris
Inferred(packet, box) ==
  Span(packet.report.value - GnssNoise - box.p.hi, packet.report.value + GnssNoise - box.p.lo)

ConsumeGnss(packet) ==
  LET acquired == packet.report.q
      index == Min(HoldAt(acquired))
      prior == Intersect(Inferred(packet, filter.history[index].box), filter.history[index].target)
      inferred == IF acquired = filter.q THEN Inferred(packet, filter.box)
                  ELSE IF IsEmpty(prior) THEN prior
                  ELSE FoldLeft(TargetImage, prior, HoldsSince(index))
      narrowed == Intersect(filter.target, inferred)
  IN  filter' = IF acquired # filter.q /\ HoldAt(acquired) = {} THEN Unresolved(packet)
                ELSE IF IsEmpty(inferred) \/ IsEmpty(narrowed) THEN Inconsistent
                ELSE Accepted(packet, [filter EXCEPT !.target = narrowed])

\* The pose is replaced by the observed one, carried over its age.
ConsumePose(packet) ==
  LET age == filter.q - packet.report.q
      acquisition == Around(packet.report.rate, RateNoise)
      pose == PropagatedPose(packet.report.value, PoseNoise, acquisition, age)
      rate == Intersect(filter.rate, Padded(acquisition, AngularBound * age))
  IN  filter' = IF IsEmpty(rate) THEN [Inconsistent EXCEPT !.angle = pose.angle, !.error = pose.error]
                ELSE Accepted(packet, [filter EXCEPT !.angle = pose.angle, !.error = pose.error, !.rate = rate])

\* consume: a packet that is delivered and not yet taken in.
Consume(packet) ==
  /\ filter.status = "VALID" /\ packet.id \notin filter.accepted \cup filter.dropped
  /\ packet.report.kind = "range_bearing" => ConsumeRange(packet)
  /\ packet.report.kind = "chaser_gnss" => ConsumeGnss(packet)
  /\ packet.report.kind = "target_pose" => ConsumePose(packet)
  /\ UNCHANGED <<plant, packets>>

NavigationNext ==
  \/ VerifyAcceleration
  \/ ConditionOnFallback
  \/ \E width \in HoldWidths, input \in HeldInputs : CompleteHold(width, input)
  \/ \E packet \in packets : Consume(packet)

NavigationSpec == NavigationInit /\ [][NavigationNext]_navigationVars

-----------------------------------------------------------------------------
\* However late and in whatever order its packets are applied, the filter never
\* excludes the actual craft, target, attitude or rate, and calls its evidence
\* inconsistent only when the target accelerates more than it declared
\* (filter.py:163-320, target_pose.py:34).
NavigationKeepsTheTruth ==
  /\ filter.status = "INCONSISTENT" => plant.acceleration > AngularBound
  /\ Holds(filter.box.p, plant.p) /\ Holds(filter.box.v, plant.v)
  /\ Holds(filter.target, plant.t) /\ Holds(filter.rate, plant.rate)
  /\ Holds(Around(filter.angle, filter.error), plant.angle)

=============================================================================
