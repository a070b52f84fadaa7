--------------------------- MODULE SampledTracking ---------------------------
(***************************************************************************)
(* Held sliding feedback inside a certified set (control/terminal/         *)
(* tracking.py and control/fallback/refuge.py): exact inequalities admit a *)
(* set once, and the law is then evaluated from noisy samples, held, and   *)
(* delivered with error while the drift goes on changing.                  *)
(*                                                                         *)
(* One axis, relative to a reference at rest that is evaluated exactly;    *)
(* the coefficient matrices vanish, so that their terms drop out of the    *)
(* inequalities, and the known drift grows by `slope` in a tick.  With the *)
(* gain 1/L and the bandwidth 1/B every bound is an integer over K = L*B;  *)
(* the sliding variable times L is Sliding(p, v).                          *)
(***************************************************************************)
EXTENDS Integers, FiniteSetsExt

CONSTANTS TrackingSpecs,  \* the declared bounds
          TrackingScope,  \* the end of their validity, in ticks
          Laws            \* "start", "midpoint": terminal; "refuge"

\* Gains, holds and sets are positive, errors and limits are not negative; the
\* last two lines keep the arithmetic of the model in the integers, where what is
\* delivered is whole.
BoundsDeclared(b) ==
  /\ {b.L, b.B, b.hold, b.phi, b.omega} \subseteq Nat \ {0}
  /\ {b.slope, b.disturbance, b.delivery, b.np, b.nv, b.limit, b.acceleration,
      b.fuelRate, b.fuel} \subseteq Nat
  /\ b.omega % b.L = 0 /\ b.phi % b.B = 0 /\ (b.L * b.B) % 2 = 0
  /\ b.delivery >= 1

TrackingAssumption ==
  /\ TrackingScope \in Nat \ {0} /\ Laws \subseteq {"start", "midpoint", "refuge"}
  /\ \A b \in TrackingSpecs : BoundsDeclared(b)

\* BoundScope.contains_hold
ContainsHold(q, width) == q + width <= TrackingScope

VARIABLES tracker,   \* the law, its bounds, and whether it runs
          motion     \* the actual state and the clock
trackingVars == <<tracker, motion>>

-----------------------------------------------------------------------------
Magnitude(x) == Max({x, -x})
Clipped(x, most) == Max({-most, Min({most, x})})
Scale(b) == b.L * b.B
Sliding(b, p, v) == b.L * v + p

InSet(b, p, v) == Magnitude(p) <= b.omega /\ Magnitude(Sliding(b, p, v)) <= b.L * b.phi

\* The largest velocity in the set.
Velocity(b) == b.phi + b.omega \div b.L

\* `contains`: the whole box, each axis at its worst.
Contains(b, p, v, np, nv) ==
  /\ Magnitude(p) + np <= b.omega
  /\ Magnitude(Sliding(b, p, v)) + b.L * nv + np <= b.L * b.phi

-----------------------------------------------------------------------------
(* certify_terminal_tracking                                               *)

\* Twice the residual of a feedforward that is held from the start of the hold
\* or from its middle.
ResidualTwice(b, law) == b.hold * b.slope * (IF law = "start" THEN 2 ELSE 1)

\* Mutant: the delivery error is left to the input limits.
ForcingWithoutDelivery(b, law) ==
  Scale(b) * b.disturbance + ((Scale(b) * ResidualTwice(b, law)) \div 2) + (b.B + b.L) * b.nv + b.np

BaseForcing(b, law) ==
  Scale(b) * (b.disturbance + b.delivery) + ((Scale(b) * ResidualTwice(b, law)) \div 2)
    + (b.B + b.L) * b.nv + b.np

InputReserve(b) == b.B * (Velocity(b) + b.nv) + b.L * b.phi

\* What the state may move by while the command is held.
HoldForcing(b, law) ==
  LET dv == BaseForcing(b, law) + InputReserve(b)
  IN  b.hold * (b.B * dv + b.L * (dv + b.B * Velocity(b)))

PositionInward(b) == b.omega >= b.L * b.phi

TerminalAdmits(b, law) ==
  /\ Scale(b) * BaseForcing(b, law) + HoldForcing(b, law) <= b.phi * b.L * Scale(b)
  /\ PositionInward(b)
  /\ InputReserve(b) + Scale(b) * (b.delivery + b.slope * TrackingScope) <= Scale(b) * b.limit

-----------------------------------------------------------------------------
(* RefugeBoundsBuilder.build                                               *)

DriftError(b) == b.disturbance + b.delivery + b.hold * b.slope

\* The acceleration relative to the reference: the declared bound or the one
\* that keeps the cancellation of the law, whichever is smaller.
RelativeAcceleration(b) ==
  Min({Scale(b) * b.acceleration,
       Scale(b) * DriftError(b) + b.B * (Velocity(b) + b.nv) + b.L * b.phi})

SlidingRequired(b) ==
  LET acceleration == RelativeAcceleration(b)
      rate == acceleration + b.B * Velocity(b)
  IN  Scale(b) * Scale(b) * DriftError(b) + b.B * (Scale(b) * b.nv + b.hold * acceleration)
        + b.L * (Scale(b) * b.nv + b.B * b.np + b.hold * rate)

RefugeAdmits(b) ==
  /\ PositionInward(b)
  /\ InputReserve(b) + Scale(b) * DriftError(b) <= Scale(b) * b.acceleration
  /\ SlidingRequired(b) <= b.phi * b.L * Scale(b)
  /\ InputReserve(b) + Scale(b) * (b.delivery + b.slope * TrackingScope) <= Scale(b) * b.limit
  /\ TrackingScope * b.fuelRate <= b.fuel

Admits(b, law) == IF law = "refuge" THEN RefugeAdmits(b) ELSE TerminalAdmits(b, law)

-----------------------------------------------------------------------------
(* The held law                                                            *)

\* The drift at the clock the law cancels it for, times twice the scale.
CancelledDrift(b, law, q, width) ==
  b.slope * Scale(b) * (2 * q + (IF law = "midpoint" THEN width ELSE 0))

\* Times twice the scale.
Command(b, law, q, width, p, v) ==
  -CancelledDrift(b, law, q, width)
    - 2 * (b.B * v + Clipped(Sliding(b, p, v), b.L * b.phi))

WithinLimits(b, command) ==
  Magnitude(command) + 2 * Scale(b) * b.delivery <= 2 * Scale(b) * b.limit

\* The values the actuator may deliver, at their extremes.
Delivered(b, command) ==
  LET whole == 2 * Scale(b)
  IN  {-((-command) \div whole) - b.delivery, command \div whole + b.delivery}

\* A sample and the box around it.
Samples(b) == {[p |-> motion.p + e * b.np, v |-> motion.v - e * b.nv] : e \in {-1, 1}}

\* RefugeController.observation_box: the sample's box meets the admitted tube.
Consistent(b, sample) ==
  /\ Magnitude(sample.p) - b.np <= b.omega /\ Magnitude(sample.v) - b.nv <= Velocity(b)
  /\ Magnitude(Sliding(b, sample.p, sample.v)) - b.L * b.nv - b.np <= b.L * b.phi

\* Mutant: the refuge also asks for the whole box of every later sample.
AcceptedWhole(b, law, sample) ==
  Contains(b, sample.p, sample.v, b.np, b.nv) /\ (law = "refuge" => Consistent(b, sample))

\* The terminal controller asks for the whole box in every hold; a refuge that
\* was entered keeps the invariant it has proved.
Accepted(b, law, sample) ==
  IF law = "refuge" THEN Consistent(b, sample)
  ELSE Contains(b, sample.p, sample.v, b.np, b.nv)

-----------------------------------------------------------------------------
\* The corners of the entry region, rounded inwards.
Corners(b) ==
  {[p |-> p, v |-> -((p - side * (b.L * (b.phi - b.nv) - b.np)) \div b.L)] :
     p \in {-(b.omega - b.np), 0, b.omega - b.np}, side \in {-1, 1}}

TrackingInit ==
  /\ tracker \in [spec : TrackingSpecs, law : Laws, state : {"built"}]
  /\ \E at \in Corners(tracker.spec) : motion = [p |-> at.p, v |-> at.v, q |-> 0]

Idle == [p |-> 0, v |-> 0, q |-> 0]

\* A certificate is computed again before its controller runs; the whole first
\* box must lie in the set.
Admit ==
  /\ tracker.state = "built"
  /\ LET b == tracker.spec
         at == motion
         entered == Admits(b, tracker.law) /\ Contains(b, at.p, at.v, b.np, b.nv)
     IN  /\ tracker' = [tracker EXCEPT !.state = IF entered THEN "tracking" ELSE "refused"]
         /\ motion' \in IF entered
                        THEN {[p |-> at.p + e * b.np, v |-> at.v + f * b.nv, q |-> 0] :
                                e \in {-1, 1}, f \in {-1, 1}}
                        ELSE {Idle}

\* The state after some ticks of one held input under one disturbance.
After(b, p, v, q, width, force) ==
  LET step[i \in 0..width] ==
        IF i = 0 THEN [p |-> p, v |-> v]
        ELSE [p |-> step[i - 1].p + step[i - 1].v,
              v |-> step[i - 1].v + b.slope * (q + i - 1) + force]
  IN  [p |-> step[width].p, v |-> step[width].v, q |-> q + width]

\* One hold, as wide as the bounds allow or shorter, inside the scope.
Hold ==
  /\ tracker.state = "tracking" /\ ContainsHold(motion.q, 1)
  /\ LET b == tracker.spec
     IN  \E width \in 1..b.hold, sample \in Samples(b) :
           LET command == Command(b, tracker.law, motion.q, width, sample.p, sample.v)
               runs == Accepted(b, tracker.law, sample) /\ WithinLimits(b, command)
           IN  /\ ContainsHold(motion.q, width)
               /\ tracker' = [tracker EXCEPT !.state = IF runs THEN @ ELSE "stopped"]
               /\ motion' \in
                    IF runs THEN {After(b, motion.p, motion.v, motion.q, width, input + d) :
                                    input \in Delivered(b, command),
                                    d \in {-b.disturbance, b.disturbance}}
                    ELSE {motion}

TrackingNext == Admit \/ Hold

TrackingSpec == TrackingInit /\ [][TrackingNext]_trackingVars

-----------------------------------------------------------------------------
\* Once the inequalities admit a set, the actual state is in it at every sample
\* until the scope ends, whatever noise, delivery error, disturbance and change
\* of the drift the bounds declare act between the samples.
AdmittedSetsAreInvariant ==
  tracker.state \in {"tracking", "stopped"} => InSet(tracker.spec, motion.p, motion.v)

\* A refuge that was entered always has its next command: no sample of a true
\* state contradicts the tube and no evaluated command exceeds the hardware.
EnteredRefugesKeepCommanding == tracker.law = "refuge" => tracker.state # "stopped"

=============================================================================
