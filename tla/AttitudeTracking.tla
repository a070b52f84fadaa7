-------------------------- MODULE AttitudeTracking --------------------------
(***************************************************************************)
(* The attitude replay of a saved approach (simulation/approach/physical/  *)
(* attitude.py): every bus follows the recorded attitude of the target     *)
(* with held, saturated torques, from observations that may be wrong, and  *)
(* pays for them with the fuel that the translation left.                  *)
(*                                                                         *)
(* One axis of rotation.  Clocks are ticks, angles are counted in half     *)
(* units, and one unit of torque held for one tick burns one unit of fuel. *)
(***************************************************************************)
EXTENDS Integers, Sequences, SequencesExt

CONSTANTS Buses,
          NodeTimes, NodeAngles, NodeRates,   \* the recorded target, by node
          ControlPeriod, TorqueLimit, Stiffness, Damping,
          InstalledFuel, TranslationDebits, MassChange, BusNoise,
          InitialAngles, MaxAngle, MaxRate

AttitudeAssumption ==
  /\ Len(NodeTimes) >= 2 /\ NodeTimes[1] = 0
  /\ \A i \in 1..Len(NodeTimes) - 1 : NodeTimes[i] < NodeTimes[i + 1]
  /\ NodeTimes \in Seq(Nat) /\ NodeAngles \in [DOMAIN NodeTimes -> Int] /\ NodeRates \in [DOMAIN NodeTimes -> Int]
  /\ ControlPeriod \in Nat \ {0} /\ {TorqueLimit, InstalledFuel, MassChange} \subseteq Nat
  /\ {Stiffness, Damping} \subseteq Int
  /\ InitialAngles \subseteq Int /\ BusNoise \subseteq Int /\ TranslationDebits \subseteq Nat

VARIABLES body,      \* angle, rate and fuel of every bus
          flownHolds, \* the hold and the commands of the committed prefix
          tracking   \* the state of the call and its result
attitudeVars == <<body, flownHolds, tracking>>

Magnitude1(x) == IF x < 0 THEN -x ELSE x
Clip(x, limit) == Max({-limit, Min({limit, x})})

EndTime == NodeTimes[Len(NodeTimes)]

\* The regular control instants and every recorded node.
ControlTimes == {q \in 0..EndTime : q % ControlPeriod = 0 \/ q \in Range(NodeTimes)}
NextTime(q) == Min({t \in ControlTimes : t > q})

\* sample: values between two nodes lie on the line through them.
Sampled(values, q) ==
  LET i == Max({k \in 1..Len(NodeTimes) - 1 : NodeTimes[k] <= q})
  IN  values[i] + ((values[i + 1] - values[i]) * (q - NodeTimes[i])) \div (NodeTimes[i + 1] - NodeTimes[i])

TargetAngle(q) == Sampled(NodeAngles, q)
TargetRate(q) == Sampled(NodeRates, q)

\* errors
AngleError(bus, q) == Magnitude1(bus.angle - TargetAngle(q))
RateError(bus, q) == Magnitude1(bus.rate - TargetRate(q))

\* The held feedback of an observed bus, as the nozzles can give it.
Feedback(observed, q) ==
  (-Stiffness * (observed.angle - TargetAngle(q))) \div 2 - Damping * (observed.rate - TargetRate(q))

Allocated(requested) == Clip(requested, TorqueLimit)

\* advance_held_torque
Rotated(bus, torque, hold) ==
  [bus EXCEPT !.angle = @ + 2 * hold * bus.rate + hold * hold * torque, !.rate = @ + hold * torque]

FuelFlow(torque) == Magnitude1(torque)

-----------------------------------------------------------------------------
AttitudeInit ==
  /\ body \in [Buses -> [angle : InitialAngles, rate : {0}, fuel : {InstalledFuel}]]
  /\ flownHolds = <<>>
  /\ tracking = [state |-> "called", q |-> 0, debit |-> 0, observed |-> [b \in Buses |-> 0], success |-> FALSE]

\* The translation is paid for once, before the first hold.
TakeDebit ==
  /\ tracking.state = "called"
  /\ \E debit \in TranslationDebits :
       IF debit > InstalledFuel \/ debit > MassChange
       THEN tracking' = [tracking EXCEPT !.state = "raised"] /\ UNCHANGED body
       ELSE /\ tracking' = [tracking EXCEPT !.state = "tracking", !.debit = debit]
            /\ body' = [b \in Buses |-> [body[b] EXCEPT !.fuel = InstalledFuel - debit]]
  /\ UNCHANGED flownHolds

\* A hold that a bus cannot pay for, or that leaves the scope of a constant inertia.
Unexecutable(b, torque, hold) ==
  LET used == FuelFlow(torque) * hold
  IN  used > body[b].fuel \/ InstalledFuel - body[b].fuel + used > MassChange

\* Mutant: the buses in front of a bus that cannot execute its hold move.
Executing(torques, hold) == {b \in Buses : ~Unexecutable(b, torques[b], hold)}

\* The buses that execute a hold: all or none.
Movers(torques, hold) ==
  IF \E b \in Buses : Unexecutable(b, torques[b], hold) THEN {} ELSE Buses

HoldTorques ==
  /\ tracking.state = "tracking" /\ tracking.q < EndTime
  /\ \E noise \in [Buses -> BusNoise] :
       LET q == tracking.q
           hold == NextTime(q) - q
           observed == [b \in Buses |-> body[b].angle + noise[b]]
           torques == [b \in Buses |-> Allocated(Feedback([body[b] EXCEPT !.angle = observed[b]], q))]
           movers == Movers(torques, hold)
       IN  /\ body' = [b \in Buses |->
                         IF b \in movers
                         THEN [Rotated(body[b], torques[b], hold)
                                 EXCEPT !.fuel = Max({0, @ - FuelFlow(torques[b]) * hold})]
                         ELSE body[b]]
           /\ IF movers = Buses
              THEN /\ tracking' = [tracking EXCEPT !.q = q + hold, !.observed = observed]
                   /\ flownHolds' = Append(flownHolds, [hold |-> hold, torques |-> torques])
              ELSE tracking' = [tracking EXCEPT !.state = "stopped"] /\ UNCHANGED flownHolds

\* An observation of another clock or fleet ends the call without a result.
ObservationRefused ==
  /\ tracking.state = "tracking" /\ tracking.q < EndTime
  /\ tracking' = [tracking EXCEPT !.state = "raised"]
  /\ UNCHANGED <<body, flownHolds>>

\* Mutant: the final gate is held against what the feedback last saw.
PassedAsObserved(b) ==
  /\ Magnitude1(tracking.observed[b] - TargetAngle(tracking.q)) <= MaxAngle
  /\ RateError(body[b], tracking.q) <= MaxRate

Passed(b) ==
  AngleError(body[b], tracking.q) <= MaxAngle /\ RateError(body[b], tracking.q) <= MaxRate

ReturnAttitudes ==
  /\ \/ tracking.state = "stopped"
     \/ tracking.state = "tracking" /\ tracking.q = EndTime
  /\ tracking' = [tracking EXCEPT !.state = "returned",
                    !.success = tracking.q = EndTime /\ \A b \in Buses : Passed(b)]
  /\ UNCHANGED <<body, flownHolds>>

AttitudeNext == TakeDebit \/ HoldTorques \/ ObservationRefused \/ ReturnAttitudes
AttitudeSpec == AttitudeInit /\ [][AttitudeNext]_attitudeVars

-----------------------------------------------------------------------------
\* Where the recorded commands of some holds bring a bus that paid the debit.
Replayed(b, steps, debit) ==
  LET bus[i \in 0..Len(steps)] ==
        IF i = 0 THEN [q |-> 0, rate |-> 0, fuel |-> InstalledFuel - debit]
        ELSE [q |-> bus[i - 1].q + steps[i].hold,
              rate |-> bus[i - 1].rate + steps[i].hold * steps[i].torques[b],
              fuel |-> bus[i - 1].fuel - FuelFlow(steps[i].torques[b]) * steps[i].hold]
  IN  bus[Len(steps)]

\* What a replay returns was flown: all buses share one prefix of holds, each
\* has the fuel its own recorded commands left it, within the mass change the
\* constant inertia allows, and a success is true of the buses, not of what
\* the feedback saw of them.
AttitudesAreFlown ==
  tracking.state \in {"stopped", "returned"} =>
    /\ \A b \in Buses : LET replayed == Replayed(b, flownHolds, tracking.debit)
                        IN  /\ tracking.q = replayed.q
                            /\ body[b].fuel = replayed.fuel /\ body[b].rate = replayed.rate
                            /\ 0 <= body[b].fuel /\ InstalledFuel - body[b].fuel <= MassChange
    /\ tracking.success => \A b \in Buses : /\ AngleError(body[b], EndTime) <= MaxAngle
                                            /\ RateError(body[b], EndTime) <= MaxRate

=============================================================================
