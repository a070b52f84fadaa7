-------------------------- MODULE RelativeObserver --------------------------
(***************************************************************************)
(* The bounded observer of an online execution (simulation/online/         *)
(* observation.py behind SampledOnlineAdapter): position packets arrive    *)
(* late, out of order or twice; each is applied to the retained history at *)
(* its own clock, gives a velocity with every earlier position, and is     *)
(* carried to the present through the accelerations of the flown holds.    *)
(*                                                                         *)
(* One spacecraft and one axis.  Clocks are ticks, positions are counted   *)
(* in half units so that half of an acceleration is an integer, and a      *)
(* division is rounded outwards.                                           *)
(***************************************************************************)
EXTENDS Integers, Sequences, FiniteSetsExt, Functions

CONSTANTS HistoryLength,     \* the retained holds
          SensingHorizon,    \* maximum_blackout_q
          HoldWidths, HeldInputs, DriftBound, SensorNoise,
          LastClock, LastPacket

ObserverAssumption ==
  /\ HistoryLength \in Nat /\ HistoryLength >= 2
  /\ SensingHorizon \in Nat \ {0} /\ HoldWidths \subseteq Nat \ {0}
  /\ {DriftBound, SensorNoise, LastClock, LastPacket} \subseteq Nat

VARIABLES observer,  \* the box, the retained holds, moments, positions, and ages
          sensed,    \* the packets the sensors made
          vehicle    \* the actual state
observerVars == <<observer, sensed, vehicle>>

Range2(lo, hi) == [lo |-> lo, hi |-> hi]
Meet(a, b) == Range2(Max({a.lo, b.lo}), Min({a.hi, b.hi}))
MeetBox(a, b) == [p |-> Meet(a.p, b.p), v |-> Meet(a.v, b.v)]
Void(box) == box.p.lo > box.p.hi \/ box.v.lo > box.v.hi
Within(x, range) == range.lo <= x /\ x <= range.hi
UpQuotient(a, b) == -((-a) \div b)

-----------------------------------------------------------------------------
\* _propagate
Propagated(box, a, h) ==
  [p |-> Range2(box.p.lo + 2 * h * box.v.lo + h * h * a.lo, box.p.hi + 2 * h * box.v.hi + h * h * a.hi),
   v |-> Range2(box.v.lo + h * a.lo, box.v.hi + h * a.hi)]

\* A hold that a clock falls into.
HoldsOver(q) == {i \in DOMAIN observer.history :
                   observer.history[i].start <= q /\ q < observer.history[i].end}

\* _at: the retained box at a clock, as a set with at most one element.
RetainedAt(q) ==
  IF q = observer.q THEN {observer.box}
  ELSE {Propagated(observer.history[i].box, observer.history[i].a, q - observer.history[i].start) :
          i \in HoldsOver(q)}

\* The integrals of the acceleration bounds and, twice, of the clock times them.
AddMoment(m, a, from, to) ==
  [l0 |-> m.l0 + (to - from) * a.lo, l1 |-> m.l1 + (to * to - from * from) * a.lo,
   u0 |-> m.u0 + (to - from) * a.hi, u1 |-> m.u1 + (to * to - from * from) * a.hi]

MomentsAt(q) ==
  IF q \in DOMAIN observer.moments THEN {observer.moments[q]}
  ELSE {AddMoment(observer.moments[observer.history[i].start], observer.history[i].a,
                  observer.history[i].start, q) : i \in HoldsOver(q)}

\* The oldest position and those a power of two from the newest.
Lookbacks ==
  LET n == Len(observer.positions)
      power[k \in 0..n] == IF k = 0 THEN 1 ELSE 2 * power[k - 1]
  IN  {1} \cup {n + 1 - power[k] : k \in {j \in 0..n : power[j] <= n}}

\* Mutant: the velocity is the mean velocity since the earlier position.
MeanVelocity(first, last, q0, position, earlier, h) ==
  Range2((position.lo - earlier.hi) \div (2 * h), UpQuotient(position.hi - earlier.lo, 2 * h))

\* The velocity at the later of two positions, from what may have accelerated
\* the spacecraft between them.
LinkedVelocity(first, last, q0, position, earlier, h) ==
  LET lower == last.l1 - first.l1 - 2 * q0 * (last.l0 - first.l0)
      upper == last.u1 - first.u1 - 2 * q0 * (last.u0 - first.u0)
  IN  Range2((position.lo - earlier.hi + lower) \div (2 * h),
             UpQuotient(position.hi - earlier.lo + upper, 2 * h))

EarliestClock == IF observer.history = <<>> THEN observer.q ELSE observer.history[1].start

\* _velocity
Velocities(acquired, position) ==
  UNION {LET sample == observer.positions[i]
         IN  {LinkedVelocity(first, last, sample.q, position, sample.range, acquired - sample.q) :
                first \in MomentsAt(sample.q), last \in MomentsAt(acquired)} :
         i \in {j \in Lookbacks : /\ EarliestClock <= observer.positions[j].q
                                  /\ observer.positions[j].q < acquired}}

\* Mutant: a box of the past is carried with the acceleration of the last hold.
CarriedAtOnce(q, box) ==
  IF q = observer.q THEN {box}
  ELSE {Propagated(box, observer.history[Len(observer.history)].a, observer.q - q)}

\* _carry: through the rest of its hold and every later one.
Carried(q, box) ==
  LET length == Len(observer.history)
      at[i \in 1..length + 1] ==
        IF i = 1 THEN box
        ELSE LET hold == observer.history[i - 1]
             IN  IF hold.end <= q THEN at[i - 1]
                 ELSE Propagated(at[i - 1], hold.a, hold.end - Max({hold.start, q}))
  IN  IF q = observer.q \/ HoldsOver(q) # {} THEN {at[length + 1]} ELSE {}

-----------------------------------------------------------------------------
ObserverInit ==
  /\ vehicle \in [p : {-2, 2}, v : {1}, q : {0}]
  /\ LET box == [p |-> Range2(-2, 2), v |-> Range2(-1, 1)]
     IN  observer = [state |-> "online", q |-> 0, box |-> box, history |-> <<>>,
                     moments |-> [q \in {0} |-> [l0 |-> 0, l1 |-> 0, u0 |-> 0, u1 |-> 0]],
                     positions |-> <<[q |-> 0, range |-> box.p]>>,
                     last |-> 0, accepted |-> {}]
  /\ sensed = {}

\* Mutant: the age is counted from the delivery.
AgeFromDelivery(q) == observer.q

LastSensor(q) == Max({observer.last, q})

\* Only the newest entries of a history of bounded length.
Newest(entries) == IF Len(entries) > HistoryLength THEN Tail(entries) ELSE entries

\* consume: one packet of the right kind whose model is known.
Consume(packet) ==
  /\ observer.state = "online" /\ packet.id \notin observer.accepted
  /\ \E prior \in RetainedAt(packet.q) :
       LET position == Range2(packet.value - SensorNoise, packet.value + SensorNoise)
           linked == FoldSet(LAMBDA v, b : [b EXCEPT !.v = Meet(@, v)],
                             MeetBox(prior, [p |-> position, v |-> prior.v]),
                             Velocities(packet.q, position))
           carried == IF Void(linked) THEN {} ELSE Carried(packet.q, linked)
           narrowed == {MeetBox(observer.box, box) : box \in carried}
       IN  observer' =
             IF narrowed = {} \/ \E box \in narrowed : Void(box)
             THEN [observer EXCEPT !.state = "inconsistent"]
             ELSE [observer EXCEPT
                    !.box = CHOOSE box \in narrowed : TRUE,
                    !.positions = Newest(Append(@, [q |-> packet.q, range |-> linked.p])),
                    !.last = LastSensor(packet.q), !.accepted = @ \cup {packet.id}]
  /\ UNCHANGED <<sensed, vehicle>>

\* prepare_hold refuses a hold that no sensing covers.
SensingExpires ==
  /\ observer.state = "online"
  /\ \E width \in HoldWidths : observer.q + width - observer.last > SensingHorizon
  /\ observer' = [observer EXCEPT !.state = "refused"]
  /\ UNCHANGED <<sensed, vehicle>>

\* The prediction is committed over the oldest retained hold.
Committed(width, a) ==
  LET end == observer.q + width
      hold == [start |-> observer.q, end |-> end, box |-> observer.box, a |-> a]
      full == Len(observer.history) = HistoryLength
      kept == IF full THEN DOMAIN observer.moments \ {observer.history[1].start}
              ELSE DOMAIN observer.moments
  IN  [observer EXCEPT
        !.q = end, !.box = Propagated(@, a, width), !.history = Newest(Append(@, hold)),
        !.moments = [q \in kept \cup {end} |->
                       IF q = end THEN AddMoment(@[observer.q], a, observer.q, end) ELSE @[q]]]

\* apply_hold: the age check, the actual hold, and the commit.  The sensors may
\* take one position at any clock of the hold.
ApplyHold(width, input) ==
  /\ observer.state = "online" /\ observer.q + width <= LastClock
  /\ observer.q + width - observer.last <= SensingHorizon
  /\ observer' = Committed(width, Range2(input - DriftBound, input + DriftBound))
  /\ \E drift \in [1..width -> {-DriftBound, DriftBound}] :
       LET at[i \in 0..width] ==
             IF i = 0 THEN [p |-> vehicle.p, v |-> vehicle.v]
             ELSE [p |-> at[i - 1].p + 2 * at[i - 1].v + input + drift[i],
                   v |-> at[i - 1].v + input + drift[i]]
       IN  /\ vehicle' = [p |-> at[width].p, v |-> at[width].v, q |-> vehicle.q + width]
           /\ \/ UNCHANGED sensed
              \/ /\ Cardinality(sensed) < LastPacket
                 /\ \E i \in 1..width, noise \in {-SensorNoise, SensorNoise} :
                      sensed' = sensed \cup {[id |-> Cardinality(sensed), q |-> vehicle.q + i,
                                              value |-> at[i].p + noise]}

ObserverNext ==
  \/ SensingExpires
  \/ \E packet \in sensed : Consume(packet)
  \/ \E width \in HoldWidths, input \in HeldInputs : ApplyHold(width, input)

ObserverSpec == ObserverInit /\ [][ObserverNext]_observerVars

-----------------------------------------------------------------------------
\* Whatever order its packets are applied in, the observer never excludes the
\* actual state and never takes an honest packet for a contradiction.
ObserverKeepsTheState ==
  /\ observer.state # "inconsistent"
  /\ observer.q = vehicle.q
  /\ Within(vehicle.p, observer.box.p) /\ Within(vehicle.v, observer.box.v)

\* No hold is flown further than the sensing horizon from the newest accepted
\* acquisition, however late that packet was delivered; a hold is only retained
\* with the moments the velocities of its clocks need.
SensingCoversEveryHold ==
  /\ vehicle.q - Max({0} \cup {packet.q : packet \in {s \in sensed : s.id \in observer.accepted}})
       <= SensingHorizon
  /\ \A i \in DOMAIN observer.history :
       {observer.history[i].start, observer.history[i].end} \subseteq DOMAIN observer.moments

=============================================================================
