--------------------------- MODULE MCSafetyPlanner ---------------------------
(* One agent, three joint cells and eight plans over six ticks.               *)
EXTENDS SafetyPlanner, FiniteSets, TLC

CONSTANTS a1, c0, c1, c2

Fuel(x) == a1 :> x

\* What the route summed in plan.py:194-196 leaves after segment i.
RouteFuel(segments, at, a) ==
  LET left(i) == LET from == IF at > segments[i].start THEN at ELSE segments[i].start
                 IN IF segments[i].end > from THEN segments[i].end - from ELSE 0
      sum[i \in 0..Len(segments)] ==
        IF i = 0 THEN 0 ELSE sum[i-1] + left(i) * segments[i].rate[a]
  IN sum[Len(segments)]

Seg(start, end, hold, rate, tube, support) ==
  [start |-> start, end |-> end, maximum_hold |-> hold, rate |-> rate,
   after |-> Fuel(0), tube |-> tube, support |-> support]

Route(clearance, segments) ==
  [start |-> segments[1].start, clearance |-> clearance,
   segments |-> [i \in DOMAIN segments |->
     [segments[i] EXCEPT !.after =
        [a \in Agents |-> RouteFuel(segments, segments[i].end, a)]]]]

Inner == {c0}
Outer == {c0, c1}

MCPlans ==
  { Route(1, <<Seg(0, 2, 2, Fuel(1), Inner, 1), Seg(2, 4, 1, Fuel(1), Outer, 1)>>),
    Route(1, <<Seg(0, 1, 1, Fuel(1), Inner, 2), Seg(1, 2, 1, Fuel(1), Inner, 1),
               Seg(2, 3, 1, Fuel(0), Inner, 1)>>),
    Route(1, <<Seg(1, 3, 2, Fuel(0), Outer, 1), Seg(3, 5, 2, Fuel(0), Outer, 1)>>),
    Route(2, <<Seg(2, 4, 2, Fuel(1), Outer, 1)>>),
    Route(1, <<Seg(2, 3, 1, Fuel(1), Inner, 1), Seg(3, 5, 1, Fuel(1), Outer, 0)>>),
    Route(0, <<Seg(2, 5, 2, Fuel(0), Outer, 1)>>),
    Route(1, <<Seg(3, 6, 2, Fuel(0), {c1, c2}, 1)>>),
    Route(1, <<Seg(4, 6, 2, Fuel(1), Outer, 1)>>) }

\* The telescoped reserve of a plan is the code's sum over its segments, at
\* every clock of every plan and of every suffix of one.
ASSUME ReserveIsRouteSum ==
  \A p \in MCPlans : \A t \in p.start..PlanEnd(p) :
    /\ remaining_fuel(p, t) = [a \in Agents |-> RouteFuel(p.segments, t, a)]
    /\ HasSuffix(p, t) =>
         /\ admissible(suffix(p, t))
         /\ \A u \in t..PlanEnd(p) : remaining_fuel(suffix(p, t), u) = remaining_fuel(p, u)

Profile(kind, width) == [kind |-> kind, width |-> width]
MCFarProfiles ==
  <<Profile("prefix", 3), Profile("coordinated", 2), Profile("coordinated", 2),
    Profile("shared", 1), Profile("own", 1)>>
MCNearWidths == <<1>>
MCNearExtra == <<2>>

=============================================================================
