---------------------------- MODULE FleetAdmission ----------------------------
(***************************************************************************)
(* The fleet admission transaction of scripts/control/fallback/runtime.py: *)
(* the runtime owns the installed fallback plan, the exact clock, the fuel *)
(* ledger and at most one pending fleet decision.  A hold is decided       *)
(* (stored feedback, or a performance proposal that carries its own        *)
(* complete successor plan), applied to the whole fleet, then committed.   *)
(* replacement.py may install another plan between holds, and the mission  *)
(* runner may install a new runtime.                                       *)
(*                                                                         *)
(* A plan (scripts/control/fallback/plan.py) is a route of contiguous      *)
(* feedback segments followed by a terminal holding segment, its remaining *)
(* fuel and its suffixes.  The clock is the exact rational anomaly, counted*)
(* here in ticks.  The joint relative state of the fleet is one of finitely*)
(* many Cells, and a certified tube is the set of cells it encloses.       *)
(* Support stands for the sensing error, actuator error and input authority*)
(* one certificate charges: a larger number charges more.                  *)
(*                                                                         *)
(* The plant is part of the module: `truth` is the cell the fleet really   *)
(* is in and `tank` what is really left.  What the certificates claim of   *)
(* the plant is stated once, in ApplyHold.                                 *)
(***************************************************************************)
EXTENDS Integers, Sequences

CONSTANTS Agents,     \* the chasers of the fleet
          Cells       \* joint relative states of the fleet

FleetFuel == [Agents -> Nat]

\* One feedback segment.  `after` is what the later segments of its route
\* burn at their certified rates: the part of the sum in remaining_fuel that
\* does not change while this segment is in force.
FleetFeedbackSegment ==
  [start : Nat, end : Nat, maximum_hold : Nat,
   rate : FleetFuel, after : FleetFuel,
   tube : SUBSET Cells, support : Nat]

\* `start` is the start of the certificate, inside the first segment when
\* the plan is a suffix.
FleetFallbackPlan ==
  [start : Nat, clearance : Nat, segments : Seq(FleetFeedbackSegment)]

LastSegment(p) == p.segments[Len(p.segments)]
PlanEnd(p) == LastSegment(p).end
terminal_holding_start(p) ==
  IF LastSegment(p).start > p.start THEN LastSegment(p).start ELSE p.start

\* The route has neither clock gaps nor overlaps, each region contains the
\* invariant tube it takes over, and the last region holds one full hold.
admissible(p) ==
  LET s == p.segments IN
  /\ Len(s) > 0
  /\ s[1].start <= p.start /\ p.start < s[1].end
  /\ \A i \in 1..Len(s) : s[i].start < s[i].end
  /\ \A i, j \in 1..Len(s) : i < j => s[i].end <= s[j].start
  /\ \A i \in 1..Len(s)-1 :
        /\ s[i].end = s[i+1].start
        /\ s[i].tube \subseteq s[i+1].tube
        /\ \A a \in Agents :
             s[i].after[a] = (s[i+1].end - s[i+1].start) * s[i+1].rate[a] + s[i+1].after[a]
  /\ LastSegment(p).after = [a \in Agents |-> 0]
  /\ LastSegment(p).end - LastSegment(p).start >= LastSegment(p).maximum_hold

-----------------------------------------------------------------------------
(* Queries of a stored plan                                                *)

Covering(p, q) ==
  {i \in 1..Len(p.segments) : p.segments[i].start <= q /\ q < p.segments[i].end}

\* The segment in force at q.  The last one also answers for its own end.
segment_at(p, q) ==
  IF Covering(p, q) # {} THEN p.segments[CHOOSE i \in Covering(p, q) : TRUE]
                         ELSE LastSegment(p)

\* A complete hold must fit one installed segment and its sampling period.
HoldFits(p, q, h) ==
  /\ h > 0
  /\ Covering(p, q) # {}
  /\ q + h <= segment_at(p, q).end
  /\ h <= segment_at(p, q).maximum_hold

\* A query with no hold width: the end of the route is still answered.
InScope(p, q) == Covering(p, q) # {} \/ q = PlanEnd(p)

contains(p, states, q) ==
  /\ admissible(p)
  /\ InScope(p, q)
  /\ states \subseteq segment_at(p, q).tube

\* Fuel the rest of the route may burn from q at its certified rates.
remaining_fuel(p, q) ==
  LET s == segment_at(p, q) IN
  [a \in Agents |-> (s.end - q) * s.rate[a] + s.after[a]]

\* The same route restricted to start later: segments already ended are
\* dropped, nothing is certified again.
suffix(p, start) ==
  LET first == CHOOSE i \in Covering(p, start) : TRUE IN
  [start |-> start, clearance |-> p.clearance,
   segments |-> SubSeq(p.segments, first, Len(p.segments))]

HasSuffix(p, start) == p.start <= start /\ start < PlanEnd(p) /\ Covering(p, start) # {}

-----------------------------------------------------------------------------
(* The transaction                                                         *)

CONSTANTS Plans,               \* the complete proved plans a planner may produce
          MaxHold,             \* longest hold ever scheduled, in ticks
          MaxCharge,           \* largest proved debit of one performance hold
          Disturbance,         \* support a segment needs to be valid for the plant
          RequiredClearance,   \* declared clearance of the mission
          None                 \* no pending decision

ASSUME PlanAssumption ==
  /\ Plans \subseteq FleetFallbackPlan
  /\ \A p \in Plans : admissible(p)
ASSUME BoundAssumption ==
  /\ MaxHold \in Nat /\ MaxCharge \in Nat
  /\ Disturbance \in Nat /\ RequiredClearance \in Nat

VARIABLES active_fallback,  \* the installed plan
          q,                \* the proof clock of the runtime
          remaining_fuel_kg,\* the exact ledger, per agent
          pending,          \* the decision awaiting its commit, or None
          moved,            \* the pending hold has been applied to the fleet
          truth,            \* plant: the real joint relative state
          tank              \* plant: the fuel really left, per agent

vars == <<active_fallback, q, remaining_fuel_kg, pending, moved, truth, tank>>

Holds == 1..MaxHold

\* Endpoints are the cells the performance flows end in; a stored feedback
\* hold has none, its tube is the claim.
HeldFleetDecision ==
  [source : {"FALLBACK_TRACK", "FALLBACK_HOLD", "PERFORMANCE"},
   start : Nat, hold_width : Nat, charged_fuel : FleetFuel,
   successor : FleetFallbackPlan, endpoints : SUBSET Cells]

ASSUME NoneAssumption == None \notin HeldFleetDecision

DecisionEnd(d) == d.start + d.hold_width

Valid(p) ==
  /\ p.clearance >= RequiredClearance
  /\ \A i \in 1..Len(p.segments) : p.segments[i].support >= Disturbance

Affords(fuel, charge, p, at) ==
  \A a \in Agents : charge[a] + remaining_fuel(p, at)[a] <= fuel[a]

NoCharge == [a \in Agents |-> 0]

\* A freshly built runtime: a certified plan that encloses the observed fleet
\* now, under the declared clearance and supports, with its whole reserve.
Installable(p) ==
  /\ p.start = q
  /\ contains(p, {truth}, q)
  /\ Valid(p)
  /\ Affords(remaining_fuel_kg, NoCharge, p, q)

Init ==
  /\ q \in {p.start : p \in Plans}
  /\ truth \in Cells
  /\ remaining_fuel_kg \in {remaining_fuel(p, p.start) : p \in Plans}
  /\ active_fallback \in Plans
  /\ Installable(active_fallback)
  /\ tank = remaining_fuel_kg
  /\ pending = None
  /\ moved = FALSE

-----------------------------------------------------------------------------
(* Deciding                                                                *)

\* The stored feedback of the installed segment costs its uniform rate, or
\* less when a command resource bound refines it.
FallbackCharges(h) ==
  LET rate == segment_at(active_fallback, q).rate IN
  {c \in [Agents -> 0..MaxCharge] : \A a \in Agents : c[a] <= h * rate[a]}

FallbackCharge(h, c) ==
  /\ c \in FallbackCharges(h)
  /\ Affords(remaining_fuel_kg, c, active_fallback, q + h)

FallbackDecision(h, c) ==
  [source |-> IF q >= terminal_holding_start(active_fallback)
              THEN "FALLBACK_HOLD" ELSE "FALLBACK_TRACK",
   start |-> q, hold_width |-> h, charged_fuel |-> c,
   successor |-> active_fallback, endpoints |-> {}]

\* A candidate may not change the bodies, weaken the clearance, or charge
\* less sensing or actuator error than the segment in force at `at`.  Every
\* future segment of the candidate is checked, not only its entry.
KeepsSupports(current, candidate, at) ==
  /\ candidate.clearance >= current.clearance
  /\ \A i \in 1..Len(candidate.segments) :
       candidate.segments[i].support >= segment_at(current, at).support

\* What _admit demands of a proposal whose identities are current: a
\* successor at the exact endpoint that contains the complete endpoint set
\* and that the ledger still pays for after this hold.
Admissible(h, successor, endpoints, c) ==
  /\ HoldFits(active_fallback, q, h)
  /\ admissible(successor) /\ successor.start = q + h
  /\ KeepsSupports(active_fallback, successor, q)
  /\ contains(successor, endpoints, q + h)
  /\ Affords(remaining_fuel_kg, c, successor, q + h)

\* decide() with no proposal, or with one that admission refuses: in both
\* cases the stored feedback becomes the pending decision.
DecideFallback ==
  /\ pending = None
  /\ \E h \in Holds :
       /\ HoldFits(active_fallback, q, h)
       /\ \E c \in FallbackCharges(h) :
            /\ FallbackCharge(h, c)
            /\ pending' = FallbackDecision(h, c)
  /\ UNCHANGED <<active_fallback, q, remaining_fuel_kg, moved, truth, tank>>

\* The successors a planner offers: the rest of the stored plan, or a plan
\* prepared from the projected endpoints.
Successors(at) ==
  {p \in Plans : p.start = at} \cup
  (IF HasSuffix(active_fallback, at) THEN {suffix(active_fallback, at)} ELSE {})

\* decide() with an admitted proposal.  The stored feedback of the same hold
\* is evaluated first; when it cannot be, nothing is decided.
DecidePerformance ==
  /\ pending = None
  /\ \E h \in Holds :
       /\ HoldFits(active_fallback, q, h)
       /\ \E c \in FallbackCharges(h) : FallbackCharge(h, c)
       /\ \E successor \in Successors(q + h), endpoints \in SUBSET Cells \ {{}},
             c \in [Agents -> 0..MaxCharge] :
            /\ Admissible(h, successor, endpoints, c)
            /\ pending' = [source |-> "PERFORMANCE", start |-> q, hold_width |-> h,
                           charged_fuel |-> c, successor |-> successor,
                           endpoints |-> endpoints]
  /\ UNCHANGED <<active_fallback, q, remaining_fuel_kg, moved, truth, tank>>

-----------------------------------------------------------------------------
(* Applying and committing                                                 *)

\* What the certificates claim of the plant.  Performance flows enclose the
\* endpoint; feedback keeps the fleet in its tube when it starts there and
\* the segment charges at least the real disturbance.  No hold burns more
\* than its proved debit.
ReachableCells ==
  LET s == segment_at(active_fallback, pending.start) IN
  IF pending.source = "PERFORMANCE" THEN pending.endpoints
  ELSE IF truth \in s.tube /\ s.support >= Disturbance THEN s.tube
  ELSE Cells

ApplyHold ==
  /\ pending # None /\ ~moved
  /\ truth' \in ReachableCells
  /\ \E used \in [Agents -> 0..MaxCharge] :
       /\ \A a \in Agents : used[a] <= pending.charged_fuel[a]
       /\ tank' = [a \in Agents |-> tank[a] - used[a]]
  /\ moved' = TRUE
  /\ UNCHANGED <<active_fallback, q, remaining_fuel_kg, pending>>

\* Endpoint observations enclose the truth.  Observations that contradict the
\* tube of the successor, or the proved endpoints, are refused and change
\* nothing.
Consistent(observed) ==
  LET at == DecisionEnd(pending)
      box == observed \cap segment_at(pending.successor, at).tube
  IN
  /\ truth \in observed
  /\ InScope(pending.successor, at)
  /\ IF pending.source = "PERFORMANCE" THEN box \cap pending.endpoints # {} ELSE box # {}

\* Mutant: the debit is only reserved, never taken from the ledger.
DebitForgotten == remaining_fuel_kg

Debited == [a \in Agents |-> remaining_fuel_kg[a] - pending.charged_fuel[a]]

Commit ==
  /\ pending # None /\ moved
  /\ \E observed \in SUBSET Cells : Consistent(observed)
  /\ \A a \in Agents : Debited[a] >= 0
  /\ active_fallback' = pending.successor
  /\ q' = DecisionEnd(pending)
  /\ remaining_fuel_kg' = Debited
  /\ pending' = None
  /\ moved' = FALSE
  /\ UNCHANGED <<truth, tank>>

-----------------------------------------------------------------------------
(* Replacing the installed plan                                            *)

\* Mutant: the old tube need not enter the candidate.
ReplacementWithoutEntry(candidate, h) ==
  /\ candidate.start = q
  /\ q <= PlanEnd(active_fallback) /\ InScope(active_fallback, q)
  /\ admissible(candidate) /\ HoldFits(candidate, q, h)
  /\ KeepsSupports(active_fallback, candidate, q)
  /\ Affords(remaining_fuel_kg, NoCharge, candidate, q)

\* Mutant: the ledger need not cover the candidate's route.
ReplacementWithoutReserve(candidate, h) ==
  /\ candidate.start = q
  /\ q <= PlanEnd(active_fallback) /\ InScope(active_fallback, q)
  /\ admissible(candidate) /\ HoldFits(candidate, q, h)
  /\ KeepsSupports(active_fallback, candidate, q)
  /\ segment_at(active_fallback, q).tube \subseteq segment_at(candidate, q).tube

\* The complete old relational tube must enter the candidate at its exact
\* activation clock, and the ledger must cover the candidate's whole route.
ReplacementAdmitted(candidate, h) ==
  /\ candidate.start = q
  /\ q <= PlanEnd(active_fallback) /\ InScope(active_fallback, q)
  /\ admissible(candidate) /\ HoldFits(candidate, q, h)
  /\ KeepsSupports(active_fallback, candidate, q)
  /\ segment_at(active_fallback, q).tube \subseteq segment_at(candidate, q).tube
  /\ Affords(remaining_fuel_kg, NoCharge, candidate, q)

ActivateReplacement ==
  /\ pending = None
  /\ \E candidate \in Plans, h \in Holds :
       /\ ReplacementAdmitted(candidate, h)
       /\ active_fallback' = candidate
  /\ UNCHANGED <<q, remaining_fuel_kg, pending, moved, truth, tank>>

InstallRuntime ==
  /\ pending = None
  /\ \E p \in Plans :
       /\ Installable(p)
       /\ active_fallback' = p
  /\ UNCHANGED <<q, remaining_fuel_kg, pending, moved, truth, tank>>

Next ==
  \/ DecideFallback
  \/ DecidePerformance
  \/ ApplyHold
  \/ Commit
  \/ ActivateReplacement
  \/ InstallRuntime

Spec == Init /\ [][Next]_vars

-----------------------------------------------------------------------------
(* Properties                                                              *)

\* Types of the runtime and of the plant.
TypeOK ==
  /\ active_fallback \in FleetFallbackPlan /\ admissible(active_fallback)
  /\ q \in Nat
  /\ remaining_fuel_kg \in FleetFuel
  /\ pending \in HeldFleetDecision \cup {None}
  /\ moved \in BOOLEAN
  /\ truth \in Cells
  /\ tank \in [Agents -> Int]

\* Between holds the ledger pays for the whole rest of the installed plan,
\* and while a decision is pending what its debit leaves pays for the whole
\* of the plan it will install: _fallback, _admit and commit
\* (runtime.py:122-124, 271-273, 300-303) never strand a vehicle.
ReserveCoversPlan ==
  IF pending = None
  THEN Affords(remaining_fuel_kg, NoCharge, active_fallback, q)
  ELSE Affords(remaining_fuel_kg, pending.charged_fuel, pending.successor, DecisionEnd(pending))

\* The fleet is really inside the tube of the plan in force, and after a
\* performance hold inside the entry region of the plan it installs: the
\* claim of runtime.py:241-246 and of replacement.py:84-106, that a switch of
\* plan never leaves the invariant that justifies the next feedback hold.
TruthInsideTube ==
  IF moved THEN truth \in segment_at(pending.successor, DecisionEnd(pending)).tube
           ELSE truth \in segment_at(active_fallback, q).tube

\* The tanks really hold what the ledger says: a debit covers what its hold
\* burned, whether or not the hold is committed yet.
TankCoversLedger ==
  \A a \in Agents :
    tank[a] >= remaining_fuel_kg[a] - (IF moved THEN pending.charged_fuel[a] ELSE 0)

\* No chain of holds and plans spends fuel that is not there.
PlansStayFunded == ReserveCoversPlan /\ TankCoversLedger

\* However many plans were chained, the installed one still charges the real
\* disturbance in every segment and keeps the declared clearance
\* (runtime.py:20-45, 195-200).
SupportsNeverErode ==
  /\ Valid(active_fallback)
  /\ pending # None => Valid(pending.successor)

\* Inside the window stored feedback can always be decided at its uniform
\* rate: "No proposal error can replace this queued command by zero or a
\* pause" (runtime.py:147-151).
FallbackAlwaysAvailable ==
  pending = None =>
    \A h \in Holds : HoldFits(active_fallback, q, h) =>
      Affords(remaining_fuel_kg,
              [a \in Agents |-> h * segment_at(active_fallback, q).rate[a]],
              active_fallback, q + h)

\* The clock, the plan and the ledger move together: they change in one
\* commit of an applied decision, or the plan alone changes between holds
\* (runtime.py:303-311).
AdvanceByCommit ==
  /\ (q' # q \/ remaining_fuel_kg' # remaining_fuel_kg) =>
       /\ pending # None /\ moved /\ pending' = None
       /\ q' = pending.start + pending.hold_width
       /\ active_fallback' = pending.successor
  /\ active_fallback' # active_fallback => pending' = None /\ ~moved'

OnlyCommitAdvances == [][AdvanceByCommit]_vars

=============================================================================
