---------------------------- MODULE AdaptiveMission ----------------------------
(***************************************************************************)
(* The prediction loop of the nonlinear mission (simulation/nonlinear/     *)
(* runner.py run and _planning_context): every update forecasts under the  *)
(* present parameter belief, plans the fleet, advances one hold, retains   *)
(* what was observed of it, and now and then contracts the belief          *)
(* (Membership).  One thread runs all of it.                               *)
(*                                                                         *)
(* What makes motion safe is HoldExecution's and SafetyPlanner's business; *)
(* here a hold either follows the plan or is the fallback's.               *)
(*                                                                         *)
(* One fleet plan (simulation/nonlinear/planning.py over                   *)
(* simulation/approach/planning.py) gives every chaser a coupled           *)
(* dynamic-tube problem, solved by a native GEKKO model with at most one   *)
(* cold retry and one residual refinement (solvers/gekko/tube.py).  One    *)
(* worker plans the chasers in order, each against the plans already found *)
(* (Gauss-Seidel); with several workers every chaser is planned at once    *)
(* against the preceding update (Jacobi).  A path is a lane: two chasers   *)
(* in one lane are not separated.                                          *)
(***************************************************************************)
EXTENDS Membership

CONSTANTS
  Fleet,     \* the chasers, in planning order
  Lanes,     \* the lanes each chaser can reach
  Deployed,  \* the lane each chaser starts in
  NoPlan

Chasers == ToSet(Fleet)

ASSUME FleetAssumption ==
  /\ Fleet \in Seq(Chasers) /\ IsInjective(Fleet) /\ Fleet # <<>>
  /\ DOMAIN Lanes = Chasers /\ DOMAIN Deployed = Chasers /\ IsInjective(Deployed)
  /\ \A chaser \in Chasers : Deployed[chaser] \in Lanes[chaser]

VARIABLES
  parallel,    \* planning_workers > 1
  context,     \* installed NonlinearPlanningContext: [q, model], or NoPlan
  lane,        \* the lane each chaser is in
  previous,    \* plans of the last update: what a peer is previewed by
  planning,    \* the plan() call in progress, or NoPlan
  native       \* open GEKKO models of each chaser's solver

planVars == <<parallel, context, lane, previous, planning, native>>

\* No solve of this chaser yet.
Unplanned == [at |-> "waiting", warm |-> FALSE, result |-> NoPlan, lane |-> NoPlan]

PlanInit ==
  /\ parallel \in BOOLEAN /\ context = NoPlan /\ previous = <<>> /\ planning = NoPlan
  /\ lane = Deployed
  /\ native = [chaser \in Chasers |-> 0]

Working == planning # NoPlan /\ planning.at = "working"
Worker(chaser) == planning.worker[chaser]
Solved == {chaser \in Chasers : Worker(chaser).at = "solved"}
Refused == {chaser \in Chasers : Worker(chaser).at = "refused"}

-----------------------------------------------------------------------------
(* One plan: what a chaser is planned against                              *)

\* Plans already found in this call constrain the chasers after them; chasers
\* planned in parallel see none of them.
Current(other) == ~parallel /\ other \in Solved

\* A peer without any plan is previewed along its present course.
Preview(other) ==
  IF Current(other) THEN Worker(other).lane
  ELSE IF other \in DOMAIN previous THEN previous[other].lane
  ELSE lane[other]

Occupied(chaser) == {Preview(other) : other \in Chasers \ {chaser}}

\* Serial planning takes the next chaser once its predecessors are solved.
Turn(chaser) ==
  /\ Working /\ Worker(chaser).at = "waiting"
  /\ parallel \/ \A i \in DOMAIN Fleet : Fleet[i] = chaser =>
                    \A j \in 1..(i - 1) : Fleet[j] \in Solved

At(chaser, stage) == Working /\ Worker(chaser).at = stage

Became(chaser, worker) == planning' = [planning EXCEPT !.worker[chaser] = worker]

InstallContext(q, model) == context' = [q |-> q, model |-> model]

Beginning == [at |-> "working", worker |-> [chaser \in Chasers |-> Unplanned]]
BeginPlanning == planning' = Beginning

\* run() uses nothing of a plan that failed or raised.
Failure == [Beginning EXCEPT !.at = "failure"]

-----------------------------------------------------------------------------
(* GekkoDynamicTube                                                        *)

\* tube_spec: a domain, residual or budget that cannot be established.  In
\* order, it ends the whole plan() call; a parallel worker records a failed
\* attempt of its chaser.
RefuseSpecification(chaser) ==
  /\ Turn(chaser)
  /\ IF parallel THEN Became(chaser, [Unplanned EXCEPT !.at = "refused"])
     ELSE planning' = Failure
  /\ UNCHANGED native

\* setup: a model that cannot be built is cleaned up and is a failed attempt.
SetUp(chaser, built) ==
  /\ Turn(chaser)
  /\ Became(chaser, [Unplanned EXCEPT !.at = IF built THEN "first" ELSE "refused",
                                      !.warm = chaser \in DOMAIN previous])
  /\ native' = [native EXCEPT ![chaser] = IF built THEN @ + 1 ELSE @]

\* _solve_once never raises: the optimum is verified, its residual check fails,
\* or the solve failed.
Outcomes == {"verified", "residual", "failed"}

\* What a chaser's solve is doing, and what a plan() call is made of.
Points == {"waiting", "first", "cold", "cold solve", "refine", "refine solve", "close",
           "solved", "refused"}
AnyLane == (UNION {Lanes[chaser] : chaser \in Chasers}) \cup {NoPlan}
WorkerState ==
  [at : Points, warm : BOOLEAN, result : Outcomes \cup {NoPlan}, lane : AnyLane]
FleetPlan == [at : {"working", "success", "failure"}, worker : [Chasers -> WorkerState]]

ASSUME PlanAssumption == NoPlan \notin FleetPlan

\* A verified plan keeps clear of every path it was given.
Result(chaser, outcome, found) ==
  /\ outcome \in Outcomes
  /\ IF outcome = "verified" THEN found \in Lanes[chaser] \ Occupied(chaser) ELSE found = NoPlan

\* Mutant: a rejected cold attempt is retried again.
AfterAgain(worker, outcome) ==
  IF outcome # "verified" /\ worker.warm THEN "cold" ELSE "close"

\* What follows an attempt: a warm start that failed is retried cold once,
\* then a residual that was not verified is refined once.
After(worker, outcome) ==
  IF outcome # "verified" /\ worker.at = "first" /\ worker.warm THEN "cold"
  ELSE IF outcome = "residual" /\ worker.at \in {"first", "cold solve"} THEN "refine"
  ELSE "close"

Attempted(chaser, outcome, found) ==
  Became(chaser, [Worker(chaser) EXCEPT !.at = After(Worker(chaser), outcome),
                                        !.result = outcome, !.lane = found])

SolveFirst(chaser, outcome, found) ==
  /\ At(chaser, "first") /\ Result(chaser, outcome, found)
  /\ Attempted(chaser, outcome, found)
  /\ UNCHANGED native

\* A retry is a second model beside the first.  If it cannot be built, the
\* first result stands; the appended message is no longer the residual one, so
\* no refinement follows a cold retry that was not built.
Rebuild(chaser, built) ==
  /\ \/ At(chaser, "cold") \/ At(chaser, "refine")
  /\ Became(chaser, [Worker(chaser) EXCEPT
       !.at = IF ~built THEN "close" ELSE IF @ = "cold" THEN "cold solve" ELSE "refine solve"])
  /\ native' = [native EXCEPT ![chaser] = IF built THEN @ + 1 ELSE @]

\* Mutant: the model of the rejected attempt is dropped without cleaning up.
ReplacedOnly(open) == open

\* The candidate replaces the model of the rejected attempt, cleaned up first.
Replaced(open) == open - 1

SolveAgain(chaser, outcome, found) ==
  /\ \/ At(chaser, "cold solve") \/ At(chaser, "refine solve")
  /\ Result(chaser, outcome, found)
  /\ Attempted(chaser, outcome, found)
  /\ native' = [native EXCEPT ![chaser] = Replaced(@)]

\* solve_problem cleans up whatever the result.
Close(chaser) ==
  /\ At(chaser, "close")
  /\ Became(chaser, IF Worker(chaser).result = "verified"
                    THEN [Unplanned EXCEPT !.at = "solved", !.lane = Worker(chaser).lane]
                    ELSE [Unplanned EXCEPT !.at = "refused"])
  /\ native' = [native EXCEPT ![chaser] = @ - 1]

-----------------------------------------------------------------------------
(* The end of plan()                                                       *)

\* Mutant: plans found at the same time are not compared with each other.
SeparatedByConstraint == TRUE

\* planned_separation_messages: every pair of plans is separated.
Separated == \A one, other \in Chasers : one # other => Worker(one).lane # Worker(other).lane

\* In order, the first failed attempt ends the call; in parallel all finish.
AllSettled ==
  IF parallel THEN Solved \cup Refused = Chasers ELSE Solved = Chasers \/ Refused # {}

FinishPlanning ==
  /\ Working /\ AllSettled
  /\ planning' = IF Solved = Chasers /\ Separated THEN [planning EXCEPT !.at = "success"] ELSE Failure
  /\ UNCHANGED native

PlanningStep ==
  /\ \/ FinishPlanning
     \/ \E chaser \in Chasers :
          \/ RefuseSpecification(chaser) \/ Close(chaser)
          \/ \E built \in BOOLEAN : SetUp(chaser, built) \/ Rebuild(chaser, built)
          \/ \E outcome \in Outcomes, found \in Lanes[chaser] \cup {NoPlan} :
               SolveFirst(chaser, outcome, found) \/ SolveAgain(chaser, outcome, found)
  /\ UNCHANGED <<parallel, context, lane, previous>>

PlanReady == planning # NoPlan /\ planning.at = "success"
PlanReturned == planning # NoPlan /\ planning.at # "working"

-----------------------------------------------------------------------------
(* The mission                                                             *)

CONSTANTS
  Drags, Actuators,   \* values the actual parameters may have
  Widths, Released,   \* of a navigation box, and of the first one
  MaxUpdates,
  ContractEvery       \* updates between contractions

ASSUME MissionAssumption ==
  /\ Observing = Chasers /\ Drags \subseteq Int /\ Actuators \subseteq Int /\ Widths \subseteq Nat
  /\ MaxUpdates \in Nat \ {0} /\ ContractEvery \in Nat \ {0} /\ Released \in Widths
  /\ \A drag \in Drags : \E i \in DOMAIN Partitions : Within(drag, Partitions[i])
  /\ \A actuator \in Actuators : Within(actuator, Affine) /\ Within(actuator, Support)

VARIABLES
  update,
  stage,      \* where run() is in the update
  width,      \* of the navigation boxes
  blackout    \* a hold was made without observations and is not recovered

missionVars == <<memberVars, planVars, update, stage, width, blackout>>

Init ==
  /\ MemberInit /\ PlanInit
  /\ actual \in [drag : Drags, actuator : [Chasers -> Actuators]]
  /\ update = 0 /\ stage = "open" /\ width = Released /\ blackout = FALSE

\* recover_navigation replays the unobserved hold; a refusal ends the mission.
Open ==
  /\ stage = "open" /\ update < MaxUpdates
  /\ \/ stage' = "forecast" /\ blackout' = FALSE
     \/ blackout /\ stage' = "ended" /\ UNCHANGED blackout
  /\ UNCHANGED <<memberVars, planVars, update, width>>

\* _planning_context of the current event and the current candidates.
ForecastBelief == InstallContext(update, active_model)

\* Nothing is planned on the first update, after an injected solver failure,
\* or when the forecast is refused, which leaves the old context installed.
Forecast ==
  /\ stage = "forecast"
  /\ \/ /\ ForecastBelief
        /\ \/ update > 0 /\ BeginPlanning /\ stage' = "plan"
           \/ UNCHANGED planning /\ stage' = "hold"
     \/ UNCHANGED <<context, planning>> /\ stage' = "hold"
  /\ UNCHANGED <<memberVars, parallel, lane, previous, native, update, width, blackout>>

Plan ==
  /\ stage = "plan"
  /\ IF PlanReturned THEN stage' = "hold" /\ UNCHANGED planVars ELSE PlanningStep /\ UNCHANGED stage
  /\ UNCHANGED <<memberVars, update, width, blackout>>

-----------------------------------------------------------------------------
(* One hold                                                                *)

\* _planning_model_valid: the declared model, or the present candidates' hull.
Recognised(model) == model \in {Hull(Partitions), active_model}

\* _advance: the plan is used only under the context of this event and of a
\* recognised belief, and as its sources bind it; any refusal makes the hold
\* the fallback's.
Usable == PlanReady /\ context.q = update /\ Recognised(context.model)

\* Mutant: the plans of the last success are kept when planning fails.
KeptPlans ==
  IF PlanReady THEN [chaser \in Chasers |-> [lane |-> Worker(chaser).lane, q |-> update]]
  ELSE previous

\* previous = planning.plans if planning.success else {}
RememberedPlans ==
  IF PlanReady THEN [chaser \in Chasers |-> [lane |-> Worker(chaser).lane, q |-> update]]
  ELSE <<>>

\* The hold that was observed; a fallback hold commands nothing here.
Observation(planned, observed) ==
  [start |-> update, initial |-> width, observed |-> observed, command |-> IF planned THEN 1 ELSE 0]

Advance ==
  /\ stage = "hold"
  /\ \E planned \in BOOLEAN :
       /\ planned => Usable
       /\ lane' = IF planned THEN [chaser \in Chasers |-> Worker(chaser).lane] ELSE lane
       /\ \/ /\ \E observed \in Widths :
                  /\ RetainTransitions([chaser \in Chasers |-> Observation(planned, observed)])
                  /\ width' = observed
             /\ UNCHANGED blackout
          \/ /\ ~planned /\ blackout' = TRUE
             /\ UNCHANGED <<history, pending_transitions, width>>
  /\ previous' = RememberedPlans /\ planning' = NoPlan
  /\ stage' = "learn"
  /\ UNCHANGED <<actual, mode, policy, candidates, active_model, surviving_cells, search,
                 parallel, context, native, update>>

-----------------------------------------------------------------------------
(* Learning                                                                *)

Due == update > 0 /\ update % ContractEvery = 0

Unlearned ==
  UNCHANGED <<actual, mode, policy, history, pending_transitions, candidates, active_model, surviving_cells>>

NextUpdate == update' = update + 1 /\ stage' = "open"

\* A frozen belief is recorded as such.
SkipContraction ==
  /\ stage = "learn" /\ (~Due \/ mode = "frozen")
  /\ NextUpdate
  /\ UNCHANGED <<memberVars, planVars, width, blackout>>

Contract ==
  /\ stage = "learn" /\ Due /\ mode = "adaptive"
  /\ BeginContraction /\ stage' = "contract"
  /\ Unlearned /\ UNCHANGED <<planVars, update, width, blackout>>

Contracting ==
  /\ stage = "contract" /\ ContractionStep
  /\ UNCHANGED <<planVars, update, stage, width, blackout>>

\* An inconsistent belief ends the mission with its last belief.
Contracted ==
  /\ stage = "contract"
  /\ \E consistent \in BOOLEAN :
       /\ CloseContraction(consistent)
       /\ IF consistent THEN NextUpdate ELSE stage' = "ended" /\ UNCHANGED update
  /\ UNCHANGED <<actual, mode, policy, history, pending_transitions, planVars, width, blackout>>

Next == Open \/ Forecast \/ Plan \/ Advance \/ SkipContraction \/ Contract \/ Contracting \/ Contracted

\* One thread; every call it makes returns.
Spec == Init /\ [][Next]_missionVars /\ WF_missionVars(Next)

-----------------------------------------------------------------------------
(* Properties                                                              *)

\* A native model lives no longer than the solve that built it: between plan()
\* calls none is open, and a solver never holds more than the model it judges
\* and one candidate -- after failed setups, cold retries, refinements and
\* chasers the call never reached (GekkoSolver.setup, GekkoDynamicTube.solve,
\* SolverBase.solve_problem).
NativeModelsAreReleased ==
  /\ \A chaser \in Chasers : native[chaser] \in 0..2
  /\ ~Working => \A chaser \in Chasers : native[chaser] = 0

\* The fleet leaves its lanes only on a plan for all of it, made at this event
\* under the present belief, which contains the actual parameter, with every
\* two chasers separated -- in order or in parallel, with stale contexts,
\* failed forecasts and peers previewed by plans that were never flown
\* (NonlinearMissionPlanner.plan, run, _advance's preflight).
FleetMovesOnJointPlan ==
  [][lane' # lane =>
       /\ context.q = update /\ context.model = active_model
       /\ Within(actual.drag, context.model)
       /\ \A one, other \in Chasers : one # other => lane'[one] # lane'[other]]_missionVars

\* A peer is previewed one step ahead of its plan, and a chaser warm-started
\* likewise: that is right only if every remembered plan was made on the
\* update before this one (plan() shifts previous_plans by one node; run()
\* forgets them when planning fails).
PreviewsAreOneUpdateOld ==
  stage \in {"open", "forecast", "plan"} => \A chaser \in DOMAIN previous : previous[chaser].q = update - 1

\* Every update returns to the loop or ends the mission: planning retries and
\* the contraction's splits are finite (GekkoDynamicTube.solve, _FlowBudget).
UpdateReturns == []<>(stage \in {"open", "ended"})

\* Membership keeps the actual parameter within the budgets it has.
BeliefIsKept == TruthIsRetained /\ BudgetsHold

\* Whatever a solve, a retry or a failure left behind, a plan is made from
\* fresh previews and leaves no native model.
PlanningIsFresh == PreviewsAreOneUpdateOld /\ NativeModelsAreReleased

=============================================================================
