--------------------------- MODULE RollingMission ---------------------------
(***************************************************************************)
(* The ordinary rolling-horizon mission (control/mpc/controller.py) and    *)
(* the batch adaptation it calls between plans (estimation/adaptation/     *)
(* batch.py), with one optimisation per bound and free parameter, in turn  *)
(* or in threads that answer through a queue.                              *)
(*                                                                         *)
(* States and inputs are named by their clock: input k leads from state    *)
(* k-1 to state k.  A window of data admits an arbitrary interval of every *)
(* free parameter; parameters are small positive integers and 0 stands for *)
(* the 0.0 an unanswered bound starts from.                                *)
(***************************************************************************)
EXTENDS Integers, Sequences, FiniteSetsExt, SequencesExt

CONSTANTS Free,              \* the free parameters, 0..k-1
          Grades,            \* the values of a parameter
          InitialRanges,     \* from the free parameters to [low, high]
          PlanSteps,         \* num_mpc_steps
          ActSteps,          \* num_act_steps
          MissionSteps,      \* max_mission_steps
          DataRange, AdaptationRange,
          GuessLength        \* the length of the initial control guess

RollingAssumption ==
  /\ {PlanSteps, ActSteps, MissionSteps, DataRange, AdaptationRange} \subseteq Nat \ {0}
  /\ Grades \subseteq Nat \ {0} /\ Grades # {} /\ PlanSteps >= 2
  /\ IsFiniteSet(Free) /\ Free = 0..Cardinality(Free) - 1
  /\ InitialRanges \subseteq [Free -> Int \X Int]

VARIABLES rolling,   \* the loop of run_mission
          problem,   \* the problem the solver is set up with
          adaptor    \* one call of run_adaptation
rollingVars == <<rolling, problem, adaptor>>

NoProblem == [start |-> -1, goal |-> -1]
Operations == 0..2 * Cardinality(Free) - 1
ParameterOf(operation) == operation \div 2
Lower == 0
Side(operation) == operation % 2

Resting == [state |-> "resting", data |-> 0, ranges |-> [p \in Free |-> <<0, 0>>],
            window |-> [states |-> <<>>, inputs |-> <<>>],
            feasible |-> [p \in Free |-> {}], before |-> [p \in Free |-> <<0, 0>>],
            running |-> {}, answers |-> <<>>, lost |-> FALSE,
            estimate |-> [p \in Free |-> 0]]

RollingInit ==
  /\ \E init \in InitialRanges, b \in BOOLEAN, t \in BOOLEAN, guess \in GuessLength :
       rolling = [state |-> "planning", n |-> 0, goal |-> 0, solves |-> 0, plan |-> 0,
                     flown |-> 0, at |-> 0, adaptive |-> b, threaded |-> t, guess |-> guess,
                     init |-> init,
                     model |-> [p \in Free |-> 0]]
  /\ problem = NoProblem
  /\ adaptor = Resting

-----------------------------------------------------------------------------
(* run_mission                                                             *)

\* The problem of the current state: its clock, its first state and the target
\* at that clock.  A guess of the wrong shape raises out of the mission.
SetUp ==
  /\ rolling.state = "planning" /\ rolling.solves < MissionSteps
  /\ IF rolling.guess = "fits"
     THEN /\ problem' = [start |-> rolling.n, goal |-> rolling.goal]
          /\ rolling' = [rolling EXCEPT !.state = "solving", !.solves = @ + 1]
     ELSE /\ rolling' = [rolling EXCEPT !.state = "raised"]
          /\ UNCHANGED problem
  /\ UNCHANGED adaptor

\* The plan has one input for every interval between its nodes, or is a single
\* input; the solver is cleaned up.
Solve ==
  /\ rolling.state = "solving"
  /\ \E intervals \in {0, 1, PlanSteps - 1} :
       rolling' = [rolling EXCEPT
         !.state = IF intervals = 0 THEN "failed" ELSE "flying",
         !.plan = Min({ActSteps, intervals}), !.flown = 0, !.at = problem.start]
  /\ problem' = NoProblem
  /\ UNCHANGED adaptor

\* Mutant: the target stays the one the plan was made for.
GoalOfThePlan(n) == rolling.goal

GoalAt(n) == n

\* One interval of the plan; the target is evaluated again at the new clock.
Actuate ==
  /\ rolling.state = "flying" /\ rolling.flown < rolling.plan
  /\ rolling' = [rolling EXCEPT !.n = @ + 1, !.flown = @ + 1, !.goal = GoalAt(rolling.n + 1)]
  /\ UNCHANGED <<problem, adaptor>>

Available == Min({DataRange, rolling.n + 1})

\* The last states; the last inputs, the first of them repeated in front when
\* there is one input less than there are states.
RecentStates == [i \in 1..Available |-> rolling.n - Available + i]

\* Mutant: the missing input is repeated at the end.
PaddedBehind ==
  LET given == Min({Available, rolling.n})
  IN  [i \in 1..Available |-> Min({rolling.n - given + i, rolling.n})]

RecentInputs ==
  LET given == Min({Available, rolling.n})
  IN  [i \in 1..Available |-> rolling.n - given + Max({i - (Available - given), 1})]

PlanIsFlown == rolling.state = "flying" /\ rolling.flown = rolling.plan

NextPlan(init, model) ==
  rolling' = [rolling EXCEPT !.state = IF rolling.solves < MissionSteps THEN "planning" ELSE "done",
                             !.plan = 0, !.flown = 0, !.at = 0, !.init = init, !.model = model]

PlanAgain ==
  /\ PlanIsFlown
  /\ ~rolling.adaptive \/ Available <= AdaptationRange
  /\ NextPlan(rolling.init, rolling.model)
  /\ UNCHANGED <<problem, adaptor>>

-----------------------------------------------------------------------------
(* run_adaptation                                                          *)

\* The estimates start at the middle of the ranges.
Adapt ==
  /\ PlanIsFlown /\ rolling.adaptive /\ Available > AdaptationRange
  /\ rolling' = [rolling EXCEPT !.state = "adapting"]
  /\ adaptor' = [Resting EXCEPT
       !.state = "reading", !.ranges = rolling.init,
       !.estimate = [p \in Free |-> (rolling.init[p][1] + rolling.init[p][2]) \div 2]]
  /\ UNCHANGED problem

Interval(range) == range[1]..range[2]

\* The data up to the next multiple of the adaptation range; one operation for
\* each bound of each free parameter starts with the present ranges.
Launch ==
  /\ adaptor.state = "reading"
  /\ LET data == adaptor.data + AdaptationRange
     IN  /\ data < Available
         /\ \E feasible \in [Free -> SUBSET Grades] :
              /\ \A p \in Free : /\ feasible[p] \subseteq Interval(adaptor.ranges[p])
                                 /\ feasible[p] # {} => feasible[p] = Min(feasible[p])..Max(feasible[p])
              /\ adaptor' = [adaptor EXCEPT
                   !.state = "bounding", !.data = data, !.before = adaptor.ranges,
                   !.window = [states |-> SubSeq(RecentStates, data - AdaptationRange + 1, data),
                               inputs |-> SubSeq(RecentInputs, data - AdaptationRange + 1, data)],
                   !.feasible = feasible, !.running = Operations, !.answers = <<>>]
  /\ UNCHANGED <<rolling, problem>>

\* What one optimisation answers: the extreme feasible value, or the present
\* bound when it fails.
BoundAnswers(operation) ==
  LET p == ParameterOf(operation)
      bound == adaptor.ranges[p][Side(operation) + 1]
      feasible == adaptor.feasible[p]
  IN  {bound} \cup (IF feasible = {} THEN {}
                    ELSE {IF Side(operation) = Lower THEN Min(feasible) ELSE Max(feasible)})

\* In turn, or in whatever order the threads end.
Startable(operation) ==
  operation \in adaptor.running /\ (~rolling.threaded => operation = Min(adaptor.running))

OperationEnds(operation) ==
  /\ adaptor.state = "bounding" /\ Startable(operation)
  /\ \E value \in BoundAnswers(operation) :
       adaptor' = [adaptor EXCEPT !.running = @ \ {operation},
                                  !.answers = Append(@, <<operation, value>>)]
  /\ UNCHANGED <<rolling, problem>>

\* thread_worker: a raised operation leaves no answer.  Out of a thread it ends
\* the adaptation, which the mission skips.
OperationRaises(operation) ==
  /\ adaptor.state = "bounding" /\ Startable(operation)
  /\ IF rolling.threaded
     THEN /\ adaptor' = [adaptor EXCEPT !.running = @ \ {operation}, !.lost = TRUE]
          /\ UNCHANGED rolling
     ELSE /\ adaptor' = Resting
          /\ NextPlan(rolling.init, rolling.model)
  /\ UNCHANGED problem

\* Mutant: the answers are taken in the order of their arrival.
AnswerInOrder(operation) ==
  IF operation < Len(adaptor.answers) THEN adaptor.answers[operation + 1][2] ELSE 0

AnswerOf(operation) ==
  LET given == {i \in DOMAIN adaptor.answers : adaptor.answers[i][1] = operation}
  IN  IF given = {} THEN 0 ELSE adaptor.answers[Min(given)][2]

\* All threads are joined; the answers can only narrow a range.
Assemble ==
  /\ adaptor.state = "bounding" /\ adaptor.running = {}
  /\ adaptor' = [adaptor EXCEPT
       !.state = "estimating", !.answers = <<>>,
       !.ranges = [p \in Free |->
         LET answered == {AnswerOf(2 * p), AnswerOf(2 * p + 1)}
         IN  <<Max({Min(answered), adaptor.ranges[p][1]}), Min({Max(answered), adaptor.ranges[p][2]})>>]]
  /\ UNCHANGED <<rolling, problem>>

\* The best fit replaces the estimates when every one of them is in its range; here
\* it has one value for all parameters, or a value below every range.
Estimate ==
  /\ adaptor.state = "estimating"
  /\ \E fit \in {[p \in Free |-> v] : v \in Grades \cup {0}} :
       adaptor' = [adaptor EXCEPT
         !.state = "reading", !.feasible = Resting.feasible, !.before = Resting.before,
         !.lost = FALSE,
         !.estimate = IF \A p \in Free : fit[p] \in Interval(adaptor.ranges[p]) THEN fit ELSE @]
  /\ UNCHANGED <<rolling, problem>>

EstimateRaises ==
  /\ adaptor.state = "estimating"
  /\ adaptor' = Resting
  /\ NextPlan(rolling.init, rolling.model)
  /\ UNCHANGED problem

\* The ranges are the ones the next adaptation starts from; the estimates become
\* the parameters of the model and of the simulated plant.
Adapted ==
  /\ adaptor.state = "reading" /\ adaptor.data + AdaptationRange >= Available
  /\ adaptor' = Resting
  /\ NextPlan(adaptor.ranges, adaptor.estimate)
  /\ UNCHANGED problem

RollingNext ==
  \/ SetUp \/ Solve \/ Actuate \/ PlanAgain
  \/ Adapt \/ Launch \/ Assemble \/ Estimate \/ EstimateRaises \/ Adapted
  \/ \E operation \in Operations : OperationEnds(operation) \/ OperationRaises(operation)

RollingSpec == RollingInit /\ [][RollingNext]_rollingVars

-----------------------------------------------------------------------------
\* Every plan is solved for the state, the clock and the target it starts from,
\* each of its inputs is flown in its own interval, and in every window of data
\* the adaptation reads, a state stands beside the input that led to it.
PlansAndWindowsAlign ==
  /\ rolling.state = "solving" => problem = [start |-> rolling.n, goal |-> rolling.n]
  /\ rolling.state = "flying" => rolling.n = rolling.at + rolling.flown
  /\ \A i \in DOMAIN adaptor.window.states :
       i > 1 \/ adaptor.window.states[i] > 0 => adaptor.window.inputs[i] = adaptor.window.states[i]

\* An adaptation in which no operation was lost keeps every value its data admit,
\* in whatever order its threads end, and never widens a range.
RangesKeepTheFeasible ==
  adaptor.state = "estimating" =>
    \A p \in Free :
      /\ ~adaptor.lost => adaptor.feasible[p] \subseteq Interval(adaptor.ranges[p])
      /\ adaptor.ranges[p][1] >= adaptor.before[p][1] /\ adaptor.ranges[p][2] <= adaptor.before[p][2]

=============================================================================
