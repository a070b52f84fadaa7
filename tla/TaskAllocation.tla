---------------------------- MODULE TaskAllocation ----------------------------
(***************************************************************************)
(* Task allocation (planning/coordination/allocation): agents over a       *)
(* communication network improve who goes where, one step_agent call at a  *)
(* time in an order the caller chooses, by greedy goal swaps, local        *)
(* Hungarian reassignment or a distributed auction.                        *)
(*                                                                         *)
(* Positions are integers on a line; a goal is the index of a task.        *)
(* linear_sum_assignment may return any optimal assignment.                *)
(***************************************************************************)
EXTENDS Integers, Sequences, FiniteSets, SequencesExt, FiniteSetsExt

CONSTANTS
  LastAgent,        \* agents are 0..LastAgent, as are the tasks
  Layouts,     \* start positions of the agents
  TaskAt,      \* positions of the tasks
  Policies,
  Nearest,     \* k of the nearest-neighbour network
  Radius,      \* of the radius network
  Noise,       \* what the auction may add to a bid
  Prices       \* the prices explored

Agents == 0..LastAgent

AllocationAssumption ==
  /\ LastAgent \in Nat /\ Nearest \in Nat /\ Radius \in Nat
  /\ Layouts \subseteq [Agents -> Int] /\ TaskAt \in [Agents -> Int]
  /\ Policies \subseteq {"greedy", "hungarian", "auction"}
  /\ Noise \subseteq Int /\ Prices \subseteq Int /\ 0 \in Prices

Distance(a, b) == IF a < b THEN b - a ELSE a - b

-----------------------------------------------------------------------------
(* Networks                                                                *)

\* Each entry comes before what is not yet listed.
Lists == UNION {[1..n -> Agents] : n \in 0..LastAgent}
InOrder(list, candidates, before(_, _)) ==
  \A i \in DOMAIN list :
    LET left == candidates \ {list[k] : k \in 1..i - 1}
    IN  list[i] \in left /\ \A j \in left \ {list[i]} : before(list[i], j)

\* KNNNetwork.neighbors: the k nearest others, ties in index order.
NearestOf(start, agent) ==
  LET closer(i, j) == \/ Distance(start[i], start[agent]) < Distance(start[j], start[agent])
                      \/ Distance(start[i], start[agent]) = Distance(start[j], start[agent]) /\ i < j
  IN  {list \in Lists : /\ Len(list) = (IF Nearest < LastAgent THEN Nearest ELSE LastAgent)
                        /\ InOrder(list, Agents \ {agent}, closer)}

\* RadiusNetwork.neighbors
WithinRadius(start, agent) ==
  LET near == {j \in Agents \ {agent} : Distance(start[j], start[agent]) <= Radius}
  IN  {list \in Lists : ToSet(list) = near /\ InOrder(list, near, LAMBDA i, j : i < j)}

Networks(start) ==
  {lists \in [Agents -> Lists] : \A agent \in Agents : lists[agent] \in NearestOf(start, agent)}
    \cup {lists \in [Agents -> Lists] : \A agent \in Agents : lists[agent] \in WithinRadius(start, agent)}

\* The search of is_connected, which takes it from agent 0 only.
Reached(lists, first) ==
  LET more[n \in 0..LastAgent] == IF n = 0 THEN {first}
        ELSE more[n - 1] \cup UNION {ToSet(lists[agent]) : agent \in more[n - 1]}
  IN  more[LastAgent]

-----------------------------------------------------------------------------

VARIABLES
  policy,
  neighbors,    \* per agent, in the network's order
  start,
  goal,         \* goal_pos, as the task it is
  assignment, prices, winners   \* the auction's memory

allocationVars == <<policy, neighbors, start, goal, assignment, prices, winners>>

None == -1

\* TaskAllocationSystem, make_agents and the policies' initialize.
Init ==
  /\ policy \in Policies /\ start \in Layouts
  /\ neighbors \in Networks(start)
  /\ goal = [agent \in Agents |-> agent]
  /\ assignment = [agent \in Agents |-> agent]
  /\ prices = [agent \in Agents |-> [task \in Agents |-> 0]]
  /\ winners = [agent \in Agents |-> [task \in Agents |-> None]]

Travel(agent, task) == Distance(start[agent], TaskAt[task])
Total(goals) == MapThenSumSet(LAMBDA agent : Travel(agent, goals[agent]), Agents)

-----------------------------------------------------------------------------
(* GreedySwapPolicy                                                        *)

Intersects(agent, other, goals) ==
  Travel(agent, goals[other]) + Travel(other, goals[agent])
    < Travel(agent, goals[agent]) + Travel(other, goals[other])

\* Mutant: the goal is not copied before it is overwritten.
SwappedByReference(goals, agent, other) == [goals EXCEPT ![agent] = goals[other]]

Swapped(goals, agent, other) == [goals EXCEPT ![agent] = goals[other], ![other] = goals[agent]]

\* The neighbours found at first are taken in turn until none intersects any
\* more: a later one is swapped even if it no longer intersects itself.
GreedyGoals(agent) ==
  LET list == neighbors[agent]
      after[i \in 0..Len(list)] ==
        IF i = 0 THEN goal
        ELSE IF /\ Intersects(agent, list[i], goal)
                /\ \E other \in ToSet(list) : Intersects(agent, other, after[i - 1])
        THEN Swapped(after[i - 1], agent, list[i]) ELSE after[i - 1]
  IN  after[Len(list)]

GreedyStep(agent) ==
  /\ policy = "greedy"
  /\ goal' = GreedyGoals(agent)
  /\ UNCHANGED <<assignment, prices, winners>>

-----------------------------------------------------------------------------
(* LocalHungarianPolicy                                                    *)

Cluster(agent) == {agent} \cup ToSet(neighbors[agent])

Assignments(cluster) == {f \in [cluster -> cluster] : IsInjective(f)}

ClusterCost(cluster, column) == MapThenSumSet(LAMBDA agent : Travel(agent, goal[column[agent]]), cluster)

Optimal(cluster) ==
  {column \in Assignments(cluster) :
     \A other \in Assignments(cluster) : ClusterCost(cluster, column) <= ClusterCost(cluster, other)}

Reassigned(cluster, column) ==
  [agent \in Agents |-> IF agent \in cluster THEN goal[column[agent]] ELSE goal[agent]]

\* Alone in its cluster an agent keeps its goal.
HungarianStep(agent) ==
  /\ policy = "hungarian"
  /\ \E column \in Optimal(Cluster(agent)) : goal' = Reassigned(Cluster(agent), column)
  /\ UNCHANGED <<assignment, prices, winners>>

-----------------------------------------------------------------------------
(* DistributedAuctionPolicy                                                *)

BestPrice(agent, task) == Max({prices[other][task] : other \in Cluster(agent)})
WinnersAt(agent, task, price) ==
  {winners[other][task] : other \in {o \in Cluster(agent) : prices[o][task] = price}}

\* Mutant: at equal prices the agent keeps the winner it knew.
HeardOwnWinner(agent, task) ==
  LET best == BestPrice(agent, task)
  IN  [price |-> best,
       winner |-> IF prices[agent][task] = best THEN winners[agent][task]
                  ELSE Max(WinnersAt(agent, task, best))]

\* The best price among the neighbours and its winner; at equal prices the
\* largest winner known.
Heard(agent, task) ==
  LET best == BestPrice(agent, task)
  IN  [price |-> best, winner |-> Max(WinnersAt(agent, task, best))]

HeardPrices(agent) == [task \in Agents |-> Heard(agent, task).price]
HeardWinners(agent) == [task \in Agents |-> Heard(agent, task).winner]

\* argmax: the first of the best.
Net(agent, task) == -Travel(agent, task) - Heard(agent, task).price
Preferred(agent) ==
  CHOOSE task \in Agents : \A other \in Agents :
    Net(agent, task) > Net(agent, other) \/ (Net(agent, task) = Net(agent, other) /\ task <= other)

SecondBest(agent) ==
  IF LastAgent = 0 THEN Net(agent, 0) ELSE Max({Net(agent, task) : task \in Agents \ {Preferred(agent)}})

\* An outbid agent takes its best task, and raises the price by what that task
\* is worth over the next, give or take the noise.
Bid(agent, noise) ==
  LET task == Preferred(agent)
      price == Heard(agent, task).price + Net(agent, task) - SecondBest(agent) + noise
  IN  /\ price \in Prices
      /\ assignment' = [assignment EXCEPT ![agent] = task]
      /\ winners' = [winners EXCEPT ![agent] = [HeardWinners(agent) EXCEPT ![task] = agent]]
      /\ prices' = [prices EXCEPT ![agent] = [HeardPrices(agent) EXCEPT ![task] = price]]

AuctionStep(agent) ==
  /\ policy = "auction"
  /\ IF Heard(agent, assignment[agent]).winner = agent
     THEN /\ prices' = [prices EXCEPT ![agent] = HeardPrices(agent)]
          /\ winners' = [winners EXCEPT ![agent] = HeardWinners(agent)]
          /\ UNCHANGED assignment
     ELSE \E noise \in Noise : Bid(agent, noise)
  /\ goal' = [goal EXCEPT ![agent] = assignment'[agent]]

\* step_agent, in whatever order.
Next ==
  /\ \E agent \in Agents : GreedyStep(agent) \/ HungarianStep(agent) \/ AuctionStep(agent)
  /\ UNCHANGED <<policy, neighbors, start>>

Spec == Init /\ [][Next]_allocationVars

-----------------------------------------------------------------------------
(* Properties                                                              *)

\* Swaps and local reassignments never lose or double a task, whatever the
\* clusters and the order (GreedySwapPolicy.step, LocalHungarianPolicy.step).
EveryTaskKeepsItsAgent ==
  policy \in {"greedy", "hungarian"} => {goal[agent] : agent \in Agents} = Agents

\* Nobody hears anything new and nobody is outbid.
Quiet ==
  \A agent \in Agents :
    /\ HeardPrices(agent) = prices[agent] /\ HeardWinners(agent) = winners[agent]
    /\ winners[agent][assignment[agent]] = agent

\* Everybody hears from everybody, directly or through others.
MutuallyConnected == \A agent \in Agents : Reached(neighbors, agent) = Agents

\* An auction that has come to rest is an assignment: over a network in which
\* everybody hears from everybody, when no step changes anything no two agents
\* hold one task (has_converged; the tie-break at equal prices is what makes
\* neighbours agree on the winner).
RestIsAssignment == policy = "auction" /\ MutuallyConnected /\ Quiet => IsInjective(assignment)

=============================================================================
