------------------------- MODULE AdaptiveMissionProofs -------------------------
(***************************************************************************)
(* No contraction discards the truth or overruns its budget, every plan is *)
(* made from fresh previews and leaves no native model, and the fleet      *)
(* leaves its lanes only on a joint plan under the present belief: for     *)
(* every fleet, prior, window and budget.                                  *)
(*                                                                         *)
(* BeliefInv follows the contraction: a candidate with the actual drag is  *)
(* never rejected because an endpoint that is carried through its window   *)
(* contains the actual state, and the cell of the actual actuator is at    *)
(* every point pending, under test or kept.  PlanInv locates the native    *)
(* models by what each chaser's worker is doing, and says that a plan in   *)
(* hand is of this event and of this belief.                               *)
(***************************************************************************)
EXTENDS AdaptiveMission, SequenceTheorems, WellFoundedInduction, TLAPS

-----------------------------------------------------------------------------
(* The belief                                                              *)

Box == Int \X Int
ObservedHold == [start : Nat, initial : Nat, observed : Nat, command : {0, 1}]
SearchPoints == {"candidate", "agent", "target", "cells", "cell", "transition"}
Contraction ==
  [at : SearchPoints, index : Nat, retained : Seq(Box), agent : Nat, item : Nat,
   flows : Nat, evaluated : Nat, targets : Seq(BOOLEAN), endpoint : Box \cup {Nothing},
   ended : Int, pending : Seq(Box), survivors : Seq(Box), cell : Box \cup {Nothing}]

BeliefTypes ==
  /\ actual \in [drag : Int, actuator : [Observing -> Int]]
  /\ \A agent \in Observing :
       Within(actual.actuator[agent], Affine) /\ Within(actual.actuator[agent], Support)
  /\ history \in [Observing -> Seq(ObservedHold)]
  /\ pending_transitions \in Seq(ObservedHold) /\ Len(pending_transitions) <= Len(Observers)
  /\ candidates \in Seq(Box)
  /\ \A key \in DOMAIN surviving_cells :
       surviving_cells[key] \in Seq(Box) /\ Len(surviving_cells[key]) <= MaxCells

Truthful(box) == Within(actual.drag, box)
Covers(cells, value) == \E j \in 1..Len(cells) : Within(value, cells[j])

\* The truth is among what is kept of a belief.
CandidatesKept ==
  /\ \E i \in 1..Len(candidates) : Truthful(candidates[i])
  /\ Within(actual.drag, active_model)

CellsKept ==
  \A key \in DOMAIN surviving_cells : \A agent \in Observing :
    key[2] = agent /\ Truthful(key[1]) => Covers(surviving_cells[key], actual.actuator[agent])

\* Where a contraction stands: what is in hand at each of its points.
Stands(s) ==
  /\ s.index \in 1..(Len(candidates) + 1) /\ s.item >= 1
  /\ s.at # "candidate" => s.index <= Len(candidates)
  /\ s.at \in {"target", "cells", "cell"} => s.agent \in 1..Len(Observed)
  /\ s.at \in {"candidate", "agent"} => s.agent >= 1
  /\ s.at \notin {"cells", "cell"} => s.pending = <<>> /\ s.survivors = <<>>
  /\ IF s.at = "cell" THEN s.cell \in Box ELSE s.cell = Nothing
  /\ s.at \in {"candidate", "agent", "cells"} => s.item = 1 /\ s.endpoint = Nothing

WithinBudget(s) ==
  /\ s.flows <= MaxFlows /\ s.evaluated <= MaxFlows
  /\ Len(s.survivors) + Len(s.pending) <= MaxCells
  /\ s.at = "cell" => Len(s.survivors) + Len(s.pending) < MaxCells

\* A truthful candidate that was examined is retained; the truth is in the box
\* that is carried to the next hold of one under examination; and the actual
\* actuator of the agent is in a cell that is still there.
RetainedSoFar(s) ==
  (\E i \in 1..Len(candidates) : i < s.index /\ Truthful(candidates[i]))
    => \E i \in 1..Len(s.retained) : Truthful(s.retained[i])

Examined(s) == Truthful(candidates[s.index])
Actuator(s) == actual.actuator[Observed[s.agent]]

TargetFollows(s) ==
  s.at = "target" /\ s.endpoint # Nothing /\ Examined(s) => Within(0, s.endpoint)

CellsFollow(s) ==
  s.at \in {"cells", "cell"} /\ Examined(s) =>
    \/ Covers(s.pending, Actuator(s)) \/ Covers(s.survivors, Actuator(s))
    \/ s.at = "cell" /\ Within(Actuator(s), s.cell)

CellFollows(s) ==
  s.at = "cell" /\ s.endpoint # Nothing /\ Examined(s) /\ Within(Actuator(s), s.cell)
    => Within(0, s.endpoint)

Sound(s) ==
  /\ s \in Contraction /\ Stands(s) /\ WithinBudget(s)
  /\ RetainedSoFar(s) /\ TargetFollows(s) /\ CellsFollow(s) /\ CellFollows(s)

SearchInv == search # Nothing => Sound(search)

BeliefInv == BeliefTypes /\ CandidatesKept /\ CellsKept /\ SearchInv

-----------------------------------------------------------------------------
(* The plan                                                                *)

\* The native models of a chaser, by what its worker is doing.
NoModel == {"waiting", "solved", "refused"}
TwoModels == {"cold solve", "refine solve"}
Models(at) == IF at \in NoModel THEN 0 ELSE IF at \in TwoModels THEN 2 ELSE 1

PlanTypes ==
  /\ parallel \in BOOLEAN
  /\ planning \in FleetPlan \cup {NoPlan}
  /\ native \in [Chasers -> Nat]
  /\ update \in Nat /\ width \in Widths
  /\ stage \in {"open", "forecast", "plan", "hold", "learn", "contract", "ended"}

NativeFollows ==
  /\ Working => \A chaser \in Chasers : native[chaser] = Models(Worker(chaser).at)
  /\ ~Working => \A chaser \in Chasers : native[chaser] = 0

\* In order, whoever has begun has only solved chasers before it.
InOrder ==
  Working /\ ~parallel =>
    \A i \in 1..Len(Fleet) : \A j \in 1..Len(Fleet) :
      j < i /\ Worker(Fleet[i]).at # "waiting" => Worker(Fleet[j]).at = "solved"

PlanInHand ==
  /\ planning # NoPlan =>
       /\ stage \in {"plan", "hold"}
       /\ context = [q |-> update, model |-> active_model]
  /\ PlanReady => Separated
  /\ Working => stage = "plan"

PreviewsFollow ==
  /\ PreviewsAreOneUpdateOld
  /\ stage \in {"learn", "contract"} => \A chaser \in DOMAIN previous : previous[chaser].q = update

PlanInv == PlanTypes /\ NativeFollows /\ InOrder /\ PlanInHand /\ PreviewsFollow

\* Contracting and planning never overlap.
Apart == search # Nothing => stage = "contract"

Inv == BeliefInv /\ PlanInv /\ Apart

-----------------------------------------------------------------------------
(* Boxes                                                                   *)

\* Finitely many integers have a least one.
LEMMA LeastExists ==
  ASSUME NEW n \in Nat \ {0}, NEW f, \A i \in 1..n : f[i] \in Int
  PROVE  \E i \in 1..n : \A j \in 1..n : f[i] <= f[j]
  <1>. DEFINE Least(m) == \E i \in 1..m : \A j \in 1..m : f[i] <= f[j]
              T == {m \in 1..n : ~Least(m)}
  <1>1. SUFFICES ASSUME T # {} PROVE FALSE
    <2>1. n \in 1..n /\ n \notin T
      BY <1>1
    <2>. QED
      BY <2>1
  <1>2. T \subseteq Nat
    OBVIOUS
  <1>3. \E m \in T : \A k \in T : ~(<<k, m>> \in OpToRel(<, Nat))
    <2>. HIDE DEF T
    <2>. QED
      BY <1>1, <1>2, WFMin, NatLessThanWellFounded
  <1>4. PICK m \in T : \A k \in T : ~(<<k, m>> \in OpToRel(<, Nat))
    BY <1>3
  <1>5. \A k \in T : ~(k < m)
    BY <1>2, <1>4 DEF OpToRel
  <1>6. m \in 1..n /\ ~Least(m)
    BY <1>4
  <1>7. m # 1
    <2>1. Least(1)
      OBVIOUS
    <2>. QED
      BY <1>6, <2>1
  <1>8. Least(m - 1)
    <2>1. m - 1 \in 1..n /\ m - 1 < m
      BY <1>6, <1>7
    <2>2. m - 1 \notin T
      BY <1>5, <2>1
    <2>. HIDE DEF Least
    <2>. QED
      BY <2>1, <2>2
  <1>9. PICK i \in 1..(m - 1) : \A j \in 1..(m - 1) : f[i] <= f[j]
    BY <1>8
  <1>10. CASE f[i] <= f[m]
    <2>1. i \in 1..m /\ \A j \in 1..m : f[i] <= f[j]
      BY <1>6, <1>9, <1>10
    <2>. QED
      BY <1>6, <2>1
  <1>11. CASE ~(f[i] <= f[m])
    <2>1. \A j \in 1..m : f[m] <= f[j]
      BY <1>6, <1>9, <1>11
    <2>2. m \in 1..m
      BY <1>6
    <2>. QED
      BY <1>6, <2>1, <2>2
  <1>. QED
    BY <1>10, <1>11

\* What one box contains, the hull of all contains.
LEMMA HullContains ==
  ASSUME NEW boxes \in Seq(Box), NEW i \in 1..Len(boxes), NEW v \in Int, Within(v, boxes[i])
  PROVE  Within(v, Hull(boxes))
  <1>. DEFINE n == Len(boxes)
  <1>1. n \in Nat \ {0} /\ DOMAIN boxes = 1..n
    OBVIOUS
  <1>2. \A k \in 1..n : boxes[k] \in Box /\ boxes[k][1] \in Int /\ boxes[k][2] \in Int
    BY DEF Box
  <1>. HIDE DEF n
  <1>3. \E low \in {boxes[k][1] : k \in DOMAIN boxes} : \A k \in DOMAIN boxes : low <= boxes[k][1]
    <2>1. PICK f : f = [k \in 1..n |-> boxes[k][1]]
      OBVIOUS
    <2>2. \A k \in 1..n : f[k] = boxes[k][1] /\ f[k] \in Int
      BY <1>2, <2>1
    <2>3. PICK k \in 1..n : \A j \in 1..n : f[k] <= f[j]
      BY <1>1, <2>2, LeastExists
    <2>. QED
      BY <1>1, <2>2, <2>3
  <1>4. \E high \in {boxes[k][2] : k \in DOMAIN boxes} : \A k \in DOMAIN boxes : boxes[k][2] <= high
    <2>1. PICK f : f = [k \in 1..n |-> -boxes[k][2]]
      OBVIOUS
    <2>2. \A k \in 1..n : f[k] = -boxes[k][2] /\ f[k] \in Int
      BY <1>2, <2>1
    <2>3. PICK k \in 1..n : \A j \in 1..n : f[k] <= f[j]
      BY <1>1, <2>2, LeastExists
    <2>4. \A j \in 1..n : boxes[j][2] <= boxes[k][2]
      BY <1>2, <2>2, <2>3
    <2>. QED
      BY <1>1, <2>4
  <1>5. PICK low : /\ low = CHOOSE x \in {boxes[k][1] : k \in DOMAIN boxes} :
                              \A k \in DOMAIN boxes : x <= boxes[k][1]
                   /\ low \in {boxes[k][1] : k \in DOMAIN boxes}
                   /\ \A k \in DOMAIN boxes : low <= boxes[k][1]
    BY <1>3
  <1>6. PICK high : /\ high = CHOOSE x \in {boxes[k][2] : k \in DOMAIN boxes} :
                                \A k \in DOMAIN boxes : boxes[k][2] <= x
                    /\ high \in {boxes[k][2] : k \in DOMAIN boxes}
                    /\ \A k \in DOMAIN boxes : boxes[k][2] <= high
    BY <1>4
  <1>7. Hull(boxes) = <<low, high>>
    BY <1>5, <1>6 DEF Hull
  <1>8. low \in Int /\ high \in Int /\ low <= boxes[i][1] /\ boxes[i][2] <= high /\ i \in 1..n
    BY <1>1, <1>2, <1>5, <1>6 DEF n
  <1>9. low <= v /\ v <= high
    BY <1>2, <1>8 DEF Within
  <1>. QED
    BY <1>7, <1>9 DEF Within

\* Two boxes with a common member meet in it.
LEMMA MeetContains ==
  ASSUME NEW a \in Box, NEW b \in Box, NEW v \in Int, Within(v, a), Within(v, b)
  PROVE  Meet(a, b) \in Box /\ Within(v, Meet(a, b)) /\ ~Empty(Meet(a, b))
  <1>1. a[1] \in Int /\ a[2] \in Int /\ b[1] \in Int /\ b[2] \in Int
    BY DEF Box
  <1>. QED
    BY <1>1 DEF Meet, Within, Empty, Larger, Smaller, Box

LEMMA MeetIsBox ==
  ASSUME NEW a \in Box, NEW b \in Box
  PROVE  Meet(a, b) \in Box
  BY DEF Meet, Larger, Smaller, Box

LEMMA AroundContains ==
  ASSUME NEW n \in Nat
  PROVE  Around(n) \in Box /\ Within(0, Around(n))
  BY DEF Around, Within, Box

LEMMA SpreadContains ==
  ASSUME NEW a \in Box, NEW b \in Box
  PROVE  /\ Spread(a, b) \in Box
         /\ Within(0, a) /\ Within(0, b) => Within(0, Spread(a, b))
  BY DEF Spread, Within, Box

LEMMA MovedContains ==
  ASSUME NEW a \in Box, NEW v \in Int
  PROVE  /\ Moved(a, -v) \in Box
         /\ Within(v, a) => Within(0, Moved(a, -v))
  BY DEF Moved, Within, Box

\* A command scales a box and what is in it.
LEMMA ScaledContains ==
  ASSUME NEW a \in Box, NEW c \in {0, 1}
  PROVE  /\ Scaled(a, c) \in Box
         /\ \A v \in Int : v * c \in Int /\ (Within(v, a) => Within(v * c, Scaled(a, c)))
  <1>1. a[1] \in Int /\ a[2] \in Int
    BY DEF Box
  <1>2. CASE c = 0
    <2>1. Scaled(a, c) = <<0, 0>> /\ \A v \in Int : v * c = 0
      BY <1>1, <1>2 DEF Scaled
    <2>. QED
      BY <2>1 DEF Box, Within
  <1>3. CASE c = 1
    <2>1. Scaled(a, c) = <<a[1], a[2]>> /\ \A v \in Int : v * c = v
      BY <1>1, <1>3 DEF Scaled
    <2>. QED
      BY <1>1, <2>1 DEF Box, Within
  <1>. QED
    BY <1>2, <1>3

-----------------------------------------------------------------------------
(* Sequences of boxes                                                      *)

LEMMA LongerCovers ==
  ASSUME NEW cells \in Seq(Box), NEW cell \in Box, NEW v
  PROVE  /\ Append(cells, cell) \in Seq(Box) /\ Len(Append(cells, cell)) = Len(cells) + 1
         /\ Covers(cells, v) => Covers(Append(cells, cell), v)
         /\ Within(v, cell) => Covers(Append(cells, cell), v)
  <1>1. /\ Append(cells, cell) \in Seq(Box) /\ Len(Append(cells, cell)) = Len(cells) + 1
        /\ \A i \in 1..Len(cells) : Append(cells, cell)[i] = cells[i]
        /\ Append(cells, cell)[Len(cells) + 1] = cell
    BY AppendProperties
  <1>2. Len(cells) \in Nat
    BY LenProperties
  <1>3. /\ Len(cells) + 1 \in 1..(Len(cells) + 1)
        /\ \A i \in 1..Len(cells) : i \in 1..(Len(cells) + 1)
    BY <1>2
  <1>. QED
    BY <1>1, <1>3 DEF Covers

LEMMA JoinedCovers ==
  ASSUME NEW cells \in Seq(Box), NEW more \in Seq(Box), NEW v
  PROVE  /\ cells \o more \in Seq(Box) /\ Len(cells \o more) = Len(cells) + Len(more)
         /\ Covers(cells, v) => Covers(cells \o more, v)
         /\ Covers(more, v) => Covers(cells \o more, v)
  <1>1. /\ cells \o more \in Seq(Box) /\ Len(cells \o more) = Len(cells) + Len(more)
        /\ \A i \in 1..(Len(cells) + Len(more)) :
             (cells \o more)[i] = IF i <= Len(cells) THEN cells[i] ELSE more[i - Len(cells)]
    BY ConcatProperties
  <1>2. Len(cells) \in Nat /\ Len(more) \in Nat
    BY LenProperties
  <1>3. ASSUME NEW i \in 1..Len(cells)
        PROVE  i \in 1..(Len(cells) + Len(more)) /\ (cells \o more)[i] = cells[i]
    BY <1>1, <1>2
  <1>4. ASSUME NEW i \in 1..Len(more)
        PROVE  /\ Len(cells) + i \in 1..(Len(cells) + Len(more))
               /\ (cells \o more)[Len(cells) + i] = more[i]
    <2>1. /\ Len(cells) + i \in 1..(Len(cells) + Len(more)) /\ ~(Len(cells) + i <= Len(cells))
          /\ (Len(cells) + i) - Len(cells) = i
      BY <1>2
    <2>. QED
      BY <1>1, <2>1
  <1>5. Covers(cells, v) => Covers(cells \o more, v)
    BY <1>1, <1>3 DEF Covers
  <1>6. Covers(more, v) => Covers(cells \o more, v)
    BY <1>1, <1>4 DEF Covers
  <1>. QED
    BY <1>1, <1>5, <1>6

LEMMA FirstOrRest ==
  ASSUME NEW cells \in Seq(Box), cells # <<>>, NEW v
  PROVE  /\ Head(cells) \in Box /\ Tail(cells) \in Seq(Box) /\ Len(Tail(cells)) = Len(cells) - 1
         /\ Covers(cells, v) => Within(v, Head(cells)) \/ Covers(Tail(cells), v)
  <1>1. /\ Head(cells) \in Box /\ Tail(cells) \in Seq(Box) /\ Len(Tail(cells)) = Len(cells) - 1
        /\ Head(cells) = cells[1]
        /\ \A i \in 1..(Len(cells) - 1) : Tail(cells)[i] = cells[i + 1]
    BY HeadTailProperties
  <1>2. Len(cells) \in Nat
    BY LenProperties
  <1>3. ASSUME NEW i \in 1..Len(cells), Within(v, cells[i])
        PROVE  Within(v, Head(cells)) \/ Covers(Tail(cells), v)
    <2>1. CASE i = 1
      BY <1>1, <1>3, <2>1
    <2>2. CASE i # 1
      <3>1. i - 1 \in 1..(Len(cells) - 1) /\ (i - 1) + 1 = i
        BY <1>2, <2>2
      <3>2. Tail(cells)[i - 1] = cells[i]
        BY <1>1, <3>1
      <3>. QED
        BY <1>1, <1>3, <3>1, <3>2 DEF Covers
    <2>. QED
      BY <2>1, <2>2
  <1>. QED
    BY <1>1, <1>3 DEF Covers

LEMMA NoneCovers ==
  ASSUME NEW v
  PROVE  ~Covers(<<>>, v) /\ <<>> \in Seq(Box) /\ Len(<<>>) = 0
  BY DEF Covers

\* A cell that is split is the union of its halves.
LEMMA HalvesCover ==
  ASSUME NEW cell \in Box, NEW holds, NEW v \in Int, Halves(cell, holds) # <<>>
  PROVE  /\ Halves(cell, holds) \in Seq(Box) /\ Len(Halves(cell, holds)) = 2
         /\ Within(v, cell) => Covers(Halves(cell, holds), v)
  <1>1. cell[1] \in Int /\ cell[2] \in Int
    BY DEF Box
  <1>2. PICK middle : middle = (cell[1] + cell[2]) \div 2
    OBVIOUS
  <1>3. middle \in Int
    BY <1>1, <1>2
  <1>4. Halves(cell, holds) = << <<cell[1], middle>>, <<middle, cell[2]>> >>
    BY <1>2 DEF Halves
  <1>5. <<cell[1], middle>> \in Box /\ <<middle, cell[2]>> \in Box
    BY <1>1, <1>3 DEF Box
  <1>6. PICK halves : halves = << <<cell[1], middle>>, <<middle, cell[2]>> >>
    OBVIOUS
  <1>7. /\ halves \in Seq(Box) /\ Len(halves) = 2
        /\ halves[1] = <<cell[1], middle>> /\ halves[2] = <<middle, cell[2]>>
    BY <1>5, <1>6
  <1>8. Within(v, cell) => Within(v, halves[1]) \/ Within(v, halves[2])
    BY <1>1, <1>3, <1>7 DEF Within
  <1>. QED
    BY <1>4, <1>6, <1>7, <1>8 DEF Covers

-----------------------------------------------------------------------------
(* A contraction                                                           *)

LEMMA Budgets ==
  MaxFlows \in Nat /\ MaxCells \in Nat /\ MaxFlows >= 0 /\ MaxCells >= 1
  BY MembershipAssumption

LEMMA ObservedAgents ==
  ASSUME NEW k \in 1..Len(Observed)
  PROVE  Observed[k] \in Observing
  <1>1. Observed = <<>> \/ Observed = Observers
    BY DEF Observed
  <1>2. Observers \in Seq(Observing)
    BY MembershipAssumption
  <1>. QED
    BY <1>1, <1>2

\* A contraction at its start, and one that goes on to the next candidate.
AtCandidate(i, r) == [Fresh EXCEPT !.index = i, !.retained = r]

LEMMA FreshFields ==
  ASSUME NEW i \in Nat, NEW r \in Seq(Box)
  PROVE  /\ AtCandidate(i, r) \in Contraction
         /\ AtCandidate(i, r).at = "candidate"
         /\ AtCandidate(i, r).index = i /\ AtCandidate(i, r).retained = r
         /\ AtCandidate(i, r).agent = 1 /\ AtCandidate(i, r).item = 1
         /\ AtCandidate(i, r).flows = 0 /\ AtCandidate(i, r).evaluated = 0
         /\ AtCandidate(i, r).endpoint = Nothing
         /\ AtCandidate(i, r).pending = <<>> /\ AtCandidate(i, r).survivors = <<>>
         /\ AtCandidate(i, r).cell = Nothing
  <1>. PICK s : s = AtCandidate(i, r)
    OBVIOUS
  <1>1. s = [at |-> "candidate", index |-> i, retained |-> r, agent |-> 1, item |-> 1,
             flows |-> 0, evaluated |-> 0, targets |-> <<>>, endpoint |-> Nothing, ended |-> 0,
             pending |-> <<>>, survivors |-> <<>>, cell |-> Nothing]
    BY DEF Fresh, AtCandidate
  <1>2. <<>> \in Seq(Box) /\ <<>> \in Seq(BOOLEAN) /\ "candidate" \in SearchPoints
    BY DEF SearchPoints
  <1>3. s \in Contraction
    BY <1>1, <1>2 DEF Contraction
  <1>. QED
    BY <1>1, <1>3

LEMMA NextIsSound ==
  ASSUME NEW i \in 1..(Len(candidates) + 1), NEW r \in Seq(Box), NEW s,
         candidates \in Seq(Box),
         s = AtCandidate(i, r), RetainedSoFar(s)
  PROVE  Sound(s)
  <1>1. i \in Nat
    OBVIOUS
  <1>2. /\ s \in Contraction
        /\ s.at = "candidate" /\ s.index = i /\ s.retained = r /\ s.agent = 1 /\ s.item = 1
        /\ s.flows = 0 /\ s.evaluated = 0 /\ s.endpoint = Nothing
        /\ s.pending = <<>> /\ s.survivors = <<>> /\ s.cell = Nothing
    BY <1>1, FreshFields
  <1>3. Stands(s)
    BY <1>2 DEF Stands
  <1>4. WithinBudget(s)
    <2>1. Len(s.survivors) = 0 /\ Len(s.pending) = 0
      BY <1>2
    <2>. QED
      BY <1>2, <2>1, Budgets DEF WithinBudget
  <1>5. TargetFollows(s) /\ CellsFollow(s) /\ CellFollows(s)
    BY <1>2 DEF TargetFollows, CellsFollow, CellFollows
  <1>. QED
    BY <1>2, <1>3, <1>4, <1>5 DEF Sound

LEMMA FreshIsSound ==
  ASSUME candidates \in Seq(Box)
  PROVE  Sound(Fresh)
  <1>1. PICK s : s = AtCandidate(1, <<>>)
    OBVIOUS
  <1>2. s = Fresh
    BY <1>1 DEF Fresh, AtCandidate
  <1>3. <<>> \in Seq(Box) /\ 1 \in 1..(Len(candidates) + 1)
    OBVIOUS
  <1>4. s.index = 1
    <2>1. 1 \in Nat
      OBVIOUS
    <2>2. <<>> \in Seq(Box)
      BY <1>3
    <2>. QED
      BY <1>1, <2>1, <2>2, FreshFields
  <1>5. RetainedSoFar(s)
    BY <1>4 DEF RetainedSoFar
  <1>. QED
    BY <1>1, <1>2, <1>3, <1>5, NextIsSound

\* The candidate under examination, and what is known of a contraction.
LEMMA UnderExamination ==
  ASSUME BeliefInv, search # Nothing
  PROVE  /\ Sound(search) /\ search \in Contraction /\ Stands(search) /\ WithinBudget(search)
         /\ RetainedSoFar(search)
         /\ candidates \in Seq(Box)
         /\ search.index \in 1..(Len(candidates) + 1)
         /\ search.at \in SearchPoints
         /\ search.at # "candidate" => search.index \in 1..Len(candidates)
         /\ search.index \in 1..Len(candidates) => Model \in Box /\ Model = candidates[search.index]
         /\ search.retained \in Seq(Box)
  <1>1. Sound(search) /\ candidates \in Seq(Box)
    BY DEF BeliefInv, SearchInv, BeliefTypes
  <1>2. search \in Contraction /\ Stands(search)
    BY <1>1 DEF Sound
  <1>3. search.index \in 1..(Len(candidates) + 1) /\ search.retained \in Seq(Box)
        /\ search.at \in SearchPoints
    BY <1>2 DEF Contraction, Stands
  <1>4. search.at # "candidate" => search.index \in 1..Len(candidates)
    BY <1>2, <1>3 DEF Stands
  <1>5. search.index \in 1..Len(candidates) => Model \in Box /\ Model = candidates[search.index]
    BY <1>1 DEF Model
  <1>. QED
    BY <1>1, <1>2, <1>3, <1>4, <1>5 DEF Sound

LEMMA KeptIsSound ==
  ASSUME BeliefInv, search # Nothing, search.index <= Len(candidates), NEW s, s = Onwards(TRUE)
  PROVE  Sound(s)
  <1>1. search.index \in 1..Len(candidates) /\ candidates \in Seq(Box)
        /\ search.retained \in Seq(Box) /\ RetainedSoFar(search)
    BY UnderExamination
  <1>2. Model \in Box /\ Model = candidates[search.index]
    BY <1>1, UnderExamination
  <1>3. PICK r : r = Append(search.retained, Model)
    OBVIOUS
  <1>4. /\ r \in Seq(Box) /\ Len(r) = Len(search.retained) + 1
        /\ \A k \in 1..Len(search.retained) : r[k] = search.retained[k]
        /\ r[Len(search.retained) + 1] = Model
    BY <1>1, <1>2, <1>3, AppendProperties
  <1>5. Len(search.retained) \in Nat /\ Len(candidates) \in Nat
    BY <1>1, LenProperties
  <1>6. PICK i : i = search.index + 1
    OBVIOUS
  <1>7. i \in 1..(Len(candidates) + 1) /\ i \in Nat
    BY <1>1, <1>5, <1>6
  <1>8. s = AtCandidate(i, r)
    BY <1>3, <1>6 DEF Onwards, AtCandidate
  <1>9. s.index = i /\ s.retained = r
    <2>1. i \in Nat
      BY <1>7
    <2>2. r \in Seq(Box)
      BY <1>4
    <2>. QED
      <3>1. AtCandidate(i, r).index = i /\ AtCandidate(i, r).retained = r
        BY <2>1, <2>2, FreshFields
      <3>. QED
        BY <1>8, <3>1
  <1>10. ASSUME NEW k \in 1..Len(candidates), k < i, Truthful(candidates[k])
         PROVE  \E j \in 1..Len(r) : Truthful(r[j])
    <2>1. CASE k = search.index
      <3>1. Len(search.retained) + 1 \in 1..Len(r)
        BY <1>4, <1>5
      <3>. QED
        BY <1>2, <1>4, <1>10, <2>1, <3>1
    <2>2. CASE k # search.index
      <3>1. k < search.index
        BY <1>1, <1>6, <1>10, <2>2
      <3>2. PICK j \in 1..Len(search.retained) : Truthful(search.retained[j])
        BY <1>1, <1>10, <3>1 DEF RetainedSoFar
      <3>3. j \in 1..Len(r) /\ r[j] = search.retained[j]
        BY <1>4, <1>5
      <3>. QED
        BY <3>2, <3>3
    <2>. QED
      BY <2>1, <2>2
  <1>11. RetainedSoFar(s)
    BY <1>9, <1>10 DEF RetainedSoFar
  <1>. QED
    BY <1>1, <1>4, <1>7, <1>8, <1>11, NextIsSound

LEMMA RejectedIsSound ==
  ASSUME BeliefInv, search # Nothing, search.index <= Len(candidates), NEW s, s = Onwards(FALSE),
         ~Truthful(Model)
  PROVE  Sound(s)
  <1>1. search.index \in 1..Len(candidates) /\ candidates \in Seq(Box)
        /\ search.retained \in Seq(Box) /\ RetainedSoFar(search)
    BY UnderExamination
  <1>2. Model = candidates[search.index]
    BY <1>1, UnderExamination
  <1>3. PICK i : i = search.index + 1
    OBVIOUS
  <1>4. i \in 1..(Len(candidates) + 1) /\ i \in Nat
    BY <1>1, <1>3
  <1>5. s = AtCandidate(i, search.retained)
    BY <1>3 DEF Onwards, AtCandidate
  <1>6. s.index = i /\ s.retained = search.retained
    <2>1. i \in Nat
      BY <1>4
    <2>2. search.retained \in Seq(Box)
      BY <1>1
    <2>. QED
      <3>1. /\ AtCandidate(i, search.retained).index = i
            /\ AtCandidate(i, search.retained).retained = search.retained
        BY <2>1, <2>2, FreshFields
      <3>. QED
        BY <1>5, <3>1
  <1>7. ASSUME NEW k \in 1..Len(candidates), k < i, Truthful(candidates[k])
        PROVE  k < search.index
    <2>1. k # search.index
      BY <1>2, <1>7
    <2>. QED
      BY <1>1, <1>3, <1>7, <2>1
  <1>8. RetainedSoFar(s)
    BY <1>1, <1>6, <1>7 DEF RetainedSoFar
  <1>. QED
    BY <1>1, <1>4, <1>5, <1>8, NextIsSound

-----------------------------------------------------------------------------
(* One step of a contraction                                               *)

\* A hold of the window in hand.
LEMMA HoldInHand ==
  ASSUME BeliefInv, search # Nothing, search.at \in {"target", "cell"}, search.item <= Len(Holds)
  PROVE  /\ Agent \in Observing /\ Agent = Observed[search.agent]
         /\ Holds \in Seq(ObservedHold) /\ Hold \in ObservedHold
  <1>1. search \in Contraction /\ Stands(search)
    BY UnderExamination
  <1>2. search.agent \in 1..Len(Observed) /\ search.item \in Nat /\ search.item >= 1
    BY <1>1 DEF Contraction, Stands
  <1>3. Agent \in Observing /\ Agent = Observed[search.agent]
    BY <1>2, ObservedAgents DEF Agent
  <1>4. Holds \in Seq(ObservedHold)
    BY <1>3 DEF Holds, BeliefInv, BeliefTypes
  <1>5. search.item \in 1..Len(Holds)
    BY <1>2, <1>4
  <1>. QED
    BY <1>3, <1>4, <1>5 DEF Hold

\* The box a hold starts from contains the truth if the carried one does.
LEMMA LinkedContains ==
  ASSUME NEW endpoint \in Box \cup {Nothing}, NEW ended \in Int, NEW hold \in ObservedHold
  PROVE  /\ Linked(endpoint, ended, hold) \in Box
         /\ (endpoint # Nothing => Within(0, endpoint))
              => Within(0, Linked(endpoint, ended, hold)) /\ ~Empty(Linked(endpoint, ended, hold))
  <1>1. Around(hold.initial) \in Box /\ Within(0, Around(hold.initial))
    BY AroundContains DEF ObservedHold
  <1>2. CASE Carried(endpoint, ended, hold)
    <2>1. endpoint \in Box /\ endpoint # Nothing /\ ended - hold.start = 0
      BY <1>2 DEF Carried, ObservedHold
    <2>2. endpoint[1] \in Int /\ endpoint[2] \in Int
      BY <2>1 DEF Box
    <2>3. Moved(endpoint, ended - hold.start) = <<endpoint[1], endpoint[2]>>
      BY <2>1, <2>2 DEF Moved
    <2>4. /\ Moved(endpoint, ended - hold.start) \in Box
          /\ Within(0, endpoint) => Within(0, Moved(endpoint, ended - hold.start))
      BY <2>2, <2>3 DEF Box, Within
    <2>5. Linked(endpoint, ended, hold)
            = Meet(Moved(endpoint, ended - hold.start), Around(hold.initial))
      BY <1>2 DEF Linked
    <2>. QED
      BY <1>1, <2>1, <2>4, <2>5, MeetIsBox, MeetContains
  <1>3. CASE ~Carried(endpoint, ended, hold)
    <2>1. Linked(endpoint, ended, hold) = Around(hold.initial)
      BY <1>3 DEF Linked
    <2>2. ~Empty(Around(hold.initial))
      BY <1>1 DEF Empty, Within, Around, ObservedHold
    <2>. QED
      BY <1>1, <2>1, <2>2
  <1>. QED
    BY <1>2, <1>3

LEMMA ActualTypes ==
  ASSUME BeliefTypes
  PROVE  /\ actual.drag \in Int
         /\ \A agent \in Observing : actual.actuator[agent] \in Int
  BY DEF BeliefTypes

\* A proven flow of a truthful candidate contains the truth if its start does.
LEMMA TargetFlowContains ==
  ASSUME BeliefTypes, NEW initial \in Box, NEW model \in Box
  PROVE  /\ TargetFlow(initial, model) \in Box
         /\ Within(0, initial) /\ Truthful(model) => Within(0, TargetFlow(initial, model))
  <1>1. actual.drag \in Int
    BY ActualTypes
  <1>2. Drift(model) \in Box /\ (Truthful(model) => Within(0, Drift(model)))
    BY <1>1, MovedContains DEF Drift, Truthful
  <1>. QED
    BY <1>2, SpreadContains DEF TargetFlow

LEMMA RelativeFlowContains ==
  ASSUME BeliefTypes, NEW initial \in Box, NEW applied \in Box, NEW model \in Box,
         NEW agent \in Observing, NEW command \in {0, 1}
  PROVE  /\ RelativeFlow(initial, applied, model, agent, command) \in Box
         /\ Within(0, initial) /\ Truthful(model)
              /\ Within(actual.actuator[agent] * command, applied)
              => Within(0, RelativeFlow(initial, applied, model, agent, command))
  <1>1. actual.drag \in Int /\ actual.actuator[agent] \in Int
    BY ActualTypes
  <1>2. Drift(model) \in Box /\ (Truthful(model) => Within(0, Drift(model)))
    BY <1>1, MovedContains DEF Drift, Truthful
  <1>3. PICK thrust : thrust = actual.actuator[agent] * command
    OBVIOUS
  <1>4. thrust \in Int
    BY <1>1, <1>3
  <1>5. /\ Moved(applied, -thrust) \in Box
        /\ Within(thrust, applied) => Within(0, Moved(applied, -thrust))
    BY <1>4, MovedContains
  <1>6. /\ Spread(initial, Drift(model)) \in Box
        /\ Within(0, initial) /\ Truthful(model) => Within(0, Spread(initial, Drift(model)))
    BY <1>2, SpreadContains
  <1>7. RelativeFlow(initial, applied, model, agent, command)
          = Spread(Spread(initial, Drift(model)), Moved(applied, -thrust))
    BY <1>3 DEF RelativeFlow
  <1>8. Within(0, Spread(initial, Drift(model))) /\ Within(0, Moved(applied, -thrust))
          => Within(0, Spread(Spread(initial, Drift(model)), Moved(applied, -thrust)))
    BY <1>5, <1>6, SpreadContains
  <1>9. Spread(Spread(initial, Drift(model)), Moved(applied, -thrust)) \in Box
    BY <1>5, <1>6, SpreadContains
  <1>. QED
    BY <1>3, <1>5, <1>6, <1>7, <1>8, <1>9

\* A candidate is begun, or kept unexamined.
LEMMA TakeCandidateSound ==
  ASSUME BeliefInv, search # Nothing, TakeCandidate
  PROVE  Sound(search')
  <1>1. CASE search' = Onwards(TRUE)
    BY <1>1, KeptIsSound DEF TakeCandidate
  <1>2. CASE search' # Onwards(TRUE)
    <2>1. PICK at \in {"agent", "transition"} : search' = [search EXCEPT !.at = at]
      BY <1>2 DEF TakeCandidate, KeepCandidate
    <2>2. PICK s : s = search'
      OBVIOUS
    <2>3. search \in Contraction /\ Stands(search) /\ WithinBudget(search) /\ RetainedSoFar(search)
      BY UnderExamination
    <2>4. search.at = "candidate" /\ search.index <= Len(candidates)
      BY DEF TakeCandidate
    <2>5. s = [search EXCEPT !.at = at]
      BY <2>1, <2>2
    <2>6. /\ s \in Contraction /\ s.at = at
          /\ s.index = search.index /\ s.retained = search.retained /\ s.agent = search.agent
          /\ s.item = search.item /\ s.flows = search.flows /\ s.evaluated = search.evaluated
          /\ s.endpoint = search.endpoint /\ s.pending = search.pending
          /\ s.survivors = search.survivors /\ s.cell = search.cell
      BY <2>3, <2>5 DEF Contraction, SearchPoints
    <2>7. Stands(s)
      BY <2>3, <2>4, <2>6 DEF Stands
    <2>8. WithinBudget(s)
      BY <2>3, <2>4, <2>6 DEF WithinBudget
    <2>9. RetainedSoFar(s)
      BY <2>3, <2>6 DEF RetainedSoFar
    <2>10. TargetFollows(s) /\ CellsFollow(s) /\ CellFollows(s)
      BY <2>6 DEF TargetFollows, CellsFollow, CellFollows
    <2>. QED
      BY <2>2, <2>6, <2>7, <2>8, <2>9, <2>10 DEF Sound
  <1>. QED
    BY <1>1, <1>2

LEMMA TakeAgentSound ==
  ASSUME BeliefInv, search # Nothing, TakeAgent
  PROVE  Sound(search')
  <1>1. search \in Contraction /\ Stands(search) /\ WithinBudget(search) /\ RetainedSoFar(search)
    BY UnderExamination
  <1>2. search.at = "agent"
    BY DEF TakeAgent
  <1>3. search.index <= Len(candidates) /\ search.agent \in Nat /\ search.agent >= 1
        /\ search.endpoint = Nothing
    BY <1>1, <1>2 DEF Stands, Contraction
  <1>4. CASE search.agent > Len(Observed)
    BY <1>3, <1>4, KeptIsSound DEF TakeAgent, KeepCandidate
  <1>5. CASE ~(search.agent > Len(Observed))
    <2>1. PICK s : s = search'
      OBVIOUS
    <2>2. s = [search EXCEPT !.at = "target"]
      BY <1>5, <2>1 DEF TakeAgent
    <2>3. /\ s \in Contraction /\ s.at = "target"
          /\ s.index = search.index /\ s.retained = search.retained /\ s.agent = search.agent
          /\ s.item = search.item /\ s.flows = search.flows /\ s.evaluated = search.evaluated
          /\ s.endpoint = search.endpoint /\ s.pending = search.pending
          /\ s.survivors = search.survivors /\ s.cell = search.cell
      BY <1>1, <2>2 DEF Contraction, SearchPoints
    <2>4. Len(Observed) \in Nat
      <3>1. Observed = <<>> \/ Observed = Observers
        BY DEF Observed
      <3>. QED
        BY <3>1, MembershipAssumption, LenProperties
    <2>5. search.agent \in 1..Len(Observed)
      BY <1>3, <1>5, <2>4
    <2>6. Stands(s)
      BY <1>1, <1>2, <2>3, <2>5 DEF Stands
    <2>7. WithinBudget(s)
      BY <1>1, <1>2, <2>3 DEF WithinBudget
    <2>8. RetainedSoFar(s)
      BY <1>1, <2>3 DEF RetainedSoFar
    <2>9. TargetFollows(s) /\ CellsFollow(s) /\ CellFollows(s)
      BY <1>3, <2>3 DEF TargetFollows, CellsFollow, CellFollows
    <2>. QED
      BY <2>1, <2>3, <2>6, <2>7, <2>8, <2>9 DEF Sound
  <1>. QED
    BY <1>4, <1>5

\* A target sequence refutes a candidate only if that is not truthful.
LEMMA LinkTargetSound ==
  ASSUME BeliefInv, search # Nothing, NEW proven \in BOOLEAN, LinkTarget(proven)
  PROVE  Sound(search')
  <1>1. /\ search \in Contraction /\ Stands(search) /\ WithinBudget(search)
        /\ RetainedSoFar(search) /\ Sound(search)
    BY UnderExamination
  <1>2. search.at = "target" /\ search.item <= Len(Holds)
    BY DEF LinkTarget
  <1>3. search.index \in 1..Len(candidates) /\ search.index <= Len(candidates)
        /\ Model \in Box /\ Model = candidates[search.index]
    BY <1>1, <1>2, UnderExamination DEF Stands
  <1>4. Hold \in ObservedHold
    BY <1>2, HoldInHand
  <1>5. PICK initial : initial = Linked(search.endpoint, search.ended, Hold)
    OBVIOUS
  <1>6. initial \in Box /\ (Truthful(Model) => Within(0, initial) /\ ~Empty(initial))
    <2>1. search.endpoint \in Box \cup {Nothing} /\ search.ended \in Int
      BY <1>1 DEF Contraction
    <2>2. Truthful(Model) => (search.endpoint # Nothing => Within(0, search.endpoint))
      BY <1>1, <1>2, <1>3 DEF Sound, TargetFollows, Examined
    <2>. QED
      BY <1>4, <1>5, <2>1, <2>2, LinkedContains
  <1>7. PICK cut : cut = Meet(TargetFlow(initial, Model), Around(Hold.observed))
    OBVIOUS
  <1>8. cut \in Box /\ (Truthful(Model) => Within(0, cut) /\ ~Empty(cut))
    <2>1. /\ TargetFlow(initial, Model) \in Box
          /\ Truthful(Model) => Within(0, TargetFlow(initial, Model))
      BY <1>3, <1>6, TargetFlowContains DEF BeliefInv
    <2>2. Around(Hold.observed) \in Box /\ Within(0, Around(Hold.observed))
      BY <1>4, AroundContains DEF ObservedHold
    <2>. QED
      BY <1>7, <2>1, <2>2, MeetIsBox, MeetContains
  <1>9. PICK endpoint : endpoint = IF ~proven THEN Nothing ELSE cut
    OBVIOUS
  <1>10. /\ endpoint \in Box \cup {Nothing}
         /\ endpoint # Nothing /\ Truthful(Model) => Within(0, endpoint) /\ ~Empty(endpoint)
    BY <1>8, <1>9
  <1>11. IF Empty(initial) THEN RejectCandidate
         ELSE IF search.flows >= MaxFlows THEN KeepCandidate
         ELSE IF endpoint # Nothing /\ Empty(endpoint) THEN RejectCandidate
         ELSE search' = [search EXCEPT !.item = @ + 1, !.flows = @ + 1, !.endpoint = endpoint,
                                       !.ended = End(Hold), !.targets = Append(@, proven)]
    BY <1>5, <1>7, <1>9 DEF LinkTarget
  <1>12. CASE Empty(initial)
    BY <1>3, <1>6, <1>11, <1>12, RejectedIsSound DEF RejectCandidate
  <1>13. CASE ~Empty(initial) /\ search.flows >= MaxFlows
    BY <1>3, <1>11, <1>13, KeptIsSound DEF KeepCandidate
  <1>14. CASE ~Empty(initial) /\ ~(search.flows >= MaxFlows) /\ endpoint # Nothing /\ Empty(endpoint)
    BY <1>3, <1>10, <1>11, <1>14, RejectedIsSound DEF RejectCandidate
  <1>15. CASE ~Empty(initial) /\ ~(search.flows >= MaxFlows) /\ ~(endpoint # Nothing /\ Empty(endpoint))
    <2>1. PICK s : s = search'
      OBVIOUS
    <2>2. PICK targets : targets = Append(search.targets, proven)
      OBVIOUS
    <2>3. targets \in Seq(BOOLEAN)
      <3>1. search.targets \in Seq(BOOLEAN)
        BY <1>1 DEF Contraction
      <3>. QED
        BY <2>2, <3>1
    <2>4. s = [search EXCEPT !.item = search.item + 1, !.flows = search.flows + 1,
                             !.endpoint = endpoint, !.ended = End(Hold), !.targets = targets]
      BY <1>11, <1>15, <2>1, <2>2
    <2>5. search.item + 1 \in Nat /\ search.flows + 1 \in Nat /\ End(Hold) \in Int
          /\ search.item + 1 >= 1 /\ search.flows + 1 <= MaxFlows
      BY <1>1, <1>4, <1>15, Budgets DEF Contraction, ObservedHold, End
    <2>6. /\ s \in Contraction /\ s.at = search.at
          /\ s.index = search.index /\ s.retained = search.retained /\ s.agent = search.agent
          /\ s.item = search.item + 1 /\ s.flows = search.flows + 1
          /\ s.evaluated = search.evaluated
          /\ s.endpoint = endpoint /\ s.pending = search.pending
          /\ s.survivors = search.survivors /\ s.cell = search.cell
      <3>. HIDE <1>11, <1>15
      <3>1. s \in Contraction
        BY <1>1, <1>10, <2>3, <2>4, <2>5 DEF Contraction
      <3>. QED
        BY <1>1, <2>4, <3>1 DEF Contraction
    <2>7. Stands(s)
      BY <1>1, <1>2, <2>5, <2>6 DEF Stands
    <2>8. WithinBudget(s)
      BY <1>1, <1>2, <2>5, <2>6 DEF WithinBudget
    <2>9. RetainedSoFar(s)
      BY <1>1, <2>6 DEF RetainedSoFar
    <2>10. TargetFollows(s)
      BY <1>3, <1>10, <2>6 DEF TargetFollows, Examined
    <2>11. CellsFollow(s) /\ CellFollows(s)
      BY <1>2, <2>6 DEF CellsFollow, CellFollows
    <2>. QED
      BY <2>1, <2>6, <2>7, <2>8, <2>9, <2>10, <2>11 DEF Sound
  <1>. QED
    BY <1>12, <1>13, <1>14, <1>15

\* A sweep over the holds is begun again.
Rewound(t) == [t EXCEPT !.endpoint = Nothing, !.item = 1, !.ended = 0]

LEMMA RewoundFields ==
  ASSUME NEW t \in Contraction
  PROVE  /\ Rewound(t) \in Contraction
         /\ Rewound(t).endpoint = Nothing /\ Rewound(t).item = 1 /\ Rewound(t).ended = 0
         /\ Rewound(t).at = t.at /\ Rewound(t).index = t.index
         /\ Rewound(t).retained = t.retained /\ Rewound(t).agent = t.agent
         /\ Rewound(t).flows = t.flows /\ Rewound(t).evaluated = t.evaluated
         /\ Rewound(t).targets = t.targets /\ Rewound(t).pending = t.pending
         /\ Rewound(t).survivors = t.survivors /\ Rewound(t).cell = t.cell
  <1>1. PICK one : one = 1
    OBVIOUS
  <1>2. PICK zero : zero = 0
    OBVIOUS
  <1>3. one \in Nat /\ zero \in Int
    BY <1>1, <1>2
  <1>4. PICK u : u = [t EXCEPT !.endpoint = Nothing, !.item = one, !.ended = zero]
    OBVIOUS
  <1>5. u = Rewound(t)
    BY <1>1, <1>2, <1>4 DEF Rewound
  <1>6. u \in Contraction
    BY <1>3, <1>4 DEF Contraction
  <1>7. u.endpoint = Nothing /\ u.item = one /\ u.ended = zero
    BY <1>4 DEF Contraction
  <1>8. /\ u.at = t.at /\ u.index = t.index /\ u.retained = t.retained /\ u.agent = t.agent
        /\ u.flows = t.flows /\ u.evaluated = t.evaluated /\ u.targets = t.targets
        /\ u.pending = t.pending /\ u.survivors = t.survivors /\ u.cell = t.cell
    BY <1>4 DEF Contraction
  <1>. QED
    BY <1>1, <1>2, <1>5, <1>6, <1>7, <1>8

\* The agent under examination, and its cells in the belief.
LEMMA AgentInHand ==
  ASSUME BeliefInv, search # Nothing, search.at \in {"target", "cells", "cell"}
  PROVE  /\ Agent \in Observing /\ Agent = Observed[search.agent]
         /\ actual.actuator[Agent] \in Int /\ actual.actuator[Agent] = Actuator(search)
         /\ Within(actual.actuator[Agent], Affine) /\ Within(actual.actuator[Agent], Support)
  <1>1. search.agent \in 1..Len(Observed)
    BY UnderExamination DEF Stands
  <1>2. Agent \in Observing /\ Agent = Observed[search.agent]
    BY <1>1, ObservedAgents DEF Agent
  <1>. QED
    BY <1>2 DEF BeliefInv, BeliefTypes, Actuator

LEMMA CellsOfBelief ==
  ASSUME BeliefInv, NEW model, NEW agent \in Observing
  PROVE  /\ Cells(<<model, agent>>) \in Seq(Box) /\ Len(Cells(<<model, agent>>)) <= MaxCells
         /\ Truthful(model) => Covers(Cells(<<model, agent>>), actual.actuator[agent])
  <1>1. PICK key : key = <<model, agent>>
    OBVIOUS
  <1>2. key[1] = model /\ key[2] = agent
    BY <1>1
  <1>3. CASE key \in DOMAIN surviving_cells
    <2>1. Cells(key) = surviving_cells[key]
      BY <1>3 DEF Cells
    <2>2. Cells(key) \in Seq(Box) /\ Len(Cells(key)) <= MaxCells
      BY <1>3, <2>1 DEF BeliefInv, BeliefTypes
    <2>3. Truthful(model) => Covers(Cells(key), actual.actuator[agent])
      BY <1>2, <1>3, <2>1 DEF BeliefInv, CellsKept
    <2>. QED
      BY <1>1, <2>2, <2>3
  <1>4. CASE key \notin DOMAIN surviving_cells
    <2>1. Cells(key) = <<Affine>>
      BY <1>4 DEF Cells
    <2>2. Affine \in Box
      BY MembershipAssumption DEF Box
    <2>3. PICK cells : cells = <<Affine>>
      OBVIOUS
    <2>4. cells \in Seq(Box) /\ Len(cells) = 1 /\ cells[1] = Affine /\ 1 \in 1..Len(cells)
      BY <2>2, <2>3
    <2>5. Within(actual.actuator[agent], Affine)
      BY DEF BeliefInv, BeliefTypes
    <2>6. Covers(cells, actual.actuator[agent])
      BY <2>4, <2>5 DEF Covers
    <2>. QED
      BY <1>1, <2>1, <2>3, <2>4, <2>6, Budgets
  <1>. QED
    BY <1>3, <1>4

LEMMA TargetsLinkedSound ==
  ASSUME BeliefInv, search # Nothing, TargetsLinked
  PROVE  Sound(search')
  <1>1. search \in Contraction /\ Stands(search) /\ WithinBudget(search) /\ RetainedSoFar(search)
    BY UnderExamination
  <1>2. search.at = "target"
    BY DEF TargetsLinked
  <1>3. Model = candidates[search.index]
    BY <1>2, UnderExamination
  <1>4. PICK cells : cells = Cells(Key)
    OBVIOUS
  <1>5. /\ cells \in Seq(Box) /\ Len(cells) <= MaxCells
        /\ Truthful(Model) => Covers(cells, Actuator(search))
    <2>1. Agent \in Observing /\ actual.actuator[Agent] = Actuator(search)
      BY <1>2, AgentInHand
    <2>. QED
      BY <1>4, <2>1, CellsOfBelief DEF Key
  <1>6. PICK s : s = search'
    OBVIOUS
  <1>7. s = [search EXCEPT !.at = "cells", !.pending = cells, !.endpoint = Nothing,
                           !.item = 1, !.ended = 0]
    BY <1>4, <1>6 DEF TargetsLinked
  <1>8. /\ s \in Contraction /\ s.at = "cells"
        /\ s.index = search.index /\ s.retained = search.retained /\ s.agent = search.agent
        /\ s.item = 1 /\ s.flows = search.flows /\ s.evaluated = search.evaluated
        /\ s.endpoint = Nothing /\ s.pending = cells
        /\ s.survivors = search.survivors /\ s.cell = search.cell
    <2>1. PICK t : t = [search EXCEPT !.at = "cells", !.pending = cells]
      OBVIOUS
    <2>2. "cells" \in SearchPoints
      BY DEF SearchPoints
    <2>3. /\ t \in Contraction /\ t.at = "cells" /\ t.pending = cells
          /\ t.index = search.index /\ t.retained = search.retained /\ t.agent = search.agent
          /\ t.flows = search.flows /\ t.evaluated = search.evaluated
          /\ t.survivors = search.survivors /\ t.cell = search.cell
      BY <1>1, <1>5, <2>1, <2>2 DEF Contraction
    <2>4. s = Rewound(t)
      BY <1>1, <1>7, <2>1 DEF Contraction, Rewound
    <2>. QED
      BY <2>3, <2>4, RewoundFields
  <1>9. Stands(s)
    BY <1>1, <1>2, <1>8 DEF Stands
  <1>10. WithinBudget(s)
    <2>1. search.survivors = <<>> /\ Len(cells) \in Nat
      BY <1>1, <1>2, <1>5 DEF Stands
    <2>2. Len(s.survivors) = 0
      BY <1>8, <2>1
    <2>. QED
      BY <1>1, <1>5, <1>8, <2>1, <2>2 DEF WithinBudget
  <1>11. RetainedSoFar(s)
    BY <1>1, <1>8 DEF RetainedSoFar
  <1>12. CellsFollow(s)
    BY <1>3, <1>5, <1>8 DEF CellsFollow, Examined, Actuator
  <1>13. TargetFollows(s) /\ CellFollows(s)
    BY <1>8 DEF TargetFollows, CellFollows
  <1>. QED
    BY <1>6, <1>8, <1>9, <1>10, <1>11, <1>12, <1>13 DEF Sound

LEMMA TakeCellSound ==
  ASSUME BeliefInv, search # Nothing, TakeCell
  PROVE  Sound(search')
  <1>1. /\ search \in Contraction /\ Stands(search) /\ WithinBudget(search)
        /\ RetainedSoFar(search) /\ CellsFollow(search)
    BY UnderExamination DEF Sound
  <1>2. search.at = "cells" /\ search.pending # <<>>
    BY DEF TakeCell
  <1>3. /\ search.pending \in Seq(Box) /\ search.survivors \in Seq(Box)
        /\ Len(search.pending) \in Nat /\ Len(search.survivors) \in Nat
    BY <1>1 DEF Contraction
  <1>4. PICK s : s = search'
    OBVIOUS
  <1>5. CASE search.evaluated >= MaxFlows \/ search.flows >= MaxFlows
    <2>1. PICK survivors : survivors = search.survivors \o search.pending
      OBVIOUS
    <2>2. /\ survivors \in Seq(Box) /\ Len(survivors) = Len(search.survivors) + Len(search.pending)
          /\ Covers(search.survivors, Actuator(search)) => Covers(survivors, Actuator(search))
          /\ Covers(search.pending, Actuator(search)) => Covers(survivors, Actuator(search))
      BY <1>3, <2>1, JoinedCovers
    <2>3. s = [search EXCEPT !.survivors = survivors, !.pending = <<>>]
      BY <1>1, <1>4, <1>5, <2>1 DEF TakeCell, Untested, Contraction
    <2>4. /\ s \in Contraction /\ s.at = search.at
          /\ s.index = search.index /\ s.retained = search.retained /\ s.agent = search.agent
          /\ s.item = search.item /\ s.flows = search.flows /\ s.evaluated = search.evaluated
          /\ s.endpoint = search.endpoint /\ s.pending = <<>>
          /\ s.survivors = survivors /\ s.cell = search.cell
      <3>1. survivors \in Seq(Box) /\ <<>> \in Seq(Box)
        BY <2>2
      <3>2. s \in Contraction
        BY <1>1, <2>3, <3>1 DEF Contraction
      <3>. QED
        BY <1>1, <2>3, <3>2 DEF Contraction
    <2>5. Stands(s)
      BY <1>1, <1>2, <2>4 DEF Stands
    <2>6. WithinBudget(s)
      <3>1. Len(s.survivors) = Len(search.survivors) + Len(search.pending) /\ Len(s.pending) = 0
        BY <2>2, <2>4
      <3>2. /\ search.flows <= MaxFlows /\ search.evaluated <= MaxFlows
            /\ Len(search.survivors) + Len(search.pending) <= MaxCells
        BY <1>1, <1>2 DEF WithinBudget
      <3>3. s.at # "cell"
        BY <1>2, <2>4
      <3>4. s.flows <= MaxFlows /\ s.evaluated <= MaxFlows
        BY <2>4, <3>2
      <3>5. Len(s.survivors) + Len(s.pending) = Len(search.survivors) + Len(search.pending)
        BY <1>3, <3>1
      <3>. QED
        BY <3>2, <3>3, <3>4, <3>5 DEF WithinBudget
    <2>7. RetainedSoFar(s)
      BY <1>1, <2>4 DEF RetainedSoFar
    <2>8. CellsFollow(s)
      BY <1>1, <1>2, <2>2, <2>4 DEF CellsFollow, Examined, Actuator
    <2>9. TargetFollows(s) /\ CellFollows(s)
      BY <1>2, <2>4 DEF TargetFollows, CellFollows
    <2>. QED
      BY <1>4, <2>4, <2>5, <2>6, <2>7, <2>8, <2>9 DEF Sound
  <1>6. CASE ~(search.evaluated >= MaxFlows \/ search.flows >= MaxFlows)
    <2>1. PICK cell : cell = Head(search.pending)
      OBVIOUS
    <2>2. PICK rest : rest = Tail(search.pending)
      OBVIOUS
    <2>3. /\ cell \in Box /\ rest \in Seq(Box) /\ Len(rest) = Len(search.pending) - 1
          /\ Covers(search.pending, Actuator(search))
               => Within(Actuator(search), cell) \/ Covers(rest, Actuator(search))
      BY <1>2, <1>3, <2>1, <2>2, FirstOrRest
    <2>4. s = [search EXCEPT !.at = "cell", !.cell = cell, !.pending = rest,
                             !.evaluated = search.evaluated + 1]
      BY <1>1, <1>4, <1>6, <2>1, <2>2 DEF TakeCell, Contraction
    <2>5. search.evaluated + 1 \in Nat /\ search.evaluated + 1 <= MaxFlows
      BY <1>1, <1>6, Budgets DEF Contraction
    <2>6. /\ s \in Contraction /\ s.at = "cell"
          /\ s.index = search.index /\ s.retained = search.retained /\ s.agent = search.agent
          /\ s.item = search.item /\ s.flows = search.flows /\ s.evaluated = search.evaluated + 1
          /\ s.endpoint = search.endpoint /\ s.pending = rest
          /\ s.survivors = search.survivors /\ s.cell = cell
      BY <1>1, <2>3, <2>4, <2>5 DEF Contraction, SearchPoints
    <2>7. Stands(s)
      BY <1>1, <1>2, <2>3, <2>6 DEF Stands
    <2>8. WithinBudget(s)
      <3>1. Len(s.survivors) = Len(search.survivors) /\ Len(s.pending) = Len(search.pending) - 1
        BY <2>3, <2>6
      <3>2. /\ search.flows <= MaxFlows
            /\ Len(search.survivors) + Len(search.pending) <= MaxCells
        BY <1>1, <1>2 DEF WithinBudget
      <3>3. s.flows <= MaxFlows /\ s.evaluated <= MaxFlows
        BY <2>5, <2>6, <3>2
      <3>4. PICK a : a = Len(search.survivors)
        OBVIOUS
      <3>5. PICK b : b = Len(search.pending)
        OBVIOUS
      <3>6. a + (b - 1) <= MaxCells /\ a + (b - 1) < MaxCells
        <4>1. a \in Nat /\ b \in Nat /\ MaxCells \in Nat
          BY <1>3, <3>4, <3>5, Budgets
        <4>2. a + b <= MaxCells
          BY <3>2, <3>4, <3>5
        <4>. QED
          BY <4>1, <4>2
      <3>7. Len(s.survivors) + Len(s.pending) = a + (b - 1)
        BY <3>1, <3>4, <3>5
      <3>. QED
        BY <3>3, <3>6, <3>7 DEF WithinBudget
    <2>9. RetainedSoFar(s)
      BY <1>1, <2>6 DEF RetainedSoFar
    <2>10. CellsFollow(s)
      BY <1>1, <1>2, <2>3, <2>6 DEF CellsFollow, Examined, Actuator
    <2>11. TargetFollows(s) /\ CellFollows(s)
      BY <1>1, <1>2, <2>6 DEF TargetFollows, CellFollows, Stands
    <2>. QED
      BY <1>4, <2>6, <2>7, <2>8, <2>9, <2>10, <2>11 DEF Sound
  <1>. QED
    BY <1>5, <1>6

\* Back among the cells, whatever became of the one under test.
LEMMA RemainingFields ==
  ASSUME search \in Contraction
  PROVE  /\ Remaining \in Contraction
         /\ Remaining.at = "cells" /\ Remaining.cell = Nothing
         /\ Remaining.endpoint = Nothing /\ Remaining.item = 1
         /\ Remaining.index = search.index /\ Remaining.retained = search.retained
         /\ Remaining.agent = search.agent
         /\ Remaining.flows = search.flows /\ Remaining.evaluated = search.evaluated
         /\ Remaining.targets = search.targets /\ Remaining.pending = search.pending
         /\ Remaining.survivors = search.survivors
  <1>1. PICK t : t = [search EXCEPT !.at = "cells", !.cell = Nothing]
    OBVIOUS
  <1>2. "cells" \in SearchPoints
    BY DEF SearchPoints
  <1>3. /\ t \in Contraction /\ t.at = "cells" /\ t.cell = Nothing
        /\ t.index = search.index /\ t.retained = search.retained /\ t.agent = search.agent
        /\ t.flows = search.flows /\ t.evaluated = search.evaluated
        /\ t.targets = search.targets /\ t.pending = search.pending
        /\ t.survivors = search.survivors
    BY <1>1, <1>2 DEF Contraction
  <1>4. Remaining = Rewound(t)
    BY <1>1 DEF Contraction, Rewound, Remaining
  <1>. QED
    BY <1>3, <1>4, RewoundFields

\* A cell left among the others: with its cells, flows and survivors.
CellsWith(p, v, f) == [Remaining EXCEPT !.pending = p, !.survivors = v, !.flows = f]

MayRemain(p, v, f) ==
  /\ p \in Seq(Box) /\ v \in Seq(Box) /\ f \in Nat
  /\ f <= MaxFlows /\ Len(p) + Len(v) <= MaxCells
  /\ Truthful(Model) => Covers(p, Actuator(search)) \/ Covers(v, Actuator(search))

LEMMA BackAmongCells ==
  ASSUME BeliefInv, search # Nothing, search.at = "cell", NEW p, NEW v, NEW f, MayRemain(p, v, f)
  PROVE  Sound(CellsWith(p, v, f))
  <1>. PICK s : s = CellsWith(p, v, f)
    OBVIOUS
  <1>. /\ p \in Seq(Box) /\ v \in Seq(Box) /\ f \in Nat
       /\ f <= MaxFlows /\ Len(p) + Len(v) <= MaxCells
       /\ Truthful(Model) => Covers(p, Actuator(search)) \/ Covers(v, Actuator(search))
    BY DEF MayRemain
  <1>1. /\ search \in Contraction /\ Stands(search) /\ WithinBudget(search)
        /\ RetainedSoFar(search)
    BY UnderExamination
  <1>2. Model = candidates[search.index]
    BY UnderExamination
  <1>3. PICK r : r = Remaining
    OBVIOUS
  <1>4. /\ r \in Contraction
        /\ r.at = "cells" /\ r.cell = Nothing /\ r.endpoint = Nothing /\ r.item = 1
        /\ r.index = search.index /\ r.retained = search.retained /\ r.agent = search.agent
        /\ r.evaluated = search.evaluated
    BY <1>1, <1>3, RemainingFields
  <1>5. s = [r EXCEPT !.pending = p, !.survivors = v, !.flows = f]
    BY <1>3 DEF CellsWith
  <1>6. /\ s \in Contraction
        /\ s.at = "cells" /\ s.cell = Nothing /\ s.endpoint = Nothing /\ s.item = 1
        /\ s.index = search.index /\ s.retained = search.retained /\ s.agent = search.agent
        /\ s.evaluated = search.evaluated /\ s.pending = p /\ s.survivors = v /\ s.flows = f
    BY <1>4, <1>5 DEF Contraction
  <1>7. Stands(s)
    BY <1>1, <1>6 DEF Stands
  <1>8. WithinBudget(s)
    <2>1. search.evaluated <= MaxFlows
      BY <1>1 DEF WithinBudget
    <2>2. Len(s.survivors) + Len(s.pending) = Len(p) + Len(v)
      BY <1>6
    <2>. QED
      BY <1>6, <2>1, <2>2 DEF WithinBudget
  <1>9. RetainedSoFar(s)
    BY <1>1, <1>6 DEF RetainedSoFar
  <1>10. CellsFollow(s)
    BY <1>2, <1>6 DEF CellsFollow, Examined, Actuator
  <1>11. TargetFollows(s) /\ CellFollows(s)
    BY <1>6 DEF TargetFollows, CellFollows
  <1>. QED
    BY <1>6, <1>7, <1>8, <1>9, <1>10, <1>11 DEF Sound

\* What is in hand of the cell under test.
LEMMA CellInHand ==
  ASSUME BeliefInv, search # Nothing, search.at = "cell"
  PROVE  /\ search.cell \in Box /\ search.pending \in Seq(Box) /\ search.survivors \in Seq(Box)
         /\ Len(search.pending) \in Nat /\ Len(search.survivors) \in Nat
         /\ search.flows \in Nat /\ search.flows <= MaxFlows
         /\ Len(search.survivors) + Len(search.pending) < MaxCells
         /\ Truthful(Model) =>
              \/ Covers(search.pending, Actuator(search)) \/ Covers(search.survivors, Actuator(search))
              \/ Within(Actuator(search), search.cell)
  <1>1. /\ search \in Contraction /\ Stands(search) /\ WithinBudget(search)
        /\ CellsFollow(search)
    BY UnderExamination DEF Sound
  <1>2. Model = candidates[search.index]
    BY UnderExamination
  <1>3. search.pending \in Seq(Box) /\ search.survivors \in Seq(Box) /\ search.flows \in Nat
    BY <1>1 DEF Contraction
  <1>4. Len(search.pending) \in Nat /\ Len(search.survivors) \in Nat
    BY <1>3, LenProperties
  <1>5. search.cell \in Box
    BY <1>1 DEF Stands
  <1>6. search.flows <= MaxFlows /\ Len(search.survivors) + Len(search.pending) < MaxCells
    BY <1>1 DEF WithinBudget
  <1>7. Truthful(Model) =>
          \/ Covers(search.pending, Actuator(search)) \/ Covers(search.survivors, Actuator(search))
          \/ Within(Actuator(search), search.cell)
    BY <1>1, <1>2 DEF CellsFollow, Examined
  <1>. QED
    BY <1>3, <1>4, <1>5, <1>6, <1>7

\* A cell that does not contain the actual actuator of a truthful candidate
\* may go, at the cost of one flow or none.
LEMMA DropCellSound ==
  ASSUME BeliefInv, search # Nothing, search.at = "cell", NEW f \in Nat, f <= MaxFlows,
         ~(Truthful(Model) /\ Within(Actuator(search), search.cell)),
         search' = [Remaining EXCEPT !.flows = f]
  PROVE  Sound(search')
  <1>1. PICK s : s = search'
    OBVIOUS
  <1>2. s = CellsWith(search.pending, search.survivors, f)
    <2>1. search \in Contraction
      BY UnderExamination
    <2>2. PICK r : r = Remaining
      OBVIOUS
    <2>3. r \in Contraction /\ r.pending = search.pending /\ r.survivors = search.survivors
      BY <2>1, <2>2, RemainingFields
    <2>4. [r EXCEPT !.flows = f]
            = [r EXCEPT !.pending = search.pending, !.survivors = search.survivors, !.flows = f]
      BY <2>3 DEF Contraction
    <2>. QED
      BY <1>1, <2>2, <2>4 DEF CellsWith
  <1>3. /\ search.pending \in Seq(Box) /\ search.survivors \in Seq(Box)
        /\ Len(search.pending) + Len(search.survivors) <= MaxCells
    <2>1. PICK a : a = Len(search.pending)
      OBVIOUS
    <2>2. PICK b : b = Len(search.survivors)
      OBVIOUS
    <2>3. a \in Nat /\ b \in Nat /\ MaxCells \in Nat /\ b + a < MaxCells
      BY <2>1, <2>2, CellInHand, Budgets
    <2>4. a + b <= MaxCells
      BY <2>3
    <2>. QED
      BY <2>1, <2>2, <2>4, CellInHand
  <1>4. Truthful(Model) => \/ Covers(search.pending, Actuator(search))
                           \/ Covers(search.survivors, Actuator(search))
    BY CellInHand
  <1>5. MayRemain(search.pending, search.survivors, f)
    BY <1>3, <1>4 DEF MayRemain
  <1>6. Sound(CellsWith(search.pending, search.survivors, f))
    BY <1>5, BackAmongCells
  <1>. QED
    BY <1>1, <1>2, <1>6

\* A cell that is not refuted is split or survives.
LEMMA KeepCellSound ==
  ASSUME BeliefInv, search # Nothing, search.at = "cell", KeepCell
  PROVE  Sound(search')
  <1>1. /\ search.cell \in Box /\ search.pending \in Seq(Box) /\ search.survivors \in Seq(Box)
        /\ search.flows \in Nat /\ search.flows <= MaxFlows
        /\ Truthful(Model) =>
             \/ Covers(search.pending, Actuator(search)) \/ Covers(search.survivors, Actuator(search))
             \/ Within(Actuator(search), search.cell)
    BY CellInHand
  <1>2. PICK a : a = Len(search.pending)
    OBVIOUS
  <1>3. PICK b : b = Len(search.survivors)
    OBVIOUS
  <1>4. a \in Nat /\ b \in Nat /\ MaxCells \in Nat /\ b + a < MaxCells
    BY <1>2, <1>3, CellInHand, Budgets
  <1>5. PICK children : children = Halves(search.cell, Holds)
    OBVIOUS
  <1>6. PICK r : r = Remaining
    OBVIOUS
  <1>7. /\ r \in Contraction /\ r.pending = search.pending /\ r.survivors = search.survivors
        /\ r.flows = search.flows
    <2>1. search \in Contraction
      BY UnderExamination
    <2>. QED
      BY <1>6, <2>1, RemainingFields
  <1>8. Actuator(search) \in Int
    <2>1. Actuator(search) = actual.actuator[Agent] /\ actual.actuator[Agent] \in Int
      BY AgentInHand
    <2>. QED
      BY <2>1
  <1>9. CASE children # <<>> /\ Room /\ search.flows < MaxFlows
    <2>1. PICK p : p = search.pending \o children
      OBVIOUS
    <2>2. /\ children \in Seq(Box) /\ Len(children) = 2
          /\ Within(Actuator(search), search.cell) => Covers(children, Actuator(search))
      BY <1>1, <1>5, <1>8, <1>9, HalvesCover
    <2>3. /\ p \in Seq(Box) /\ Len(p) = a + 2
          /\ Covers(search.pending, Actuator(search)) => Covers(p, Actuator(search))
          /\ Covers(children, Actuator(search)) => Covers(p, Actuator(search))
      BY <1>1, <1>2, <2>1, <2>2, JoinedCovers
    <2>4. Len(p) + Len(search.survivors) <= MaxCells
      <3>1. b + a + 2 <= MaxCells
        BY <1>2, <1>3, <1>9 DEF Room
      <3>2. (a + 2) + b <= MaxCells
        BY <1>4, <3>1
      <3>. QED
        BY <1>3, <2>3, <3>2
    <2>5. MayRemain(p, search.survivors, search.flows)
      BY <1>1, <2>2, <2>3, <2>4 DEF MayRemain
    <2>6. search' = [r EXCEPT !.pending = p]
      <3>1. search' = [r EXCEPT !.pending = search.pending \o children,
                                !.survivors = search.survivors]
        BY <1>5, <1>6, <1>7, <1>9 DEF KeepCell, Contraction
      <3>. QED
        BY <1>7, <2>1, <3>1 DEF Contraction
    <2>7. search' = CellsWith(p, search.survivors, search.flows)
      BY <1>6, <1>7, <2>6 DEF CellsWith, Contraction
    <2>8. Sound(CellsWith(p, search.survivors, search.flows))
      BY <2>5, BackAmongCells
    <2>. QED
      BY <2>7, <2>8
  <1>10. CASE ~(children # <<>> /\ Room /\ search.flows < MaxFlows)
    <2>1. PICK v : v = Append(search.survivors, search.cell)
      OBVIOUS
    <2>2. /\ v \in Seq(Box) /\ Len(v) = b + 1
          /\ Covers(search.survivors, Actuator(search)) => Covers(v, Actuator(search))
          /\ Within(Actuator(search), search.cell) => Covers(v, Actuator(search))
      BY <1>1, <1>3, <2>1, LongerCovers
    <2>3. Len(search.pending) + Len(v) <= MaxCells
      <3>1. a + (b + 1) <= MaxCells
        BY <1>4
      <3>. QED
        BY <1>2, <2>2, <3>1
    <2>4. MayRemain(search.pending, v, search.flows)
      BY <1>1, <2>2, <2>3 DEF MayRemain
    <2>5. search' = [r EXCEPT !.survivors = v]
      <3>1. search' = [r EXCEPT !.pending = search.pending,
                                !.survivors = Append(search.survivors, search.cell)]
        BY <1>5, <1>6, <1>7, <1>10 DEF KeepCell, Contraction
      <3>. QED
        BY <1>7, <2>1, <3>1 DEF Contraction
    <2>6. search' = CellsWith(search.pending, v, search.flows)
      BY <1>6, <1>7, <2>5 DEF CellsWith, Contraction
    <2>7. Sound(CellsWith(search.pending, v, search.flows))
      BY <2>4, BackAmongCells
    <2>. QED
      BY <2>6, <2>7
  <1>. QED
    BY <1>9, <1>10

LEMMA CellTestedSound ==
  ASSUME BeliefInv, search # Nothing, CellTested
  PROVE  Sound(search')
  BY KeepCellSound DEF CellTested

\* A cell goes on to the next hold with what is carried there.
CellOn(e, f) ==
  [search EXCEPT !.item = search.item + 1, !.ended = End(Hold), !.endpoint = e, !.flows = f]

MayCarry(e, f) ==
  /\ e \in Box \cup {Nothing} /\ f \in Nat /\ f <= MaxFlows
  /\ e # Nothing /\ Truthful(Model) /\ Within(Actuator(search), search.cell) => Within(0, e)

LEMMA CellGoesOn ==
  ASSUME BeliefInv, search # Nothing, search.at = "cell", Hold \in ObservedHold,
         NEW e, NEW f, MayCarry(e, f)
  PROVE  Sound(CellOn(e, f))
  <1>1. /\ search \in Contraction /\ Stands(search) /\ WithinBudget(search)
        /\ RetainedSoFar(search) /\ CellsFollow(search)
    BY UnderExamination DEF Sound
  <1>2. Model = candidates[search.index]
    BY UnderExamination
  <1>3. /\ e \in Box \cup {Nothing} /\ f \in Nat /\ f <= MaxFlows
        /\ e # Nothing /\ Truthful(Model) /\ Within(Actuator(search), search.cell) => Within(0, e)
    BY DEF MayCarry
  <1>4. PICK s : s = CellOn(e, f)
    OBVIOUS
  <1>5. search.item + 1 \in Nat /\ search.item + 1 >= 1 /\ End(Hold) \in Int
    BY <1>1 DEF Contraction, ObservedHold, End
  <1>6. /\ s \in Contraction /\ s.at = search.at
        /\ s.index = search.index /\ s.retained = search.retained /\ s.agent = search.agent
        /\ s.item = search.item + 1 /\ s.flows = f /\ s.evaluated = search.evaluated
        /\ s.endpoint = e /\ s.pending = search.pending
        /\ s.survivors = search.survivors /\ s.cell = search.cell
    <2>1. s \in Contraction
      BY <1>1, <1>3, <1>4, <1>5 DEF CellOn, Contraction
    <2>. QED
      BY <1>1, <1>4, <2>1 DEF CellOn, Contraction
  <1>7. Stands(s)
    BY <1>1, <1>5, <1>6 DEF Stands
  <1>8. WithinBudget(s)
    BY <1>1, <1>3, <1>6 DEF WithinBudget
  <1>9. RetainedSoFar(s)
    BY <1>1, <1>6 DEF RetainedSoFar
  <1>10. CellsFollow(s)
    BY <1>1, <1>6 DEF CellsFollow, Examined, Actuator
  <1>11. CellFollows(s)
    BY <1>2, <1>3, <1>6 DEF CellFollows, Examined, Actuator
  <1>12. TargetFollows(s)
    BY <1>6 DEF TargetFollows
  <1>. QED
    BY <1>4, <1>6, <1>7, <1>8, <1>9, <1>10, <1>11, <1>12 DEF Sound

\* What a cell lets through contains the actual thrust if the cell does.
LEMMA AppliedContains ==
  ASSUME NEW cell \in Box, NEW command \in {0, 1}, NEW v \in Int, Within(v, Support)
  PROVE  /\ Applied(cell, command) \in Box
         /\ Within(v, cell) =>
              Within(v * command, Applied(cell, command)) /\ ~Empty(Applied(cell, command))
  <1>1. Support \in Box
    BY MembershipAssumption DEF Box
  <1>2. /\ Scaled(Support, command) \in Box /\ v * command \in Int
        /\ Within(v * command, Scaled(Support, command))
    BY <1>1, ScaledContains
  <1>3. /\ Scaled(cell, command) \in Box
        /\ Within(v, cell) => Within(v * command, Scaled(cell, command))
    BY ScaledContains
  <1>4. PICK thrust : thrust = v * command
    OBVIOUS
  <1>5. /\ Applied(cell, command) \in Box
        /\ Within(thrust, Scaled(cell, command)) =>
             Within(thrust, Applied(cell, command)) /\ ~Empty(Applied(cell, command))
    BY <1>2, <1>3, <1>4, MeetIsBox, MeetContains DEF Applied
  <1>. QED
    BY <1>3, <1>4, <1>5

LEMMA TestCellSound ==
  ASSUME BeliefInv, search # Nothing, NEW proven \in BOOLEAN, TestCell(proven)
  PROVE  Sound(search')
  <1>1. /\ search \in Contraction /\ Stands(search) /\ WithinBudget(search)
        /\ CellFollows(search)
    BY UnderExamination DEF Sound
  <1>2. search.at = "cell" /\ search.item <= Len(Holds)
    BY DEF TestCell
  <1>3. Hold \in ObservedHold
    BY <1>2, HoldInHand
  <1>4. Model \in Box /\ Model = candidates[search.index]
    BY <1>1, <1>2, UnderExamination
  <1>5. PICK a : a = Actuator(search)
    OBVIOUS
  <1>6. a \in Int /\ a = actual.actuator[Agent] /\ Agent \in Observing /\ Within(a, Support)
    BY <1>2, <1>5, AgentInHand
  <1>7. search.cell \in Box /\ search.flows \in Nat /\ search.flows <= MaxFlows
    BY <1>2, CellInHand
  <1>8. Hold.command \in {0, 1} /\ Hold.observed \in Nat
    BY <1>3 DEF ObservedHold
  <1>. DEFINE Here == Truthful(Model) /\ Within(a, search.cell)
  <1>9. PICK initial : initial = Linked(search.endpoint, search.ended, Hold)
    OBVIOUS
  <1>10. initial \in Box /\ (Here => Within(0, initial) /\ ~Empty(initial))
    <2>1. search.endpoint \in Box \cup {Nothing} /\ search.ended \in Int
      BY <1>1 DEF Contraction
    <2>2. Here => (search.endpoint # Nothing => Within(0, search.endpoint))
      BY <1>1, <1>2, <1>4, <1>5 DEF CellFollows, Examined
    <2>. QED
      BY <1>3, <1>9, <2>1, <2>2, LinkedContains
  <1>11. PICK applied : applied = Applied(search.cell, Hold.command)
    OBVIOUS
  <1>12. applied \in Box /\ (Here => Within(a * Hold.command, applied) /\ ~Empty(applied))
    BY <1>6, <1>7, <1>8, <1>11, AppliedContains
  <1>13. PICK flow : flow = RelativeFlow(initial, applied, Model, Agent, Hold.command)
    OBVIOUS
  <1>14. flow \in Box /\ (Here => Within(0, flow))
    <2>1. BeliefTypes
      BY DEF BeliefInv
    <2>2. Here => Within(actual.actuator[Agent] * Hold.command, applied)
      BY <1>6, <1>12
    <2>3. /\ RelativeFlow(initial, applied, Model, Agent, Hold.command) \in Box
          /\ Within(0, initial) /\ Truthful(Model)
               /\ Within(actual.actuator[Agent] * Hold.command, applied)
               => Within(0, RelativeFlow(initial, applied, Model, Agent, Hold.command))
      BY <1>4, <1>6, <1>8, <1>10, <1>12, <2>1, RelativeFlowContains
    <2>. QED
      BY <1>10, <1>13, <2>2, <2>3
  <1>15. PICK cut : cut = Meet(flow, Around(Hold.observed))
    OBVIOUS
  <1>16. cut \in Box /\ (Here => Within(0, cut) /\ ~Empty(cut))
    <2>1. Around(Hold.observed) \in Box /\ Within(0, Around(Hold.observed))
      BY <1>8, AroundContains
    <2>. QED
      BY <1>14, <1>15, <2>1, MeetIsBox, MeetContains
  <1>17. PICK endpoint : endpoint = IF ~proven THEN Nothing ELSE cut
    OBVIOUS
  <1>18. /\ endpoint \in Box \cup {Nothing}
         /\ endpoint # Nothing /\ Here => Within(0, endpoint) /\ ~Empty(endpoint)
    BY <1>16, <1>17
  <1>19. PICK tested : tested = search.targets[search.item]
    OBVIOUS
  <1>20. IF Empty(initial) \/ Empty(applied) THEN search' = Remaining
         ELSE IF ~tested THEN search' = CellOn(Nothing, search.flows)
         ELSE IF search.flows >= MaxFlows THEN KeepCell
         ELSE IF endpoint # Nothing /\ Empty(endpoint)
         THEN search' = [Remaining EXCEPT !.flows = search.flows + 1]
         ELSE search' = CellOn(endpoint, search.flows + 1)
    <2>1. PICK r : r = Remaining
      OBVIOUS
    <2>2. r \in Contraction /\ r.flows = search.flows
      BY <1>1, <2>1, RemainingFields
    <2>3. [r EXCEPT !.flows = @ + 1] = [r EXCEPT !.flows = search.flows + 1]
      BY <2>2 DEF Contraction
    <2>4. [[search EXCEPT !.item = @ + 1, !.ended = End(Hold)] EXCEPT !.endpoint = Nothing]
            = CellOn(Nothing, search.flows)
      BY <1>1 DEF Contraction, CellOn
    <2>5. [[search EXCEPT !.item = @ + 1, !.ended = End(Hold)]
             EXCEPT !.endpoint = endpoint, !.flows = @ + 1]
            = CellOn(endpoint, search.flows + 1)
      BY <1>1 DEF Contraction, CellOn
    <2>. QED
      BY <1>9, <1>11, <1>13, <1>15, <1>17, <1>19, <2>1, <2>3, <2>4, <2>5 DEF TestCell, DropCell
  <1>21. CASE Empty(initial) \/ Empty(applied)
    <2>1. search' = [Remaining EXCEPT !.flows = search.flows]
      <3>1. PICK r : r = Remaining
        OBVIOUS
      <3>2. r \in Contraction /\ r.flows = search.flows
        BY <1>1, <3>1, RemainingFields
      <3>3. [r EXCEPT !.flows = search.flows] = r
        BY <3>2 DEF Contraction
      <3>. QED
        BY <1>20, <1>21, <3>1, <3>3
    <2>2. ~(Truthful(Model) /\ Within(Actuator(search), search.cell))
      BY <1>5, <1>10, <1>12, <1>21
    <2>. QED
      BY <1>2, <1>7, <2>1, <2>2, DropCellSound
  <1>22. CASE ~(Empty(initial) \/ Empty(applied)) /\ ~tested
    <2>1. MayCarry(Nothing, search.flows)
      BY <1>7 DEF MayCarry
    <2>2. Sound(CellOn(Nothing, search.flows))
      BY <1>2, <1>3, <2>1, CellGoesOn
    <2>. QED
      BY <1>20, <1>22, <2>2
  <1>23. CASE ~(Empty(initial) \/ Empty(applied)) /\ tested /\ search.flows >= MaxFlows
    BY <1>2, <1>20, <1>23, KeepCellSound
  <1>24. CASE /\ ~(Empty(initial) \/ Empty(applied)) /\ tested /\ ~(search.flows >= MaxFlows)
              /\ endpoint # Nothing /\ Empty(endpoint)
    <2>1. PICK f : f = search.flows + 1
      OBVIOUS
    <2>2. f \in Nat /\ f <= MaxFlows
      BY <1>7, <1>24, <2>1, Budgets
    <2>3. ~(Truthful(Model) /\ Within(Actuator(search), search.cell))
      BY <1>5, <1>18, <1>24
    <2>4. search' = [Remaining EXCEPT !.flows = f]
      BY <1>20, <1>24, <2>1
    <2>. QED
      BY <1>2, <2>2, <2>3, <2>4, DropCellSound
  <1>25. CASE /\ ~(Empty(initial) \/ Empty(applied)) /\ tested /\ ~(search.flows >= MaxFlows)
              /\ ~(endpoint # Nothing /\ Empty(endpoint))
    <2>1. PICK f : f = search.flows + 1
      OBVIOUS
    <2>2. f \in Nat /\ f <= MaxFlows
      BY <1>7, <1>25, <2>1, Budgets
    <2>3. MayCarry(endpoint, f)
      BY <1>5, <1>18, <2>2 DEF MayCarry
    <2>4. Sound(CellOn(endpoint, f))
      BY <1>2, <1>3, <2>3, CellGoesOn
    <2>. QED
      BY <1>20, <1>25, <2>1, <2>4
  <1>. QED
    BY <1>21, <1>22, <1>23, <1>24, <1>25

LEMMA SettleCellsSound ==
  ASSUME BeliefInv, search # Nothing, SettleCells
  PROVE  Sound(search')
  <1>1. /\ search \in Contraction /\ Stands(search) /\ WithinBudget(search)
        /\ RetainedSoFar(search) /\ CellsFollow(search)
    BY UnderExamination DEF Sound
  <1>2. search.at = "cells" /\ search.pending = <<>>
    BY DEF SettleCells
  <1>3. search.index <= Len(candidates) /\ Model = candidates[search.index]
    BY <1>1, <1>2, UnderExamination DEF Stands
  <1>4. CASE search.survivors = <<>>
    <2>1. ~Truthful(Model)
      BY <1>1, <1>2, <1>3, <1>4, NoneCovers DEF CellsFollow, Examined
    <2>2. search' = Onwards(FALSE)
      BY <1>4 DEF SettleCells, RejectCandidate
    <2>. QED
      BY <1>3, <2>1, <2>2, RejectedIsSound
  <1>5. CASE search.survivors # <<>>
    <2>1. PICK s : s = search'
      OBVIOUS
    <2>2. PICK next : next = search.agent + 1
      OBVIOUS
    <2>3. s = [search EXCEPT !.at = "agent", !.agent = next, !.targets = <<>>, !.survivors = <<>>]
      BY <1>1, <1>5, <2>1, <2>2 DEF SettleCells, Contraction
    <2>4. next \in Nat /\ next >= 1
      <3>1. search.agent \in Nat
        BY <1>1 DEF Contraction
      <3>. QED
        BY <2>2, <3>1
    <2>5. <<>> \in Seq(Box) /\ <<>> \in Seq(BOOLEAN) /\ "agent" \in SearchPoints
      BY DEF SearchPoints
    <2>6. s \in Contraction
      BY <1>1, <2>3, <2>4, <2>5 DEF Contraction
    <2>7. /\ s.at = "agent" /\ s.agent = next
          /\ s.index = search.index /\ s.retained = search.retained
          /\ s.item = search.item /\ s.flows = search.flows /\ s.evaluated = search.evaluated
          /\ s.endpoint = search.endpoint /\ s.pending = <<>>
          /\ s.survivors = <<>> /\ s.cell = search.cell
      BY <1>1, <1>2, <2>3 DEF Contraction
    <2>8. Stands(s)
      BY <1>1, <1>2, <2>4, <2>7 DEF Stands
    <2>9. WithinBudget(s)
      <3>1. search.flows <= MaxFlows /\ search.evaluated <= MaxFlows
        BY <1>1 DEF WithinBudget
      <3>2. Len(s.survivors) = 0 /\ Len(s.pending) = 0
        BY <2>7
      <3>. QED
        BY <2>7, <3>1, <3>2, Budgets DEF WithinBudget
    <2>10. RetainedSoFar(s)
      BY <1>1, <2>7 DEF RetainedSoFar
    <2>11. TargetFollows(s) /\ CellsFollow(s) /\ CellFollows(s)
      BY <2>7 DEF TargetFollows, CellsFollow, CellFollows
    <2>. QED
      BY <2>1, <2>6, <2>8, <2>9, <2>10, <2>11 DEF Sound
  <1>. QED
    BY <1>4, <1>5

\* What is saved of an agent's cells keeps its actuator, within the limit.
LEMMA SettledCells ==
  ASSUME BeliefInv, search # Nothing, SettleCells, NEW key \in DOMAIN surviving_cells'
  PROVE  /\ surviving_cells'[key] \in Seq(Box) /\ Len(surviving_cells'[key]) <= MaxCells
         /\ \A agent \in Observing : key[2] = agent /\ Truthful(key[1])
              => Covers(surviving_cells'[key], actual.actuator[agent])
  <1>1. /\ search \in Contraction /\ Stands(search) /\ WithinBudget(search)
        /\ CellsFollow(search)
    BY UnderExamination DEF Sound
  <1>2. search.at = "cells" /\ search.pending = <<>>
    BY DEF SettleCells
  <1>3. Model = candidates[search.index] /\ Agent \in Observing
        /\ actual.actuator[Agent] = Actuator(search)
    BY <1>2, UnderExamination, AgentInHand
  <1>4. surviving_cells' = [k \in DOMAIN surviving_cells \cup {Key} |->
                              IF k = Key THEN search.survivors ELSE surviving_cells[k]]
    BY DEF SettleCells
  <1>5. CASE key = Key
    <2>1. surviving_cells'[key] = search.survivors
      BY <1>4, <1>5
    <2>2. key[1] = Model /\ key[2] = Agent
      BY <1>5 DEF Key
    <2>3. search.survivors \in Seq(Box) /\ Len(search.survivors) <= MaxCells
      <3>1. search.survivors \in Seq(Box)
        BY <1>1 DEF Contraction
      <3>2. PICK a : a = Len(search.survivors)
        OBVIOUS
      <3>3. Len(search.pending) = 0
        BY <1>2
      <3>4. a + 0 <= MaxCells /\ a \in Nat
        BY <1>1, <3>1, <3>2, <3>3, LenProperties DEF WithinBudget
      <3>. QED
        BY <3>1, <3>2, <3>4
    <2>4. Truthful(Model) => Covers(search.survivors, actual.actuator[Agent])
      BY <1>1, <1>2, <1>3, NoneCovers DEF CellsFollow, Examined
    <2>. QED
      BY <2>1, <2>2, <2>3, <2>4
  <1>6. CASE key # Key
    <2>1. key \in DOMAIN surviving_cells /\ surviving_cells'[key] = surviving_cells[key]
      BY <1>4, <1>6
    <2>. QED
      BY <2>1 DEF BeliefInv, BeliefTypes, CellsKept
  <1>. QED
    BY <1>5, <1>6

LEMMA TestTransitionSound ==
  ASSUME BeliefInv, search # Nothing, NEW targetProven \in BOOLEAN, NEW relativeProven \in BOOLEAN,
         TestTransition(targetProven, relativeProven)
  PROVE  Sound(search')
  <1>1. /\ search \in Contraction /\ Stands(search) /\ WithinBudget(search)
        /\ RetainedSoFar(search)
    BY UnderExamination
  <1>2. search.at = "transition"
    BY DEF TestTransition
  <1>3. /\ search.index <= Len(candidates) /\ Model = candidates[search.index] /\ Model \in Box
        /\ search.item \in Nat /\ search.item >= 1
    <2>1. search.item \in Nat
      BY <1>1 DEF Contraction
    <2>. QED
      BY <1>1, <1>2, <2>1, UnderExamination DEF Stands
  <1>4. CASE search.item > Len(pending_transitions)
    BY <1>3, <1>4, KeptIsSound DEF TestTransition, KeepCandidate
  <1>5. CASE ~(search.item > Len(pending_transitions))
    <2>1. PICK hold : hold = pending_transitions[search.item]
      OBVIOUS
    <2>2. PICK agent : agent = Observers[search.item]
      OBVIOUS
    <2>3. hold \in ObservedHold /\ agent \in Observing
      <3>1. /\ pending_transitions \in Seq(ObservedHold)
            /\ Len(pending_transitions) <= Len(Observers)
        BY DEF BeliefInv, BeliefTypes
      <3>2. Observers \in Seq(Observing)
        BY MembershipAssumption
      <3>3. Len(pending_transitions) \in Nat /\ Len(Observers) \in Nat
        BY <3>1, <3>2, LenProperties
      <3>4. search.item \in 1..Len(pending_transitions) /\ search.item \in 1..Len(Observers)
        BY <1>3, <1>5, <3>1, <3>3
      <3>. QED
        BY <2>1, <2>2, <3>1, <3>2, <3>4
    <2>4. Around(hold.initial) \in Box /\ Within(0, Around(hold.initial))
      BY <2>3, AroundContains DEF ObservedHold
    <2>5. Around(hold.observed) \in Box /\ Within(0, Around(hold.observed))
      BY <2>3, AroundContains DEF ObservedHold
    <2>6. hold.command \in {0, 1} /\ Support \in Box
      BY <2>3, MembershipAssumption DEF ObservedHold, Box
    <2>7. PICK target : target = TargetFlow(Around(hold.initial), Model)
      OBVIOUS
    <2>8. target \in Box /\ (Truthful(Model) => ~Empty(Meet(target, Around(hold.observed))))
      <3>1. target \in Box /\ (Truthful(Model) => Within(0, target))
        BY <1>3, <2>4, <2>7, TargetFlowContains DEF BeliefInv
      <3>. QED
        BY <2>5, <3>1, MeetContains
    <2>9. PICK relative : relative = RelativeFlow(Around(hold.initial), Scaled(Support, hold.command),
                                                  Model, agent, hold.command)
      OBVIOUS
    <2>10. Truthful(Model) => ~Empty(Meet(relative, Around(hold.observed)))
      <3>1. BeliefTypes
        BY DEF BeliefInv
      <3>2. actual.actuator[agent] \in Int /\ Within(actual.actuator[agent], Support)
        BY <2>3, <3>1 DEF BeliefTypes
      <3>3. /\ Scaled(Support, hold.command) \in Box
            /\ Within(actual.actuator[agent] * hold.command, Scaled(Support, hold.command))
        BY <2>6, <3>2, ScaledContains
      <3>4. PICK applied : applied = Scaled(Support, hold.command)
        OBVIOUS
      <3>5. relative \in Box /\ (Truthful(Model) => Within(0, relative))
        <4>1. /\ RelativeFlow(Around(hold.initial), applied, Model, agent, hold.command) \in Box
              /\ Within(0, Around(hold.initial)) /\ Truthful(Model)
                   /\ Within(actual.actuator[agent] * hold.command, applied)
                   => Within(0, RelativeFlow(Around(hold.initial), applied, Model, agent, hold.command))
          BY <1>3, <2>3, <2>4, <2>6, <3>1, <3>3, <3>4, RelativeFlowContains
        <4>. QED
          BY <2>4, <2>9, <3>3, <3>4, <4>1
      <3>. QED
        BY <2>5, <3>5, MeetContains
    <2>11. IF targetProven /\ \/ Empty(Meet(target, Around(hold.observed)))
                              \/ relativeProven /\ Empty(Meet(relative, Around(hold.observed)))
           THEN search' = Onwards(FALSE)
           ELSE search' = [search EXCEPT !.item = search.item + 1]
      BY <1>1, <1>5, <2>1, <2>2, <2>7, <2>9 DEF TestTransition, RejectCandidate, Contraction
    <2>12. CASE search' = Onwards(FALSE) /\ ~Truthful(Model)
      BY <1>3, <2>12, RejectedIsSound
    <2>13. CASE search' = [search EXCEPT !.item = search.item + 1]
      <3>1. PICK s : s = search'
        OBVIOUS
      <3>2. search.item + 1 \in Nat /\ search.item + 1 >= 1
        BY <1>3
      <3>3. /\ s \in Contraction /\ s.at = search.at
            /\ s.index = search.index /\ s.retained = search.retained /\ s.agent = search.agent
            /\ s.item = search.item + 1 /\ s.flows = search.flows
            /\ s.evaluated = search.evaluated
            /\ s.endpoint = search.endpoint /\ s.pending = search.pending
            /\ s.survivors = search.survivors /\ s.cell = search.cell
        <4>1. s \in Contraction
          BY <1>1, <2>13, <3>1, <3>2 DEF Contraction
        <4>. QED
          BY <1>1, <2>13, <3>1, <4>1 DEF Contraction
      <3>4. Stands(s)
        BY <1>1, <1>2, <3>2, <3>3 DEF Stands
      <3>5. WithinBudget(s)
        BY <1>1, <3>3 DEF WithinBudget
      <3>6. RetainedSoFar(s)
        BY <1>1, <3>3 DEF RetainedSoFar
      <3>7. TargetFollows(s) /\ CellsFollow(s) /\ CellFollows(s)
        BY <1>2, <3>3 DEF TargetFollows, CellsFollow, CellFollows
      <3>. QED
        BY <3>1, <3>3, <3>4, <3>5, <3>6, <3>7 DEF Sound
    <2>. QED
      BY <2>8, <2>10, <2>11, <2>12, <2>13
  <1>. QED
    BY <1>4, <1>5


-----------------------------------------------------------------------------
(* A contraction step keeps the belief                                     *)

\* What a contraction neither reads anew nor changes.
Settled == <<actual, mode, policy, history, pending_transitions, candidates, active_model>>

LEMMA SoundNow ==
  ASSUME UNCHANGED Settled, Sound(search')
  PROVE  Sound(search)'
  <1>1. PICK s : s = search'
    OBVIOUS
  <1>2. actual' = actual /\ candidates' = candidates /\ history' = history
    BY DEF Settled
  <1>3. (search \in Contraction)' /\ Stands(search)' /\ WithinBudget(search)'
    BY <1>2 DEF Sound, Stands, WithinBudget, Observed, Contraction, SearchPoints, Box
  <1>4. RetainedSoFar(search)'
    BY <1>2 DEF Sound, RetainedSoFar, Truthful
  <1>5. TargetFollows(search)'
    BY <1>2 DEF Sound, TargetFollows, Examined, Truthful
  <1>6. CellsFollow(search)' /\ CellFollows(search)'
    BY <1>2 DEF Sound, CellsFollow, CellFollows, Examined, Truthful, Actuator, Covers, Observed
  <1>. QED
    BY <1>3, <1>4, <1>5, <1>6 DEF Sound

LEMMA TypesStay ==
  ASSUME BeliefInv, UNCHANGED Settled, UNCHANGED surviving_cells
  PROVE  BeliefTypes' /\ CandidatesKept' /\ CellsKept'
  BY DEF Settled, BeliefInv, BeliefTypes, CandidatesKept, CellsKept, Truthful, Covers,
         ObservedHold, Box

LEMMA ContractionKeepsBelief ==
  ASSUME BeliefInv, ContractionStep
  PROVE  BeliefInv'
  <1>1. search # Nothing /\ UNCHANGED Settled
    BY DEF ContractionStep, Settled
  <1>2. Sound(search')
    BY <1>1, TakeCandidateSound, TakeAgentSound, TargetsLinkedSound, TakeCellSound, CellTestedSound,
       SettleCellsSound, LinkTargetSound, TestCellSound, TestTransitionSound DEF ContractionStep
  <1>3. SearchInv'
    BY <1>1, <1>2, SoundNow DEF SearchInv
  <1>4. CASE SettleCells
    <2>1. BeliefTypes /\ CandidatesKept
      BY DEF BeliefInv
    <2>2. \A key \in DOMAIN surviving_cells' :
            /\ surviving_cells'[key] \in Seq(Box) /\ Len(surviving_cells'[key]) <= MaxCells
            /\ \A agent \in Observing : key[2] = agent /\ Truthful(key[1])
                 => Covers(surviving_cells'[key], actual.actuator[agent])
      BY <1>1, <1>4, SettledCells
    <2>3. BeliefTypes'
      BY <1>1, <2>1, <2>2 DEF Settled, BeliefTypes, ObservedHold, Box
    <2>4. CandidatesKept'
      BY <1>1, <2>1 DEF Settled, CandidatesKept, Truthful
    <2>5. CellsKept'
      BY <1>1, <2>2 DEF Settled, CellsKept, Truthful, Covers
    <2>. QED
      BY <1>3, <2>3, <2>4, <2>5 DEF BeliefInv
  <1>5. CASE ~SettleCells
    <2>1. UNCHANGED surviving_cells
      BY <1>5 DEF ContractionStep, TakeCandidate, TakeAgent, TargetsLinked, TakeCell, CellTested,
                  LinkTarget, TestCell, TestTransition
    <2>. QED
      BY <1>1, <1>3, <2>1, TypesStay DEF BeliefInv
  <1>. QED
    BY <1>4, <1>5

-----------------------------------------------------------------------------
(* The other steps of the mission keep the belief                          *)

LEMMA BeginKeepsBelief ==
  ASSUME BeliefInv, search' = Fresh, UNCHANGED Settled, UNCHANGED surviving_cells
  PROVE  BeliefInv'
  <1>1. Sound(search')
    BY FreshIsSound DEF BeliefInv, BeliefTypes
  <1>. QED
    BY <1>1, SoundNow, TypesStay DEF BeliefInv, SearchInv

\* A truthful candidate is among those retained at the end.
LEMMA ClosingRetains ==
  ASSUME BeliefInv, search # Nothing, search.at = "candidate", search.index > Len(candidates)
  PROVE  /\ search.retained \in Seq(Box)
         /\ \E i \in 1..Len(search.retained) : Truthful(search.retained[i])
  <1>1. /\ search.retained \in Seq(Box) /\ RetainedSoFar(search)
        /\ search.index \in 1..(Len(candidates) + 1) /\ candidates \in Seq(Box)
    BY UnderExamination
  <1>2. Len(candidates) \in Nat
    BY <1>1, LenProperties
  <1>3. PICK i \in 1..Len(candidates) : Truthful(candidates[i])
    BY DEF BeliefInv, CandidatesKept
  <1>4. i < search.index
    BY <1>1, <1>2, <1>3
  <1>. QED
    BY <1>1, <1>3, <1>4 DEF RetainedSoFar

LEMMA CloseKeepsBelief ==
  ASSUME BeliefInv, search # Nothing, NEW consistent \in BOOLEAN, CloseContraction(consistent),
         UNCHANGED <<actual, mode, policy, history, pending_transitions>>
  PROVE  BeliefInv'
  <1>1. search.at = "candidate" /\ search.index > Len(candidates)
    BY DEF CloseContraction
  <1>2. PICK r : r = search.retained
    OBVIOUS
  <1>3. r \in Seq(Box) /\ \E i \in 1..Len(r) : Truthful(r[i])
    BY <1>1, <1>2, ClosingRetains
  <1>4. r # <<>>
    BY <1>3
  <1>5. candidates' = r /\ active_model' = Hull(r)
    BY <1>2, <1>4 DEF CloseContraction
  <1>6. surviving_cells' = Pruned /\ search' = Nothing
    BY DEF CloseContraction
  <1>7. actual.drag \in Int
    BY ActualTypes DEF BeliefInv
  <1>8. Within(actual.drag, Hull(r))
    BY <1>3, <1>7, HullContains DEF Truthful
  <1>9. \A key \in DOMAIN surviving_cells' :
          key \in DOMAIN surviving_cells /\ surviving_cells'[key] = surviving_cells[key]
    BY <1>6 DEF Pruned
  <1>10. BeliefTypes'
    BY <1>3, <1>5, <1>9 DEF BeliefInv, BeliefTypes, ObservedHold, Box
  <1>11. CandidatesKept'
    BY <1>3, <1>5, <1>8 DEF CandidatesKept, Truthful
  <1>12. CellsKept'
    BY <1>9 DEF BeliefInv, CellsKept, Truthful, Covers
  <1>. QED
    BY <1>6, <1>10, <1>11, <1>12 DEF BeliefInv, SearchInv

\* A window keeps holds.
LEMMA AppendedIsWindow ==
  ASSUME NEW holds \in Seq(ObservedHold), NEW hold \in ObservedHold
  PROVE  Appended(holds, hold) \in Seq(ObservedHold)
  <1>1. PICK longer : longer = Append(holds, hold)
    OBVIOUS
  <1>2. longer \in Seq(ObservedHold) /\ longer # <<>>
    <2>1. longer \in Seq(ObservedHold) /\ Len(longer) = Len(holds) + 1
      BY <1>1, AppendProperties
    <2>. QED
      BY <2>1, LenProperties
  <1>3. Tail(longer) \in Seq(ObservedHold)
    BY <1>2, HeadTailProperties
  <1>4. Latest(longer, WindowHolds) \in Seq(ObservedHold)
    BY <1>2, <1>3 DEF Latest
  <1>. QED
    BY <1>1, <1>4 DEF Appended

LEMMA RetainKeepsBelief ==
  ASSUME BeliefInv, search = Nothing, NEW holdOf \in [Observing -> ObservedHold],
         RetainTransitions(holdOf),
         UNCHANGED <<actual, mode, policy, candidates, active_model, surviving_cells, search>>
  PROVE  BeliefInv'
  <1>1. history' \in [Observing -> Seq(ObservedHold)]
    <2>1. history \in [Observing -> Seq(ObservedHold)]
      BY DEF BeliefInv, BeliefTypes
    <2>2. CASE UNCHANGED history
      BY <2>1, <2>2
    <2>3. CASE history' = [agent \in Observing |-> Appended(history[agent], holdOf[agent])]
      BY <2>1, <2>3, AppendedIsWindow
    <2>. QED
      BY <2>2, <2>3 DEF RetainTransitions
  <1>2. pending_transitions' \in Seq(ObservedHold) /\ Len(pending_transitions') <= Len(Observers)
    <2>1. CASE UNCHANGED pending_transitions
      BY <2>1 DEF BeliefInv, BeliefTypes
    <2>2. CASE pending_transitions' = [i \in DOMAIN Observers |-> holdOf[Observers[i]]]
      <3>1. Observers \in Seq(Observing) /\ DOMAIN Observers = 1..Len(Observers)
        BY MembershipAssumption, LenProperties
      <3>2. Len(Observers) \in Nat
        BY <3>1, LenProperties
      <3>3. \A i \in 1..Len(Observers) : holdOf[Observers[i]] \in ObservedHold
        BY <3>1
      <3>4. pending_transitions' \in [1..Len(Observers) -> ObservedHold]
        BY <2>2, <3>1, <3>3
      <3>. QED
        BY <3>2, <3>4, SeqDef, LenProperties
    <2>. QED
      BY <2>1, <2>2 DEF RetainTransitions
  <1>3. BeliefTypes'
    BY <1>1, <1>2 DEF BeliefInv, BeliefTypes, ObservedHold, Box
  <1>4. CandidatesKept' /\ CellsKept'
    BY DEF BeliefInv, CandidatesKept, CellsKept, Truthful, Covers
  <1>. QED
    BY <1>3, <1>4 DEF BeliefInv, SearchInv

LEMMA BeliefStays ==
  ASSUME BeliefInv, UNCHANGED memberVars
  PROVE  BeliefInv'
  <1>1. UNCHANGED Settled /\ UNCHANGED surviving_cells /\ UNCHANGED search
    BY DEF memberVars, Settled
  <1>2. SearchInv'
    BY <1>1, SoundNow DEF BeliefInv, SearchInv
  <1>. QED
    BY <1>1, <1>2, TypesStay DEF BeliefInv

LEMMA BeliefBegins ==
  ASSUME Init
  PROVE  BeliefInv
  <1>1. /\ actual \in [drag : Drags, actuator : [Observing -> Actuators]]
        /\ actual.drag \in Drags /\ \A agent \in Observing : actual.actuator[agent] \in Actuators
    BY MissionAssumption DEF Init
  <1>2. PICK i \in 1..Len(Partitions) : Within(actual.drag, Partitions[i])
    <2>1. Partitions \in Seq(Box)
      BY MembershipAssumption DEF Box
    <2>2. DOMAIN Partitions = 1..Len(Partitions)
      BY <2>1, LenProperties
    <2>. QED
      BY <1>1, <2>2, MissionAssumption
  <1>3. /\ history = [agent \in Observing |-> <<>>] /\ pending_transitions = <<>>
        /\ candidates = Partitions /\ active_model = Hull(Partitions)
        /\ surviving_cells = <<>> /\ search = Nothing
    BY DEF Init, MemberInit
  <1>4. Partitions \in Seq(Box) /\ actual.drag \in Int
    BY <1>1, MembershipAssumption, MissionAssumption DEF Box
  <1>5. Within(actual.drag, Hull(Partitions))
    BY <1>2, <1>4, HullContains
  <1>6. BeliefTypes
    <2>1. actual \in [drag : Int, actuator : [Observing -> Int]]
      BY <1>1, MissionAssumption
    <2>2. \A agent \in Observing :
            Within(actual.actuator[agent], Affine) /\ Within(actual.actuator[agent], Support)
      BY <1>1, MissionAssumption
    <2>3. <<>> \in Seq(ObservedHold) /\ Len(<<>>) = 0
      OBVIOUS
    <2>4. Len(Observers) \in Nat
      BY MembershipAssumption, LenProperties
    <2>5. history \in [Observing -> Seq(ObservedHold)]
      BY <1>3, <2>3
    <2>6. DOMAIN surviving_cells = {}
      BY <1>3
    <2>. QED
      BY <1>3, <1>4, <2>1, <2>2, <2>3, <2>4, <2>5, <2>6 DEF BeliefTypes
  <1>7. CandidatesKept
    BY <1>2, <1>3, <1>5 DEF CandidatesKept, Truthful
  <1>8. CellsKept
    BY <1>3 DEF CellsKept
  <1>. QED
    BY <1>3, <1>6, <1>7, <1>8 DEF BeliefInv, SearchInv

-----------------------------------------------------------------------------
(* One step of a worker                                                    *)

\* In order, the chasers before this one are solved.
Predecessors(chaser) ==
  ~parallel => \A i \in 1..Len(Fleet) : \A j \in 1..Len(Fleet) :
    Fleet[i] = chaser /\ j < i => Worker(Fleet[j]).at = "solved"

LEMMA FleetIsListed ==
  /\ Len(Fleet) \in Nat /\ DOMAIN Fleet = 1..Len(Fleet)
  /\ \A i \in 1..Len(Fleet) : Fleet[i] \in Chasers
  /\ \A chaser \in Chasers : \E i \in 1..Len(Fleet) : Fleet[i] = chaser
  /\ \A i, j \in 1..Len(Fleet) : Fleet[i] = Fleet[j] => i = j
  <1>1. Fleet \in Seq(Chasers) /\ IsInjective(Fleet)
    BY FleetAssumption
  <1>2. Len(Fleet) \in Nat /\ DOMAIN Fleet = 1..Len(Fleet)
    BY <1>1, LenProperties
  <1>3. \A i \in 1..Len(Fleet) : Fleet[i] \in Chasers
    BY <1>1
  <1>4. \A chaser \in Chasers : \E i \in 1..Len(Fleet) : Fleet[i] = chaser
    BY <1>2 DEF Chasers, ToSet
  <1>5. \A i, j \in 1..Len(Fleet) : Fleet[i] = Fleet[j] => i = j
    BY <1>1, <1>2 DEF IsInjective
  <1>. QED
    BY <1>2, <1>3, <1>4, <1>5

LEMMA WorkerInHand ==
  ASSUME PlanInv, Working, NEW chaser \in Chasers
  PROVE  /\ planning \in FleetPlan /\ planning.worker \in [Chasers -> WorkerState]
         /\ Worker(chaser) \in WorkerState /\ Worker(chaser).at \in Points
         /\ Worker(chaser).warm \in BOOLEAN
         /\ native[chaser] = Models(Worker(chaser).at)
  <1>1. planning \in FleetPlan
    BY DEF PlanInv, PlanTypes, Working
  <1>2. planning.worker \in [Chasers -> WorkerState]
    BY <1>1 DEF FleetPlan
  <1>3. Worker(chaser) \in WorkerState
    BY <1>2 DEF Worker
  <1>4. Worker(chaser).at \in Points /\ Worker(chaser).warm \in BOOLEAN
    BY <1>3 DEF WorkerState
  <1>5. native[chaser] = Models(Worker(chaser).at)
    BY DEF PlanInv, NativeFollows
  <1>. QED
    BY <1>1, <1>2, <1>3, <1>4, <1>5

LEMMA BecameFields ==
  ASSUME PlanInv, Working, NEW chaser \in Chasers, NEW w \in WorkerState, Became(chaser, w)
  PROVE  /\ planning' \in FleetPlan /\ planning'.at = "working" /\ Working'
         /\ planning'.worker = [planning.worker EXCEPT ![chaser] = w]
         /\ Worker(chaser)' = w
         /\ \A other \in Chasers : other # chaser => Worker(other)' = Worker(other)
  <1>1. planning \in FleetPlan /\ planning.worker \in [Chasers -> WorkerState]
        /\ planning.at = "working"
    BY WorkerInHand DEF Working
  <1>2. PICK f : f = [planning.worker EXCEPT ![chaser] = w]
    OBVIOUS
  <1>3. f \in [Chasers -> WorkerState]
    BY <1>1, <1>2
  <1>4. planning' = [planning EXCEPT !.worker = f]
    BY <1>2 DEF Became
  <1>5. planning' \in FleetPlan
    BY <1>1, <1>3, <1>4 DEF FleetPlan
  <1>6. planning'.at = "working" /\ planning'.worker = f
    BY <1>1, <1>4 DEF FleetPlan
  <1>7. Working'
    BY <1>5, <1>6, PlanAssumption DEF Working
  <1>8. f[chaser] = w /\ \A other \in Chasers : other # chaser => f[other] = planning.worker[other]
    BY <1>1, <1>2
  <1>. QED
    BY <1>2, <1>5, <1>6, <1>7, <1>8 DEF Worker


LEMMA WorkerMoves ==
  ASSUME PlanInv, Working, NEW chaser \in Chasers, NEW w \in WorkerState, Became(chaser, w),
         Predecessors(chaser), Worker(chaser).at # "solved",
         native' = [native EXCEPT ![chaser] = Models(w.at)],
         UNCHANGED <<parallel, context, previous, active_model, update, stage, width>>
  PROVE  PlanInv'
  <1>1. /\ planning' \in FleetPlan /\ planning'.at = "working" /\ Working'
        /\ Worker(chaser)' = w
        /\ \A other \in Chasers : other # chaser => Worker(other)' = Worker(other)
    BY BecameFields
  <1>2. native \in [Chasers -> Nat] /\ Models(w.at) \in Nat
    BY DEF PlanInv, PlanTypes, Models
  <1>3. PlanTypes'
    <2>1. native' \in [Chasers -> Nat]
      BY <1>2
    <2>. QED
      BY <1>1, <2>1 DEF PlanInv, PlanTypes
  <1>4. NativeFollows'
    <2>1. \A other \in Chasers : native[other] = Models(Worker(other).at)
      BY DEF PlanInv, NativeFollows
    <2>2. \A other \in Chasers : native'[other] = Models(Worker(other)'.at)
      BY <1>1, <1>2, <2>1
    <2>. QED
      BY <1>1, <2>2 DEF NativeFollows, Models, NoModel, TwoModels
  <1>5. InOrder'
    <2>1. SUFFICES ASSUME ~parallel, NEW i \in 1..Len(Fleet), NEW j \in 1..Len(Fleet), j < i,
                          Worker(Fleet[i])'.at # "waiting"
                   PROVE  Worker(Fleet[j])'.at = "solved"
      BY DEF InOrder
    <2>2. Fleet[i] \in Chasers /\ Fleet[j] \in Chasers /\ Fleet[i] # Fleet[j]
      BY <2>1, FleetIsListed
    <2>3. CASE Fleet[i] = chaser
      <3>1. Worker(Fleet[j]).at = "solved"
        BY <2>1, <2>3 DEF Predecessors
      <3>. QED
        BY <1>1, <2>2, <2>3, <3>1
    <2>4. CASE Fleet[i] # chaser
      <3>1. Worker(Fleet[j]).at = "solved"
        BY <1>1, <2>1, <2>2, <2>4 DEF PlanInv, InOrder
      <3>2. Fleet[j] # chaser
        BY <3>1
      <3>. QED
        BY <1>1, <2>2, <3>1, <3>2
    <2>. QED
      BY <2>3, <2>4
  <1>6. PlanInHand'
    <2>1. ~PlanReady'
      BY <1>1 DEF PlanReady
    <2>2. planning # NoPlan
      BY DEF Working
    <2>. QED
      BY <2>1, <2>2 DEF PlanInv, PlanInHand, Working
  <1>7. PreviewsFollow'
    BY DEF PlanInv, PreviewsFollow, PreviewsAreOneUpdateOld
  <1>. QED
    BY <1>3, <1>4, <1>5, <1>6, <1>7 DEF PlanInv

-----------------------------------------------------------------------------
(* The steps of plan()                                                     *)

\* What no step of plan() changes.
PlanSettled == <<parallel, context, previous, active_model, update, stage, width>>

LEMMA TurnComes ==
  ASSUME NEW chaser \in Chasers, Turn(chaser)
  PROVE  Working /\ Worker(chaser).at = "waiting" /\ Predecessors(chaser)
  <1>1. Working /\ Worker(chaser).at = "waiting"
    BY DEF Turn
  <1>2. Predecessors(chaser)
    <2>1. SUFFICES ASSUME ~parallel, NEW i \in 1..Len(Fleet), NEW j \in 1..Len(Fleet),
                          Fleet[i] = chaser, j < i
                   PROVE  Worker(Fleet[j]).at = "solved"
      BY DEF Predecessors
    <2>2. i \in DOMAIN Fleet /\ j \in 1..(i - 1)
      BY <2>1, FleetIsListed
    <2>3. Fleet[j] \in Solved
      BY <2>1, <2>2 DEF Turn
    <2>. QED
      BY <2>3 DEF Solved
  <1>. QED
    BY <1>1, <1>2

\* In order, a chaser that has begun comes after solved ones only.
LEMMA BegunInOrder ==
  ASSUME PlanInv, Working, NEW chaser \in Chasers, Worker(chaser).at # "waiting"
  PROVE  Predecessors(chaser)
  BY DEF PlanInv, InOrder, Predecessors

\* In order, nobody else is at work beside a chaser that is not solved.
LEMMA OthersIdle ==
  ASSUME PlanInv, Working, ~parallel, NEW chaser \in Chasers, Predecessors(chaser),
         Worker(chaser).at \in NoModel \ {"solved"}
  PROVE  \A other \in Chasers : Worker(other).at \in NoModel
  <1>1. SUFFICES ASSUME NEW other \in Chasers PROVE Worker(other).at \in NoModel
    OBVIOUS
  <1>2. PICK i \in 1..Len(Fleet) : Fleet[i] = chaser
    BY FleetIsListed
  <1>3. PICK k \in 1..Len(Fleet) : Fleet[k] = other
    BY FleetIsListed
  <1>4. i \in Nat /\ k \in Nat
    BY FleetIsListed
  <1>5. CASE k < i
    BY <1>2, <1>3, <1>5 DEF Predecessors, NoModel
  <1>6. CASE k = i
    BY <1>2, <1>3, <1>6
  <1>7. CASE i < k
    <2>1. Worker(other).at # "waiting" => Worker(chaser).at = "solved"
      BY <1>2, <1>3, <1>7 DEF PlanInv, InOrder
    <2>. QED
      BY <2>1 DEF NoModel
  <1>. QED
    BY <1>4, <1>5, <1>6, <1>7

\* A call that ends without an open model.
LEMMA CallEnds ==
  ASSUME PlanInv, Working, \A other \in Chasers : Worker(other).at \in NoModel,
         NEW p \in FleetPlan, planning' = p, p.at # "working",
         p.at = "success" => Separated',
         UNCHANGED native, UNCHANGED PlanSettled
  PROVE  PlanInv'
  <1>1. ~Working'
    BY DEF Working
  <1>2. PlanTypes'
    BY DEF PlanInv, PlanTypes, PlanSettled
  <1>3. \A chaser \in Chasers : native[chaser] = 0
    BY DEF PlanInv, NativeFollows, Models
  <1>4. NativeFollows' /\ InOrder'
    BY <1>1, <1>3 DEF NativeFollows, InOrder
  <1>5. planning # NoPlan
    BY DEF Working
  <1>6. PlanReady' => Separated'
    BY DEF PlanReady
  <1>7. PlanInHand'
    BY <1>1, <1>5, <1>6 DEF PlanInv, PlanInHand, PlanSettled
  <1>8. PreviewsFollow'
    BY DEF PlanInv, PreviewsFollow, PreviewsAreOneUpdateOld, PlanSettled
  <1>. QED
    BY <1>2, <1>4, <1>7, <1>8 DEF PlanInv

LEMMA BeginningIsPlan ==
  /\ Unplanned \in WorkerState
  /\ Beginning \in FleetPlan /\ Beginning.at = "working"
  /\ \A chaser \in Chasers : Beginning.worker[chaser] = Unplanned
  /\ Failure \in FleetPlan /\ Failure.at = "failure"
  <1>1. NoPlan \in AnyLane
    BY DEF AnyLane
  <1>2. Unplanned \in WorkerState
    BY <1>1 DEF Unplanned, WorkerState, Points
  <1>3. PICK f : f = [chaser \in Chasers |-> Unplanned]
    OBVIOUS
  <1>4. f \in [Chasers -> WorkerState] /\ \A chaser \in Chasers : f[chaser] = Unplanned
    BY <1>2, <1>3
  <1>5. Beginning = [at |-> "working", worker |-> f]
    BY <1>3 DEF Beginning
  <1>6. Beginning \in FleetPlan /\ Beginning.at = "working" /\ Beginning.worker = f
    BY <1>4, <1>5 DEF FleetPlan
  <1>7. Failure \in FleetPlan /\ Failure.at = "failure"
    BY <1>6 DEF Failure, FleetPlan
  <1>. QED
    BY <1>2, <1>4, <1>6, <1>7

LEMMA RefuseKeepsPlan ==
  ASSUME PlanInv, NEW chaser \in Chasers, RefuseSpecification(chaser), UNCHANGED PlanSettled
  PROVE  PlanInv'
  <1>1. Turn(chaser) /\ UNCHANGED native
    BY DEF RefuseSpecification
  <1>2. Working /\ Worker(chaser).at = "waiting" /\ Predecessors(chaser)
    BY <1>1, TurnComes
  <1>3. CASE parallel
    <2>1. PICK w : w = [Unplanned EXCEPT !.at = "refused"]
      OBVIOUS
    <2>2. w \in WorkerState /\ w.at = "refused"
      BY <2>1, BeginningIsPlan DEF WorkerState, Points
    <2>3. Became(chaser, w)
      BY <1>3, <2>1 DEF RefuseSpecification
    <2>4. native' = [native EXCEPT ![chaser] = Models(w.at)]
      <3>1. native[chaser] = Models("waiting")
        BY <1>2, WorkerInHand
      <3>2. native \in [Chasers -> Nat]
        BY DEF PlanInv, PlanTypes
      <3>. QED
        BY <1>1, <2>2, <3>1, <3>2 DEF Models, NoModel
    <2>. QED
      BY <1>2, <2>2, <2>3, <2>4, WorkerMoves DEF PlanSettled
  <1>4. CASE ~parallel
    <2>1. planning' = Failure
      BY <1>4 DEF RefuseSpecification
    <2>2. \A other \in Chasers : Worker(other).at \in NoModel
      BY <1>2, <1>4, OthersIdle DEF NoModel
    <2>. QED
      BY <1>1, <1>2, <2>1, <2>2, BeginningIsPlan, CallEnds
  <1>. QED
    BY <1>3, <1>4

LEMMA SetUpKeepsPlan ==
  ASSUME PlanInv, NEW chaser \in Chasers, NEW built \in BOOLEAN, SetUp(chaser, built),
         UNCHANGED PlanSettled
  PROVE  PlanInv'
  <1>1. Working /\ Worker(chaser).at = "waiting" /\ Predecessors(chaser)
    BY TurnComes DEF SetUp
  <1>2. PICK at : at = IF built THEN "first" ELSE "refused"
    OBVIOUS
  <1>3. PICK w : w = [Unplanned EXCEPT !.at = at, !.warm = chaser \in DOMAIN previous]
    OBVIOUS
  <1>4. at \in Points
    BY <1>2 DEF Points
  <1>5. (chaser \in DOMAIN previous) \in BOOLEAN
    OBVIOUS
  <1>6. PICK warm : warm = (chaser \in DOMAIN previous)
    OBVIOUS
  <1>7. w \in WorkerState /\ w.at = at
    <2>1. warm \in BOOLEAN /\ w = [Unplanned EXCEPT !.at = at, !.warm = warm]
      BY <1>3, <1>5, <1>6
    <2>. QED
      BY <1>4, <2>1, BeginningIsPlan DEF WorkerState
  <1>8. Became(chaser, w)
    BY <1>2, <1>3 DEF SetUp
  <1>9. native' = [native EXCEPT ![chaser] = Models(w.at)]
    <2>1. native[chaser] = 0 /\ native \in [Chasers -> Nat]
      BY <1>1, WorkerInHand DEF Models, NoModel, PlanInv, PlanTypes
    <2>2. native' = [native EXCEPT ![chaser] = IF built THEN native[chaser] + 1 ELSE native[chaser]]
      BY DEF SetUp
    <2>3. Models(w.at) = IF built THEN 1 ELSE 0
      BY <1>2, <1>7 DEF Models, NoModel, TwoModels
    <2>. QED
      BY <2>1, <2>2, <2>3
  <1>. QED
    BY <1>1, <1>7, <1>8, <1>9, WorkerMoves DEF PlanSettled

\* A worker after an attempt.
AttemptOf(worker, at, outcome, found) ==
  [worker EXCEPT !.at = at, !.result = outcome, !.lane = found]

LEMMA AttemptIsWorker ==
  ASSUME NEW v \in WorkerState, NEW chaser \in Chasers, NEW outcome, NEW found,
         Result(chaser, outcome, found), NEW at \in Points
  PROVE  AttemptOf(v, at, outcome, found) \in WorkerState /\ AttemptOf(v, at, outcome, found).at = at
  <1>1. outcome \in Outcomes \cup {NoPlan}
    BY DEF Result
  <1>2. found \in AnyLane
    BY DEF Result, AnyLane
  <1>. QED
    BY <1>1, <1>2 DEF AttemptOf, WorkerState

LEMMA SolveFirstKeepsPlan ==
  ASSUME PlanInv, NEW chaser \in Chasers, NEW outcome, NEW found,
         SolveFirst(chaser, outcome, found), UNCHANGED PlanSettled
  PROVE  PlanInv'
  <1>1. Working /\ Worker(chaser).at = "first" /\ Result(chaser, outcome, found)
        /\ Attempted(chaser, outcome, found) /\ UNCHANGED native
    BY DEF SolveFirst, At
  <1>2. PICK at : at = After(Worker(chaser), outcome)
    OBVIOUS
  <1>3. at \in {"cold", "refine", "close"}
    BY <1>2 DEF After
  <1>4. PICK w : w = AttemptOf(Worker(chaser), at, outcome, found)
    OBVIOUS
  <1>5. w \in WorkerState /\ w.at = at
    <2>1. at \in Points /\ Worker(chaser) \in WorkerState
      BY <1>1, <1>3, WorkerInHand DEF Points
    <2>2. Result(chaser, outcome, found)
      BY <1>1
    <2>3. /\ AttemptOf(Worker(chaser), at, outcome, found) \in WorkerState
          /\ AttemptOf(Worker(chaser), at, outcome, found).at = at
      BY <2>1, <2>2, AttemptIsWorker
    <2>. QED
      BY <1>4, <2>3
  <1>6. Became(chaser, w)
    BY <1>1, <1>2, <1>4 DEF Attempted, AttemptOf
  <1>7. native' = [native EXCEPT ![chaser] = Models(w.at)]
    <2>1. native[chaser] = 1 /\ native \in [Chasers -> Nat]
      BY <1>1, WorkerInHand DEF Models, NoModel, TwoModels, PlanInv, PlanTypes
    <2>2. Models(w.at) = 1
      BY <1>3, <1>5 DEF Models, NoModel, TwoModels
    <2>. QED
      BY <1>1, <2>1, <2>2
  <1>8. Predecessors(chaser)
    BY <1>1, BegunInOrder
  <1>. QED
    BY <1>1, <1>5, <1>6, <1>7, <1>8, WorkerMoves DEF PlanSettled

LEMMA RebuildKeepsPlan ==
  ASSUME PlanInv, NEW chaser \in Chasers, NEW built \in BOOLEAN, Rebuild(chaser, built),
         UNCHANGED PlanSettled
  PROVE  PlanInv'
  <1>1. Working /\ Worker(chaser).at \in {"cold", "refine"}
    BY DEF Rebuild, At
  <1>2. PICK v : v = Worker(chaser)
    OBVIOUS
  <1>3. v \in WorkerState
    BY <1>1, <1>2, WorkerInHand
  <1>4. PICK at : at = IF ~built THEN "close" ELSE IF v.at = "cold" THEN "cold solve" ELSE "refine solve"
    OBVIOUS
  <1>5. PICK w : w = [v EXCEPT !.at = at]
    OBVIOUS
  <1>6. at \in Points
    BY <1>4 DEF Points
  <1>7. w \in WorkerState /\ w.at = at
    BY <1>3, <1>5, <1>6 DEF WorkerState
  <1>8. Became(chaser, w)
    BY <1>2, <1>4, <1>5 DEF Rebuild
  <1>9. native' = [native EXCEPT ![chaser] = Models(w.at)]
    <2>1. native[chaser] = 1 /\ native \in [Chasers -> Nat]
      BY <1>1, WorkerInHand DEF Models, NoModel, TwoModels, PlanInv, PlanTypes
    <2>2. native' = [native EXCEPT ![chaser] = IF built THEN native[chaser] + 1 ELSE native[chaser]]
      BY DEF Rebuild
    <2>3. Models(w.at) = IF built THEN 2 ELSE 1
      BY <1>4, <1>7 DEF Models, NoModel, TwoModels
    <2>. QED
      BY <2>1, <2>2, <2>3
  <1>10. Predecessors(chaser)
    BY <1>1, BegunInOrder
  <1>. QED
    BY <1>1, <1>7, <1>8, <1>9, <1>10, WorkerMoves DEF PlanSettled

LEMMA SolveAgainKeepsPlan ==
  ASSUME PlanInv, NEW chaser \in Chasers, NEW outcome, NEW found,
         SolveAgain(chaser, outcome, found), UNCHANGED PlanSettled
  PROVE  PlanInv'
  <1>1. Working /\ Worker(chaser).at \in {"cold solve", "refine solve"}
        /\ Result(chaser, outcome, found) /\ Attempted(chaser, outcome, found)
    BY DEF SolveAgain, At
  <1>2. PICK at : at = After(Worker(chaser), outcome)
    OBVIOUS
  <1>3. at \in {"refine", "close"}
    BY <1>1, <1>2 DEF After
  <1>4. PICK w : w = AttemptOf(Worker(chaser), at, outcome, found)
    OBVIOUS
  <1>5. w \in WorkerState /\ w.at = at
    <2>1. at \in Points /\ Worker(chaser) \in WorkerState
      BY <1>1, <1>3, WorkerInHand DEF Points
    <2>2. Result(chaser, outcome, found)
      BY <1>1
    <2>3. /\ AttemptOf(Worker(chaser), at, outcome, found) \in WorkerState
          /\ AttemptOf(Worker(chaser), at, outcome, found).at = at
      BY <2>1, <2>2, AttemptIsWorker
    <2>. QED
      BY <1>4, <2>3
  <1>6. Became(chaser, w)
    BY <1>1, <1>2, <1>4 DEF Attempted, AttemptOf
  <1>7. native' = [native EXCEPT ![chaser] = Models(w.at)]
    <2>1. native[chaser] = 2 /\ native \in [Chasers -> Nat]
      BY <1>1, WorkerInHand DEF Models, NoModel, TwoModels, PlanInv, PlanTypes
    <2>2. native' = [native EXCEPT ![chaser] = native[chaser] - 1]
      BY DEF SolveAgain, Replaced
    <2>3. Models(w.at) = 1
      BY <1>3, <1>5 DEF Models, NoModel, TwoModels
    <2>. QED
      BY <2>1, <2>2, <2>3
  <1>8. Predecessors(chaser)
    BY <1>1, BegunInOrder
  <1>. QED
    BY <1>1, <1>5, <1>6, <1>7, <1>8, WorkerMoves DEF PlanSettled

LEMMA CloseKeepsPlan ==
  ASSUME PlanInv, NEW chaser \in Chasers, Close(chaser), UNCHANGED PlanSettled
  PROVE  PlanInv'
  <1>1. Working /\ Worker(chaser).at = "close"
    BY DEF Close, At
  <1>2. PICK found : found = Worker(chaser).lane
    OBVIOUS
  <1>3. found \in AnyLane
    BY <1>1, <1>2, WorkerInHand DEF WorkerState
  <1>4. PICK w : w = IF Worker(chaser).result = "verified"
                     THEN [Unplanned EXCEPT !.at = "solved", !.lane = found]
                     ELSE [Unplanned EXCEPT !.at = "refused"]
    OBVIOUS
  <1>5. w \in WorkerState /\ w.at \in {"solved", "refused"}
    BY <1>3, <1>4, BeginningIsPlan DEF WorkerState, Points
  <1>6. Became(chaser, w)
    BY <1>2, <1>4 DEF Close
  <1>7. native' = [native EXCEPT ![chaser] = Models(w.at)]
    <2>1. native[chaser] = 1 /\ native \in [Chasers -> Nat]
      BY <1>1, WorkerInHand DEF Models, NoModel, TwoModels, PlanInv, PlanTypes
    <2>2. native' = [native EXCEPT ![chaser] = native[chaser] - 1]
      BY DEF Close
    <2>3. Models(w.at) = 0
      BY <1>5 DEF Models, NoModel
    <2>. QED
      BY <2>1, <2>2, <2>3
  <1>8. Predecessors(chaser)
    BY <1>1, BegunInOrder
  <1>. QED
    BY <1>1, <1>5, <1>6, <1>7, <1>8, WorkerMoves DEF PlanSettled

LEMMA FinishKeepsPlan ==
  ASSUME PlanInv, FinishPlanning, UNCHANGED PlanSettled
  PROVE  PlanInv'
  <1>1. Working /\ AllSettled /\ UNCHANGED native
    BY DEF FinishPlanning
  <1>2. \A other \in Chasers : Worker(other).at \in NoModel
    <2>1. CASE parallel \/ Solved = Chasers
      BY <1>1, <2>1 DEF AllSettled, Solved, Refused, NoModel
    <2>2. CASE ~parallel /\ Solved # Chasers
      <3>1. PICK chaser \in Chasers : Worker(chaser).at = "refused"
        BY <1>1, <2>2 DEF AllSettled, Refused
      <3>2. Predecessors(chaser)
        BY <1>1, <3>1, BegunInOrder
      <3>. QED
        BY <1>1, <2>2, <3>1, <3>2, OthersIdle DEF NoModel
    <2>. QED
      BY <2>1, <2>2
  <1>3. CASE Solved = Chasers /\ Separated
    <2>1. planning \in FleetPlan
      BY <1>1 DEF PlanInv, PlanTypes, Working
    <2>2. PICK p : p = [planning EXCEPT !.at = "success"]
      OBVIOUS
    <2>3. p \in FleetPlan /\ p.at = "success" /\ p.worker = planning.worker
      BY <2>1, <2>2 DEF FleetPlan
    <2>4. planning' = p
      BY <1>3, <2>2 DEF FinishPlanning
    <2>5. Separated'
      BY <1>3, <2>3, <2>4 DEF Separated, Worker
    <2>. QED
      BY <1>1, <1>2, <2>3, <2>4, <2>5, CallEnds
  <1>4. CASE ~(Solved = Chasers /\ Separated)
    <2>1. planning' = Failure
      BY <1>4 DEF FinishPlanning
    <2>. QED
      BY <1>1, <1>2, <2>1, BeginningIsPlan, CallEnds
  <1>. QED
    BY <1>3, <1>4

LEMMA PlanningKeepsPlan ==
  ASSUME PlanInv, PlanningStep, UNCHANGED <<active_model, update, stage, width>>
  PROVE  PlanInv'
  <1>1. UNCHANGED PlanSettled
    BY DEF PlanningStep, PlanSettled
  <1>2. CASE FinishPlanning
    BY <1>1, <1>2, FinishKeepsPlan
  <1>3. CASE \E chaser \in Chasers :
               \/ RefuseSpecification(chaser) \/ Close(chaser)
               \/ \E built \in BOOLEAN : SetUp(chaser, built) \/ Rebuild(chaser, built)
               \/ \E outcome \in Outcomes, found \in Lanes[chaser] \cup {NoPlan} :
                    SolveFirst(chaser, outcome, found) \/ SolveAgain(chaser, outcome, found)
    BY <1>1, <1>3, RefuseKeepsPlan, CloseKeepsPlan, SetUpKeepsPlan, RebuildKeepsPlan,
       SolveFirstKeepsPlan, SolveAgainKeepsPlan
  <1>. QED
    BY <1>2, <1>3 DEF PlanningStep

-----------------------------------------------------------------------------
(* The mission keeps the invariant                                         *)

\* Between its calls a plan is neither at work nor in hand.
LEMMA NoPlanInHand ==
  ASSUME PlanInv, stage \notin {"plan", "hold"}
  PROVE  planning = NoPlan /\ \A chaser \in Chasers : native[chaser] = 0
  BY DEF PlanInv, PlanInHand, NativeFollows, Working

\* A step outside plan() that leaves no plan in hand.
LEMMA PlanStaysAway ==
  ASSUME PlanInv, planning' = NoPlan, ~Working, UNCHANGED <<parallel, native>>,
         update' \in Nat, width' \in Widths,
         stage' \in {"open", "forecast", "hold", "learn", "contract", "ended"}, PreviewsFollow'
  PROVE  PlanInv'
  <1>1. ~Working' /\ ~PlanReady'
    BY DEF Working, PlanReady
  <1>2. PlanTypes'
    BY DEF PlanInv, PlanTypes
  <1>3. NativeFollows' /\ InOrder'
    BY <1>1 DEF PlanInv, NativeFollows, InOrder
  <1>4. PlanInHand'
    BY <1>1 DEF PlanInHand
  <1>. QED
    BY <1>2, <1>3, <1>4 DEF PlanInv

LEMMA OpenInv ==
  ASSUME Inv, Open
  PROVE  Inv'
  <1>1. stage = "open" /\ stage' \in {"forecast", "ended"}
        /\ UNCHANGED memberVars /\ UNCHANGED planVars /\ UNCHANGED <<update, width>>
    BY DEF Open
  <1>2. planning = NoPlan /\ ~Working
    BY <1>1, NoPlanInHand DEF Inv, Working
  <1>3. PreviewsFollow'
    BY <1>1 DEF planVars, Inv, PlanInv, PreviewsFollow, PreviewsAreOneUpdateOld
  <1>4. PlanInv'
    BY <1>1, <1>2, <1>3, PlanStaysAway DEF planVars, Inv, PlanInv, PlanTypes
  <1>5. BeliefInv'
    BY <1>1, BeliefStays DEF Inv
  <1>6. Apart'
    BY <1>1 DEF memberVars, Inv, Apart
  <1>. QED
    BY <1>4, <1>5, <1>6 DEF Inv

LEMMA ForecastInv ==
  ASSUME Inv, Forecast
  PROVE  Inv'
  <1>1. /\ stage = "forecast" /\ UNCHANGED memberVars
        /\ UNCHANGED <<parallel, lane, previous, native, update, width>>
    BY DEF Forecast
  <1>2. planning = NoPlan /\ ~Working /\ \A chaser \in Chasers : native[chaser] = 0
    BY <1>1, NoPlanInHand DEF Inv, Working
  <1>3. BeliefInv'
    BY <1>1, BeliefStays DEF Inv
  <1>4. stage' # "contract"
    BY DEF Forecast
  <1>5. Apart'
    BY <1>1, <1>4 DEF memberVars, Inv, Apart
  <1>6. CASE ForecastBelief /\ BeginPlanning /\ stage' = "plan"
    <2>1. planning' = Beginning /\ context' = [q |-> update, model |-> active_model]
      BY <1>6 DEF ForecastBelief, BeginPlanning, InstallContext
    <2>2. planning' \in FleetPlan /\ planning'.at = "working" /\ ~PlanReady'
      BY <2>1, BeginningIsPlan DEF PlanReady
    <2>3. \A chaser \in Chasers : Worker(chaser)'.at = "waiting"
      BY <2>1, BeginningIsPlan DEF Worker, Unplanned
    <2>4. PlanTypes'
      BY <1>1, <1>6, <2>2 DEF Inv, PlanInv, PlanTypes
    <2>5. NativeFollows'
      BY <1>1, <1>2, <2>3 DEF NativeFollows, Models, NoModel
    <2>6. InOrder'
      BY <2>3, FleetIsListed DEF InOrder
    <2>7. PlanInHand'
      <3>1. UNCHANGED <<update, active_model>>
        BY <1>1 DEF memberVars
      <3>. QED
        BY <1>6, <2>1, <2>2, <3>1 DEF PlanInHand
    <2>8. PreviewsFollow'
      BY <1>1, <1>6 DEF Inv, PlanInv, PreviewsFollow, PreviewsAreOneUpdateOld
    <2>. QED
      BY <1>3, <1>5, <2>4, <2>5, <2>6, <2>7, <2>8 DEF Inv, PlanInv
  <1>7. CASE UNCHANGED planning /\ stage' = "hold"
    <2>1. PreviewsFollow'
      BY <1>7 DEF PreviewsFollow, PreviewsAreOneUpdateOld
    <2>2. PlanInv'
      BY <1>1, <1>2, <1>7, <2>1, PlanStaysAway DEF Inv, PlanInv, PlanTypes
    <2>. QED
      BY <1>3, <1>5, <2>2 DEF Inv
  <1>. QED
    BY <1>6, <1>7 DEF Forecast

LEMMA PlanActionInv ==
  ASSUME Inv, Plan
  PROVE  Inv'
  <1>1. stage = "plan" /\ UNCHANGED memberVars /\ UNCHANGED <<update, width>>
    BY DEF Plan
  <1>2. BeliefInv'
    BY <1>1, BeliefStays DEF Inv
  <1>3. stage' \in {"plan", "hold"}
    BY DEF Plan
  <1>4. Apart'
    BY <1>1, <1>3 DEF memberVars, Inv, Apart
  <1>5. active_model' = active_model
    BY <1>1 DEF memberVars
  <1>6. CASE PlanReturned
    <2>1. stage' = "hold" /\ UNCHANGED planVars
      BY <1>6 DEF Plan
    <2>2. ~Working
      BY <1>6 DEF PlanReturned, Working
    <2>3. PlanTypes' /\ PreviewsFollow'
      BY <1>1, <2>1 DEF planVars, Inv, PlanInv, PlanTypes, PreviewsFollow, PreviewsAreOneUpdateOld
    <2>4. NativeFollows' /\ InOrder'
      BY <2>1, <2>2 DEF planVars, Inv, PlanInv, NativeFollows, InOrder, Working
    <2>5. PlanInHand'
      BY <1>1, <1>5, <2>1, <2>2
         DEF planVars, Inv, PlanInv, PlanInHand, Working, PlanReady, Separated, Worker
    <2>. QED
      BY <1>2, <1>4, <2>3, <2>4, <2>5 DEF Inv, PlanInv
  <1>7. CASE ~PlanReturned
    <2>1. PlanningStep /\ UNCHANGED stage
      BY <1>7 DEF Plan
    <2>2. PlanInv'
      BY <1>1, <1>5, <2>1, PlanningKeepsPlan DEF Inv
    <2>. QED
      BY <1>2, <1>4, <2>2 DEF Inv
  <1>. QED
    BY <1>6, <1>7

LEMMA AdvanceInv ==
  ASSUME Inv, Advance
  PROVE  Inv'
  <1>1. /\ stage = "hold" /\ stage' = "learn" /\ planning' = NoPlan /\ previous' = RememberedPlans
        /\ UNCHANGED <<actual, mode, policy, candidates, active_model, surviving_cells, search>>
        /\ UNCHANGED <<parallel, context, native, update>>
    BY DEF Advance
  <1>2. ~Working
    BY <1>1 DEF Inv, PlanInv, PlanInHand
  <1>3. search = Nothing
    BY <1>1 DEF Inv, Apart
  <1>4. update \in Nat /\ width \in Widths /\ Widths \subseteq Nat
    BY MissionAssumption DEF Inv, PlanInv, PlanTypes
  <1>5. PICK planned \in BOOLEAN :
          \/ \E observed \in Widths :
               /\ RetainTransitions([chaser \in Chasers |-> Observation(planned, observed)])
               /\ width' = observed
          \/ UNCHANGED <<history, pending_transitions, width>>
    BY DEF Advance
  <1>6. BeliefInv' /\ width' \in Widths
    <2>1. CASE UNCHANGED <<history, pending_transitions, width>>
      <3>1. UNCHANGED memberVars
        BY <1>1, <2>1 DEF memberVars
      <3>. QED
        BY <1>4, <2>1, <3>1, BeliefStays DEF Inv
    <2>2. CASE \E observed \in Widths :
                 /\ RetainTransitions([chaser \in Chasers |-> Observation(planned, observed)])
                 /\ width' = observed
      <3>1. PICK observed \in Widths :
              /\ RetainTransitions([chaser \in Chasers |-> Observation(planned, observed)])
              /\ width' = observed
        BY <2>2
      <3>2. PICK holdOf : holdOf = [chaser \in Chasers |-> Observation(planned, observed)]
        OBVIOUS
      <3>3. Observation(planned, observed) \in ObservedHold
        <4>1. PICK command : command = IF planned THEN 1 ELSE 0
          OBVIOUS
        <4>2. command \in {0, 1} /\ observed \in Nat /\ width \in Nat
          BY <1>4, <4>1
        <4>3. Observation(planned, observed)
                = [start |-> update, initial |-> width, observed |-> observed, command |-> command]
          BY <4>1 DEF Observation
        <4>. QED
          BY <1>4, <4>2, <4>3 DEF ObservedHold
      <3>4. holdOf \in [Observing -> ObservedHold]
        BY <3>2, <3>3, MissionAssumption
      <3>5. BeliefInv'
        BY <1>1, <1>3, <3>1, <3>2, <3>4, RetainKeepsBelief DEF Inv
      <3>. QED
        BY <3>1, <3>5
    <2>. QED
      BY <1>5, <2>1, <2>2
  <1>7. PreviewsFollow'
    <2>1. \A chaser \in DOMAIN previous' : previous'[chaser].q = update
      BY <1>1 DEF RememberedPlans
    <2>. QED
      BY <1>1, <2>1 DEF PreviewsFollow, PreviewsAreOneUpdateOld
  <1>8. PlanInv'
    BY <1>1, <1>2, <1>4, <1>6, <1>7, PlanStaysAway DEF Inv
  <1>9. Apart'
    BY <1>1, <1>3 DEF Apart
  <1>. QED
    BY <1>6, <1>8, <1>9 DEF Inv

LEMMA SkipInv ==
  ASSUME Inv, SkipContraction
  PROVE  Inv'
  <1>1. /\ stage = "learn" /\ stage' = "open" /\ update' = update + 1
        /\ UNCHANGED memberVars /\ UNCHANGED planVars /\ UNCHANGED width
    BY DEF SkipContraction, NextUpdate
  <1>2. planning = NoPlan /\ ~Working
    BY <1>1, NoPlanInHand DEF Inv, Working
  <1>3. update \in Nat /\ width \in Widths
    BY DEF Inv, PlanInv, PlanTypes
  <1>4. PreviewsFollow'
    BY <1>1, <1>3 DEF planVars, Inv, PlanInv, PreviewsFollow, PreviewsAreOneUpdateOld
  <1>5. PlanInv'
    BY <1>1, <1>2, <1>3, <1>4, PlanStaysAway DEF planVars, Inv
  <1>6. BeliefInv'
    BY <1>1, BeliefStays DEF Inv
  <1>7. Apart'
    BY <1>1 DEF memberVars, Inv, Apart
  <1>. QED
    BY <1>5, <1>6, <1>7 DEF Inv

LEMMA ContractInv ==
  ASSUME Inv, Contract
  PROVE  Inv'
  <1>1. /\ stage = "learn" /\ stage' = "contract" /\ search' = Fresh
        /\ UNCHANGED Settled /\ UNCHANGED surviving_cells
        /\ UNCHANGED planVars /\ UNCHANGED <<update, width>>
    BY DEF Contract, BeginContraction, Unlearned, Settled
  <1>2. planning = NoPlan /\ ~Working
    BY <1>1, NoPlanInHand DEF Inv, Working
  <1>3. update \in Nat /\ width \in Widths
    BY DEF Inv, PlanInv, PlanTypes
  <1>4. PreviewsFollow'
    BY <1>1 DEF planVars, Inv, PlanInv, PreviewsFollow, PreviewsAreOneUpdateOld
  <1>5. PlanInv'
    BY <1>1, <1>2, <1>3, <1>4, PlanStaysAway DEF planVars, Inv
  <1>6. BeliefInv'
    BY <1>1, BeginKeepsBelief DEF Inv
  <1>7. Apart'
    BY <1>1 DEF Apart
  <1>. QED
    BY <1>5, <1>6, <1>7 DEF Inv

LEMMA ContractingInv ==
  ASSUME Inv, Contracting
  PROVE  Inv'
  <1>1. /\ stage = "contract" /\ ContractionStep
        /\ UNCHANGED planVars /\ UNCHANGED <<update, stage, width>>
    BY DEF Contracting
  <1>2. planning = NoPlan /\ ~Working
    BY <1>1, NoPlanInHand DEF Inv, Working
  <1>3. update \in Nat /\ width \in Widths
    BY DEF Inv, PlanInv, PlanTypes
  <1>4. PreviewsFollow'
    BY <1>1 DEF planVars, Inv, PlanInv, PreviewsFollow, PreviewsAreOneUpdateOld
  <1>5. PlanInv'
    BY <1>1, <1>2, <1>3, <1>4, PlanStaysAway DEF planVars, Inv
  <1>6. BeliefInv'
    BY <1>1, ContractionKeepsBelief DEF Inv
  <1>7. Apart'
    BY <1>1 DEF Apart
  <1>. QED
    BY <1>5, <1>6, <1>7 DEF Inv

LEMMA ContractedInv ==
  ASSUME Inv, Contracted
  PROVE  Inv'
  <1>1. PICK consistent \in BOOLEAN :
          /\ CloseContraction(consistent)
          /\ IF consistent THEN NextUpdate ELSE stage' = "ended" /\ UNCHANGED update
    BY DEF Contracted
  <1>2. /\ stage = "contract" /\ UNCHANGED <<actual, mode, policy, history, pending_transitions>>
        /\ UNCHANGED planVars /\ UNCHANGED width
    BY DEF Contracted
  <1>3. planning = NoPlan /\ ~Working
    BY <1>2, NoPlanInHand DEF Inv, Working
  <1>4. update \in Nat /\ width \in Widths
    BY DEF Inv, PlanInv, PlanTypes
  <1>5. \/ stage' = "open" /\ update' = update + 1
        \/ stage' = "ended" /\ update' = update
    BY <1>1 DEF NextUpdate
  <1>6. PreviewsFollow'
    BY <1>2, <1>4, <1>5 DEF planVars, Inv, PlanInv, PreviewsFollow, PreviewsAreOneUpdateOld
  <1>7. PlanInv'
    BY <1>2, <1>3, <1>4, <1>5, <1>6, PlanStaysAway DEF planVars, Inv
  <1>8. search' = Nothing
    BY <1>1 DEF CloseContraction
  <1>9. BeliefInv'
    BY <1>1, <1>2, CloseKeepsBelief DEF CloseContraction, Inv
  <1>10. Apart'
    BY <1>8 DEF Apart
  <1>. QED
    BY <1>7, <1>9, <1>10 DEF Inv

-----------------------------------------------------------------------------
LEMMA InitInv == Init => Inv
  <1> SUFFICES ASSUME Init PROVE Inv
    OBVIOUS
  <1>1. BeliefInv
    BY BeliefBegins
  <1>2. /\ parallel \in BOOLEAN /\ previous = <<>> /\ planning = NoPlan
        /\ native = [chaser \in Chasers |-> 0]
        /\ update = 0 /\ stage = "open" /\ width = Released /\ search = Nothing
    BY DEF Init, PlanInit, MemberInit
  <1>3. ~Working /\ ~PlanReady
    BY <1>2 DEF Working, PlanReady
  <1>4. PlanTypes
    BY <1>2, MissionAssumption DEF PlanTypes
  <1>5. NativeFollows /\ InOrder /\ PlanInHand
    BY <1>2, <1>3 DEF NativeFollows, InOrder, PlanInHand
  <1>6. PreviewsFollow
    BY <1>2 DEF PreviewsFollow, PreviewsAreOneUpdateOld
  <1>. QED
    BY <1>1, <1>2, <1>4, <1>5, <1>6 DEF Inv, PlanInv, Apart

LEMMA NextInv == Inv /\ [Next]_missionVars => Inv'
  <1> SUFFICES ASSUME Inv, [Next]_missionVars PROVE Inv'
    OBVIOUS
  <1>1. CASE Open
    BY <1>1, OpenInv
  <1>2. CASE Forecast
    BY <1>2, ForecastInv
  <1>3. CASE Plan
    BY <1>3, PlanActionInv
  <1>4. CASE Advance
    BY <1>4, AdvanceInv
  <1>5. CASE SkipContraction
    BY <1>5, SkipInv
  <1>6. CASE Contract
    BY <1>6, ContractInv
  <1>7. CASE Contracting
    BY <1>7, ContractingInv
  <1>8. CASE Contracted
    BY <1>8, ContractedInv
  <1>9. CASE UNCHANGED missionVars
    <2>1. UNCHANGED memberVars /\ UNCHANGED planVars /\ UNCHANGED <<update, stage, width>>
      BY <1>9 DEF missionVars
    <2>2. BeliefInv' /\ Apart'
      BY <2>1, BeliefStays DEF memberVars, Inv, Apart
    <2>3. PlanTypes' /\ NativeFollows' /\ InOrder' /\ PreviewsFollow'
      BY <2>1 DEF planVars, Inv, PlanInv, PlanTypes, NativeFollows, InOrder, PreviewsFollow,
                  PreviewsAreOneUpdateOld, Working, Worker
    <2>4. active_model' = active_model
      BY <2>1 DEF memberVars
    <2>5. PlanInHand'
      BY <2>1, <2>4 DEF planVars, Inv, PlanInv, PlanInHand, Working, Worker, PlanReady, Separated
    <2>. QED
      BY <2>2, <2>3, <2>5 DEF Inv, PlanInv
  <1>. QED
    BY <1>1, <1>2, <1>3, <1>4, <1>5, <1>6, <1>7, <1>8, <1>9 DEF Next

\* What the contraction counts is what its budget bounds.
LEMMA InvKeepsBelief == Inv => BeliefIsKept
  <1> SUFFICES ASSUME Inv PROVE BeliefIsKept
    OBVIOUS
  <1>0. BeliefInv
    BY DEF Inv
  <1>1. TruthIsRetained
    <2>1. PICK i \in 1..Len(candidates) : Truthful(candidates[i])
      BY <1>0 DEF BeliefInv, CandidatesKept
    <2>2. i \in DOMAIN candidates
      <3>1. candidates \in Seq(Box)
        BY <1>0 DEF BeliefInv, BeliefTypes
      <3>. QED
        BY <2>1, <3>1, LenProperties
    <2>3. ASSUME NEW agent \in Observing
          PROVE  \E j \in DOMAIN Cells(<<candidates[i], agent>>) :
                   Within(actual.actuator[agent], Cells(<<candidates[i], agent>>)[j])
      <3>1. PICK cells : cells = Cells(<<candidates[i], agent>>)
        OBVIOUS
      <3>2. cells \in Seq(Box) /\ Covers(cells, actual.actuator[agent])
        BY <1>0, <2>1, <3>1, CellsOfBelief
      <3>3. DOMAIN cells = 1..Len(cells)
        BY <3>2, LenProperties
      <3>. QED
        BY <3>1, <3>2, <3>3 DEF Covers
    <2>4. Within(actual.drag, active_model) /\ Within(actual.drag, candidates[i])
      BY <1>0, <2>1 DEF BeliefInv, CandidatesKept, Truthful
    <2>. QED
      BY <2>2, <2>3, <2>4 DEF TruthIsRetained
  <1>2. BudgetsHold
    <2>1. \A key \in DOMAIN surviving_cells : Len(surviving_cells[key]) <= MaxCells
      BY <1>0 DEF BeliefInv, BeliefTypes
    <2>2. ASSUME search # Nothing
          PROVE  /\ search.flows <= MaxFlows /\ search.evaluated <= MaxFlows
                 /\ Len(search.survivors) + Len(search.pending)
                      + (IF search.cell = Nothing THEN 0 ELSE 1) <= MaxCells
      <3>1. search \in Contraction /\ Stands(search) /\ WithinBudget(search)
        BY <1>0, <2>2, UnderExamination
      <3>2. search.pending \in Seq(Box) /\ search.survivors \in Seq(Box)
        BY <3>1 DEF Contraction
      <3>3. PICK a : a = Len(search.survivors)
        OBVIOUS
      <3>4. PICK b : b = Len(search.pending)
        OBVIOUS
      <3>5. a \in Nat /\ b \in Nat /\ MaxCells \in Nat
        BY <3>2, <3>3, <3>4, LenProperties, Budgets
      <3>6. a + b <= MaxCells /\ (search.at = "cell" => a + b < MaxCells)
        BY <3>1, <3>3, <3>4 DEF WithinBudget
      <3>7. search.at # "cell" => search.cell = Nothing
        BY <3>1 DEF Stands
      <3>8. a + b + (IF search.cell = Nothing THEN 0 ELSE 1) <= MaxCells
        BY <3>5, <3>6, <3>7
      <3>. QED
        BY <3>1, <3>3, <3>4, <3>8 DEF WithinBudget
    <2>. QED
      BY <2>1, <2>2 DEF BudgetsHold
  <1>. QED
    BY <1>1, <1>2 DEF BeliefIsKept

\* No contraction discards the truth, and none overruns its budgets: some
\* candidate contains the actual drag parameter and, for it and every agent, a
\* cell the actual actuator (LinkedNonlinearMembershipContractor.contract,
\* NonlinearMissionAdaptation.contract).
THEOREM BeliefAlwaysKept == Spec => []BeliefIsKept
  <1>. QED
    BY InvKeepsBelief, InitInv, NextInv, PTL DEF Spec

\* Between plan() calls no native model is open, a solver never holds more than
\* two, and every remembered plan was made on the update before this one
\* (GekkoDynamicTube.solve, NonlinearMissionRunner.run).
THEOREM PlanningAlwaysFresh == Spec => []PlanningIsFresh
  <1>1. Inv => PlanningIsFresh
    <2> SUFFICES ASSUME Inv PROVE PlanningIsFresh
      OBVIOUS
    <2>1. \A chaser \in Chasers : native[chaser] \in 0..2
      <3>1. CASE Working
        BY <3>1 DEF Inv, PlanInv, NativeFollows, Models
      <3>2. CASE ~Working
        BY <3>2 DEF Inv, PlanInv, NativeFollows
      <3>. QED
        BY <3>1, <3>2
    <2>. QED
      BY <2>1 DEF Inv, PlanInv, NativeFollows, PreviewsFollow, PlanningIsFresh,
                  NativeModelsAreReleased
  <1>. QED
    BY <1>1, InitInv, NextInv, PTL DEF Spec

\* The fleet leaves its lanes only on a plan for all of it, made at this event
\* under the present belief, which contains the actual parameter, with every
\* two chasers separated (NonlinearMissionPlanner.plan, run, _advance).
THEOREM JointPlansOnly == Spec => FleetMovesOnJointPlan
  <1>1. ASSUME Inv, [Next]_missionVars
        PROVE  [lane' # lane =>
                 /\ context.q = update /\ context.model = active_model
                 /\ Within(actual.drag, context.model)
                 /\ \A one, other \in Chasers : one # other => lane'[one] # lane'[other]]_missionVars
    <2>1. SUFFICES ASSUME lane' # lane
                   PROVE  /\ context.q = update /\ context.model = active_model
                          /\ Within(actual.drag, context.model)
                          /\ \A one, other \in Chasers : one # other => lane'[one] # lane'[other]
      OBVIOUS
    <2>2. Advance
      BY <1>1, <2>1 DEF Next, missionVars, planVars, Open, Forecast, Plan, PlanningStep,
                        SkipContraction, Contract, Contracting, Contracted
    <2>3. Usable /\ lane' = [chaser \in Chasers |-> Worker(chaser).lane]
      BY <2>1, <2>2 DEF Advance
    <2>4. planning # NoPlan /\ PlanReady
      BY <2>3 DEF Usable, PlanReady
    <2>5. Separated /\ context = [q |-> update, model |-> active_model]
      BY <1>1, <2>4 DEF Inv, PlanInv, PlanInHand
    <2>6. Within(actual.drag, active_model)
      BY <1>1 DEF Inv, BeliefInv, CandidatesKept
    <2>. QED
      BY <2>3, <2>5, <2>6 DEF Separated
  <1>. QED
    BY <1>1, InitInv, NextInv, PTL DEF Spec, FleetMovesOnJointPlan

\* A contraction never refutes every candidate: whatever budgets it ran into,
\* the mission is not ended by its own estimator while the models it is given
\* hold (NonlinearMissionAdaptation.contract, the inconsistent result of run).
THEOREM BeliefNeverRefuted == Spec => [][stage = "contract" => stage' # "ended"]_missionVars
  <1>1. ASSUME Inv, [Next]_missionVars
        PROVE  [stage = "contract" => stage' # "ended"]_missionVars
    <2>1. SUFFICES ASSUME stage = "contract", stage' = "ended" PROVE FALSE
      OBVIOUS
    <2>2. Contracted
      BY <1>1, <2>1 DEF Next, missionVars, Open, Forecast, Plan, Advance, SkipContraction, Contract,
                        Contracting
    <2>3. PICK consistent \in BOOLEAN : CloseContraction(consistent) /\ ~consistent
      BY <2>1, <2>2 DEF Contracted, NextUpdate
    <2>4. PICK r : r = search.retained
      OBVIOUS
    <2>5. \E i \in 1..Len(r) : Truthful(r[i])
      BY <1>1, <2>3, <2>4, ClosingRetains DEF Inv, CloseContraction
    <2>6. r = <<>>
      BY <2>3, <2>4 DEF CloseContraction
    <2>. QED
      BY <2>5, <2>6
  <1>. QED
    BY <1>1, InitInv, NextInv, PTL DEF Spec
=============================================================================
