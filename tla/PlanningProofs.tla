--------------------------- MODULE PlanningProofs ---------------------------
(***************************************************************************)
(* What planning promises, for every value of the constants: stored plans  *)
(* and their admission, certified orbital holds, backup continuation.      *)
(*                                                                         *)
(* First lemmas about the operators of a stored plan, for every admissible *)
(* one; then the invariants of FleetAdmission, for every fleet, every set  *)
(* of plans, every bound; then that SafetyPlanner implements the admission *)
(* transaction it serves and inherits those invariants, for every list of  *)
(* routes.  Inv says that the clock stays in the scope of the installed    *)
(* plan and that a pending decision still matches the state it was decided *)
(* in.  PlannerInv is what the step simulation needs of a search in        *)
(* progress: it was begun for the clock and the plan still in force, while *)
(* no decision is pending, and what it hands out is a plan the transaction *)
(* may take.                                                               *)
(*                                                                         *)
(* Then two parts of MCGuidance.  OrbitalInv: a proven record is the record*)
(* of the hold relied on, and an orbit in flight lies between the slowest  *)
(* and the fastest motion its record allows.  ContinuationInv: the chain in*)
(* force leads from each hold into the next and to the terminal set at its *)
(* clock, and whatever is decided is as good as the hold it stands for.    *)
(***************************************************************************)
EXTENDS SafetyPlanner, MCGuidance, SequenceTheorems, WellFoundedInduction, TLAPS

-----------------------------------------------------------------------------
(* Lemmas about the operators of a plan                                    *)

LEMMA IntProduct ==
  ASSUME NEW x \in Int, NEW y \in Int
  PROVE  x * y \in Int
  BY Z3

LEMMA SegmentTypes ==
  ASSUME NEW p \in FleetFallbackPlan, admissible(p)
  PROVE  /\ Len(p.segments) \in Nat /\ Len(p.segments) > 0
         /\ \A i \in 1..Len(p.segments) : p.segments[i] \in FleetFeedbackSegment
         /\ LastSegment(p) \in FleetFeedbackSegment
         /\ p.start \in Nat /\ p.clearance \in Nat
  BY DEF FleetFallbackPlan, admissible, LastSegment

\* Segments do not overlap, so one segment at most is in force.
LEMMA CoveringUnique ==
  ASSUME NEW p \in FleetFallbackPlan, admissible(p), NEW t \in Nat,
         NEW i \in Covering(p, t), NEW j \in Covering(p, t)
  PROVE  i = j
  <1>1. i \in 1..Len(p.segments) /\ j \in 1..Len(p.segments)
    BY DEF Covering
  <1>2. \A k \in 1..Len(p.segments) : p.segments[k].start \in Nat /\ p.segments[k].end \in Nat
    BY SegmentTypes DEF FleetFeedbackSegment
  <1>3. ~(i < j) /\ ~(j < i)
    BY <1>1, <1>2 DEF Covering, admissible
  <1>. QED
    BY <1>1, <1>3, SegmentTypes

LEMMA SegmentAtIndex ==
  ASSUME NEW p \in FleetFallbackPlan, admissible(p), NEW t \in Nat, NEW i \in Covering(p, t)
  PROVE  segment_at(p, t) = p.segments[i]
  BY CoveringUnique DEF segment_at

\* Whatever the clock, the answer is one of the plan's segments.
LEMMA SegmentAtType ==
  ASSUME NEW p \in FleetFallbackPlan, admissible(p), NEW t \in Nat
  PROVE  /\ segment_at(p, t) \in FleetFeedbackSegment
         /\ \E i \in 1..Len(p.segments) : segment_at(p, t) = p.segments[i]
  <1>1. CASE Covering(p, t) # {}
    BY <1>1, SegmentTypes DEF segment_at, Covering
  <1>2. CASE Covering(p, t) = {}
    BY <1>2, SegmentTypes DEF segment_at, LastSegment
  <1>. QED
    BY <1>1, <1>2

\* Where a hold [t, t+h] of segment i leaves the route.
EndsIn(p, t, h, i) ==
  /\ segment_at(p, t) = p.segments[i]
  /\ p.segments[i].start <= t /\ t + h <= p.segments[i].end
  /\ InScope(p, t + h)
  /\ \/ t + h < p.segments[i].end /\ segment_at(p, t + h) = p.segments[i]
     \/ /\ i \in 1..Len(p.segments)-1 /\ t + h = p.segments[i].end
        /\ segment_at(p, t + h) = p.segments[i+1]
     \/ /\ i = Len(p.segments) /\ t + h = p.segments[i].end
        /\ segment_at(p, t + h) = p.segments[i]

\* A hold that fits ends inside its segment, where the next segment takes
\* over, or at the end of the route.
LEMMA HoldEnd ==
  ASSUME NEW p \in FleetFallbackPlan, admissible(p), NEW t \in Nat, NEW h \in Nat,
         HoldFits(p, t, h)
  PROVE  \E i \in 1..Len(p.segments) : EndsIn(p, t, h, i)
  <1>1. PICK i \in Covering(p, t) : TRUE
    BY DEF HoldFits
  <1>2. segment_at(p, t) = p.segments[i]
    BY <1>1, SegmentAtIndex
  <1>3. /\ i \in 1..Len(p.segments)
        /\ p.segments[i].start <= t /\ t < p.segments[i].end /\ t + h <= p.segments[i].end
    BY <1>1, <1>2 DEF Covering, HoldFits
  <1>4. \A k \in 1..Len(p.segments) : p.segments[k].start \in Nat /\ p.segments[k].end \in Nat
    BY SegmentTypes DEF FleetFeedbackSegment
  <1>5. t + h \in Nat /\ h > 0 /\ Len(p.segments) \in Nat
    BY SegmentTypes DEF HoldFits
  <1>6. ASSUME t + h < p.segments[i].end PROVE EndsIn(p, t, h, i)
    <2>1. i \in Covering(p, t + h)
      BY <1>3, <1>4, <1>5, <1>6 DEF Covering
    <2>. QED
      BY <1>2, <1>3, <1>5, <1>6, <2>1, SegmentAtIndex DEF InScope, EndsIn
  <1>7. ASSUME t + h = p.segments[i].end, i # Len(p.segments) PROVE EndsIn(p, t, h, i)
    <2>1. i \in 1..Len(p.segments)-1 /\ i + 1 \in 1..Len(p.segments)
      BY <1>3, <1>5, <1>7
    <2>2. i + 1 \in Covering(p, t + h)
      BY <1>4, <1>7, <2>1 DEF Covering, admissible
    <2>. QED
      BY <1>2, <1>3, <1>5, <1>7, <2>1, <2>2, SegmentAtIndex DEF InScope, EndsIn
  <1>8. ASSUME t + h = p.segments[i].end, i = Len(p.segments) PROVE EndsIn(p, t, h, i)
    <2>1. Covering(p, t + h) = {}
      <3>1. SUFFICES ASSUME NEW k \in Covering(p, t + h) PROVE FALSE
        OBVIOUS
      <3>2. k \in 1..Len(p.segments) /\ p.segments[k].start <= t + h /\ t + h < p.segments[k].end
        BY DEF Covering
      <3>3. k = i \/ k < i
        BY <1>3, <1>5, <1>8, <3>2
      <3>. QED
        BY <1>3, <1>4, <1>5, <1>8, <3>2, <3>3 DEF admissible
    <2>2. segment_at(p, t + h) = p.segments[i] /\ PlanEnd(p) = t + h
      BY <1>8, <2>1 DEF segment_at, LastSegment, PlanEnd
    <2>3. InScope(p, t + h)
      BY <2>2 DEF InScope
    <2>. QED
      BY <1>2, <1>3, <1>8, <2>2, <2>3 DEF EndsIn
  <1>9. \/ t + h < p.segments[i].end
        \/ t + h = p.segments[i].end /\ i # Len(p.segments)
        \/ t + h = p.segments[i].end /\ i = Len(p.segments)
    <2>1. p.segments[i].end \in Nat
      BY <1>3, <1>4
    <2>. QED
      BY <1>3, <1>5, <2>1
  <1>10. EndsIn(p, t, h, i)
    BY <1>6, <1>7, <1>8, <1>9
  <1>. QED
    BY <1>3, <1>10

LEMMA RemainingFuelType ==
  ASSUME NEW p \in FleetFallbackPlan, admissible(p), NEW t \in Nat, NEW a \in Agents
  PROVE  /\ remaining_fuel(p, t)[a] \in Int
         /\ segment_at(p, t).rate[a] \in Nat
  <1> DEFINE s == segment_at(p, t)
  <1>1. s \in FleetFeedbackSegment
    BY SegmentAtType
  <1>2. s.end \in Nat /\ s.rate[a] \in Nat /\ s.after[a] \in Nat
    BY <1>1 DEF FleetFeedbackSegment, FleetFuel
  <1>3. remaining_fuel(p, t)[a] = (s.end - t) * s.rate[a] + s.after[a]
    BY DEF remaining_fuel
  <1>. QED
    BY <1>2, <1>3

\* The reserve splits exactly at the end of a hold: its uniform debit now and
\* the reserve of the rest of the route.
THEOREM HoldSplitsReserve ==
  ASSUME NEW p \in FleetFallbackPlan, admissible(p), NEW t \in Nat, NEW h \in Nat,
         HoldFits(p, t, h), NEW a \in Agents
  PROVE  remaining_fuel(p, t)[a] = h * segment_at(p, t).rate[a] + remaining_fuel(p, t + h)[a]
  <1>0. PICK i \in 1..Len(p.segments) : EndsIn(p, t, h, i)
    BY HoldEnd
  <1>1. /\ segment_at(p, t) = p.segments[i]
        /\ p.segments[i].start <= t /\ t + h <= p.segments[i].end
    BY <1>0 DEF EndsIn
  <1> DEFINE s == p.segments[i]
  <1>2. s.rate[a] \in Nat /\ s.after[a] \in Nat /\ s.end \in Nat /\ s.start \in Nat
    <2>1. s \in FleetFeedbackSegment
      BY SegmentTypes
    <2>. HIDE DEF s
    <2>. QED
      BY <2>1 DEF FleetFeedbackSegment, FleetFuel
  <1>3. remaining_fuel(p, t)[a] = (s.end - t) * s.rate[a] + s.after[a]
    BY <1>1 DEF remaining_fuel
  <1>4. (s.end - t) * s.rate[a] = h * s.rate[a] + (s.end - (t + h)) * s.rate[a]
    <2>1. s.end - t = h + (s.end - (t + h))
      BY <1>2
    <2>2. s.end \in Nat /\ s.rate[a] \in Nat
      BY <1>2
    <2>. HIDE DEF s
    <2>. PICK r \in Nat : r = s.rate[a]
      BY <2>2
    <2>. PICK e \in Nat : e = s.end
      BY <2>2
    <2>3. (e - t) * r = h * r + (e - (t + h)) * r
      BY ONLY t \in Nat, h \in Nat, e \in Nat, r \in Nat
    <2>. QED
      BY ONLY <2>3, r = s.rate[a], e = s.end, Zenon
  <1>5. segment_at(p, t).rate[a] = s.rate[a]
    BY <1>1
  <1>6. /\ h * s.rate[a] \in Int
        /\ (s.end - (t + h)) * s.rate[a] \in Int
    <2>. HIDE DEF s
    <2>. QED
      BY <1>2, IntProduct
  <1>7. ASSUME segment_at(p, t + h) = s
        PROVE  remaining_fuel(p, t)[a] = h * s.rate[a] + remaining_fuel(p, t + h)[a]
    <2>1. remaining_fuel(p, t + h)[a] = (s.end - (t + h)) * s.rate[a] + s.after[a]
      BY <1>7 DEF remaining_fuel
    <2>2. s.after[a] \in Int /\ h * s.rate[a] \in Int /\ (s.end - (t + h)) * s.rate[a] \in Int
      BY <1>2, <1>6
    <2>. HIDE DEF s
    <2>. PICK held \in Int : held = h * s.rate[a]
      BY <2>2
    <2>. PICK rest \in Int : rest = (s.end - (t + h)) * s.rate[a]
      BY <2>2
    <2>. PICK after \in Int : after = s.after[a]
      BY <2>2
    <2>3. remaining_fuel(p, t)[a] = (held + rest) + after
      BY ONLY <1>3, <1>4, held = h * s.rate[a], rest = (s.end - (t + h)) * s.rate[a], after = s.after[a], Zenon
    <2>4. remaining_fuel(p, t + h)[a] = rest + after
      BY ONLY <2>1, rest = (s.end - (t + h)) * s.rate[a], after = s.after[a], Zenon
    <2>5. (held + rest) + after = held + (rest + after)
      BY ONLY held \in Int, rest \in Int, after \in Int
    <2>. QED
      BY ONLY <2>3, <2>4, <2>5, held = h * s.rate[a], Zenon
  <1>8. ASSUME i \in 1..Len(p.segments)-1, t + h = s.end,
               segment_at(p, t + h) = p.segments[i+1]
        PROVE  remaining_fuel(p, t)[a] = h * s.rate[a] + remaining_fuel(p, t + h)[a]
    <2> DEFINE n == p.segments[i+1]
    <2>1. /\ n.start = s.end
          /\ s.after[a] = (n.end - n.start) * n.rate[a] + n.after[a]
      BY <1>8 DEF admissible
    <2>2. remaining_fuel(p, t + h)[a] = s.after[a]
      BY <1>8, <2>1 DEF remaining_fuel
    <2>3. (s.end - (t + h)) * s.rate[a] = 0
      BY <1>2, <1>8
    <2>. HIDE DEF s
    <2>. QED
      BY <1>2, <1>3, <1>4, <1>6, <2>2, <2>3
  <1>9. \/ segment_at(p, t + h) = s
        \/ /\ i \in 1..Len(p.segments)-1 /\ t + h = s.end
           /\ segment_at(p, t + h) = p.segments[i+1]
    BY <1>0 DEF EndsIn
  <1>. HIDE DEF s
  <1>. QED
    BY <1>5, <1>7, <1>8, <1>9

\* The region in force at the end of a hold contains the one it started in.
LEMMA HoldKeepsTube ==
  ASSUME NEW p \in FleetFallbackPlan, admissible(p), NEW t \in Nat, NEW h \in Nat,
         HoldFits(p, t, h)
  PROVE  segment_at(p, t).tube \subseteq segment_at(p, t + h).tube
  <1>1. PICK i \in 1..Len(p.segments) : EndsIn(p, t, h, i)
    BY HoldEnd
  <1>2. \/ segment_at(p, t + h) = segment_at(p, t)
        \/ /\ i \in 1..Len(p.segments)-1
           /\ segment_at(p, t) = p.segments[i] /\ segment_at(p, t + h) = p.segments[i+1]
    BY <1>1 DEF EndsIn
  <1>3. \A k \in 1..Len(p.segments)-1 : p.segments[k].tube \subseteq p.segments[k+1].tube
    BY DEF admissible
  <1>. QED
    BY <1>2, <1>3

\* A plan starts inside its first segment.
LEMMA PlanStartInScope ==
  ASSUME NEW p \in FleetFallbackPlan, admissible(p)
  PROVE  InScope(p, p.start)
  <1>1. 1 \in Covering(p, p.start)
    BY SegmentTypes DEF Covering, admissible
  <1>. QED
    BY <1>1 DEF InScope

\* A plan never asks for a negative amount at its own start.
LEMMA InitialReserveNat ==
  ASSUME NEW p \in FleetFallbackPlan, admissible(p), NEW a \in Agents
  PROVE  remaining_fuel(p, p.start)[a] \in Nat
  <1> DEFINE s == p.segments[1]
  <1>1. /\ s \in FleetFeedbackSegment /\ 1 \in Covering(p, p.start)
        /\ p.start \in Nat /\ p.start < s.end
    <2>1. s \in FleetFeedbackSegment /\ p.start \in Nat /\ 1 \in 1..Len(p.segments)
      BY SegmentTypes
    <2>2. s.start <= p.start /\ p.start < s.end
      BY <2>1 DEF admissible
    <2>. QED
      BY <2>1, <2>2 DEF Covering
  <1>2. segment_at(p, p.start) = s
    BY <1>1, SegmentAtIndex
  <1>3. s.end \in Nat /\ s.rate[a] \in Nat /\ s.after[a] \in Nat
    BY <1>1 DEF FleetFeedbackSegment, FleetFuel
  <1>4. remaining_fuel(p, p.start)[a] = (s.end - p.start) * s.rate[a] + s.after[a]
    BY <1>2 DEF remaining_fuel
  <1>5. s.end - p.start \in Nat
    BY <1>1, <1>3
  <1>6. \A x, y, z \in Nat : x * y + z \in Nat
    OBVIOUS
  <1>. HIDE DEF s
  <1>. QED
    BY <1>3, <1>4, <1>5, <1>6

\* A suffix keeps the certified segments: the plan it makes is still typed,
\* admissible, and asks for exactly the fuel its source plan asked for.
THEOREM SuffixKeepsRoute ==
  ASSUME NEW p \in FleetFallbackPlan, admissible(p), NEW t \in Nat, HasSuffix(p, t)
  PROVE  /\ suffix(p, t) \in FleetFallbackPlan
         /\ admissible(suffix(p, t))
         /\ suffix(p, t).start = t
         /\ suffix(p, t).clearance = p.clearance
         /\ \A i \in 1..Len(suffix(p, t).segments) :
              \E j \in 1..Len(p.segments) : suffix(p, t).segments[i] = p.segments[j]
         /\ remaining_fuel(suffix(p, t), t) = remaining_fuel(p, t)
  <1> DEFINE first == CHOOSE i \in Covering(p, t) : TRUE
             s == SubSeq(p.segments, first, Len(p.segments))
             n == Len(p.segments) - first + 1
             v == suffix(p, t)
  <1>1. first \in Covering(p, t)
    BY DEF HasSuffix
  <1>2. /\ first \in 1..Len(p.segments) /\ Len(p.segments) \in Nat
        /\ p.segments[first].start <= t /\ t < p.segments[first].end
    BY <1>1, SegmentTypes DEF Covering
  <1>3. /\ s \in Seq(FleetFeedbackSegment)
        /\ Len(s) = n /\ n \in Nat /\ n > 0
        /\ \A i \in 1..n : s[i] = p.segments[first + i - 1] /\ first + i - 1 \in 1..Len(p.segments)
    <2> DEFINE len == Len(p.segments)
    <2>1. \A i \in first..len : p.segments[i] \in FleetFeedbackSegment
      <3>. HIDE DEF first
      <3>. QED
        BY <1>2, SegmentTypes
    <2>2. n \in Nat /\ n > 0 /\ first \in Int /\ len \in Int /\ first <= len
      <3>. HIDE DEF first
      <3>. QED
        BY <1>2
    <2>3. /\ s \in Seq(FleetFeedbackSegment) /\ Len(s) = n
          /\ \A i \in 1..n : s[i] = p.segments[first + i - 1]
      <3>. HIDE DEF first, len
      <3>1. /\ SubSeq(p.segments, first, len) \in Seq(FleetFeedbackSegment)
            /\ Len(SubSeq(p.segments, first, len)) = len - first + 1
            /\ \A i \in 1..len-first+1 : SubSeq(p.segments, first, len)[i] = p.segments[first + i - 1]
        BY <2>1, <2>2, SubSeqProperties
      <3>. QED
        BY <3>1 DEF len
    <2>4. \A i \in 1..n : first + i - 1 \in 1..Len(p.segments)
      BY <1>2
    <2>. QED
      BY <2>2, <2>3, <2>4
  <1>4. v = [start |-> t, clearance |-> p.clearance, segments |-> s]
    BY DEF suffix
  <1>5. v \in FleetFallbackPlan /\ v.start = t /\ v.clearance = p.clearance /\ v.segments = s
    <2>. HIDE DEF v, s, n, first
    <2>. QED
      BY <1>3, <1>4, SegmentTypes DEF FleetFallbackPlan
  <1>6. LastSegment(v) = LastSegment(p)
    <2>1. n \in 1..n /\ first + n - 1 = Len(p.segments)
      <3>1. n = Len(p.segments) - first + 1
        OBVIOUS
      <3>. HIDE DEF first, s, v, n
      <3>. QED
        BY <1>2, <1>3, <3>1
    <2>. HIDE DEF first, s, v, n
    <2>2. s[n] = p.segments[Len(p.segments)]
      BY <1>3, <2>1
    <2>. QED
      BY <1>3, <1>5, <2>2 DEF LastSegment
  <1>. HIDE DEF v, s, first
  <1>7. admissible(v)
    <2>1. Len(v.segments) > 0 /\ v.segments[1].start <= v.start /\ v.start < v.segments[1].end
      <3>1. 1 \in 1..n /\ first + 1 - 1 = first
        BY <1>2, <1>3
      <3>2. s[1] = p.segments[first]
        BY <1>3, <3>1
      <3>. QED
        BY <1>2, <1>3, <1>5, <3>2
    <2>2. \A i \in 1..n : s[i].start < s[i].end
      BY <1>3 DEF admissible
    <2>3. \A i, j \in 1..n : i < j => s[i].end <= s[j].start
      <3>1. SUFFICES ASSUME NEW i \in 1..n, NEW j \in 1..n, i < j PROVE s[i].end <= s[j].start
        OBVIOUS
      <3>2. first + i - 1 < first + j - 1
        BY <1>2, <3>1
      <3>. QED
        BY <1>3, <3>2 DEF admissible
    <2>4. \A i \in 1..n-1 :
            /\ s[i].end = s[i+1].start
            /\ s[i].tube \subseteq s[i+1].tube
            /\ \A a \in Agents :
                 s[i].after[a] = (s[i+1].end - s[i+1].start) * s[i+1].rate[a] + s[i+1].after[a]
      <3>1. SUFFICES ASSUME NEW i \in 1..n-1
                     PROVE  /\ s[i].end = s[i+1].start
                            /\ s[i].tube \subseteq s[i+1].tube
                            /\ \A a \in Agents :
                                 s[i].after[a] = (s[i+1].end - s[i+1].start) * s[i+1].rate[a]
                                                 + s[i+1].after[a]
        OBVIOUS
      <3> DEFINE k == first + i - 1
      <3>4. /\ i \in Int /\ 1 <= i /\ i <= n - 1
            /\ first \in Int /\ 1 <= first /\ Len(p.segments) \in Int /\ n \in Int
            /\ n = Len(p.segments) - first + 1 /\ k = first + i - 1
        BY <1>2, <1>3
      <3>2. i \in 1..n /\ i + 1 \in 1..n /\ k \in 1..Len(p.segments)-1 /\ first + (i + 1) - 1 = k + 1
        <4>. HIDE DEF k, n
        <4>. QED
          BY <3>4
      <3>3. s[i] = p.segments[k] /\ s[i+1] = p.segments[k+1]
        BY <1>3, <3>2
      <3>. HIDE DEF k
      <3>. QED
        BY <3>2, <3>3 DEF admissible
    <2>. QED
      BY <1>3, <1>5, <1>6, <2>1, <2>2, <2>3, <2>4 DEF admissible
  <1>8. segment_at(v, t) = segment_at(p, t)
    <2>1. 1 \in Covering(v, t)
      BY <1>3, <1>5, <1>7 DEF Covering, admissible
    <2>2. segment_at(v, t) = s[1] /\ segment_at(p, t) = p.segments[first]
      BY <1>1, <1>5, <1>7, <2>1, SegmentAtIndex
    <2>3. s[1] = p.segments[first]
      BY <1>2, <1>3
    <2>. QED
      BY <2>2, <2>3
  <1>9. remaining_fuel(v, t) = remaining_fuel(p, t)
    BY <1>8 DEF remaining_fuel
  <1>10. \A i \in 1..Len(v.segments) : \E j \in 1..Len(p.segments) : v.segments[i] = p.segments[j]
    BY <1>3, <1>5
  <1>. QED
    BY <1>5, <1>7, <1>9, <1>10 DEF v

-----------------------------------------------------------------------------
(* The admission transaction                                               *)

\* The pending decision was decided at the current clock, for a hold that
\* fits the installed plan, and names the plan its commit installs.
PendingMatches ==
  pending # None =>
    /\ pending.start = q
    /\ HoldFits(active_fallback, q, pending.hold_width)
    /\ admissible(pending.successor)
    /\ InScope(pending.successor, DecisionEnd(pending))
    /\ pending.source # "PERFORMANCE" => pending.successor = active_fallback
    /\ pending.source = "PERFORMANCE" =>
         pending.endpoints \subseteq segment_at(pending.successor, DecisionEnd(pending)).tube

ClockInScope == InScope(active_fallback, q)

MotionHasDecision == moved => pending # None

Inv ==
  /\ TypeOK
  /\ ClockInScope
  /\ PendingMatches
  /\ MotionHasDecision
  /\ ReserveCoversPlan
  /\ TruthInsideTube
  /\ TankCoversLedger
  /\ SupportsNeverErode

-----------------------------------------------------------------------------
\* A successor that keeps the supports of the segment in force is as valid
\* for the plant as the installed plan.
LEMMA KeptSupportsValid ==
  ASSUME NEW p \in FleetFallbackPlan, admissible(p), Valid(p),
         NEW c \in FleetFallbackPlan, NEW t \in Nat, KeepsSupports(p, c, t)
  PROVE  Valid(c)
  <1>1. PICK j \in 1..Len(p.segments) : segment_at(p, t) = p.segments[j]
    BY SegmentAtType
  <1>2. segment_at(p, t).support \in Nat /\ segment_at(p, t).support >= Disturbance
    BY <1>1, SegmentAtType DEF Valid, FleetFeedbackSegment
  <1>3. \A i \in 1..Len(c.segments) : c.segments[i].support \in Nat
    <2>1. \A i \in 1..Len(c.segments) : c.segments[i] \in FleetFeedbackSegment
      BY DEF FleetFallbackPlan
    <2>. QED
      BY <2>1 DEF FleetFeedbackSegment
  <1>4. p.clearance \in Nat /\ c.clearance \in Nat
    BY DEF FleetFallbackPlan
  <1>5. c.clearance >= RequiredClearance
    BY <1>4, BoundAssumption DEF KeepsSupports, Valid
  <1>6. \A i \in 1..Len(c.segments) : c.segments[i].support >= segment_at(p, t).support
    BY DEF KeepsSupports
  <1>7. \A i \in 1..Len(c.segments) : c.segments[i].support >= Disturbance
    BY <1>2, <1>3, <1>6, BoundAssumption
  <1>. QED
    BY <1>5, <1>7 DEF Valid

\* A plan that contains some cell now is entered inside its scope.
LEMMA InstallableInScope ==
  ASSUME NEW p, Installable(p)
  PROVE  admissible(p) /\ Valid(p) /\ InScope(p, q) /\ truth \in segment_at(p, q).tube
         /\ Affords(remaining_fuel_kg, NoCharge, p, q)
  BY DEF Installable, contains

LEMMA InitInv == Init => Inv
  <1>1. SUFFICES ASSUME Init PROVE Inv
    OBVIOUS
  <1>2. /\ active_fallback \in FleetFallbackPlan /\ admissible(active_fallback)
        /\ \A p \in Plans : p \in FleetFallbackPlan /\ admissible(p) /\ p.start \in Nat
    BY <1>1, PlanAssumption DEF Init, FleetFallbackPlan
  <1>3. q \in Nat
    BY <1>1, <1>2 DEF Init
  <1>4. remaining_fuel_kg \in FleetFuel
    <2>1. PICK p \in Plans : remaining_fuel_kg = remaining_fuel(p, p.start)
      BY <1>1 DEF Init
    <2>2. \A a \in Agents : remaining_fuel(p, p.start)[a] \in Nat
      BY <1>2, InitialReserveNat
    <2>. QED
      BY <2>1, <2>2 DEF FleetFuel, remaining_fuel
  <1>5. TypeOK
    <2>1. tank \in [Agents -> Int]
      BY <1>1, <1>4 DEF Init, FleetFuel
    <2>. QED
      BY <1>1, <1>2, <1>3, <1>4, <2>1 DEF Init, TypeOK
  <1>6. /\ ClockInScope /\ PendingMatches /\ MotionHasDecision
        /\ ReserveCoversPlan /\ TruthInsideTube /\ SupportsNeverErode
    BY <1>1, InstallableInScope
       DEF Init, ClockInScope, PendingMatches, MotionHasDecision, ReserveCoversPlan,
           TruthInsideTube, SupportsNeverErode
  <1>7. TankCoversLedger
    BY <1>1, <1>4 DEF Init, TankCoversLedger, FleetFuel
  <1>. QED
    BY <1>5, <1>6, <1>7 DEF Inv

-----------------------------------------------------------------------------
\* Deciding leaves everything but the pending decision alone.
LEMMA DecideInv ==
  ASSUME Inv, pending = None, pending' \in HeldFleetDecision,
         UNCHANGED <<active_fallback, q, remaining_fuel_kg, moved, truth, tank>>,
         PendingMatches', Valid(pending'.successor),
         Affords(remaining_fuel_kg, pending'.charged_fuel, pending'.successor, DecisionEnd(pending'))
  PROVE  Inv'
  <1>1. ~moved /\ pending' # None
    BY NoneAssumption DEF Inv, MotionHasDecision
  <1>2. TypeOK'
    BY DEF Inv, TypeOK
  <1>3. ClockInScope' /\ MotionHasDecision' /\ TruthInsideTube' /\ TankCoversLedger'
    BY <1>1 DEF Inv, ClockInScope, MotionHasDecision, TruthInsideTube, TankCoversLedger
  <1>4. SupportsNeverErode' /\ ReserveCoversPlan'
    BY <1>1 DEF Inv, SupportsNeverErode, ReserveCoversPlan
  <1>. QED
    BY <1>2, <1>3, <1>4 DEF Inv

LEMMA DecideFallbackInv == Inv /\ DecideFallback => Inv'
  <1>1. SUFFICES ASSUME Inv, DecideFallback PROVE Inv'
    OBVIOUS
  <1>0. PICK h \in Holds : /\ HoldFits(active_fallback, q, h)
                           /\ \E c \in FallbackCharges(h) :
                                /\ FallbackCharge(h, c)
                                /\ pending' = FallbackDecision(h, c)
    BY <1>1 DEF DecideFallback
  <1>2. PICK c \in FallbackCharges(h) :
          /\ HoldFits(active_fallback, q, h)
          /\ FallbackCharge(h, c)
          /\ pending' = FallbackDecision(h, c)
    BY <1>0
  <1>3. h \in Nat /\ q \in Nat /\ c \in FleetFuel
    BY <1>1, <1>2, BoundAssumption DEF Holds, FallbackCharges, FleetFuel, Inv, TypeOK
  <1>4. active_fallback \in FleetFallbackPlan /\ admissible(active_fallback) /\ Valid(active_fallback)
    BY <1>1 DEF Inv, TypeOK, SupportsNeverErode
  <1>5. InScope(active_fallback, q + h)
    BY <1>2, <1>3, <1>4, HoldEnd DEF EndsIn
  <1>6. pending' \in HeldFleetDecision
    BY <1>2, <1>3, <1>4 DEF FallbackDecision, HeldFleetDecision
  <1>7. /\ pending'.start = q /\ pending'.hold_width = h
        /\ pending'.charged_fuel = c /\ pending'.successor = active_fallback
        /\ pending'.source # "PERFORMANCE"
    BY <1>2 DEF FallbackDecision
  <1>8. UNCHANGED <<active_fallback, q, remaining_fuel_kg, moved, truth, tank>> /\ pending = None
    BY <1>1 DEF DecideFallback
  <1>9. DecisionEnd(pending') = q + h
    BY <1>7 DEF DecisionEnd
  <1>10. PendingMatches'
    BY <1>2, <1>4, <1>5, <1>7, <1>8, <1>9 DEF PendingMatches, DecisionEnd
  <1>11. Affords(remaining_fuel_kg, pending'.charged_fuel, pending'.successor, DecisionEnd(pending'))
    BY <1>2, <1>7, <1>9 DEF FallbackCharge
  <1>. QED
    BY <1>1, <1>4, <1>6, <1>7, <1>8, <1>10, <1>11, DecideInv

LEMMA DecidePerformanceInv == Inv /\ DecidePerformance => Inv'
  <1>1. SUFFICES ASSUME Inv, DecidePerformance PROVE Inv'
    OBVIOUS
  <1>2. PICK h \in Holds : \E successor \in Successors(q + h), endpoints \in SUBSET Cells,
             c \in [Agents -> 0..MaxCharge] :
            /\ Admissible(h, successor, endpoints, c)
            /\ pending' = [source |-> "PERFORMANCE", start |-> q, hold_width |-> h,
                           charged_fuel |-> c, successor |-> successor,
                           endpoints |-> endpoints]
    BY <1>1 DEF DecidePerformance
  <1>3. PICK successor \in Successors(q + h), endpoints \in SUBSET Cells,
             c \in [Agents -> 0..MaxCharge] :
            /\ Admissible(h, successor, endpoints, c)
            /\ pending' = [source |-> "PERFORMANCE", start |-> q, hold_width |-> h,
                           charged_fuel |-> c, successor |-> successor,
                           endpoints |-> endpoints]
    BY <1>2
  <1>4. h \in Nat /\ q \in Nat /\ q + h \in Nat /\ c \in FleetFuel
    BY <1>1, <1>3, BoundAssumption DEF Holds, FleetFuel, Inv, TypeOK
  <1>5. active_fallback \in FleetFallbackPlan /\ admissible(active_fallback) /\ Valid(active_fallback)
    BY <1>1 DEF Inv, TypeOK, SupportsNeverErode
  <1>6. successor \in FleetFallbackPlan
    BY <1>4, <1>5, SuffixKeepsRoute, PlanAssumption DEF Successors
  <1>7. Valid(successor)
    BY <1>3, <1>4, <1>5, <1>6, KeptSupportsValid DEF Admissible
  <1>8. pending' \in HeldFleetDecision
    BY <1>3, <1>4, <1>6 DEF HeldFleetDecision
  <1>9. /\ pending'.start = q /\ pending'.hold_width = h /\ pending'.charged_fuel = c
        /\ pending'.successor = successor /\ pending'.endpoints = endpoints
        /\ pending'.source = "PERFORMANCE"
    BY <1>3
  <1>10. UNCHANGED <<active_fallback, q, remaining_fuel_kg, moved, truth, tank>> /\ pending = None
    BY <1>1 DEF DecidePerformance
  <1>11. DecisionEnd(pending') = q + h
    BY <1>9 DEF DecisionEnd
  <1>12. PendingMatches'
    BY <1>3, <1>9, <1>10, <1>11 DEF PendingMatches, DecisionEnd, Admissible, contains
  <1>13. Affords(remaining_fuel_kg, pending'.charged_fuel, pending'.successor, DecisionEnd(pending'))
    BY <1>3, <1>9, <1>11 DEF Admissible
  <1>. QED
    BY <1>1, <1>7, <1>8, <1>9, <1>10, <1>12, <1>13, DecideInv

-----------------------------------------------------------------------------
\* The certificates bring the fleet where the pending plan expects it.
LEMMA ApplyHoldInv == Inv /\ ApplyHold => Inv'
  <1>1. SUFFICES ASSUME Inv, ApplyHold PROVE Inv'
    OBVIOUS
  <1>2. /\ UNCHANGED <<active_fallback, q, remaining_fuel_kg, pending>>
        /\ pending # None /\ ~moved /\ moved'
        /\ truth' \in ReachableCells
    BY <1>1 DEF ApplyHold
  <1>3. /\ pending \in HeldFleetDecision /\ q \in Nat /\ remaining_fuel_kg \in FleetFuel
        /\ active_fallback \in FleetFallbackPlan /\ admissible(active_fallback)
        /\ truth \in Cells /\ tank \in [Agents -> Int] /\ Valid(active_fallback)
    BY <1>1, <1>2 DEF Inv, TypeOK, SupportsNeverErode
  <1>4. PICK used \in [Agents -> 0..MaxCharge] :
          /\ \A a \in Agents : used[a] <= pending.charged_fuel[a]
          /\ tank' = [a \in Agents |-> tank[a] - used[a]]
    BY <1>1 DEF ApplyHold
  <1>5. \A a \in Agents : used[a] \in Int /\ pending.charged_fuel[a] \in Int
    BY <1>3, <1>4, BoundAssumption DEF HeldFleetDecision, FleetFuel
  <1> DEFINE s == segment_at(active_fallback, q)
             h == pending.hold_width
  <1>6. /\ h \in Nat /\ pending.start = q /\ HoldFits(active_fallback, q, h)
        /\ DecisionEnd(pending) = q + h
    BY <1>1, <1>2, <1>3 DEF Inv, PendingMatches, HeldFleetDecision, DecisionEnd
  <1>7. s.tube \subseteq Cells /\ truth \in s.tube /\ s.support >= Disturbance
    <2>1. PICK i \in 1..Len(active_fallback.segments) : s = active_fallback.segments[i]
      BY <1>3, SegmentAtType
    <2>2. s \in FleetFeedbackSegment
      BY <1>3, SegmentAtType
    <2>. QED
      BY <1>1, <1>2, <1>3, <2>1, <2>2 DEF Valid, Inv, TruthInsideTube, FleetFeedbackSegment
  <1>8. truth' \in segment_at(pending.successor, DecisionEnd(pending)).tube /\ truth' \in Cells
    <2>1. CASE pending.source = "PERFORMANCE"
      BY <1>1, <1>2, <1>3, <2>1 DEF ReachableCells, Inv, PendingMatches, HeldFleetDecision
    <2>2. CASE pending.source # "PERFORMANCE"
      <3>1. pending.successor = active_fallback /\ truth' \in s.tube
        BY <1>1, <1>2, <1>6, <1>7, <2>2 DEF ReachableCells, Inv, PendingMatches
      <3>2. s.tube \subseteq segment_at(active_fallback, q + h).tube
        BY <1>3, <1>6, HoldKeepsTube
      <3>. QED
        BY <1>6, <1>7, <3>1, <3>2
    <2>. QED
      BY <2>1, <2>2
  <1>9. tank' \in [Agents -> Int] /\ TankCoversLedger'
    <2>1. tank' \in [Agents -> Int]
      BY <1>3, <1>4, <1>5
    <2>2. \A a \in Agents : tank'[a] = tank[a] - used[a] /\ tank[a] >= remaining_fuel_kg[a]
      BY <1>1, <1>2, <1>3, <1>4 DEF Inv, TankCoversLedger, FleetFuel
    <2>3. \A a \in Agents : tank'[a] >= remaining_fuel_kg[a] - pending.charged_fuel[a]
      BY <1>3, <1>4, <1>5, <2>2 DEF FleetFuel
    <2>. QED
      BY <1>2, <2>1, <2>3 DEF TankCoversLedger
  <1>10. TypeOK'
    BY <1>1, <1>2, <1>8, <1>9 DEF Inv, TypeOK
  <1>11. TruthInsideTube'
    BY <1>2, <1>8 DEF TruthInsideTube
  <1>12. ClockInScope' /\ MotionHasDecision'
    BY <1>1, <1>2 DEF Inv, ClockInScope, MotionHasDecision
  <1>13. PendingMatches'
    BY <1>1, <1>2 DEF Inv, PendingMatches
  <1>14. SupportsNeverErode' /\ ReserveCoversPlan'
    BY <1>1, <1>2 DEF Inv, SupportsNeverErode, ReserveCoversPlan
  <1>. QED
    BY <1>9, <1>10, <1>11, <1>12, <1>13, <1>14 DEF Inv

LEMMA CommitInv == Inv /\ Commit => Inv'
  <1>1. SUFFICES ASSUME Inv, Commit PROVE Inv'
    OBVIOUS
  <1>2. /\ pending # None /\ moved /\ pending' = None /\ moved' = FALSE
        /\ active_fallback' = pending.successor /\ q' = DecisionEnd(pending)
        /\ remaining_fuel_kg' = Debited /\ UNCHANGED <<truth, tank>>
        /\ \A a \in Agents : Debited[a] >= 0
    BY <1>1 DEF Commit
  <1>3. /\ pending \in HeldFleetDecision /\ q \in Nat /\ remaining_fuel_kg \in FleetFuel
        /\ tank \in [Agents -> Int] /\ truth \in Cells
        /\ pending.start = q /\ pending.hold_width \in Nat
        /\ pending.successor \in FleetFallbackPlan /\ admissible(pending.successor)
    BY <1>1, <1>2 DEF Inv, TypeOK, PendingMatches, HeldFleetDecision
  <1>4. q' \in Nat
    BY <1>2, <1>3 DEF DecisionEnd
  <1>5. \A a \in Agents : /\ remaining_fuel_kg[a] \in Int /\ pending.charged_fuel[a] \in Int
                          /\ Debited[a] = remaining_fuel_kg[a] - pending.charged_fuel[a]
    BY <1>3 DEF Debited, HeldFleetDecision, FleetFuel
  <1>6. remaining_fuel_kg' \in FleetFuel
    <2>1. \A a \in Agents : Debited[a] \in Nat
      BY <1>2, <1>5
    <2>. QED
      BY <1>2, <2>1 DEF Debited, FleetFuel
  <1>7. TypeOK'
    BY <1>2, <1>3, <1>4, <1>6 DEF TypeOK
  <1>8. ClockInScope' /\ MotionHasDecision' /\ PendingMatches'
    BY <1>1, <1>2 DEF Inv, ClockInScope, MotionHasDecision, PendingMatches
  <1>9. ReserveCoversPlan'
    <2>1. \A a \in Agents : NoCharge[a] + remaining_fuel(active_fallback', q')[a] <= remaining_fuel_kg'[a]
      <3>1. SUFFICES ASSUME NEW a \in Agents
                     PROVE  NoCharge[a] + remaining_fuel(active_fallback', q')[a] <= remaining_fuel_kg'[a]
        OBVIOUS
      <3>2. pending.charged_fuel[a] + remaining_fuel(pending.successor, DecisionEnd(pending))[a]
              <= remaining_fuel_kg[a]
        BY <1>1, <1>2 DEF Inv, ReserveCoversPlan, Affords
      <3>3. remaining_fuel(pending.successor, DecisionEnd(pending))[a] \in Int
        BY <1>2, <1>3, <1>4, RemainingFuelType
      <3>. QED
        BY <1>2, <1>5, <3>2, <3>3 DEF NoCharge
    <2>. QED
      BY <1>2, <2>1 DEF ReserveCoversPlan, Affords
  <1>10. TruthInsideTube' /\ SupportsNeverErode'
    BY <1>1, <1>2 DEF Inv, TruthInsideTube, SupportsNeverErode
  <1>11. TankCoversLedger'
    BY <1>1, <1>2, <1>3, <1>5 DEF Inv, TankCoversLedger
  <1>. QED
    BY <1>7, <1>8, <1>9, <1>10, <1>11 DEF Inv

\* Changing only the plan between holds, for one that is valid, affordable
\* and encloses the fleet at the current clock.
LEMMA SwitchInv ==
  ASSUME Inv, pending = None, NEW p \in Plans, active_fallback' = p,
         UNCHANGED <<q, remaining_fuel_kg, pending, moved, truth, tank>>,
         Valid(p), InScope(p, q), truth \in segment_at(p, q).tube,
         Affords(remaining_fuel_kg, NoCharge, p, q)
  PROVE  Inv'
  <1>1. ~moved /\ p \in FleetFallbackPlan /\ admissible(p)
    BY PlanAssumption DEF Inv, MotionHasDecision
  <1>2. TypeOK'
    BY <1>1 DEF Inv, TypeOK
  <1>3. ClockInScope' /\ PendingMatches' /\ MotionHasDecision'
    BY <1>1 DEF ClockInScope, PendingMatches, MotionHasDecision
  <1>4. ReserveCoversPlan' /\ TruthInsideTube' /\ SupportsNeverErode'
    BY <1>1 DEF ReserveCoversPlan, TruthInsideTube, SupportsNeverErode
  <1>5. TankCoversLedger'
    BY <1>1 DEF Inv, TankCoversLedger
  <1>. QED
    BY <1>2, <1>3, <1>4, <1>5 DEF Inv

LEMMA ActivateReplacementInv == Inv /\ ActivateReplacement => Inv'
  <1>1. SUFFICES ASSUME Inv, ActivateReplacement PROVE Inv'
    OBVIOUS
  <1>2. PICK p \in Plans, h \in Holds : ReplacementAdmitted(p, h) /\ active_fallback' = p
    BY <1>1 DEF ActivateReplacement
  <1>3. /\ pending = None /\ UNCHANGED <<q, remaining_fuel_kg, pending, moved, truth, tank>>
        /\ ~moved /\ q \in Nat
        /\ active_fallback \in FleetFallbackPlan /\ admissible(active_fallback)
        /\ Valid(active_fallback) /\ truth \in segment_at(active_fallback, q).tube
    BY <1>1 DEF ActivateReplacement, Inv, TypeOK, MotionHasDecision, SupportsNeverErode, TruthInsideTube
  <1>4. Valid(p)
    BY <1>2, <1>3, PlanAssumption, KeptSupportsValid DEF ReplacementAdmitted
  <1>5. InScope(p, q)
    BY <1>2 DEF ReplacementAdmitted, HoldFits, InScope
  <1>6. truth \in segment_at(p, q).tube /\ Affords(remaining_fuel_kg, NoCharge, p, q)
    BY <1>2, <1>3 DEF ReplacementAdmitted
  <1>. QED
    BY <1>1, <1>2, <1>3, <1>4, <1>5, <1>6, SwitchInv

LEMMA InstallRuntimeInv == Inv /\ InstallRuntime => Inv'
  <1>1. SUFFICES ASSUME Inv, InstallRuntime PROVE Inv'
    OBVIOUS
  <1>2. PICK p \in Plans : Installable(p) /\ active_fallback' = p
    BY <1>1 DEF InstallRuntime
  <1>3. pending = None /\ UNCHANGED <<q, remaining_fuel_kg, pending, moved, truth, tank>>
    BY <1>1 DEF InstallRuntime
  <1>4. Valid(p) /\ InScope(p, q) /\ truth \in segment_at(p, q).tube
        /\ Affords(remaining_fuel_kg, NoCharge, p, q)
    BY <1>2, InstallableInScope
  <1>. QED
    BY <1>1, <1>2, <1>3, <1>4, SwitchInv

LEMMA NextInv == Inv /\ [Next]_vars => Inv'
  <1>1. CASE UNCHANGED vars
    <2>1. Inv => Inv'
      BY <1>1 DEF vars, Inv, TypeOK, ClockInScope, PendingMatches, MotionHasDecision,
                  ReserveCoversPlan, TruthInsideTube, TankCoversLedger, SupportsNeverErode
    <2>. QED
      BY <2>1
  <1>. QED
    BY <1>1, DecideFallbackInv, DecidePerformanceInv, ApplyHoldInv, CommitInv,
       ActivateReplacementInv, InstallRuntimeInv DEF Next

\* The runtime and the plant are always of their types, with the installed
\* plan complete and admissible (runtime.py:57-90).
THEOREM TypeCorrect == Spec => []TypeOK
  <1>1. Inv => TypeOK
    BY DEF Inv
  <1>. QED
    BY <1>1, InitInv, NextInv, PTL DEF Spec

\* The ledger always pays for the complete installed or pending plan.
THEOREM ReserveAlwaysCovers == Spec => []ReserveCoversPlan
  <1>1. Inv => ReserveCoversPlan
    BY DEF Inv
  <1>. QED
    BY <1>1, InitInv, NextInv, PTL DEF Spec

\* The fleet never leaves the tube of the plan in force.
THEOREM TruthStaysInside == Spec => []TruthInsideTube
  <1>1. Inv => TruthInsideTube
    BY DEF Inv
  <1>. QED
    BY <1>1, InitInv, NextInv, PTL DEF Spec

\* The real tanks never hold less than the ledger says.
THEOREM LedgerIsBacked == Spec => []TankCoversLedger
  <1>1. Inv => TankCoversLedger
    BY DEF Inv
  <1>. QED
    BY <1>1, InitInv, NextInv, PTL DEF Spec

\* The plan in force is paid for by the ledger and the ledger by the tanks,
\* so the stored route can be flown to its end from what is on board.
THEOREM PlansAreFunded == Spec => []PlansStayFunded
  <1>1. Inv => PlansStayFunded
    BY DEF Inv, PlansStayFunded
  <1>. QED
    BY <1>1, InitInv, NextInv, PTL DEF Spec

\* No chain of admissions erodes the charged disturbance or the clearance.
THEOREM SupportsAreKept == Spec => []SupportsNeverErode
  <1>1. Inv => SupportsNeverErode
    BY DEF Inv
  <1>. QED
    BY <1>1, InitInv, NextInv, PTL DEF Spec

\* Stored feedback is available at every idle clock of the window.
THEOREM FallbackNeverRefused == Spec => []FallbackAlwaysAvailable
  <1>1. Inv => FallbackAlwaysAvailable
    <2>1. SUFFICES ASSUME Inv, pending = None, NEW h \in Holds,
                          HoldFits(active_fallback, q, h), NEW a \in Agents
                   PROVE  h * segment_at(active_fallback, q).rate[a]
                            + remaining_fuel(active_fallback, q + h)[a] <= remaining_fuel_kg[a]
      BY DEF FallbackAlwaysAvailable, Affords
    <2>2. /\ active_fallback \in FleetFallbackPlan /\ admissible(active_fallback)
          /\ q \in Nat /\ h \in Nat /\ remaining_fuel_kg \in FleetFuel
      BY <2>1, BoundAssumption DEF Inv, TypeOK, Holds
    <2>3. remaining_fuel(active_fallback, q)[a] = h * segment_at(active_fallback, q).rate[a]
            + remaining_fuel(active_fallback, q + h)[a]
      BY <2>1, <2>2, HoldSplitsReserve
    <2>4. NoCharge[a] + remaining_fuel(active_fallback, q)[a] <= remaining_fuel_kg[a]
      BY <2>1 DEF Inv, ReserveCoversPlan, Affords
    <2>5. remaining_fuel(active_fallback, q)[a] \in Int
      BY <2>2, RemainingFuelType
    <2>6. remaining_fuel(active_fallback, q)[a] <= remaining_fuel_kg[a]
      BY <2>4, <2>5 DEF NoCharge
    <2>. QED
      BY <2>3, <2>6
  <1>. QED
    BY <1>1, InitInv, NextInv, PTL DEF Spec

\* The proof clock, the plan and the ledger only move together.
THEOREM OnlyCommitsAdvance == Spec => OnlyCommitAdvances
  <1>1. Inv /\ [Next]_vars => [AdvanceByCommit]_vars
    <2>1. SUFFICES ASSUME Inv, Next PROVE AdvanceByCommit
      BY DEF vars, AdvanceByCommit
    <2>2. pending = None => ~moved
      BY <2>1 DEF Inv, MotionHasDecision
    <2>3. CASE DecideFallback \/ DecidePerformance
      BY <2>3 DEF DecideFallback, DecidePerformance, AdvanceByCommit
    <2>4. CASE ApplyHold
      BY <2>4 DEF ApplyHold, AdvanceByCommit
    <2>5. CASE Commit
      BY <2>5 DEF Commit, DecisionEnd, AdvanceByCommit
    <2>6. CASE ActivateReplacement \/ InstallRuntime
      BY <2>2, <2>6 DEF ActivateReplacement, InstallRuntime, AdvanceByCommit
    <2>. QED
      BY <2>1, <2>3, <2>4, <2>5, <2>6 DEF Next
  <1>. QED
    BY <1>1, InitInv, NextInv, PTL DEF Spec, OnlyCommitAdvances

-----------------------------------------------------------------------------
(* The planner                                                             *)

SearchFields ==
  {"task", "at", "entry", "charge", "width", "regime", "prefix", "extra", "forecast", "step",
   "next", "plan"}

\* A refuge is searched at the present clock.
ForInstall(s) ==
  /\ s.task = "install" /\ turn = "refuge"
  /\ s.at = q
  /\ s.step \in {"witness", "ready"} => s.plan \in Plans

\* A successor is searched at the end of a hold of the plan in force.
ForSuccessor(s) ==
  /\ s.task = "successor" /\ turn \in {"propose", "decide"}
  /\ s.width \in Holds /\ s.at = q + s.width
  /\ s.entry \in SUBSET Cells \ {{}} /\ s.charge \in [Agents -> 0..MaxCharge]
  /\ s.step \in {"witness", "ready"} => s.plan \in Successors(s.at)

SearchMatches ==
  search # NoSearch =>
    /\ DOMAIN search = SearchFields
    /\ ForInstall(search) \/ ForSuccessor(search)

\* A decision is pending only in the turn of its hold.
TurnMatches ==
  /\ turn \in {"refuge", "propose", "decide", "hold"}
  /\ turn # "hold" => pending = None

PlannerInv == TurnMatches /\ SearchMatches

\* The same search, further on.
SameSearch(s) ==
  /\ DOMAIN s = SearchFields
  /\ s.task = search.task /\ s.at = search.at /\ s.width = search.width
  /\ s.entry = search.entry /\ s.charge = search.charge

MayHandOut(p) ==
  IF search.task = "install" THEN p \in Plans ELSE p \in Successors(search.at)

LEMMA InitPlannerInv == PlannerInit => PlannerInv
  BY DEF PlannerInit, Init, PlannerInv, TurnMatches, SearchMatches

\* A search in progress leaves the transaction alone.
LEMMA SearchContext ==
  ASSUME PlannerInv, search # NoSearch
  PROVE  /\ DOMAIN search = SearchFields /\ turn # "hold" /\ pending = None
         /\ search.task \in {"install", "successor"}
         /\ search.task = "install" => turn = "refuge"
         /\ search.task = "successor" => turn \in {"propose", "decide"}
  BY DEF PlannerInv, TurnMatches, SearchMatches, ForInstall, ForSuccessor

LEMMA ContinueInv ==
  ASSUME PlannerInv, search # NoSearch, NEW s, SameSearch(s),
         s.step \in {"witness", "ready"} => MayHandOut(s.plan),
         search' = s, UNCHANGED runtime,
         turn' = turn \/ (search.task = "successor" /\ turn' = "decide")
  PROVE  PlannerInv'
  <1>1. turn' # "hold" /\ TurnMatches'
    BY SearchContext DEF PlannerInv, TurnMatches, runtime
  <1>2. \A at : Successors(at)' = Successors(at)
    BY DEF Successors, runtime
  <1>3. CASE search.task = "install"
    <2>1. ForInstall(search)'
      BY <1>3 DEF PlannerInv, SearchMatches, ForInstall, ForSuccessor, SameSearch, MayHandOut,
                  runtime
    <2>. QED
      BY <1>1, <2>1 DEF PlannerInv, SearchMatches, SameSearch
  <1>4. CASE search.task = "successor"
    <2>1. ForSuccessor(search)'
      BY <1>2, <1>4 DEF PlannerInv, SearchMatches, ForInstall, ForSuccessor, SameSearch,
                        MayHandOut, runtime
    <2>. QED
      BY <1>1, <2>1 DEF PlannerInv, SearchMatches, SameSearch
  <1>. QED
    BY <1>3, <1>4, SearchContext

LEMMA RefuseInv ==
  ASSUME PlannerInv, search # NoSearch, Refuse
  PROVE  PlannerInv' /\ UNCHANGED vars
  BY SearchContext DEF Refuse, PlannerInv, TurnMatches, SearchMatches, runtime, vars

\* Going on without the prefix is the same search.
LEMMA AbandonInv ==
  ASSUME PlannerInv, search # NoSearch, Abandon
  PROVE  PlannerInv' /\ UNCHANGED vars
  <1>1. CASE search.task = "successor" /\ ExtendedForecast(search)
    <2> DEFINE s == [Legacy(search) EXCEPT !.step = "target"]
    <2>1. SameSearch(s) /\ s.step = "target"
      BY SearchContext DEF SameSearch, Legacy, SearchFields
    <2>2. search' = s /\ UNCHANGED <<runtime, turn>>
      BY <1>1 DEF Abandon, Continue
    <2>. HIDE DEF s
    <2>3. PlannerInv'
      BY <2>1, <2>2, ContinueInv
    <2>. QED
      BY <2>2, <2>3 DEF runtime, vars
  <1>2. CASE ~(search.task = "successor" /\ ExtendedForecast(search))
    BY <1>2, RefuseInv DEF Abandon
  <1>. QED
    BY <1>1, <1>2

-----------------------------------------------------------------------------
(* The search never touches the transaction, except to install its plan   *)

LEMMA ChooseForecastInv == PlannerInv /\ ChooseForecast => PlannerInv' /\ UNCHANGED vars
  <1>. SUFFICES ASSUME PlannerInv, ChooseForecast PROVE PlannerInv' /\ UNCHANGED vars
    OBVIOUS
  <1>1. search # NoSearch
    BY DEF ChooseForecast, At
  <1>2. CASE Eligible(search) = {}
    BY <1>1, <1>2, RefuseInv DEF ChooseForecast
  <1>3. CASE Eligible(search) # {}
    <2> DEFINE s == [search EXCEPT !.forecast = Longest(Eligible(search)), !.step = "forecast"]
    <2>1. SameSearch(s) /\ s.step = "forecast"
      BY <1>1, SearchContext DEF SameSearch, SearchFields
    <2>2. search' = s /\ UNCHANGED <<runtime, turn>>
      BY <1>3 DEF ChooseForecast, Continue
    <2>. HIDE DEF s
    <2>. QED
      BY <1>1, <2>1, <2>2, ContinueInv DEF runtime, vars
  <1>. QED
    BY <1>2, <1>3

\* A forecast that succeeds only names the next step of the search.
LEMMA ForecastInv == PlannerInv /\ (TargetForecast \/ PoseForecast) => PlannerInv' /\ UNCHANGED vars
  <1>. SUFFICES ASSUME PlannerInv, TargetForecast \/ PoseForecast PROVE PlannerInv' /\ UNCHANGED vars
    OBVIOUS
  <1>1. search # NoSearch
    BY DEF TargetForecast, PoseForecast, At
  <1>2. ASSUME NEW next \in {"route", "pose"}, Continue([search EXCEPT !.step = next])
        PROVE  PlannerInv' /\ UNCHANGED vars
    <2> DEFINE s == [search EXCEPT !.step = next]
    <2>1. SameSearch(s) /\ s.step = next
      BY <1>1, SearchContext DEF SameSearch, SearchFields
    <2>2. search' = s /\ UNCHANGED <<runtime, turn>>
      BY <1>2 DEF Continue
    <2>. HIDE DEF s
    <2>. QED
      BY <1>1, <2>1, <2>2, ContinueInv DEF runtime, vars
  <1>3. \/ \E next \in {"route", "pose"} : Continue([search EXCEPT !.step = next])
        \/ Abandon
    BY DEF TargetForecast, PoseForecast
  <1>. QED
    BY <1>1, <1>2, <1>3, AbandonInv

LEMMA NextRouteInv ==
  ASSUME PlannerInv, At("route"), NextRoute
  PROVE  PlannerInv' /\ UNCHANGED vars
  <1> DEFINE s == [search EXCEPT !.next = @ + 1]
  <1>1. SameSearch(s) /\ s.step = "route"
    BY SearchContext DEF At, SameSearch, SearchFields
  <1>2. search # NoSearch /\ search' = s /\ UNCHANGED <<runtime, turn>>
    BY DEF At, NextRoute, Continue
  <1>. HIDE DEF s
  <1>. QED
    BY <1>1, <1>2, ContinueInv DEF runtime, vars

\* What is accepted is a plan that starts where the search was begun.
LEMMA AcceptRouteInv == PlannerInv /\ AcceptRoute => PlannerInv' /\ UNCHANGED vars
  <1>. SUFFICES ASSUME PlannerInv, AcceptRoute PROVE PlannerInv' /\ UNCHANGED vars
    OBVIOUS
  <1>1. PICK p \in Constructed(search, Candidate) :
          Continue([search EXCEPT !.plan = p, !.step = "witness"])
    BY DEF AcceptRoute
  <1> DEFINE s == [search EXCEPT !.plan = p, !.step = "witness"]
  <1>2. search # NoSearch /\ search' = s /\ UNCHANGED <<runtime, turn>>
    BY <1>1 DEF AcceptRoute, At, Continue
  <1>3. SameSearch(s) /\ s.plan = p
    BY <1>2, SearchContext DEF SameSearch, SearchFields
  <1>4. MayHandOut(p)
    BY DEF Constructed, MayHandOut, Successors
  <1>. HIDE DEF s
  <1>. QED
    BY <1>2, <1>3, <1>4, ContinueInv DEF runtime, vars

LEMMA ExhaustedInv == PlannerInv /\ Exhausted => PlannerInv' /\ UNCHANGED vars
  <1>. SUFFICES ASSUME PlannerInv, Exhausted PROVE PlannerInv' /\ UNCHANGED vars
    OBVIOUS
  <1> DEFINE more == [search EXCEPT !.extra = TRUE, !.step = "target", !.next = 1]
             done == [search EXCEPT !.step = "exhausted"]
  <1>1. search # NoSearch
    BY DEF Exhausted, At
  <1>2. /\ SameSearch(more) /\ more.step = "target"
        /\ SameSearch(done) /\ done.step = "exhausted"
    BY <1>1, SearchContext DEF SameSearch, SearchFields
  <1>3. search' \in {more, done} /\ UNCHANGED <<runtime, turn>>
    BY DEF Exhausted, Continue
  <1>. HIDE DEF more, done
  <1>. QED
    BY <1>1, <1>2, <1>3, ContinueInv DEF runtime, vars

LEMMA PublishWitnessInv == PlannerInv /\ PublishWitness => PlannerInv' /\ UNCHANGED vars
  <1>. SUFFICES ASSUME PlannerInv, PublishWitness PROVE PlannerInv' /\ UNCHANGED vars
    OBVIOUS
  <1> DEFINE s == [search EXCEPT !.step = "ready"]
  <1>1. search # NoSearch /\ search.step = "witness"
    BY DEF PublishWitness, At
  <1>2. SameSearch(s) /\ s.plan = search.plan
    BY <1>1, SearchContext DEF SameSearch, SearchFields
  <1>3. MayHandOut(search.plan)
    BY <1>1 DEF PlannerInv, SearchMatches, ForInstall, ForSuccessor, MayHandOut
  <1>4. CASE Refuse
    BY <1>1, <1>4, RefuseInv
  <1>5. CASE ~Refuse
    <2>1. /\ search' = s /\ UNCHANGED runtime
          /\ turn' = turn \/ (search.task = "successor" /\ turn' = "decide")
      BY <1>5 DEF PublishWitness, Continue
    <2>. HIDE DEF s
    <2>. QED
      BY <1>1, <1>2, <1>3, <2>1, ContinueInv DEF runtime, vars
  <1>. QED
    BY <1>4, <1>5

\* The runtime built on a prepared plan is the one the transaction may install.
LEMMA InstallPreparedInv ==
  PlannerInv /\ InstallPrepared => PlannerInv' /\ (InstallRuntime \/ UNCHANGED vars)
  <1>. SUFFICES ASSUME PlannerInv, InstallPrepared
                PROVE  PlannerInv' /\ (InstallRuntime \/ UNCHANGED vars)
    OBVIOUS
  <1>1. search # NoSearch /\ search.step = "ready" /\ search.task = "install"
    BY DEF InstallPrepared, At
  <1>2. search.plan \in Plans /\ pending = None
    BY <1>1, SearchContext DEF PlannerInv, SearchMatches, ForInstall, ForSuccessor
  <1>3. PlannerInv'
    BY <1>2 DEF InstallPrepared, PlannerInv, TurnMatches, SearchMatches
  <1>4. InstallRuntime \/ UNCHANGED vars
    BY <1>2 DEF InstallPrepared, InstallRuntime, vars
  <1>. QED
    BY <1>3, <1>4

LEMMA SearchStepInv ==
  PlannerInv /\ SearchStep => PlannerInv' /\ (InstallRuntime \/ UNCHANGED vars)
  <1>. SUFFICES ASSUME PlannerInv, SearchStep
                PROVE  PlannerInv' /\ (InstallRuntime \/ UNCHANGED vars)
    OBVIOUS
  <1>1. CASE SkipRoute \/ RefuseRoute
    BY <1>1, NextRouteInv DEF SkipRoute, RefuseRoute
  <1>2. CASE RefuseAll
    BY <1>2, RefuseInv DEF RefuseAll, At
  <1>. QED
    BY <1>1, <1>2, ChooseForecastInv, ForecastInv, AcceptRouteInv, ExhaustedInv,
       PublishWitnessInv, InstallPreparedInv DEF SearchStep

-----------------------------------------------------------------------------
(* Beginning a search, and the holds                                       *)

LEMMA BeginInv ==
  PlannerInv /\ (RetainRuntime \/ Prepare \/ NoProposal \/ ProposeSuffix \/ PrepareSuccessor)
  => PlannerInv' /\ UNCHANGED vars
  <1>. SUFFICES ASSUME PlannerInv,
                       RetainRuntime \/ Prepare \/ NoProposal \/ ProposeSuffix \/ PrepareSuccessor
                PROVE  PlannerInv' /\ UNCHANGED vars
    OBVIOUS
  <1>1. UNCHANGED runtime /\ turn # "hold" /\ turn' # "hold" /\ TurnMatches'
    BY DEF RetainRuntime, Prepare, NoProposal, ProposeSuffix, PrepareSuccessor, Begin, runtime,
           PlannerInv, TurnMatches
  <1>2. UNCHANGED vars
    BY <1>1 DEF runtime, vars
  <1>3. CASE RetainRuntime \/ NoProposal
    BY <1>1, <1>2, <1>3 DEF RetainRuntime, NoProposal, PlannerInv, SearchMatches
  <1>4. CASE Prepare
    <2>1. DOMAIN search' = SearchFields /\ ForInstall(search)'
      BY <1>4 DEF Prepare, Begin, SearchFields, ForInstall, runtime
    <2>. QED
      BY <1>1, <1>2, <2>1 DEF PlannerInv, SearchMatches
  <1>5. \A at : Successors(at)' = Successors(at)
    BY <1>1 DEF Successors, runtime
  <1>6. CASE ProposeSuffix
    <2>1. PICK x \in Proposals :
            /\ HasSuffix(active_fallback, q + x.h)
            /\ search' = [task |-> "successor", at |-> q + x.h, entry |-> x.endpoints,
                          charge |-> x.c, width |-> x.h, regime |-> "far", prefix |-> FALSE,
                          extra |-> FALSE, forecast |-> 0, step |-> "ready", next |-> 1,
                          plan |-> suffix(active_fallback, q + x.h)]
      BY <1>6 DEF ProposeSuffix
    <2>2. x.h \in Holds /\ x.endpoints \in SUBSET Cells \ {{}} /\ x.c \in [Agents -> 0..MaxCharge]
      BY DEF Proposals
    <2>3. suffix(active_fallback, q + x.h) \in Successors(q + x.h)
      BY <2>1 DEF Successors
    <2>4. /\ DOMAIN search' = SearchFields
          /\ search'.task = "successor" /\ search'.at = q + x.h /\ search'.width = x.h
          /\ search'.entry = x.endpoints /\ search'.charge = x.c
          /\ search'.plan = suffix(active_fallback, q + x.h)
      BY <2>1 DEF SearchFields
    <2>5. turn' = "decide" /\ q' = q
      BY <1>1, <1>6 DEF ProposeSuffix, runtime
    <2>6. ForSuccessor(search)'
      BY <1>5, <2>2, <2>3, <2>4, <2>5 DEF ForSuccessor
    <2>. QED
      BY <1>1, <1>2, <2>4, <2>6 DEF PlannerInv, SearchMatches
  <1>7. CASE PrepareSuccessor
    <2>1. PICK x \in Proposals : \E regime \in Regimes :
            search' = [task |-> "successor", at |-> q + x.h, entry |-> x.endpoints,
                       charge |-> x.c, width |-> x.h, regime |-> regime,
                       prefix |-> Contingency /\ regime # "near", extra |-> FALSE,
                       forecast |-> 0, step |-> "target", next |-> 1, plan |-> NoSearch]
      BY <1>7 DEF PrepareSuccessor, Begin
    <2>2. x.h \in Holds /\ x.endpoints \in SUBSET Cells \ {{}} /\ x.c \in [Agents -> 0..MaxCharge]
      BY DEF Proposals
    <2>3. /\ DOMAIN search' = SearchFields
          /\ search'.task = "successor" /\ search'.at = q + x.h /\ search'.width = x.h
          /\ search'.entry = x.endpoints /\ search'.charge = x.c /\ search'.step = "target"
      BY <2>1 DEF SearchFields
    <2>4. turn' = "propose" /\ q' = q
      BY <1>1, <1>7 DEF PrepareSuccessor, Begin, runtime
    <2>5. ForSuccessor(search)'
      BY <2>2, <2>3, <2>4 DEF ForSuccessor
    <2>. QED
      BY <1>1, <1>2, <2>3, <2>5 DEF PlannerInv, SearchMatches
  <1>. QED
    BY <1>2, <1>3, <1>4, <1>6, <1>7

\* A prepared successor that is admitted is one the transaction may choose.
LEMMA DecidePreparedInv ==
  PlannerInv /\ DecidePrepared => PlannerInv' /\ DecidePerformance
  <1>. SUFFICES ASSUME PlannerInv, DecidePrepared PROVE PlannerInv' /\ DecidePerformance
    OBVIOUS
  <1>1. search # NoSearch /\ search.step = "ready" /\ search.task = "successor"
    BY DEF DecidePrepared, At
  <1>2. ForSuccessor(search) /\ pending = None
    BY <1>1, SearchContext DEF PlannerInv, SearchMatches, ForInstall
  <1>3. /\ search.width \in Holds
        /\ search.plan \in Successors(q + search.width)
        /\ search.entry \in SUBSET Cells \ {{}}
        /\ search.charge \in [Agents -> 0..MaxCharge]
    BY <1>1, <1>2 DEF ForSuccessor
  <1>4. /\ \E c \in FallbackCharges(search.width) : FallbackCharge(search.width, c)
        /\ Admissible(search.width, search.plan, search.entry, search.charge)
        /\ pending' = [source |-> "PERFORMANCE", start |-> q, hold_width |-> search.width,
                       charged_fuel |-> search.charge, successor |-> search.plan,
                       endpoints |-> search.entry]
        /\ search' = NoSearch /\ turn' = "hold"
        /\ UNCHANGED <<active_fallback, q, remaining_fuel_kg, moved, truth, tank>>
    BY DEF DecidePrepared
  <1>5. HoldFits(active_fallback, q, search.width)
    BY <1>4 DEF Admissible
  <1>6. DecidePerformance
    BY <1>2, <1>3, <1>4, <1>5 DEF DecidePerformance
  <1>. QED
    BY <1>4, <1>6 DEF PlannerInv, TurnMatches, SearchMatches

LEMMA HoldInv ==
  PlannerInv /\ (DecideStored \/ PlannedApply \/ PlannedCommit \/ PlannedReplacement)
  => PlannerInv' /\ Next
  <1>. SUFFICES ASSUME PlannerInv,
                       DecideStored \/ PlannedApply \/ PlannedCommit \/ PlannedReplacement
                PROVE  PlannerInv' /\ Next
    OBVIOUS
  <1>1. CASE DecideStored
    BY <1>1 DEF DecideStored, Next, PlannerInv, TurnMatches, SearchMatches
  <1>2. CASE PlannedApply
    <2>1. ApplyHold /\ turn = "hold" /\ search = NoSearch /\ UNCHANGED <<turn, search>>
      BY <1>2 DEF PlannedApply, ApplyHold, PlannerInv, TurnMatches, SearchMatches, ForInstall,
                  ForSuccessor
    <2>. QED
      BY <2>1 DEF Next, PlannerInv, TurnMatches, SearchMatches
  <1>3. CASE PlannedCommit
    <2>1. /\ Commit /\ turn = "hold" /\ search = NoSearch /\ search' = NoSearch
          /\ turn' \in {"propose", "refuge"} /\ pending' = None
      BY <1>3 DEF PlannedCommit, Commit, PlannerInv, TurnMatches, SearchMatches, ForInstall,
                  ForSuccessor
    <2>. QED
      BY <2>1 DEF Next, PlannerInv, TurnMatches, SearchMatches
  <1>4. CASE PlannedReplacement
    BY <1>4 DEF PlannedReplacement, ActivateReplacement, Next, PlannerInv, TurnMatches,
                SearchMatches
  <1>. QED
    BY <1>1, <1>2, <1>3, <1>4

\* Every step of the planner is a step of the transaction, or none.
LEMMA PlannerSimulates == PlannerInv /\ [PlannerNext]_svars => PlannerInv' /\ [Next]_vars
  <1>. SUFFICES ASSUME PlannerInv, [PlannerNext]_svars PROVE PlannerInv' /\ [Next]_vars
    OBVIOUS
  <1>1. CASE SearchStep
    BY <1>1, SearchStepInv DEF Next
  <1>2. CASE RetainRuntime \/ Prepare \/ NoProposal \/ ProposeSuffix \/ PrepareSuccessor
    BY <1>2, BeginInv
  <1>3. CASE DecidePrepared
    BY <1>3, DecidePreparedInv DEF Next
  <1>4. CASE DecideStored \/ PlannedApply \/ PlannedCommit \/ PlannedReplacement
    BY <1>4, HoldInv
  <1>5. CASE UNCHANGED svars
    <2>1. UNCHANGED <<runtime, turn, search>>
      BY <1>5 DEF svars
    <2>2. UNCHANGED vars
      BY <2>1 DEF runtime, vars
    <2>3. \A at : Successors(at)' = Successors(at)
      BY <2>1 DEF runtime, Successors
    <2>4. PlannerInv'
      BY <2>1, <2>3 DEF runtime, PlannerInv, TurnMatches, SearchMatches, ForInstall, ForSuccessor
    <2>. QED
      BY <2>2, <2>4
  <1>. QED
    BY <1>1, <1>2, <1>3, <1>4, <1>5 DEF PlannerNext, HoldStep

\* The planner only prepares: whatever it searches, retries, abandons or
\* retains, the runtime it serves takes the steps of the admission
\* transaction and no others.
THEOREM PlannerImplementsAdmission == PlannerSpec => ImplementsAdmission
  <1>1. PlannerInit => Init
    BY DEF PlannerInit
  <1>. QED
    BY <1>1, InitPlannerInv, PlannerSimulates, PTL DEF PlannerSpec, ImplementsAdmission

\* What the transaction keeps, it keeps under the planner: no chain of
\* searched plans spends fuel that is not there.
THEOREM PlannedFleetStaysFunded == PlannerSpec => []PlansStayFunded
  BY PlannerImplementsAdmission, PlansAreFunded DEF ImplementsAdmission, Spec

\* Nor does a searched plan ever leave the fleet outside the tube in force.
THEOREM PlannedFleetStaysInside == PlannerSpec => []TruthInsideTube
  BY PlannerImplementsAdmission, TruthStaysInside DEF ImplementsAdmission, Spec

-----------------------------------------------------------------------------
(* Certified orbital holds                                                 *)

MostError(r) == Coefficient + O!TotalError(service.context, r)

ProvenRecords ==
  [status : {"proven"}, context : Contexts, implementation : Sources, request : Requests,
   swept : [lo : Int, hi : Int], endpoint : [lo : Int, hi : Int]]

FlowIsProved ==
  /\ heldFlow \in ProvenRecords
  /\ heldFlow.context = service.context
  /\ O!Holds(heldFlow.request.entry, heldFlow.request.initial)
  /\ heldFlow.swept = O!PicardSwept(service.context, heldFlow.request)
  /\ heldFlow.endpoint = O!Refined(service.context, heldFlow.request)

\* Between its entry and now the least and the greatest rate were met.
OrbitAsBounded ==
  LET r == heldFlow.request
      least == r.input.lo - MostError(r)
      most == r.input.hi + MostError(r)
  IN  /\ heldFlow.status = "proven"
      /\ orbit \in [status : {"flying"}, at : Int, input : r.input.lo..r.input.hi, tick : 0..r.width]
      /\ r.initial.lo + orbit.tick * least <= orbit.at
      /\ orbit.at <= r.initial.hi + orbit.tick * most

OrbitalInv ==
  /\ service \in [context : Contexts, source : Sources] /\ sourceFile \in Sources
  /\ savedHold.status = "proven" => savedHold \in ProvenRecords
  /\ heldFlow.status = "proven" => FlowIsProved
  /\ orbit # O!None => OrbitAsBounded

LEMMA PairMax ==
  ASSUME NEW a \in Int, NEW b \in Int
  PROVE  O!Max({a, b}) = (IF a <= b THEN b ELSE a)
  <1>1. (IF a <= b THEN b ELSE a) \in {a, b} /\ \A y \in {a, b} : (IF a <= b THEN b ELSE a) >= y
    OBVIOUS
  <1>2. \A x \in {a, b} : (\A y \in {a, b} : x >= y) => x = (IF a <= b THEN b ELSE a)
    OBVIOUS
  <1>. QED
    BY <1>1, <1>2 DEF O!Max

LEMMA PairMin ==
  ASSUME NEW a \in Int, NEW b \in Int
  PROVE  O!Min({a, b}) = (IF a <= b THEN a ELSE b)
  <1>1. (IF a <= b THEN a ELSE b) \in {a, b} /\ \A y \in {a, b} : (IF a <= b THEN a ELSE b) <= y
    OBVIOUS
  <1>2. \A x \in {a, b} : (\A y \in {a, b} : x <= y) => x = (IF a <= b THEN a ELSE b)
    OBVIOUS
  <1>. QED
    BY <1>1, <1>2 DEF O!Min

\* A box moved for a time, from within a box that holds it.
LEMMA MovedLow ==
  ASSUME NEW a \in Int, NEW e \in Int, e <= a, NEW f \in Int, NEW w \in Nat, NEW k \in 0..w
  PROVE  e <= a + k * f \/ e + w * f <= a + k * f
  <1>1. CASE f >= 0
    <2>1. k * f >= 0
      BY <1>1
    <2>. QED
      BY <2>1
  <1>2. CASE f < 0
    <2>1. (w - k) * f <= 0
      BY <1>2
    <2>2. (w - k) * f = w * f - k * f
      OBVIOUS
    <2>. QED
      BY <2>1, <2>2
  <1>. QED
    BY <1>1, <1>2

LEMMA MovedHigh ==
  ASSUME NEW a \in Int, NEW e \in Int, a <= e, NEW f \in Int, NEW w \in Nat, NEW k \in 0..w
  PROVE  a + k * f <= e \/ a + k * f <= e + w * f
  <1>1. CASE f <= 0
    <2>1. k * f <= 0
      BY <1>1
    <2>. QED
      BY <2>1
  <1>2. CASE f > 0
    <2>1. (w - k) * f >= 0
      BY <1>2
    <2>2. (w - k) * f = w * f - k * f
      OBVIOUS
    <2>. QED
      BY <2>1, <2>2
  <1>. QED
    BY <1>1, <1>2

LEMMA OneMore == ASSUME NEW k \in Int, NEW f \in Int PROVE (k + 1) * f = k * f + f /\ k * f \in Int
  OBVIOUS

LEMMA RequestTyped ==
  ASSUME NEW r \in Requests
  PROVE  /\ r.width \in Nat \ {0} /\ r.delivery \in Nat /\ r.start \in Int
         /\ r.initial.lo \in Int /\ r.initial.hi \in Int /\ r.initial.lo <= r.initial.hi
         /\ r.entry.lo \in Int /\ r.entry.hi \in Int
         /\ r.input.lo \in Int /\ r.input.hi \in Int /\ r.input.lo <= r.input.hi
  <1>1. r \in [initial : O!Boxes, entry : O!Boxes, input : O!Boxes,
                delivery : Nat, start : Int, width : Nat \ {0}]
    BY GuidanceInstances DEF O!OrbitalAssumption
  <1>. QED
    BY <1>1 DEF O!Boxes

LEMMA ErrorTyped ==
  ASSUME NEW r \in Requests, NEW c \in Contexts
  PROVE  /\ O!TotalError(c, r) \in Nat /\ Coefficient \in Nat
         /\ Coefficient + O!TotalError(c, r) \in Nat
  <1>1. c \in [disturbance : Nat, authority : Nat, domain : Nat] /\ Coefficient \in Nat
    BY GuidanceInstances DEF O!OrbitalAssumption
  <1>. QED
    BY <1>1, RequestTyped DEF O!TotalError

\* The boxes of a proof, by their numbers.
LEMMA ProofBoxes ==
  ASSUME NEW r \in Requests, NEW c \in Contexts, NEW e \in Nat, e = Coefficient + O!TotalError(c, r)
  PROVE  /\ O!PicardSwept(c, r) \in [lo : Int, hi : Int]
         /\ O!Refined(c, r) \in [lo : Int, hi : Int]
         /\ O!PicardSwept(c, r).lo <= r.entry.lo
         /\ O!PicardSwept(c, r).lo <= r.entry.lo + r.width * (r.input.lo - e)
         /\ r.entry.hi <= O!PicardSwept(c, r).hi
         /\ r.entry.hi + r.width * (r.input.hi + e) <= O!PicardSwept(c, r).hi
         /\ \/ O!Refined(c, r).lo = r.initial.lo + r.width * (r.input.lo - e)
            \/ O!Refined(c, r).lo = r.entry.lo + r.width * (r.input.lo - e)
         /\ \/ O!Refined(c, r).hi = r.initial.hi + r.width * (r.input.hi + e)
            \/ O!Refined(c, r).hi = r.entry.hi + r.width * (r.input.hi + e)
  <1>. PICK w \in Nat : w = r.width
    BY RequestTyped
  <1>. PICK l \in Int, h \in Int : l = r.input.lo /\ h = r.input.hi
    BY RequestTyped
  <1>. PICK a \in Int, b \in Int : a = r.initial.lo /\ b = r.initial.hi
    BY RequestTyped
  <1>. PICK lower \in Int, upper \in Int : lower = r.entry.lo /\ upper = r.entry.hi
    BY RequestTyped
  <1>. PICK le \in Int, he \in Int : le = l - e /\ he = h + e
    OBVIOUS
  <1>. PICK u \in Int, v \in Int : u = w * le /\ v = w * he
    OBVIOUS
  <1>1. O!PicardEndpoint(c, r) = [lo |-> lower + u, hi |-> upper + v]
    BY DEF O!PicardEndpoint, O!HeldField, O!Moved, O!Widen, O!Span
  <1>2. O!PicardSwept(c, r) = [lo |-> O!Min({lower, lower + u}), hi |-> O!Max({upper, upper + v})]
    BY <1>1 DEF O!PicardSwept, O!Span
  <1>3. O!VocEndpoint(c, r) = [lo |-> a + w * l - w * e, hi |-> b + w * h + w * e]
    BY DEF O!VocEndpoint, O!Moved, O!Widen, O!Span
  <1>4. w * l - w * e = u /\ w * h + w * e = v /\ w * l \in Int /\ w * h \in Int /\ w * e \in Int
    OBVIOUS
  <1>5. O!VocEndpoint(c, r) = [lo |-> a + u, hi |-> b + v]
    BY <1>3, <1>4
  <1>6. O!Refined(c, r) = [lo |-> O!Max({a + u, lower + u}), hi |-> O!Min({b + v, upper + v})]
    BY <1>1, <1>5 DEF O!Refined, O!Common, O!Span
  <1>7. /\ O!Min({lower, lower + u}) \in Int /\ O!Min({lower, lower + u}) <= lower /\ O!Min({lower, lower + u}) <= lower + u
        /\ O!Max({upper, upper + v}) \in Int /\ upper <= O!Max({upper, upper + v}) /\ upper + v <= O!Max({upper, upper + v})
    BY PairMin, PairMax
  <1>8. O!Max({a + u, lower + u}) \in {a + u, lower + u} /\ O!Min({b + v, upper + v}) \in {b + v, upper + v}
    <2>1. a + u \in Int /\ lower + u \in Int /\ b + v \in Int /\ upper + v \in Int
      OBVIOUS
    <2>. QED
      BY ONLY <2>1, PairMin, PairMax
  <1>. QED
    BY <1>2, <1>6, <1>7, <1>8

LEMMA ProofIsARecord ==
  ASSUME NEW r \in Requests, OrbitalInv, O!Allowed(r),
         NEW rec, rec = O!HoldRecord(service.context, r, "proven")
  PROVE  /\ rec \in ProvenRecords /\ rec.context = service.context
         /\ O!Holds(rec.request.entry, rec.request.initial)
         /\ rec.swept = O!PicardSwept(service.context, rec.request)
         /\ rec.endpoint = O!Refined(service.context, rec.request)
  <1>1. service.context \in Contexts /\ service.source \in Sources
    BY DEF OrbitalInv
  <1>2. PICK e \in Nat : e = Coefficient + O!TotalError(service.context, r)
    BY <1>1, ErrorTyped
  <1>. QED
    BY <1>1, <1>2, ProofBoxes DEF O!HoldRecord, ProvenRecords, O!Allowed

\* What a service proves or rebuilds: a proof of its own, or nothing.
LEMMA ProofsAreRecords ==
  ASSUME NEW r \in Requests, OrbitalInv, O!Proofs(r) # {}, NEW rec \in O!Proofs(r), rec.status = "proven"
  PROVE  O!Allowed(r) /\ rec = O!HoldRecord(service.context, r, "proven")
  BY DEF O!Proofs, O!HoldRecord

LEMMA ProveKeeps ==
  ASSUME OrbitalInv, NEW r \in Requests, O!Prove(r)
  PROVE  OrbitalInv'
  <1>1. heldFlow' \in O!Proofs(r)
    BY DEF O!Prove
  <1>2. heldFlow'.status = "proven" => FlowIsProved'
    <2>. SUFFICES ASSUME heldFlow'.status = "proven" PROVE FlowIsProved'
      OBVIOUS
    <2>. PICK rec : rec = heldFlow'
      OBVIOUS
    <2>1. O!Allowed(r) /\ rec = O!HoldRecord(service.context, r, "proven")
      BY <1>1, ProofsAreRecords
    <2>2. service' = service
      BY DEF O!Prove
    <2>. QED
      BY <2>1, <2>2, ProofIsARecord DEF FlowIsProved, ProvenRecords
  <1>. QED
    BY <1>2 DEF OrbitalInv, O!Prove, ProvenRecords

LEMMA RebuildKeeps ==
  ASSUME OrbitalInv, O!Rebuild
  PROVE  OrbitalInv'
  <1>1. heldFlow' \in O!Rebuilt(savedHold)
    BY DEF O!Rebuild
  <1>2. heldFlow'.status = "proven" => FlowIsProved'
    <2>. SUFFICES ASSUME heldFlow'.status = "proven" PROVE FlowIsProved'
      OBVIOUS
    <2>. PICK rec : rec = heldFlow'
      OBVIOUS
    <2>1. rec \in O!Proofs(savedHold.request) /\ savedHold.status = "proven"
      BY <1>1 DEF O!Rebuilt
    <2>2. savedHold.request \in Requests
      BY <2>1 DEF OrbitalInv, ProvenRecords
    <2>3. O!Allowed(savedHold.request) /\ rec = O!HoldRecord(service.context, savedHold.request, "proven")
      BY <2>1, <2>2, ProofsAreRecords
    <2>4. service' = service
      BY DEF O!Rebuild
    <2>. QED
      BY <2>2, <2>3, <2>4, ProofIsARecord DEF FlowIsProved, ProvenRecords
  <1>. QED
    BY <1>2 DEF OrbitalInv, O!Rebuild, ProvenRecords

LEMMA EvidenceKeeps ==
  ASSUME OrbitalInv, O!EvidenceDiffers
  PROVE  OrbitalInv'
  <1>1. savedHold \in ProvenRecords
    BY DEF O!EvidenceDiffers, OrbitalInv
  <1>2. savedHold' \in ProvenRecords
    <2>1. CASE savedHold' = [savedHold EXCEPT !.endpoint = O!Span(@.lo + 1, @.hi)]
      BY <1>1, <2>1 DEF ProvenRecords, O!Span
    <2>2. CASE \E r \in Requests : savedHold' = [savedHold EXCEPT !.request = r]
      BY <1>1, <2>2 DEF ProvenRecords
    <2>. QED
      BY <2>1, <2>2 DEF O!EvidenceDiffers
  <1>. QED
    BY <1>2 DEF OrbitalInv, O!EvidenceDiffers, FlowIsProved, ProvenRecords, OrbitAsBounded, MostError

LEMMA EnterKeeps ==
  ASSUME OrbitalInv, O!EnterHold
  PROVE  OrbitalInv'
  <1>. PICK r : r = heldFlow.request
    OBVIOUS
  <1>1. r \in Requests /\ service.context \in Contexts /\ FlowIsProved
    BY DEF O!EnterHold, OrbitalInv, FlowIsProved, ProvenRecords
  <1>2. PICK e \in Nat : e = MostError(r)
    BY <1>1, ErrorTyped DEF MostError
  <1>3. PICK at \in {r.initial.lo, r.initial.hi}, input \in {r.input.lo, r.input.hi} :
          orbit' = [status |-> "flying", at |-> at, input |-> input, tick |-> 0]
    BY DEF O!EnterHold
  <1>4. at \in Int /\ input \in r.input.lo..r.input.hi /\ r.initial.lo <= at /\ at <= r.initial.hi
        /\ 0 \in 0..r.width /\ r.input.lo - e \in Int /\ r.input.hi + e \in Int
    BY <1>1, <1>3, RequestTyped
  <1>5. /\ r.initial.lo + 0 * (r.input.lo - e) <= at
        /\ at <= r.initial.hi + 0 * (r.input.hi + e)
    BY <1>1, <1>4, RequestTyped
  <1>6. UNCHANGED <<service, sourceFile, savedHold, heldFlow>> /\ heldFlow.status = "proven"
    BY DEF O!EnterHold
  <1>7. OrbitAsBounded'
    BY <1>2, <1>3, <1>4, <1>5, <1>6 DEF OrbitAsBounded, MostError
  <1>. QED
    BY <1>6, <1>7 DEF OrbitalInv, FlowIsProved, ProvenRecords

LEMMA CoastKeeps ==
  ASSUME OrbitalInv, O!Coast
  PROVE  OrbitalInv'
  <1>. PICK r : r = heldFlow.request
    OBVIOUS
  <1>0. orbit # O!None /\ OrbitAsBounded /\ heldFlow.status = "proven"
    BY DEF O!Coast, OrbitalInv, OrbitAsBounded
  <1>1. r \in Requests /\ service.context \in Contexts /\ FlowIsProved
    BY <1>0 DEF OrbitalInv, FlowIsProved, ProvenRecords
  <1>2. PICK e \in Nat : e = MostError(r)
    BY <1>1, ErrorTyped DEF MostError
  <1>3. PICK error \in {-e, 0, e} : orbit' = [orbit EXCEPT !.at = @ + orbit.input + error, !.tick = @ + 1]
    BY <1>2 DEF O!Coast, MostError
  <1>. PICK w \in Nat : w = r.width
    BY <1>1, RequestTyped
  <1>. PICK l \in Int, h \in Int, a \in Int, b \in Int :
         l = r.input.lo /\ h = r.input.hi /\ a = r.initial.lo /\ b = r.initial.hi
    BY <1>1, RequestTyped
  <1>4. orbit \in [status : {"flying"}, at : Int, input : l..h, tick : 0..w]
    BY <1>0 DEF OrbitAsBounded
  <1>5. PICK k \in 0..w, x \in Int, i \in l..h : k = orbit.tick /\ x = orbit.at /\ i = orbit.input
    BY <1>4
  <1>6. k < w /\ a + k * (l - e) <= x /\ x <= b + k * (h + e)
    BY <1>0, <1>2, <1>5 DEF OrbitAsBounded, O!Coast
  <1>7. k \in Int /\ l - e \in Int /\ h + e \in Int
    OBVIOUS
  <1>8. /\ (k + 1) * (l - e) = k * (l - e) + (l - e) /\ (k + 1) * (h + e) = k * (h + e) + (h + e)
        /\ k * (l - e) \in Int /\ k * (h + e) \in Int
    BY ONLY <1>7, OneMore
  <1>9. a + (k + 1) * (l - e) <= x + i + error /\ x + i + error <= b + (k + 1) * (h + e)
    BY <1>6, <1>8
  <1>10. /\ orbit' \in [status : {"flying"}, at : Int, input : l..h, tick : 0..w]
         /\ orbit'.tick = k + 1 /\ orbit'.at = x + i + error
    <2>1. k + 1 \in 0..w /\ x + i + error \in Int
      BY <1>6
    <2>2. orbit' = [status |-> orbit.status, at |-> x + i + error, input |-> i, tick |-> k + 1]
      BY <1>3, <1>4, <1>5
    <2>. QED
      BY <1>4, <1>5, <2>1, <2>2
  <1>11. UNCHANGED <<service, sourceFile, savedHold, heldFlow>>
    BY DEF O!Coast
  <1>12. OrbitAsBounded'
    BY <1>0, <1>2, <1>9, <1>10, <1>11 DEF OrbitAsBounded, MostError
  <1>. QED
    BY <1>11, <1>12 DEF OrbitalInv, FlowIsProved, ProvenRecords

LEMMA OrbitalKept ==
  ASSUME OrbitalInv, [O!OrbitalNext]_orbital
  PROVE  OrbitalInv'
  <1>1. CASE UNCHANGED orbital
    BY <1>1 DEF orbital, OrbitalInv, FlowIsProved, ProvenRecords, OrbitAsBounded, MostError
  <1>2. CASE O!SaveEvidence
    BY <1>2 DEF O!SaveEvidence, OrbitalInv, FlowIsProved, ProvenRecords
  <1>3. CASE O!Restart
    BY <1>3 DEF O!Restart, OrbitalInv, O!None
  <1>4. CASE O!SourceEdited
    BY <1>4 DEF O!SourceEdited, OrbitalInv, FlowIsProved, ProvenRecords, OrbitAsBounded, MostError
  <1>. QED
    BY <1>1, <1>2, <1>3, <1>4, ProveKeeps, RebuildKeeps, EvidenceKeeps, EnterKeeps, CoastKeeps
    DEF O!OrbitalNext

LEMMA OrbitalBounds ==
  ASSUME OrbitalInv
  PROVE  O!ReliedFlowsKeepTheMotion
  <1>. SUFFICES ASSUME orbit # O!None
                PROVE  /\ heldFlow.swept.lo <= orbit.at /\ orbit.at <= heldFlow.swept.hi
                       /\ orbit.tick = heldFlow.request.width =>
                            heldFlow.endpoint.lo <= orbit.at /\ orbit.at <= heldFlow.endpoint.hi
    BY DEF O!ReliedFlowsKeepTheMotion
  <1>. PICK r : r = heldFlow.request
    OBVIOUS
  <1>0. OrbitAsBounded /\ FlowIsProved
    BY DEF OrbitalInv, OrbitAsBounded
  <1>1. r \in Requests /\ service.context \in Contexts
    BY <1>0 DEF OrbitalInv, FlowIsProved, ProvenRecords
  <1>2. PICK e \in Nat : e = MostError(r)
    BY <1>1, ErrorTyped DEF MostError
  <1>. PICK w \in Nat : w = r.width
    BY <1>1, RequestTyped
  <1>. PICK l \in Int, h \in Int, a \in Int, b \in Int, lower \in Int, upper \in Int :
         /\ l = r.input.lo /\ h = r.input.hi /\ a = r.initial.lo /\ b = r.initial.hi
         /\ lower = r.entry.lo /\ upper = r.entry.hi
    BY <1>1, RequestTyped
  <1>. PICK f \in Int, g \in Int : f = l - e /\ g = h + e
    OBVIOUS
  <1>3. PICK k \in 0..w, x \in Int : k = orbit.tick /\ x = orbit.at
    BY <1>0 DEF OrbitAsBounded
  <1>4. a + k * f <= x /\ x <= b + k * g
    BY <1>0, <1>2, <1>3 DEF OrbitAsBounded
  <1>5. lower <= a /\ b <= upper
    BY <1>0 DEF FlowIsProved, O!Holds
  <1>6. PICK swept \in [lo : Int, hi : Int], endpoint \in [lo : Int, hi : Int] :
          swept = heldFlow.swept /\ endpoint = heldFlow.endpoint
    BY <1>0 DEF FlowIsProved, ProvenRecords
  <1>7. /\ swept.lo <= lower /\ swept.lo <= lower + w * f /\ upper <= swept.hi /\ upper + w * g <= swept.hi
        /\ endpoint.lo = a + w * f \/ endpoint.lo = lower + w * f
        /\ endpoint.hi = b + w * g \/ endpoint.hi = upper + w * g
    BY <1>0, <1>1, <1>2, <1>6, ProofBoxes DEF FlowIsProved, MostError
  <1>8. k * f \in Int /\ k * g \in Int /\ w * f \in Int /\ w * g \in Int
    OBVIOUS
  <1>9. lower <= a + k * f \/ lower + w * f <= a + k * f
    BY <1>5, MovedLow
  <1>10. b + k * g <= upper \/ b + k * g <= upper + w * g
    BY <1>5, MovedHigh
  <1>11. swept.lo <= x /\ x <= swept.hi
    BY <1>4, <1>6, <1>7, <1>8, <1>9, <1>10
  <1>12. k = w => endpoint.lo <= x /\ x <= endpoint.hi
    BY <1>4, <1>5, <1>6, <1>7, <1>8
  <1>. QED
    BY <1>3, <1>6, <1>11, <1>12

\* The orbit a hold is flown on stays in the swept box of the record that was
\* relied on, and at its end in the endpoint box, for every context, set of
\* requests, source and thrust coefficient: whether the record was made for this
\* flight or read back from the archive by a later source.
THEOREM OrbitalHoldsKeepTheMotion == GuidanceSpec => []ReliedFlowsKeepTheMotion
  <1> DEFINE I == part = "orbital" => OrbitalInv
  <1>1. GuidanceInit => I
    BY DEF GuidanceInit, O!OrbitalInit, OrbitalInv, O!None
  <1>2. I /\ [GuidanceNext]_<<part, holds, orbital, sampled, continuation, geometry, deployment, attitude>> => I'
    <2>. SUFFICES ASSUME I, [GuidanceNext]_<<part, holds, orbital, sampled, continuation, geometry, deployment, attitude>>,
                         part' = "orbital"
                  PROVE  OrbitalInv'
      OBVIOUS
    <2>1. part = "orbital" /\ [O!OrbitalNext]_orbital
      BY DEF GuidanceNext, ProveHolds, ProveOrbitalHolds, TrackSamples, ContinueOnBackup, SeparateBodies,
             Deploy, TrackAttitudes
    <2>. QED
      BY <2>1, OrbitalKept
  <1>3. I => ReliedFlowsKeepTheMotion
    BY OrbitalBounds DEF ReliedFlowsKeepTheMotion
  <1>. QED
    BY <1>1, <1>2, <1>3, PTL DEF GuidanceSpec
-----------------------------------------------------------------------------
(* The boxes of a flow, the places of a motion, the stages of a chain      *)

BoxesOf(f, entry, input, n) ==
  f = [i \in 0..n |-> IF i = 0 THEN entry ELSE B!Reached(f[i - 1], input)]

PlacesOf(f, from, u, d, n) ==
  f = [i \in 0..n |-> IF i = 0 THEN from ELSE 2 * f[i - 1] + u + d[i]]

StagesOf(f, initial, controls, n) ==
  f = [i \in 1..n |->
         IF i = 1 THEN B!BackupStage(0, initial, controls[1])
         ELSE B!BackupStage(B!EndClock(f[i - 1]), B!Endpoint(f[i - 1].flow), controls[i])]

\* A set of numbers that is not empty has a least one.
LEMMA Least ==
  ASSUME NEW failing, failing \subseteq Nat, failing # {}
  PROVE  \E m \in failing : \A k \in failing : m <= k
  <1>1. \E m \in failing : \A k \in failing : ~(<<k, m>> \in OpToRel(<, Nat))
    <2>1. failing # {} /\ failing \subseteq Nat
      OBVIOUS
    <2>. QED
      BY ONLY <2>1, WFMin, NatLessThanWellFounded
  <1>2. PICK m \in failing : \A k \in failing : ~(k < m)
    BY <1>1 DEF OpToRel
  <1>. QED
    BY <1>2

LEMMA BoxesExist ==
  ASSUME NEW entry, NEW input, NEW n \in Nat
  PROVE  \E f : BoxesOf(f, entry, input, n)
  <1>. DEFINE failing == {m \in Nat : ~\E f : BoxesOf(f, entry, input, m)}
  <1>. SUFFICES ASSUME failing # {} PROVE FALSE
    OBVIOUS
  <1>1. PICK m \in failing : \A k \in failing : m <= k
    BY Least
  <1>2. BoxesOf([i \in 0..0 |-> entry], entry, input, 0)
    BY DEF BoxesOf
  <1>3. m \in Nat \ {0}
    BY <1>1, <1>2
  <1>4. PICK f : BoxesOf(f, entry, input, m - 1)
    BY <1>1, <1>3
  <1>. DEFINE g == [i \in 0..m |-> IF i < m THEN f[i] ELSE B!Reached(f[m - 1], input)]
  <1>5. ASSUME NEW i \in 0..m
        PROVE  g[i] = IF i = 0 THEN entry ELSE B!Reached(g[i - 1], input)
    <2>1. CASE i = 0
      <3>1. 0 \in 0..m - 1 /\ 0 < m
        BY <1>3
      <3>. QED
        BY <1>4, <2>1, <3>1 DEF BoxesOf
    <2>2. CASE i # 0 /\ i < m
      <3>1. i \in 0..m - 1 /\ i - 1 \in 0..m /\ i - 1 < m
        BY <1>3, <2>2
      <3>2. f[i] = B!Reached(f[i - 1], input)
        BY <1>4, <2>2, <3>1 DEF BoxesOf
      <3>. QED
        BY <2>2, <3>1, <3>2
    <2>3. CASE i = m
      <3>1. m - 1 \in 0..m /\ m - 1 < m /\ m # 0 /\ ~(m < m)
        BY <1>3
      <3>. QED
        BY <2>3, <3>1
    <2>. QED
      BY <1>3, <2>1, <2>2, <2>3
  <1>6. BoxesOf(g, entry, input, m)
    <2>. HIDE DEF g
    <2>1. g = [i \in 0..m |-> g[i]]
      BY DEF g
    <2>. QED
      BY <1>5, <2>1 DEF BoxesOf
  <1>. QED
    BY <1>1, <1>6

LEMMA PlacesExist ==
  ASSUME NEW from, NEW u, NEW d, NEW n \in Nat
  PROVE  PlacesOf(B!Places(from, u, d, n), from, u, d, n)
  <1>. DEFINE failing == {m \in Nat : ~\E f : PlacesOf(f, from, u, d, m)}
  <1>1. failing = {}
    <2>. SUFFICES ASSUME failing # {} PROVE FALSE
      OBVIOUS
    <2>1. PICK m \in failing : \A k \in failing : m <= k
      BY Least
    <2>2. PlacesOf([i \in 0..0 |-> from], from, u, d, 0)
      BY DEF PlacesOf
    <2>3. m \in Nat \ {0}
      BY <2>1, <2>2
    <2>4. PICK f : PlacesOf(f, from, u, d, m - 1)
      BY <2>1, <2>3
    <2>. DEFINE g == [i \in 0..m |-> IF i < m THEN f[i] ELSE 2 * f[m - 1] + u + d[m]]
    <2>5. ASSUME NEW i \in 0..m
          PROVE  g[i] = IF i = 0 THEN from ELSE 2 * g[i - 1] + u + d[i]
      <3>1. CASE i = 0
        <4>1. 0 \in 0..m - 1 /\ 0 < m
          BY <2>3
        <4>. QED
          BY <2>4, <3>1, <4>1 DEF PlacesOf
      <3>2. CASE i # 0 /\ i < m
        <4>1. i \in 0..m - 1 /\ i - 1 \in 0..m /\ i - 1 < m
          BY <2>3, <3>2
        <4>2. f[i] = 2 * f[i - 1] + u + d[i]
          BY <2>4, <3>2, <4>1 DEF PlacesOf
        <4>. QED
          BY <3>2, <4>1, <4>2
      <3>3. CASE i = m
        <4>1. m - 1 \in 0..m /\ m - 1 < m /\ m # 0 /\ ~(m < m)
          BY <2>3
        <4>. QED
          BY <3>3, <4>1
      <3>. QED
        BY <2>3, <3>1, <3>2, <3>3
    <2>6. PlacesOf(g, from, u, d, m)
      <3>. HIDE DEF g
      <3>1. g = [i \in 0..m |-> g[i]]
        BY DEF g
      <3>. QED
        BY <2>5, <3>1 DEF PlacesOf
    <2>. QED
      BY <2>1, <2>6
  <1>2. PICK f : PlacesOf(f, from, u, d, n)
    BY <1>1
  <1>3. PlacesOf(CHOOSE x : PlacesOf(x, from, u, d, n), from, u, d, n)
    BY <1>2
  <1>4. B!Places(from, u, d, n) = CHOOSE x : PlacesOf(x, from, u, d, n)
    BY DEF B!Places, PlacesOf
  <1>. QED
    BY <1>3, <1>4

LEMMA StagesExist ==
  ASSUME NEW initial, NEW controls, Len(controls) \in Nat
  PROVE  StagesOf(B!Stages(initial, controls), initial, controls, Len(controls))
  <1>. DEFINE failing == {m \in Nat : ~\E f : StagesOf(f, initial, controls, m)}
  <1>1. failing = {}
    <2>. SUFFICES ASSUME failing # {} PROVE FALSE
      OBVIOUS
    <2>1. PICK m \in failing : \A k \in failing : m <= k
      BY Least
    <2>2. StagesOf(<<>>, initial, controls, 0)
      BY DEF StagesOf
    <2>3. m \in Nat \ {0}
      BY <2>1, <2>2
    <2>4. PICK f : StagesOf(f, initial, controls, m - 1)
      BY <2>1, <2>3
    <2>. DEFINE StageAt(i, h) == IF i = 1 THEN B!BackupStage(0, initial, controls[1])
                                 ELSE B!BackupStage(B!EndClock(h[i - 1]), B!Endpoint(h[i - 1].flow), controls[i])
    <2>. DEFINE g == [i \in 1..m |-> IF i < m THEN f[i] ELSE StageAt(m, f)]
    <2>5. ASSUME NEW i \in 1..m
          PROVE  g[i] = StageAt(i, g)
      <3>1. CASE i < m
        <4>1. i \in 1..m - 1 /\ (i # 1 => i - 1 \in 1..m /\ i - 1 < m)
          BY <2>3, <3>1
        <4>2. f[i] = StageAt(i, f)
          BY <2>4, <3>1, <4>1 DEF StagesOf
        <4>. QED
          BY <3>1, <4>1, <4>2
      <3>2. CASE i = m
        <4>1. (m # 1 => m - 1 \in 1..m /\ m - 1 < m) /\ ~(m < m)
          BY <2>3
        <4>. QED
          BY <3>2, <4>1
      <3>. QED
        BY <2>3, <3>1, <3>2
    <2>6. StagesOf(g, initial, controls, m)
      <3>. HIDE DEF g
      <3>1. g = [i \in 1..m |-> g[i]]
        BY DEF g
      <3>. QED
        BY <2>5, <3>1 DEF StagesOf
    <2>. QED
      BY <2>1, <2>6
  <1>. DEFINE n == Len(controls)
  <1>2. PICK f : StagesOf(f, initial, controls, n)
    BY <1>1
  <1>3. StagesOf(CHOOSE x : StagesOf(x, initial, controls, n), initial, controls, n)
    BY <1>2
  <1>4. B!Stages(initial, controls) = CHOOSE x : StagesOf(x, initial, controls, n)
    BY DEF B!Stages, StagesOf
  <1>. QED
    BY <1>3, <1>4

LEMMA HeldFlowIs ==
  ASSUME NEW entry, NEW input, NEW n \in Nat
  PROVE  \E f : BoxesOf(f, entry, input, n) /\ B!HeldFlow(entry, input, n) = [i \in 1..n + 1 |-> f[i - 1]]
  <1>1. BoxesOf(CHOOSE f : BoxesOf(f, entry, input, n), entry, input, n)
    BY BoxesExist
  <1>2. B!HeldFlow(entry, input, n) = [i \in 1..n + 1 |-> (CHOOSE f : BoxesOf(f, entry, input, n))[i - 1]]
    BY DEF B!HeldFlow, BoxesOf
  <1>. QED
    BY <1>1, <1>2

Bounds(states, a, b) == states \subseteq Int /\ \A x \in states : a <= x /\ x <= b

\* A box, or a part of one, that is not empty.
Bounded(states) == states # {} /\ \E a \in Int, b \in Int : Bounds(states, a, b)

LEMMA LowestPlace ==
  ASSUME NEW S, Bounded(S)
  PROVE  \E m \in S : \A x \in S : m <= x
  <1>1. PICK a \in Int : S \subseteq Int /\ \A x \in S : a <= x
    BY DEF Bounded, Bounds
  <1>. DEFINE failing == {x - a : x \in S}
  <1>2. failing \subseteq Nat /\ failing # {}
    <2>1. \E x \in S : TRUE
      BY DEF Bounded
    <2>2. failing # {}
      BY <2>1
    <2>. QED
      BY <1>1, <2>2
  <1>3. PICK m \in failing : \A k \in failing : m <= k
    <2>. HIDE DEF failing
    <2>. QED
      BY <1>2, Least
  <1>4. PICK y \in S : m = y - a
    BY <1>3
  <1>5. ASSUME NEW x \in S PROVE y <= x
    <2>1. x - a \in failing /\ x \in Int /\ y \in Int
      BY <1>1, <1>4
    <2>2. y - a <= x - a
      BY <1>3, <1>4, <2>1
    <2>. QED
      BY <2>1, <2>2
  <1>. QED
    BY <1>4, <1>5

LEMMA HighestPlace ==
  ASSUME NEW S, Bounded(S)
  PROVE  \E m \in S : \A x \in S : x <= m
  <1>1. PICK b \in Int : S \subseteq Int /\ \A x \in S : x <= b
    BY DEF Bounded, Bounds
  <1>. DEFINE failing == {b - x : x \in S}
  <1>2. failing \subseteq Nat /\ failing # {}
    <2>1. \E x \in S : TRUE
      BY DEF Bounded
    <2>2. failing # {}
      BY <2>1
    <2>. QED
      BY <1>1, <2>2
  <1>3. PICK m \in failing : \A k \in failing : m <= k
    <2>. HIDE DEF failing
    <2>. QED
      BY <1>2, Least
  <1>4. PICK y \in S : m = b - y
    BY <1>3
  <1>5. ASSUME NEW x \in S PROVE x <= y
    <2>1. b - x \in failing /\ x \in Int /\ y \in Int
      BY <1>1, <1>4
    <2>2. b - y <= b - x
      BY <1>3, <1>4, <2>1
    <2>. QED
      BY <2>1, <2>2
  <1>. QED
    BY <1>4, <1>5

\* The hull of a bounded set is the interval between two of its members.
LEMMA HullIs ==
  ASSUME NEW S, Bounded(S)
  PROVE  \E a \in S, b \in S : /\ a \in Int /\ b \in Int /\ Bounds(S, a, b)
                             /\ B!BoxHull(S) = a..b
  <1>1. S \subseteq Int
    BY DEF Bounded, Bounds
  <1>2. PICK a \in S : \A x \in S : a <= x
    BY LowestPlace
  <1>3. PICK b \in S : \A x \in S : x <= b
    BY HighestPlace
  <1>4. B!Min(S) = a
    <2>1. \A m \in S : (\A x \in S : m <= x) => m = a
      BY <1>1, <1>2
    <2>. QED
      BY <1>2, <2>1 DEF B!Min
  <1>5. B!Max(S) = b
    <2>1. \A m \in S : (\A x \in S : m >= x) => m = b
      BY <1>1, <1>3
    <2>2. \A x \in S : b >= x
      BY <1>1, <1>3
    <2>. QED
      BY <2>1, <2>2 DEF B!Max
  <1>. QED
    BY <1>1, <1>2, <1>3, <1>4, <1>5 DEF B!BoxHull, Bounds

LEMMA HullHolds ==
  ASSUME NEW S, Bounded(S)
  PROVE  Bounded(B!BoxHull(S)) /\ S \subseteq B!BoxHull(S)
  <1>1. PICK a \in S, b \in S : a \in Int /\ b \in Int /\ Bounds(S, a, b) /\ B!BoxHull(S) = a..b
    BY HullIs
  <1>2. S \subseteq a..b /\ a \in a..b
    BY <1>1 DEF Bounds
  <1>3. Bounds(a..b, a, b)
    BY <1>1 DEF Bounds
  <1>. QED
    BY <1>1, <1>2, <1>3 DEF Bounded

\* One tick: whatever the state, the input and the disturbance.
LEMMA ReachedHolds ==
  ASSUME NEW S, Bounded(S), NEW U, Bounded(U), PlantDisturbance \in Nat
  PROVE  /\ Bounded(B!Reached(S, U))
         /\ \A x \in S, u \in U, d \in {-PlantDisturbance, 0, PlantDisturbance} :
              2 * x + u + d \in B!Reached(S, U)
  <1>. PICK p \in Nat : p = PlantDisturbance
    OBVIOUS
  <1>. DEFINE R == {2 * x + u + d : x \in S, u \in U, d \in {-p, p}}
  <1>1. PICK a \in Int, b \in Int : Bounds(S, a, b)
    BY DEF Bounded
  <1>2. PICK e \in Int, f \in Int : Bounds(U, e, f)
    BY DEF Bounded
  <1>3. Bounds(R, 2 * a + e - p, 2 * b + f + p)
    BY <1>1, <1>2 DEF Bounds
  <1>4. Bounded(R)
    <2>1. \E x \in S, u \in U : TRUE
      BY DEF Bounded
    <2>2. R # {}
      BY <2>1
    <2>3. 2 * a + e - p \in Int /\ 2 * b + f + p \in Int
      OBVIOUS
    <2>. HIDE DEF R
    <2>. QED
      BY <1>3, <2>2, <2>3 DEF Bounded
  <1>5. B!Reached(S, U) = B!BoxHull(R)
    BY DEF B!Reached
  <1>6. PICK l \in R, h \in R : l \in Int /\ h \in Int /\ Bounds(R, l, h) /\ B!BoxHull(R) = l..h
    <2>. HIDE DEF R
    <2>. QED
      BY <1>4, HullIs
  <1>7. ASSUME NEW x \in S, NEW u \in U, NEW d \in {-p, 0, p} PROVE 2 * x + u + d \in l..h
    <2>1. x \in Int /\ u \in Int /\ d \in Int
      BY <1>1, <1>2 DEF Bounds
    <2>2. 2 * x + u + p \in R /\ 2 * x + u + (-p) \in R
      OBVIOUS
    <2>3. l <= 2 * x + u + (-p) /\ 2 * x + u + p <= h
      BY <1>6, <2>2 DEF Bounds
    <2>. QED
      BY <1>6, <2>1, <2>3
  <1>8. Bounded(B!BoxHull(R))
    <2>. HIDE DEF R
    <2>. QED
      BY <1>4, HullHolds
  <1>9. B!Reached(S, U) = l..h
    BY <1>5, <1>6
  <1>. HIDE DEF R
  <1>. QED
    BY <1>5, <1>7, <1>8, <1>9

\* Every box of a flow is bounded, and all of them together are.
LEMMA BoxesAreBounded ==
  ASSUME NEW S, Bounded(S), NEW U, Bounded(U), NEW n \in Nat, PlantDisturbance \in Nat,
         NEW f, BoxesOf(f, S, U, n)
  PROVE  /\ \A i \in 0..n : Bounded(f[i])
         /\ \E a \in Int, b \in Int : \A i \in 0..n : Bounds(f[i], a, b)
  <1>. DEFINE Good(m) == /\ \A i \in 0..m : Bounded(f[i])
                         /\ \E a \in Int, b \in Int : \A i \in 0..m : Bounds(f[i], a, b)
  <1>. DEFINE failing == {m \in 0..n : ~Good(m)}
  <1>1. f[0] = S /\ \A i \in 1..n : f[i] = B!Reached(f[i - 1], U)
    BY DEF BoxesOf
  <1>2. Good(0)
    BY <1>1 DEF Bounded
  <1>3. ASSUME NEW m \in 1..n, Good(m - 1) PROVE Good(m)
    <2>1. Bounded(f[m - 1]) /\ m - 1 \in 0..m - 1
      BY <1>3
    <2>2. Bounded(f[m])
      BY <1>1, <2>1, ReachedHolds
    <2>3. PICK a \in Int, b \in Int : \A i \in 0..m - 1 : Bounds(f[i], a, b)
      BY <1>3
    <2>4. PICK e \in Int, g \in Int : Bounds(f[m], e, g)
      BY <2>2 DEF Bounded
    <2>5. PICK lo \in Int, hi \in Int : lo <= a /\ lo <= e /\ b <= hi /\ g <= hi
      <3>1. PICK lo \in Int : lo <= a /\ lo <= e
        <4>1. a <= e \/ e <= a
          OBVIOUS
        <4>. QED
          BY <4>1
      <3>2. PICK hi \in Int : b <= hi /\ g <= hi
        <4>1. b <= g \/ g <= b
          OBVIOUS
        <4>. QED
          BY <4>1
      <3>. QED
        BY <3>1, <3>2
    <2>6. ASSUME NEW i \in 0..m PROVE Bounds(f[i], lo, hi) /\ Bounded(f[i])
      <3>1. i = m \/ i \in 0..m - 1
        OBVIOUS
      <3>2. Bounds(f[i], a, b) \/ Bounds(f[i], e, g)
        BY <2>3, <2>4, <3>1
      <3>3. Bounds(f[i], lo, hi)
        BY <2>5, <3>2 DEF Bounds
      <3>. QED
        BY <1>3, <2>2, <3>1, <3>3
    <2>. QED
      BY <2>6
  <1>4. failing = {}
    <2>. SUFFICES ASSUME failing # {} PROVE FALSE
      OBVIOUS
    <2>1. failing \subseteq Nat
      OBVIOUS
    <2>2. PICK m \in failing : \A k \in failing : m <= k
      <3>. HIDE DEF failing
      <3>. QED
        BY <2>1, Least
    <2>3. m \in 0..n /\ ~Good(m)
      BY <2>2
    <2>. HIDE DEF Good
    <2>4. m \in 1..n /\ m - 1 \in 0..n /\ m - 1 < m
      BY <1>2, <2>3
    <2>5. Good(m - 1)
      BY <2>2, <2>4
    <2>. QED
      BY <1>3, <2>3, <2>4, <2>5
  <1>5. Good(n)
    <2>1. n \in 0..n
      OBVIOUS
    <2>. HIDE DEF Good
    <2>. QED
      BY <1>4, <2>1
  <1>. QED
    BY <1>5

\* What a flow promises: no motion with these inputs leaves its swept box, and
\* it ends in its endpoint.
LEMMA FlowKeepsTheMotion ==
  ASSUME NEW S, Bounded(S), NEW U, Bounded(U), NEW n \in Nat, PlantDisturbance \in Nat,
         NEW from \in S, NEW u \in U, NEW d \in [1..n -> {-PlantDisturbance, 0, PlantDisturbance}],
         NEW way, way = B!HeldFlow(S, U, n), NEW x, x = B!Places(from, u, d, n)
  PROVE  /\ \A i \in 0..n : x[i] \in B!Swept(way)
         /\ x[n] \in B!Endpoint(way) /\ Bounded(B!Endpoint(way))
  <1>1. PICK f : BoxesOf(f, S, U, n) /\ way = [i \in 1..n + 1 |-> f[i - 1]]
    BY HeldFlowIs
  <1>2. f[0] = S /\ \A i \in 1..n : f[i] = B!Reached(f[i - 1], U)
    BY <1>1 DEF BoxesOf
  <1>3. x[0] = from /\ \A i \in 1..n : x[i] = 2 * x[i - 1] + u + d[i]
    BY PlacesExist DEF PlacesOf
  <1>4. \A i \in 0..n : Bounded(f[i])
    BY <1>1, BoxesAreBounded
  <1>5. PICK a \in Int, b \in Int : \A i \in 0..n : Bounds(f[i], a, b)
    BY <1>1, BoxesAreBounded
  <1>6. ASSUME NEW m \in 1..n, x[m - 1] \in f[m - 1] PROVE x[m] \in f[m]
    <2>1. Bounded(f[m - 1]) /\ d[m] \in {-PlantDisturbance, 0, PlantDisturbance}
      BY <1>4
    <2>. QED
      BY <1>2, <1>3, <1>6, <2>1, ReachedHolds
  <1>. DEFINE failing == {m \in 0..n : x[m] \notin f[m]}
  <1>7. failing = {}
    <2>. SUFFICES ASSUME failing # {} PROVE FALSE
      OBVIOUS
    <2>1. failing \subseteq Nat
      OBVIOUS
    <2>2. PICK m \in failing : \A k \in failing : m <= k
      <3>. HIDE DEF failing
      <3>. QED
        BY <2>1, Least
    <2>3. m \in 1..n /\ m - 1 \in 0..n /\ m - 1 < m
      BY <1>2, <1>3, <2>2
    <2>4. x[m - 1] \in f[m - 1]
      BY <2>2, <2>3
    <2>. QED
      BY <1>6, <2>2, <2>3, <2>4
  <1>8. DOMAIN way = 1..n + 1 /\ Len(way) = n + 1 /\ \A i \in 0..n : i + 1 \in 1..n + 1 /\ way[i + 1] = f[i]
    BY <1>1
  <1>. DEFINE All == UNION {way[i] : i \in DOMAIN way}
  <1>9. Bounded(All)
    <2>1. ASSUME NEW y \in All PROVE y \in Int /\ a <= y /\ y <= b
      <3>1. PICK i \in 1..n + 1 : y \in f[i - 1]
        BY <1>1, <1>8
      <3>2. i - 1 \in 0..n
        OBVIOUS
      <3>. QED
        BY <1>5, <3>1, <3>2 DEF Bounds
    <2>2. from \in All
      BY <1>2, <1>8
    <2>. HIDE DEF All
    <2>. QED
      BY <2>1, <2>2 DEF Bounded, Bounds
  <1>10. B!Swept(way) = B!BoxHull(All)
    BY DEF B!Swept
  <1>11. All \subseteq B!BoxHull(All)
    <2>. HIDE DEF All
    <2>. QED
      BY <1>9, HullHolds
  <1>12. ASSUME NEW i \in 0..n PROVE x[i] \in B!Swept(way)
    <2>1. x[i] \in All
      BY <1>7, <1>8
    <2>. QED
      BY <1>10, <1>11, <2>1
  <1>13. B!Endpoint(way) = f[n]
    BY <1>8 DEF B!Endpoint
  <1>. QED
    BY <1>4, <1>7, <1>12, <1>13

LEMMA EndpointIsBounded ==
  ASSUME NEW S, Bounded(S), NEW U, Bounded(U), NEW n \in Nat, PlantDisturbance \in Nat
  PROVE  Bounded(B!Endpoint(B!HeldFlow(S, U, n)))
  <1>. PICK way : way = B!HeldFlow(S, U, n)
    OBVIOUS
  <1>1. PICK f : BoxesOf(f, S, U, n) /\ way = [i \in 1..n + 1 |-> f[i - 1]]
    BY HeldFlowIs
  <1>2. B!Endpoint(way) = f[n]
    <2>1. Len(way) = n + 1 /\ n + 1 \in 1..n + 1
      BY <1>1
    <2>. QED
      BY <1>1, <2>1 DEF B!Endpoint
  <1>. QED
    BY <1>1, <1>2, BoxesAreBounded

LEMMA BoxIsBounded ==
  ASSUME NEW S, B!IsBox(S)
  PROVE  Bounded(S)
  <1>1. PICK a \in S, b \in S : S \subseteq Int /\ S = a..b
    BY DEF B!IsBox
  <1>2. a \in Int /\ b \in Int /\ S # {}
    BY <1>1
  <1>3. Bounds(S, a, b)
    BY <1>1, <1>2 DEF Bounds
  <1>. QED
    BY <1>2, <1>3 DEF Bounded

LEMMA PartIsBounded ==
  ASSUME NEW S, Bounded(S), NEW P, P \subseteq S, P # {}
  PROVE  Bounded(P)
  BY DEF Bounded, Bounds

ControlGood(control) ==
  /\ control.width \in Nat \ {0} /\ Bounded(control.input)
  /\ control.entry = {} \/ Bounded(control.entry)

\* A stage of a chain, whether or not the chain holds.
StageTyped(stage) ==
  /\ stage.start \in Nat /\ stage.width \in Nat \ {0}
  /\ Bounded(stage.entry) /\ Bounded(stage.input) /\ Bounded(B!Endpoint(stage.flow))
  /\ stage.flow = B!HeldFlow(stage.entry, stage.input, stage.width)

LEMMA BackupStageTyped ==
  ASSUME NEW start \in Nat, NEW current, Bounded(current), NEW control, ControlGood(control),
         PlantDisturbance \in Nat, NEW stage, stage = B!BackupStage(start, current, control)
  PROVE  /\ StageTyped(stage) /\ stage.start = start /\ stage.width = control.width
         /\ stage.entry = (IF control.entry = {} THEN current ELSE control.entry)
         /\ stage.joined <=> current \subseteq stage.entry
  <1>. PICK entry : entry = B!EntryOf(control, current)
    OBVIOUS
  <1>1. entry = (IF control.entry = {} THEN current ELSE control.entry)
    BY DEF B!EntryOf
  <1>2. Bounded(entry) /\ Bounded(control.input) /\ control.width \in Nat \ {0}
    BY <1>1 DEF ControlGood
  <1>3. stage = [start |-> start, entry |-> entry, input |-> control.input, width |-> control.width,
                 joined |-> current \subseteq entry, flow |-> B!HeldFlow(entry, control.input, control.width)]
    BY DEF B!BackupStage
  <1>4. Bounded(B!Endpoint(B!HeldFlow(entry, control.input, control.width)))
    BY <1>2, EndpointIsBounded
  <1>5. /\ stage.start = start /\ stage.entry = entry /\ stage.input = control.input
        /\ stage.width = control.width /\ stage.joined = (current \subseteq entry)
        /\ stage.flow = B!HeldFlow(entry, control.input, control.width)
    BY <1>3
  <1>6. StageTyped(stage)
    BY <1>2, <1>4, <1>5 DEF StageTyped
  <1>. QED
    BY <1>1, <1>5, <1>6

LEMMA StagesAreTyped ==
  ASSUME NEW initial, Bounded(initial), NEW controls, NEW n \in Nat \ {0},
         \A i \in 1..n : ControlGood(controls[i]), PlantDisturbance \in Nat,
         NEW f, StagesOf(f, initial, controls, n)
  PROVE  \A i \in 1..n : StageTyped(f[i])
  <1>1. f[1] = B!BackupStage(0, initial, controls[1])
    BY DEF StagesOf
  <1>2. \A i \in 2..n : f[i] = B!BackupStage(B!EndClock(f[i - 1]), B!Endpoint(f[i - 1].flow), controls[i])
    BY DEF StagesOf
  <1>. DEFINE failing == {i \in 1..n : ~StageTyped(f[i])}
  <1>. SUFFICES ASSUME failing # {} PROVE FALSE
    OBVIOUS
  <1>3. failing \subseteq Nat
    OBVIOUS
  <1>4. PICK m \in failing : \A k \in failing : m <= k
    <2>. HIDE DEF failing
    <2>. QED
      BY <1>3, Least
  <1>5. m \in 1..n /\ ~StageTyped(f[m]) /\ ControlGood(controls[m])
    BY <1>4
  <1>6. m # 1
    BY <1>1, <1>5, BackupStageTyped
  <1>7. m \in 2..n /\ m - 1 \in 1..n /\ m - 1 < m
    BY <1>5, <1>6
  <1>8. StageTyped(f[m - 1])
    BY <1>4, <1>7
  <1>9. B!EndClock(f[m - 1]) \in Nat /\ Bounded(B!Endpoint(f[m - 1].flow))
    BY <1>8 DEF StageTyped, B!EndClock
  <1>. QED
    BY <1>2, <1>5, <1>7, <1>9, BackupStageTyped

-----------------------------------------------------------------------------
\* Where the state must be, and when, at the start of the i-th hold or after all.
EntryBox(i) == IF i <= Len(backup.stages) THEN backup.stages[i].entry ELSE TerminalBox
EntryClock(i) == IF i <= Len(backup.stages) THEN backup.stages[i].start ELSE backup.reference

StageHolds(i) ==
  /\ StageTyped(backup.stages[i])
  /\ B!Swept(backup.stages[i].flow) \subseteq FreeSpace(i)
  /\ B!Endpoint(backup.stages[i].flow) \subseteq EntryBox(i + 1)
  /\ B!EndClock(backup.stages[i]) = EntryClock(i + 1)

ChainHolds ==
  /\ Len(backup.stages) \in Nat \ {0}
  /\ \A i \in 1..Len(backup.stages) : StageHolds(i)
  /\ backup.reference < backup.scope

\* A flow the geometry service has cleared is clear of what is there at its clock.
CacheHolds ==
  \A c \in checker : \A i \in 1..Len(backup.stages) :
    c.start = backup.stages[i].start => B!Swept(c.flow) \subseteq FreeSpace(i)

\* The decided hold is safe and leads on from wherever the craft may be.
DecisionFrom(states) ==
  LET i == supervisor.index
      decided == supervisor.pending
  IN  /\ i \in 1..Len(backup.stages)
      /\ Bounded(states) /\ Bounded(decided.input)
      /\ decided.flow = B!HeldFlow(states, decided.input, backup.stages[i].width)
      /\ B!Swept(decided.flow) \subseteq FreeSpace(i)
      /\ B!Endpoint(decided.flow) \subseteq EntryBox(i + 1)
      /\ ~craft.flown => craft.x \in states

RunHolds ==
  /\ ChainHolds /\ CacheHolds
  /\ supervisor.index \in 1..Len(backup.stages) + 1
  /\ supervisor.pending # B!NoDecision => \E states : DecisionFrom(states)
  /\ ~craft.flown => /\ craft.x \in supervisor.belief
                     /\ supervisor.belief \subseteq EntryBox(supervisor.index)
                     /\ craft.q = EntryClock(supervisor.index)
  /\ craft.flown => /\ supervisor.pending # B!NoDecision
                    /\ craft.x \in B!Endpoint(supervisor.pending.flow)
                    /\ craft.q = EntryClock(supervisor.index + 1)

Asked ==
  /\ backup.initial \in EntryStates /\ backup.controls \in BackupControls
  /\ backup.reference \in ReferenceClocks /\ backup.scope \in ScopeEnds

Shaped ==
  /\ backup = [initial |-> backup.initial, controls |-> backup.controls, reference |-> backup.reference,
               scope |-> backup.scope, stages |-> backup.stages]
  /\ supervisor = [state |-> supervisor.state, index |-> supervisor.index,
                   belief |-> supervisor.belief, pending |-> supervisor.pending]
  /\ craft = [x |-> craft.x, q |-> craft.q, flown |-> craft.flown, clear |-> craft.clear]

ContinuationInv ==
  /\ Shaped /\ Asked
  /\ craft.clear = TRUE /\ craft.flown \in BOOLEAN
  /\ supervisor.state \in {"offered", "refused", "running", "handed"}
  /\ supervisor.state = "offered" =>
       supervisor.index = 1 /\ checker = {} /\ craft.x \in backup.initial /\ craft.q = 0
  /\ supervisor.state = "running" => RunHolds
  /\ supervisor.state # "running" => supervisor.pending = B!NoDecision /\ ~craft.flown
  /\ supervisor.state = "handed" =>
       craft.x \in TerminalBox /\ craft.q = backup.reference /\ craft.q < backup.scope

LEMMA ElementTyped ==
  ASSUME NEW R, NEW c \in Seq(R), NEW i \in 1..Len(c)
  PROVE  c[i] \in R
  OBVIOUS

LEMMA Assumed ==
  /\ PlantDisturbance \in Nat /\ SensorError \in Nat
  /\ ReferenceClocks \subseteq Nat /\ ScopeEnds \subseteq Nat /\ Bounded(InputLimits)
  /\ \A box \in EntryStates : Bounded(box)
  /\ \A c \in BackupControls : /\ Len(c) \in Nat \ {0}
                              /\ DOMAIN c = 1..Len(c)
                              /\ \A i \in 1..Len(c) : /\ c[i] \in [width : Nat \ {0}, input : SUBSET Int, entry : SUBSET Int]
                                                     /\ ControlGood(c[i])
  <1>1. B!ContinuationAssumption
    BY GuidanceInstances
  <1>2. ASSUME NEW c \in BackupControls
        PROVE  /\ Len(c) \in Nat \ {0} /\ DOMAIN c = 1..Len(c)
               /\ \A i \in 1..Len(c) : /\ c[i] \in [width : Nat \ {0}, input : SUBSET Int, entry : SUBSET Int]
                                      /\ ControlGood(c[i])
    <2>1. c \in Seq([width : Nat \ {0}, input : SUBSET Int, entry : SUBSET Int]) /\ c # <<>>
      BY <1>1 DEF B!ContinuationAssumption
    <2>2. Len(c) \in Nat \ {0} /\ DOMAIN c = 1..Len(c)
      BY <2>1
    <2>3. ASSUME NEW i \in 1..Len(c)
          PROVE  /\ c[i] \in [width : Nat \ {0}, input : SUBSET Int, entry : SUBSET Int]
                 /\ ControlGood(c[i])
      <3>1. c[i] \in [width : Nat \ {0}, input : SUBSET Int, entry : SUBSET Int]
        BY <2>1, ElementTyped
      <3>2. B!IsBox(c[i].input) /\ (c[i].entry # {} => B!IsBox(c[i].entry))
        BY <1>1, <2>2 DEF B!ContinuationAssumption
      <3>. QED
        BY <3>1, <3>2, BoxIsBounded DEF ControlGood
    <2>. QED
      BY <2>2, <2>3
  <1>. QED
    BY <1>1, <1>2, BoxIsBounded DEF B!ContinuationAssumption

\* Clocks of different holds differ.
LEMMA StartsDiffer ==
  ASSUME NEW n \in Nat, NEW st,
         \A k \in 1..n : st[k].start \in Nat,
         \A k \in 1..n - 1 : st[k].start < st[k + 1].start,
         NEW i \in 1..n, NEW j \in 1..n, st[i].start = st[j].start
  PROVE  i = j
  <1>1. \A k \in 1..n : st[k].start \in Nat
    OBVIOUS
  <1>2. \A k \in 1..n - 1 : st[k].start < st[k + 1].start
    OBVIOUS
  <1>3. ASSUME NEW a \in 1..n, NEW b \in 1..n, a < b PROVE st[a].start < st[b].start
    <2>. DEFINE failing == {k \in 1..n : a < k /\ ~(st[a].start < st[k].start)}
    <2>. SUFFICES ASSUME failing # {} PROVE FALSE
      BY <1>3
    <2>1. failing \subseteq Nat
      OBVIOUS
    <2>2. PICK m \in failing : \A k \in failing : m <= k
      <3>. HIDE DEF failing
      <3>. QED
        BY <2>1, Least
    <2>3. m \in 1..n /\ a < m /\ ~(st[a].start < st[m].start)
      BY <2>2
    <2>4. m - 1 \in 1..n - 1 /\ m - 1 \in 1..n /\ (m - 1) + 1 = m
      BY <2>3
    <2>5. st[m - 1].start < st[m].start
      BY <1>2, <2>4
    <2>6. CASE a = m - 1
      BY <2>3, <2>5, <2>6
    <2>7. CASE a < m - 1
      <3>1. st[a].start < st[m - 1].start
        BY <2>2, <2>4, <2>7
      <3>2. PICK x \in Nat, y \in Nat, z \in Nat :
              x = st[a].start /\ y = st[m - 1].start /\ z = st[m].start
        BY <1>1, <2>3, <2>4
      <3>3. x < y /\ y < z
        BY <2>5, <3>1, <3>2
      <3>4. ~(x < z)
        BY <2>3, <3>2
      <3>. QED
        BY <3>3, <3>4
    <2>. QED
      BY <2>3, <2>6, <2>7
  <1>. QED
    BY <1>1, <1>3

\* In a chain that holds, every stage begins after the one before it.
LEMMA StagesFollow ==
  ASSUME ChainHolds, NEW i \in 1..Len(backup.stages), NEW j \in 1..Len(backup.stages),
         backup.stages[i].start = backup.stages[j].start
  PROVE  i = j
  <1>. PICK n \in Nat : n = Len(backup.stages)
    BY DEF ChainHolds
  <1>1. \A k \in 1..n : backup.stages[k].start \in Nat
    BY DEF ChainHolds, StageHolds, StageTyped
  <1>2. ASSUME NEW k \in 1..n - 1 PROVE backup.stages[k].start < backup.stages[k + 1].start
    <2>1. k \in 1..n /\ k + 1 <= n
      OBVIOUS
    <2>2. StageTyped(backup.stages[k]) /\ B!EndClock(backup.stages[k]) = EntryClock(k + 1)
      BY <2>1 DEF ChainHolds, StageHolds
    <2>. QED
      BY <2>1, <2>2 DEF StageTyped, B!EndClock, EntryClock
  <1>. QED
    BY <1>1, <1>2, StartsDiffer

LEMMA DecideBackupKeeps ==
  ASSUME ContinuationInv, B!DecideBackup
  PROVE  ContinuationInv'
  <1>. PICK i : i = supervisor.index
    OBVIOUS
  <1>0. /\ supervisor.state = "running" /\ RunHolds /\ ~(i > Len(backup.stages))
        /\ supervisor.pending = B!NoDecision /\ supervisor.belief \subseteq backup.stages[i].entry
    BY DEF B!DecideBackup, B!Decidable, B!Finished, ContinuationInv
  <1>1. i \in 1..Len(backup.stages) /\ Len(backup.stages) \in Nat \ {0} /\ StageHolds(i) /\ ~craft.flown
    BY <1>0 DEF RunHolds, ChainHolds
  <1>. PICK decided : decided = [source |-> "backup", input |-> backup.stages[i].input, flow |-> backup.stages[i].flow]
    OBVIOUS
  <1>2. supervisor' = [supervisor EXCEPT !.pending = decided] /\ UNCHANGED <<backup, checker, craft>>
    BY DEF B!DecideBackup
  <1>3. /\ supervisor'.state = "running" /\ supervisor'.index = i
        /\ supervisor'.belief = supervisor.belief /\ supervisor'.pending = decided
        /\ Shaped'
    <2>1. supervisor' = [state |-> "running", index |-> i, belief |-> supervisor.belief, pending |-> decided]
      BY <1>0, <1>2 DEF ContinuationInv, Shaped
    <2>. QED
      BY <1>2, <2>1 DEF ContinuationInv, Shaped
  <1>. PICK stage : stage = backup.stages[i]
    OBVIOUS
  <1>. PICK entry : entry = stage.entry
    OBVIOUS
  <1>4. DecisionFrom(entry)'
    <2>1. /\ Bounded(entry) /\ Bounded(stage.input) /\ stage.flow = B!HeldFlow(entry, stage.input, stage.width)
          /\ B!Swept(stage.flow) \subseteq FreeSpace(i) /\ B!Endpoint(stage.flow) \subseteq EntryBox(i + 1)
      BY <1>1 DEF StageHolds, StageTyped
    <2>2. craft.x \in entry
      BY <1>0, <1>1 DEF RunHolds
    <2>3. decided.input = stage.input /\ decided.flow = stage.flow
      OBVIOUS
    <2>. QED
      BY <1>1, <1>2, <1>3, <2>1, <2>2, <2>3 DEF DecisionFrom, EntryBox
  <1>5. RunHolds'
    <2>1. (\E states : DecisionFrom(states))'
      BY <1>4
    <2>. QED
      BY <1>0, <1>1, <1>2, <1>3, <2>1 DEF RunHolds, ChainHolds, CacheHolds, StageHolds, EntryBox, EntryClock
  <1>. QED
    BY <1>2, <1>3, <1>5 DEF ContinuationInv, Asked

LEMMA DecidePerformanceKeeps ==
  ASSUME ContinuationInv, NEW input, B!DecidePerformance(input)
  PROVE  ContinuationInv'
  <1>. PICK i : i = supervisor.index
    OBVIOUS
  <1>. PICK stage : stage = backup.stages[i]
    OBVIOUS
  <1>0. /\ supervisor.state = "running" /\ RunHolds /\ ~(i > Len(backup.stages))
        /\ supervisor.pending = B!NoDecision /\ supervisor.belief \subseteq stage.entry
    BY DEF B!DecidePerformance, B!Decidable, B!Finished, ContinuationInv
  <1>1. i \in 1..Len(backup.stages) /\ Len(backup.stages) \in Nat \ {0} /\ StageHolds(i) /\ ~craft.flown
    BY <1>0 DEF RunHolds, ChainHolds
  <1>. PICK way : way = B!HeldFlow(supervisor.belief, input, stage.width)
    OBVIOUS
  <1>. PICK decided : decided = [source |-> "performance", input |-> input, flow |-> way]
    OBVIOUS
  <1>2. PICK answer \in B!GeometryAnswers(i, stage.start, way) :
          /\ B!ProvesSuccessor(input, way, answer, i)
          /\ supervisor' = [supervisor EXCEPT !.pending = decided]
          /\ checker' = IF answer.of = B!Fingerprint(stage.start, way) THEN {answer.of} ELSE checker
    BY DEF B!DecidePerformance
  <1>3. UNCHANGED <<backup, craft>>
    BY DEF B!DecidePerformance
  <1>4. /\ input \subseteq InputLimits /\ B!Executable(input)
        /\ answer.admissible /\ answer.of = B!Fingerprint(stage.start, way)
        /\ B!NextAdmissible(B!Endpoint(way), i)
    BY <1>2 DEF B!ProvesSuccessor, B!Clears
  <1>5. Bounded(input)
    <2>1. input # {}
      BY <1>4 DEF B!Executable
    <2>. QED
      BY <1>4, <2>1, Assumed, PartIsBounded
  <1>6. craft.x \in supervisor.belief /\ Bounded(supervisor.belief)
    BY <1>0, <1>1, PartIsBounded DEF RunHolds, StageHolds, StageTyped
  <1>7. B!Swept(way) \subseteq FreeSpace(i)
    <2>1. CASE answer = [admissible |-> B!Swept(way) \subseteq FreeSpace(i), of |-> B!Fingerprint(stage.start, way)]
      BY <1>4, <2>1
    <2>2. CASE answer.of \in checker
      <3>1. answer.of.start = stage.start /\ answer.of.flow = way
        BY <1>4 DEF B!Fingerprint
      <3>. QED
        BY <1>0, <1>1, <2>2, <3>1 DEF RunHolds, CacheHolds
    <2>. QED
      BY <1>2, <2>1, <2>2 DEF B!GeometryAnswers
  <1>8. B!Endpoint(way) \subseteq EntryBox(i + 1)
    BY <1>1, <1>4 DEF B!NextAdmissible, EntryBox
  <1>9. /\ supervisor'.state = "running" /\ supervisor'.index = i
        /\ supervisor'.belief = supervisor.belief /\ supervisor'.pending = decided
        /\ Shaped'
    <2>1. supervisor' = [state |-> "running", index |-> i, belief |-> supervisor.belief, pending |-> decided]
      BY <1>0, <1>2 DEF ContinuationInv, Shaped
    <2>. QED
      BY <1>3, <2>1 DEF ContinuationInv, Shaped
  <1>10. DecisionFrom(supervisor.belief)'
    BY <1>1, <1>3, <1>5, <1>6, <1>7, <1>8, <1>9 DEF DecisionFrom, EntryBox
  <1>11. CacheHolds'
    <2>1. checker' = {B!Fingerprint(stage.start, way)}
      BY <1>2, <1>4
    <2>2. ASSUME NEW c \in checker', NEW j \in 1..Len(backup.stages), c.start = backup.stages[j].start
          PROVE  B!Swept(c.flow) \subseteq FreeSpace(j)
      <3>1. c.start = stage.start /\ c.flow = way
        BY <2>1 DEF B!Fingerprint
      <3>2. j = i
        BY <1>0, <1>1, <2>2, <3>1, StagesFollow DEF RunHolds
      <3>. QED
        BY <1>7, <3>1, <3>2
    <2>. QED
      BY <1>3, <2>2 DEF CacheHolds
  <1>12. RunHolds'
    <2>1. (\E states : DecisionFrom(states))'
      BY <1>10
    <2>. QED
      BY <1>0, <1>1, <1>3, <1>9, <1>11, <2>1 DEF RunHolds, ChainHolds, StageHolds, EntryBox, EntryClock
  <1>. QED
    BY <1>3, <1>9, <1>12 DEF ContinuationInv, Asked

LEMMA FlyHoldKeeps ==
  ASSUME ContinuationInv, B!FlyHold
  PROVE  ContinuationInv'
  <1>. PICK i : i = supervisor.index
    OBVIOUS
  <1>. PICK decided : decided = supervisor.pending
    OBVIOUS
  <1>0. /\ decided # B!NoDecision /\ ~craft.flown /\ supervisor.state = "running" /\ RunHolds
        /\ UNCHANGED <<backup, supervisor, checker>>
    BY DEF B!FlyHold, ContinuationInv
  <1>1. PICK states : DecisionFrom(states)
    BY <1>0 DEF RunHolds
  <1>2. i \in 1..Len(backup.stages) /\ Len(backup.stages) \in Nat \ {0} /\ StageHolds(i)
    BY <1>0, <1>1 DEF DecisionFrom, RunHolds, ChainHolds
  <1>. PICK stage : stage = backup.stages[i]
    OBVIOUS
  <1>. PICK n \in Nat \ {0} : n = stage.width
    BY <1>2 DEF StageHolds, StageTyped
  <1>3. PICK u \in decided.input, d \in [1..n -> {-PlantDisturbance, 0, PlantDisturbance}] :
          craft' = [x |-> B!Places(craft.x, u, d, n)[n], q |-> craft.q + n, flown |-> TRUE,
                    clear |-> /\ craft.clear
                              /\ \A k \in 0..n : B!Places(craft.x, u, d, n)[k] \in FreeSpace(i)]
    BY DEF B!FlyHold
  <1>. PICK x : x = B!Places(craft.x, u, d, n)
    OBVIOUS
  <1>4. /\ Bounded(states) /\ Bounded(decided.input) /\ decided.flow = B!HeldFlow(states, decided.input, n)
        /\ B!Swept(decided.flow) \subseteq FreeSpace(i) /\ B!Endpoint(decided.flow) \subseteq EntryBox(i + 1)
        /\ craft.x \in states
    BY <1>0, <1>1 DEF DecisionFrom
  <1>5. /\ \A k \in 0..n : x[k] \in B!Swept(decided.flow)
        /\ x[n] \in B!Endpoint(decided.flow)
    BY <1>4, Assumed, FlowKeepsTheMotion
  <1>6. /\ craft' = [x |-> x[n], q |-> craft.q + n, flown |-> TRUE, clear |-> craft'.clear]
        /\ craft'.clear = TRUE
    <2>1. \A k \in 0..n : x[k] \in FreeSpace(i)
      BY <1>4, <1>5
    <2>2. craft.clear = TRUE
      BY DEF ContinuationInv
    <2>. QED
      BY <1>3, <2>1, <2>2
  <1>7. craft'.q = EntryClock(i + 1) /\ craft'.x \in B!Endpoint(decided.flow) /\ craft'.flown = TRUE
    <2>1. craft.q = stage.start
      BY <1>0, <1>2 DEF RunHolds, EntryClock
    <2>2. stage.start + n = EntryClock(i + 1)
      BY <1>2 DEF StageHolds, B!EndClock
    <2>. QED
      BY <1>5, <1>6, <2>1, <2>2
  <1>8. RunHolds'
    <2>1. DecisionFrom(states)'
      BY <1>0, <1>1, <1>7 DEF DecisionFrom, EntryBox
    <2>2. (\E s : DecisionFrom(s))'
      BY <2>1
    <2>. QED
      BY <1>0, <1>7, <2>2 DEF RunHolds, ChainHolds, CacheHolds, StageHolds, EntryBox, EntryClock
  <1>9. Shaped'
    BY <1>0, <1>6 DEF ContinuationInv, Shaped
  <1>10. Asked' /\ supervisor'.state = "running" /\ craft'.clear = TRUE /\ craft'.flown \in BOOLEAN
    BY <1>0, <1>6, <1>7 DEF ContinuationInv, Asked
  <1>. QED
    BY <1>8, <1>9, <1>10 DEF ContinuationInv

LEMMA AdvanceKeeps ==
  ASSUME ContinuationInv, B!Advance
  PROVE  ContinuationInv'
  <1>. PICK i : i = supervisor.index
    OBVIOUS
  <1>. PICK predicted : predicted = B!Endpoint(supervisor.pending.flow)
    OBVIOUS
  <1>0. /\ craft.flown /\ supervisor.state = "running" /\ RunHolds
        /\ UNCHANGED <<backup, checker>> /\ craft' = [craft EXCEPT !.flown = FALSE]
    BY DEF B!Advance, ContinuationInv
  <1>1. PICK states : DecisionFrom(states)
    BY <1>0 DEF RunHolds
  <1>2. i \in 1..Len(backup.stages) /\ Len(backup.stages) \in Nat \ {0} /\ i + 1 \in 1..Len(backup.stages) + 1
    BY <1>0, <1>1 DEF DecisionFrom, RunHolds, ChainHolds
  <1>. DEFINE seen == {y - SensorError..y + SensorError : y \in craft.x - SensorError..craft.x + SensorError}
  <1>3. PICK successor \in {predicted} \cup {predicted \cap box : box \in seen} :
          /\ B!NextAdmissible(successor, i)
          /\ supervisor' = [supervisor EXCEPT !.belief = successor, !.index = @ + 1, !.pending = B!NoDecision]
    BY DEF B!Advance
  <1>4. craft.x \in predicted /\ craft.q = EntryClock(i + 1)
    BY <1>0 DEF RunHolds
  <1>5. craft.x \in Int
    <2>1. Bounded(predicted)
      BY <1>0, <1>1, <1>2, Assumed, EndpointIsBounded DEF DecisionFrom, RunHolds, ChainHolds, StageHolds, StageTyped
    <2>. QED
      BY <1>4, <2>1 DEF Bounded, Bounds
  <1>6. craft.x \in successor
    <2>1. CASE successor = predicted
      BY <1>4, <2>1
    <2>2. CASE \E box \in seen : successor = predicted \cap box
      <3>1. PICK y \in craft.x - SensorError..craft.x + SensorError :
              successor = predicted \cap (y - SensorError..y + SensorError)
        BY <2>2
      <3>2. SensorError \in Nat
        BY Assumed
      <3>. QED
        BY <1>4, <1>5, <3>1, <3>2
    <2>. QED
      BY <1>3, <2>1, <2>2
  <1>7. successor \subseteq EntryBox(i + 1)
    BY <1>2, <1>3 DEF B!NextAdmissible, EntryBox
  <1>8. supervisor' = [state |-> "running", index |-> i + 1, belief |-> successor, pending |-> B!NoDecision]
    BY <1>0, <1>3 DEF ContinuationInv, Shaped
  <1>9. /\ craft' = [x |-> craft.x, q |-> craft.q, flown |-> FALSE, clear |-> TRUE]
    BY <1>0 DEF ContinuationInv, Shaped
  <1>10. RunHolds'
    <2>1. /\ craft'.x = craft.x /\ craft'.q = craft.q /\ craft'.flown = FALSE
          /\ supervisor'.index = i + 1 /\ supervisor'.belief = successor /\ supervisor'.pending = B!NoDecision
      BY <1>8, <1>9
    <2>. QED
      BY <1>0, <1>2, <1>4, <1>6, <1>7, <2>1
      DEF RunHolds, ChainHolds, CacheHolds, StageHolds, EntryBox, EntryClock
  <1>. QED
    BY <1>0, <1>8, <1>9, <1>10 DEF ContinuationInv, Asked, Shaped

LEMMA HandOffKeeps ==
  ASSUME ContinuationInv, B!HandOff
  PROVE  ContinuationInv'
  <1>0. /\ supervisor.state = "running" /\ RunHolds /\ supervisor.index > Len(backup.stages)
        /\ UNCHANGED <<backup, checker, craft>> /\ supervisor' = [supervisor EXCEPT !.state = "handed"]
    BY DEF B!HandOff, B!Finished, ContinuationInv
  <1>1. Len(backup.stages) \in Nat \ {0} /\ supervisor.index = Len(backup.stages) + 1
    BY <1>0 DEF RunHolds, ChainHolds
  <1>2. supervisor.pending = B!NoDecision
    BY <1>0, <1>1 DEF RunHolds, DecisionFrom
  <1>3. ~craft.flown
    BY <1>0, <1>2 DEF RunHolds
  <1>4. craft.x \in TerminalBox /\ craft.q = backup.reference /\ backup.reference < backup.scope
    BY <1>0, <1>1, <1>3 DEF RunHolds, ChainHolds, EntryBox, EntryClock
  <1>5. supervisor' = [state |-> "handed", index |-> supervisor.index, belief |-> supervisor.belief,
                       pending |-> B!NoDecision]
    BY <1>0, <1>2 DEF ContinuationInv, Shaped
  <1>. QED
    BY <1>0, <1>3, <1>4, <1>5 DEF ContinuationInv, Asked, Shaped

\* The chain that is admitted is the one that was asked for, made again from its
\* own entry boxes: it holds, and the craft is in the first of them.
LEMMA SuperviseKeeps ==
  ASSUME ContinuationInv, B!Supervise
  PROVE  ContinuationInv'
  <1>f. PICK first : first = B!Stages(backup.initial, backup.controls)
    OBVIOUS
  <1>c. PICK controls : controls = backup.controls
    OBVIOUS
  <1>l. PICK n \in Nat \ {0} : n = Len(controls)
    BY <1>c, Assumed DEF ContinuationInv, Asked
  <1>0. /\ supervisor.state = "offered" /\ UNCHANGED craft /\ ~craft.flown
        /\ supervisor.index = 1 /\ supervisor.pending = B!NoDecision
        /\ craft.x \in backup.initial /\ craft.q = 0
    BY DEF B!Supervise, ContinuationInv
  <1>1. /\ \A k \in 1..n : ControlGood(controls[k])
        /\ \A k \in 1..n : controls[k] \in [width : Nat \ {0}, input : SUBSET Int, entry : SUBSET Int]
        /\ Bounded(backup.initial) /\ PlantDisturbance \in Nat
        /\ backup.reference \in Nat /\ backup.scope \in Nat
    BY <1>c, <1>l, Assumed DEF ContinuationInv, Asked
  <1>2. StagesOf(first, backup.initial, controls, n)
    BY <1>f, <1>c, <1>l, StagesExist
  <1>3. \A k \in 1..n : StageTyped(first[k])
    BY <1>1, <1>2, StagesAreTyped
  <1>s. PICK stored : stored = B!StoredControls(controls, first)
    OBVIOUS
  <1>4. DOMAIN first = 1..n /\ Len(stored) = n
    <2>1. DOMAIN first = 1..n
      BY <1>2 DEF StagesOf
    <2>. QED
      BY <1>s, <2>1 DEF B!StoredControls
  <1>5. ASSUME NEW k \in 1..n
        PROVE  ControlGood(stored[k]) /\ stored[k].entry = first[k].entry /\ stored[k].entry # {}
    <2>1. stored[k] = [controls[k] EXCEPT !.entry = first[k].entry]
      BY <1>s, <1>4 DEF B!StoredControls
    <2>2. controls[k] \in [width : Nat \ {0}, input : SUBSET Int, entry : SUBSET Int] /\ ControlGood(controls[k])
      BY <1>1
    <2>3. stored[k].width = controls[k].width /\ stored[k].input = controls[k].input /\ stored[k].entry = first[k].entry
      BY <2>1, <2>2
    <2>4. Bounded(first[k].entry)
      BY <1>3 DEF StageTyped
    <2>. QED
      BY <2>2, <2>3, <2>4 DEF ControlGood, Bounded
  <1>i. PICK initial : initial = first[1].entry
    OBVIOUS
  <1>6. Bounded(initial)
    BY <1>3, <1>i DEF StageTyped
  <1>t. PICK st : st = B!Stages(initial, stored)
    OBVIOUS
  <1>7. StagesOf(st, initial, stored, n)
    BY <1>4, <1>t, StagesExist
  <1>8. \A k \in 1..n : StageTyped(st[k])
    BY <1>1, <1>5, <1>6, <1>7, StagesAreTyped
  <1>9. DOMAIN st = 1..n /\ Len(st) = n
    BY <1>7 DEF StagesOf
  <1>10. /\ st[1] = B!BackupStage(0, initial, stored[1])
         /\ \A k \in 2..n : st[k] = B!BackupStage(B!EndClock(st[k - 1]), B!Endpoint(st[k - 1].flow), stored[k])
    BY <1>7 DEF StagesOf
  <1>11. st[1].start = 0 /\ st[1].entry = initial
    <2>1. ControlGood(stored[1]) /\ stored[1].entry = initial /\ stored[1].entry # {}
      BY <1>5, <1>i
    <2>. QED
      BY <1>1, <1>6, <1>10, <2>1, BackupStageTyped
  <1>12. ASSUME NEW k \in 2..n
         PROVE  /\ st[k].start = B!EndClock(st[k - 1])
                /\ st[k].joined <=> B!Endpoint(st[k - 1].flow) \subseteq st[k].entry
    <2>1. k \in 1..n /\ k - 1 \in 1..n
      OBVIOUS
    <2>2. B!EndClock(st[k - 1]) \in Nat /\ Bounded(B!Endpoint(st[k - 1].flow))
      BY <1>8, <2>1 DEF StageTyped, B!EndClock
    <2>3. st[k] = B!BackupStage(B!EndClock(st[k - 1]), B!Endpoint(st[k - 1].flow), stored[k])
      BY <1>10
    <2>4. ControlGood(stored[k]) /\ stored[k].entry # {}
      BY <1>5, <2>1
    <2>5. st[k].joined <=> B!Endpoint(st[k - 1].flow) \subseteq st[k].entry
      BY ONLY <1>1, <2>2, <2>3, <2>4, BackupStageTyped
    <2>6. st[k].start = B!EndClock(st[k - 1])
      BY ONLY <1>1, <2>2, <2>3, <2>4, BackupStageTyped
    <2>. QED
      BY <2>5, <2>6
  <1>. DEFINE admitted == first[1].joined /\ B!Admissible(st, backup.reference, backup.scope)
  <1>13. CASE ~admitted
    <2>1. supervisor' = [supervisor EXCEPT !.state = "refused"] /\ UNCHANGED <<backup, checker>>
      BY <1>f, <1>c, <1>s, <1>i, <1>t, <1>13 DEF B!Supervise
    <2>2. supervisor' = [state |-> "refused", index |-> 1, belief |-> supervisor.belief, pending |-> B!NoDecision]
      BY <1>0, <2>1 DEF ContinuationInv, Shaped
    <2>. QED
      BY <1>0, <2>1, <2>2 DEF ContinuationInv, Asked, Shaped
  <1>14. CASE admitted
    <2>1. /\ backup' = [backup EXCEPT !.stages = st]
          /\ supervisor' = [supervisor EXCEPT !.state = "running", !.belief = st[1].entry]
          /\ checker' = {B!Fingerprint(st[k].start, st[k].flow) : k \in DOMAIN st}
      BY <1>f, <1>c, <1>s, <1>i, <1>t, <1>14 DEF B!Supervise
    <2>2. supervisor' = [state |-> "running", index |-> 1, belief |-> initial, pending |-> B!NoDecision]
      BY <1>0, <1>11, <2>1 DEF ContinuationInv, Shaped
    <2>3. backup' = [initial |-> backup.initial, controls |-> backup.controls, reference |-> backup.reference,
                     scope |-> backup.scope, stages |-> st]
      BY <2>1 DEF ContinuationInv, Shaped
    <2>4. backup'.stages = st /\ Len(backup'.stages) = n /\ backup'.reference = backup.reference
          /\ backup'.scope = backup.scope
      BY <1>9, <2>3
    <2>5. /\ \A k \in 1..n : st[k].joined /\ B!Swept(st[k].flow) \subseteq FreeSpace(k)
          /\ backup.reference = B!EndClock(st[n]) /\ B!Endpoint(st[n].flow) \subseteq TerminalBox
          /\ backup.reference + 1 <= backup.scope
      BY <1>9, <1>14 DEF B!Admissible, B!StageProved
    <2>6. ASSUME NEW k \in 1..n PROVE StageHolds(k)'
      <3>1. B!Endpoint(st[k].flow) \subseteq EntryBox(k + 1)'
        <4>1. CASE k = n
          BY <2>4, <2>5, <4>1 DEF EntryBox
        <4>2. CASE k # n
          <5>1. k + 1 \in 2..n /\ (k + 1) - 1 = k /\ k + 1 \in 1..n
            BY <4>2
          <5>2. B!Endpoint(st[k].flow) \subseteq st[k + 1].entry
            BY <1>12, <2>5, <5>1
          <5>. QED
            BY <2>4, <5>1, <5>2 DEF EntryBox
        <4>. QED
          BY <4>1, <4>2
      <3>2. B!EndClock(st[k]) = EntryClock(k + 1)'
        <4>1. CASE k = n
          BY <2>4, <2>5, <4>1 DEF EntryClock
        <4>2. CASE k # n
          <5>1. k + 1 \in 2..n /\ (k + 1) - 1 = k /\ k + 1 \in 1..n
            BY <4>2
          <5>. QED
            BY <1>12, <2>4, <5>1 DEF EntryClock
        <4>. QED
          BY <4>1, <4>2
      <3>. QED
        BY <1>8, <2>4, <2>5, <3>1, <3>2 DEF StageHolds
    <2>7. ChainHolds'
      BY <1>1, <2>4, <2>5, <2>6 DEF ChainHolds
    <2>8. CacheHolds'
      <3>1. ASSUME NEW c \in checker', NEW k \in 1..n, c.start = st[k].start
            PROVE  B!Swept(c.flow) \subseteq FreeSpace(k)
        <4>1. PICK j \in 1..n : c = B!Fingerprint(st[j].start, st[j].flow)
          BY <1>9, <2>1
        <4>2. c.start = st[j].start /\ c.flow = st[j].flow
          BY <4>1 DEF B!Fingerprint
        <4>3. j = k
          <5>1. \A m \in 1..n : st[m].start \in Nat
            BY <1>8 DEF StageTyped
          <5>2. ASSUME NEW m \in 1..n - 1 PROVE st[m].start < st[m + 1].start
            <6>1. m \in 1..n /\ m + 1 \in 2..n /\ (m + 1) - 1 = m
              OBVIOUS
            <6>2. st[m + 1].start = st[m].start + st[m].width
              BY <1>12, <6>1 DEF B!EndClock
            <6>. QED
              BY <1>8, <6>1, <6>2 DEF StageTyped
          <5>3. st[j].start = st[k].start
            BY <3>1, <4>2
          <5>. QED
            BY <5>1, <5>2, <5>3, StartsDiffer
        <4>. QED
          BY <2>5, <4>2, <4>3
      <3>. QED
        BY <2>4, <3>1 DEF CacheHolds
    <2>9. RunHolds'
      <3>1. craft.x \in initial
        <4>1. first[1] = B!BackupStage(0, backup.initial, controls[1])
          BY <1>2, <1>c DEF StagesOf
        <4>2. first[1].joined <=> backup.initial \subseteq initial
          BY <1>1, <1>i, <4>1, BackupStageTyped
        <4>. QED
          BY <1>0, <1>14, <4>2
      <3>2. EntryBox(1)' = initial /\ EntryClock(1)' = 0
        BY <1>11, <2>4 DEF EntryBox, EntryClock
      <3>3. /\ supervisor'.index = 1 /\ supervisor'.belief = initial /\ supervisor'.pending = B!NoDecision
            /\ craft' = craft
        BY <1>0, <2>2
      <3>. QED
        BY <1>0, <2>4, <2>7, <2>8, <3>1, <3>2, <3>3 DEF RunHolds
    <2>. QED
      BY <1>0, <2>2, <2>3, <2>9 DEF ContinuationInv, Asked, Shaped
  <1>. QED
    BY <1>13, <1>14

LEMMA ContinuationKept ==
  ASSUME ContinuationInv, [B!ContinuationNext]_continuation
  PROVE  ContinuationInv'
  <1>1. CASE UNCHANGED continuation
    BY <1>1 DEF continuation, ContinuationInv, Shaped, Asked, RunHolds, ChainHolds, CacheHolds, StageHolds,
                EntryBox, EntryClock, DecisionFrom
  <1>. QED
    BY <1>1, SuperviseKeeps, DecideBackupKeeps, DecidePerformanceKeeps, FlyHoldKeeps, AdvanceKeeps, HandOffKeeps
    DEF B!ContinuationNext

LEMMA BackupIsThere ==
  ASSUME ContinuationInv
  PROVE  B!BackupIsAlwaysThere
  <1>1. CASE supervisor.state = "running"
    <2>0. RunHolds /\ ChainHolds /\ Len(backup.stages) \in Nat \ {0}
      BY <1>1 DEF ContinuationInv, RunHolds, ChainHolds
    <2>1. CASE craft.flown
      <3>1. PICK states : DecisionFrom(states)
        BY <2>0, <2>1 DEF RunHolds
      <3>2. craft.x \in EntryBox(supervisor.index + 1)
        BY <2>0, <2>1, <3>1 DEF RunHolds, DecisionFrom
      <3>. QED
        BY <1>1, <2>1, <3>2 DEF B!BackupIsAlwaysThere, EntryBox, ContinuationInv
    <2>2. CASE ~craft.flown
      <3>1. craft.x \in EntryBox(supervisor.index + 0) /\ craft.x \in supervisor.belief
        BY <2>0, <2>2 DEF RunHolds
      <3>. QED
        BY <1>1, <2>2, <3>1 DEF B!BackupIsAlwaysThere, EntryBox, ContinuationInv
    <2>. QED
      BY <2>1, <2>2
  <1>2. CASE supervisor.state # "running"
    BY <1>2 DEF B!BackupIsAlwaysThere, ContinuationInv
  <1>. QED
    BY <1>1, <1>2

\* While a backup runs, whatever mix of stored and proposed inputs was flown and
\* whatever the disturbances were, the craft is where the next stored hold begins
\* or, after the last, in the terminal set at the clock of its reference; and
\* nothing flown met an obstacle.  For every plant, chain, obstacle and proposal.
THEOREM BackupsAreThere == GuidanceSpec => []BackupIsAlwaysThere
  <1> DEFINE I == part = "backup" => ContinuationInv
  <1>1. GuidanceInit => I
    <2>. SUFFICES ASSUME GuidanceInit, part = "backup" PROVE ContinuationInv
      OBVIOUS
    <2>1. B!ContinuationInit
      BY DEF GuidanceInit
    <2>2. /\ backup \in [initial : EntryStates, controls : BackupControls, reference : ReferenceClocks,
                         scope : ScopeEnds, stages : {<<>>}]
          /\ supervisor = [state |-> "offered", index |-> 1, belief |-> {}, pending |-> B!NoDecision]
          /\ checker = {}
      BY <2>1 DEF B!ContinuationInit
    <2>3. PICK x \in backup.initial : craft = [x |-> x, q |-> 0, flown |-> FALSE, clear |-> TRUE]
      BY <2>1 DEF B!ContinuationInit
    <2>. QED
      BY <2>2, <2>3 DEF ContinuationInv, Shaped, Asked
  <1>2. I /\ [GuidanceNext]_<<part, holds, orbital, sampled, continuation, geometry, deployment, attitude>> => I'
    <2>. SUFFICES ASSUME I, [GuidanceNext]_<<part, holds, orbital, sampled, continuation, geometry, deployment, attitude>>,
                         part' = "backup"
                  PROVE  ContinuationInv'
      OBVIOUS
    <2>1. part = "backup" /\ [B!ContinuationNext]_continuation
      BY DEF GuidanceNext, ProveHolds, ProveOrbitalHolds, TrackSamples, ContinueOnBackup, SeparateBodies,
             Deploy, TrackAttitudes
    <2>. QED
      BY <2>1, ContinuationKept
  <1>3. I => BackupIsAlwaysThere
    BY BackupIsThere DEF BackupIsAlwaysThere
  <1>. QED
    BY <1>1, <1>2, <1>3, PTL DEF GuidanceSpec
=============================================================================
