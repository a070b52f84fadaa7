------------------------------ MODULE HoldProofs ------------------------------
(***************************************************************************)
(* The proof that one hold is collision free, from the ephemeris of the    *)
(* target to the composite guard (control/certification/nonlinear.py,      *)
(* attitude.py, geometry.py), and the motion it is a proof about.          *)
(*                                                                         *)
(* A box is an interval of integers.  The target's state rises by 0 or 1   *)
(* in a tick of the clock and pulls on the chasers and on the target's own *)
(* spin once it is positive.  A Picard step takes the smallest box its     *)
(* inclusion admits; that it may fail at any width is a choice.  A part of *)
(* the target lies on the chasers' line and is carried along by its lever  *)
(* when the target turns in the reference frame, which itself turns by one *)
(* in a tick.                                                              *)
(***************************************************************************)
EXTENDS Integers, SequencesExt

CONSTANTS HoldWidth,                  \* of the clock, in ticks
          LargestStep, SmallestStep,  \* ReachabilityConfig, in ticks
          SubstepBudget,
          Disturbance,                \* of a chaser's rate, either way
          RegionLimit,                \* of the relative domain
          PoseError,                  \* of the target's observed orientation
          BodyRates,                  \* the box of its observed rate
          Parts, OtherParts,          \* occupied components
          BodyRadius, PairDistance,
          Entries, HeldInputs,        \* of a chaser
          Turned                      \* two rotations never differ by more

HoldProofAssumption ==
  /\ {HoldWidth, LargestStep, SmallestStep, SubstepBudget, Turned} \subseteq Nat \ {0}
  /\ SmallestStep <= LargestStep
  /\ {Disturbance, RegionLimit, PoseError, BodyRadius, PairDistance} \subseteq Nat

VARIABLES hold,      \* what is asked: the target flow supplied, the torque, entries, inputs
          flow,      \* the inclusion under way
          certified, \* the certificates of the target, its attitude, the chasers
          verdict,   \* of the composite guard
          flight     \* the physical motion through the hold
holdVars == <<hold, flow, certified, verdict, flight>>

Members == {"first", "second"}
Missing == [status |-> "none"]

-----------------------------------------------------------------------------
(* Boxes                                                                   *)

Box(lo, hi) == [lo |-> lo, hi |-> hi]
Around(a, b) == Box(Min({a.lo, b.lo}), Max({a.hi, b.hi}))
Meeting(a, b) == Box(Max({a.lo, b.lo}), Min({a.hi, b.hi}))
Shifted(a, b) == Box(a.lo + b.lo, a.hi + b.hi)
During(width, f) == Box(width * f.lo, width * f.hi)
Inside(x, b) == b.lo <= x /\ x <= b.hi
Greatest(b) == Max({-b.lo, b.hi})

\* Picard self-inclusion of x' = f, and its endpoint.
SweptBox(x, width, f) == Around(x, Shifted(x, During(width, f)))
EndpointBox(x, width, f) == Shifted(x, During(width, f))

-----------------------------------------------------------------------------
(* The declared plant                                                      *)

\* A flow kept from another target model is one of a target that stands still.
TargetField(model) == IF model = "declared" THEN Box(0, 1) ELSE Box(0, 0)
Pull(t) == IF t > 0 THEN 1 ELSE 0
PullOver(box) == Box(Pull(box.lo), Pull(box.hi))

\* The hull of the target's segments that overlap the query.
TargetBox(target, from, to) ==
  LET met == {i \in DOMAIN target.segments :
                target.segments[i].from <= to /\ target.segments[i].to >= from}
      boxes == {target.segments[i].swept[1] : i \in met}
  IN  Box(Min({b.lo : b \in boxes}), Max({b.hi : b \in boxes}))

\* A query needs a proven flow of this model that covers it.
TargetServes(target, from, to) ==
  /\ target.status = "proven" /\ target.model = "declared"
  /\ 0 <= from /\ to <= target.width

-----------------------------------------------------------------------------
(* The inclusions                                                          *)

Stages == <<"target", "attitude", "first", "second">>

EntryOf(kind) ==
  CASE kind = "target" -> <<Box(0, 0)>>
    [] kind = "attitude" -> <<Box(-PoseError, PoseError), BodyRates>>
    [] OTHER -> <<hold.entry[kind]>>

\* The attitude is integrated over the target flow's own width.
WidthOf(kind) ==
  CASE kind = "target" -> IF hold.supplied = "short" THEN SmallestStep ELSE HoldWidth
    [] kind = "attitude" -> certified["target"].width
    [] OTHER -> HoldWidth

EvenStep(remaining, proposed) == remaining \div ((remaining + proposed - 1) \div proposed)

Begun(kind) ==
  LET width == WidthOf(kind)
  IN  [kind |-> kind, state |-> EntryOf(kind), offset |-> 0,
       width |-> EvenStep(width, Min({LargestStep, width})), segments |-> <<>>]

\* The derivative over a step from `from` on, per component.
FieldOver(kind, state, from, width) ==
  CASE kind = "target" -> <<TargetField(IF hold.supplied = "other" THEN "other" ELSE "declared")>>
    [] kind = "attitude" ->
         LET pull == PullOver(TargetBox(certified["target"], from, from + width))
             torque == Box(-pull.hi, -pull.lo)
             field == IF hold.gravity THEN torque ELSE Box(0, 0)
         IN  <<SweptBox(state[2], width, field), field>>
    [] OTHER ->
         <<Shifted(Box(hold.input[kind] - Disturbance, hold.input[kind] + Disturbance),
                   PullOver(TargetBox(certified["target"], from, from + width)))>>

\* The relative field is defined inside its region and on a target flow that
\* serves the query; the attitude asks for such a flow before it starts.
FieldDefined(kind, state, from, width) ==
  \/ kind = "target"
  \/ /\ TargetServes(certified["target"], from, from + width)
     /\ kind # "attitude" =>
          LET swept == SweptBox(state[1], width, FieldOver(kind, state, from, width)[1])
          IN  Greatest(swept) <= RegionLimit

SegmentOf(kind, state, from, width) ==
  LET f == FieldOver(kind, state, from, width)
  IN  [from |-> from, to |-> from + width, initial |-> state, derivative |-> f,
       swept |-> [i \in DOMAIN state |-> SweptBox(state[i], width, f[i])],
       endpoint |-> [i \in DOMAIN state |-> EndpointBox(state[i], width, f[i])]]

Certificate(status) ==
  [status |-> status, segments |-> flow.segments, width |-> WidthOf(flow.kind),
   model |-> IF flow.kind = "target" /\ hold.supplied = "other" THEN "other" ELSE "declared"]

\* Mutant: the rate at the start of the hold.
InitialRate(attitude) == 1 + Greatest(attitude.segments[1].initial[2])

\* The relative angular rate: the frame's own and the fastest of any segment.
RateUpper(attitude) ==
  Max({1 + Greatest(attitude.segments[i].swept[2]) : i \in DOMAIN attitude.segments})

\* Mutant: the distance from the start of the hold instead of the segment's.
StateAtFromStart(attitude, q) ==
  LET seg == attitude.segments
      met == {i \in DOMAIN seg : seg[i].from <= q /\ q <= seg[i].to}
      piece(i, c) == IF q = seg[i].from THEN seg[i].initial[c]
                     ELSE IF q = seg[i].to THEN seg[i].endpoint[c]
                     ELSE Meeting(Shifted(seg[i].initial[c], During(q, seg[i].derivative[c])),
                                  seg[i].swept[c])
  IN  [c \in 1..2 |-> Box(Max({piece(i, c).lo : i \in met}), Min({piece(i, c).hi : i \in met}))]

\* AttitudeFlowCertificate.state_at: the segments' integrals, intersected.
StateAt(attitude, q) ==
  LET seg == attitude.segments
      met == {i \in DOMAIN seg : seg[i].from <= q /\ q <= seg[i].to}
      piece(i, c) == IF q = seg[i].from THEN seg[i].initial[c]
                     ELSE IF q = seg[i].to THEN seg[i].endpoint[c]
                     ELSE Meeting(Shifted(seg[i].initial[c],
                                          During(q - seg[i].from, seg[i].derivative[c])),
                                  seg[i].swept[c])
  IN  [c \in 1..2 |-> Box(Max({piece(i, c).lo : i \in met}), Min({piece(i, c).hi : i \in met}))]

-----------------------------------------------------------------------------
(* CompositeSweptCollisionGuard                                            *)

\* _check_flow_structure: the segments partition the hold and chain their boxes.
Structured(certificate) ==
  LET seg == certificate.segments
  IN  /\ seg # <<>> /\ seg[1].from = 0 /\ seg[Len(seg)].to = HoldWidth
      /\ \A i \in 1..(Len(seg) - 1) :
           seg[i].to = seg[i + 1].from /\ seg[i].endpoint = seg[i + 1].initial

\* Mutant: the turn during the segment only.
SegmentReserve(part, segment, attitude) ==
  part.lever * (Min({Turned, RateUpper(attitude) * (segment.to - segment.from)}) + PoseError)

\* How far a part may have been carried since the pose at the hold's start.
MotionReserve(part, segment, attitude) ==
  part.lever * (Min({Turned, RateUpper(attitude) * segment.to}) + PoseError)

\* A plane on either side of the part, beyond the body and the reserve.
PartSeparated(segment, part, attitude) ==
  LET apart == BodyRadius + MotionReserve(part, segment, attitude)
  IN  \/ segment.swept[1].lo - part.hi > apart
      \/ part.lo - segment.swept[1].hi > apart

RequiredDistance == Max({2 * BodyRadius, PairDistance})
BoxDistance(a, b) == Max({0, a.lo - b.hi, b.lo - a.hi})

\* Mutant: the segments are compared in pairs of the same number.
AlignedPairs(left, right) ==
  \A i \in DOMAIN left \cap DOMAIN right :
    BoxDistance(left[i].swept[1], right[i].swept[1]) > RequiredDistance

\* Every two segments that share a moment, however each flow was divided.
PairsSeparated(left, right) ==
  \A i \in DOMAIN left, j \in DOMAIN right :
    Max({left[i].from, right[j].from}) <= Min({left[i].to, right[j].to})
      => BoxDistance(left[i].swept[1], right[j].swept[1]) > RequiredDistance

Geometry(name) == IF name = "declared" THEN Parts ELSE OtherParts

\* The parts are read once; the geometry is identified again at the end.
ProvenSafe(flows, geometry, geometryAfter) ==
  /\ \A c \in Members : flows[c].status = "proven" /\ Structured(flows[c])
  /\ flows["attitude"].status = "proven"
  /\ \A c \in Members, part \in Geometry(geometry) :
       \A i \in DOMAIN flows[c].segments :
         PartSeparated(flows[c].segments[i], part, flows["attitude"])
  /\ PairsSeparated(flows["first"].segments, flows["second"].segments)
  /\ geometryAfter = geometry

-----------------------------------------------------------------------------
NoFlow == [kind |-> "none"]
NoFlight == [tick |-> -1]

HoldProofInit ==
  /\ hold \in [supplied : {"fresh", "other", "short"}, gravity : BOOLEAN,
               entry : [Members -> Entries], input : [Members -> HeldInputs]]
  /\ flow = Begun("target")
  /\ certified = [kind \in {"target", "attitude"} \cup Members |-> Missing]
  /\ verdict = "none" /\ flight = NoFlight

NextStage(kind) ==
  LET i == CHOOSE i \in DOMAIN Stages : Stages[i] = kind
  IN  IF i = Len(Stages) THEN "guard" ELSE Stages[i + 1]

Enclosing == flow.kind \in DOMAIN certified
Finished == flow.offset = WidthOf(flow.kind)

\* The inclusion proves: the next step is at most twice as wide.
PicardStep ==
  /\ Enclosing /\ ~Finished
  /\ Len(flow.segments) < SubstepBudget /\ flow.width >= SmallestStep
  /\ FieldDefined(flow.kind, flow.state, flow.offset, flow.width)
  /\ LET segment == SegmentOf(flow.kind, flow.state, flow.offset, flow.width)
         left == WidthOf(flow.kind) - segment.to
     IN  flow' = [flow EXCEPT !.state = segment.endpoint, !.offset = segment.to,
                              !.segments = Append(@, segment),
                              !.width = IF left = 0 THEN @
                                        ELSE EvenStep(left, Min({LargestStep, 2 * @}))]
  /\ UNCHANGED <<hold, certified, verdict, flight>>

PicardHalves ==
  /\ Enclosing /\ ~Finished
  /\ Len(flow.segments) < SubstepBudget /\ flow.width >= SmallestStep
  /\ flow' = [flow EXCEPT !.width = @ \div 2]
  /\ UNCHANGED <<hold, certified, verdict, flight>>

Certify(status) ==
  /\ certified' = [certified EXCEPT ![flow.kind] = Certificate(status)]
  /\ UNCHANGED <<hold, verdict, flight>>

FlowProven ==
  /\ Enclosing /\ Finished
  /\ Certify("proven")
  /\ flow' = LET next == NextStage(flow.kind)
             IN  IF next \notin DOMAIN certified THEN [kind |-> "guard"]
                 ELSE [kind |-> next, state |-> <<>>, offset |-> 0, width |-> 0, segments |-> <<>>]

\* An attitude needs a target flow of this model over the whole of its width.
AttitudeServed == flow.kind = "attitude" => TargetServes(certified["target"], 0, WidthOf("attitude"))

FlowStarts ==
  /\ Enclosing /\ flow.width = 0 /\ AttitudeServed
  /\ flow' = Begun(flow.kind)
  /\ UNCHANGED <<hold, certified, verdict, flight>>

\* max_substeps, or no inclusion at min_step: unresolved, and nothing is admitted.
FlowUnresolved ==
  /\ Enclosing /\ ~Finished
  /\ IF flow.width = 0 THEN ~AttitudeServed
     ELSE Len(flow.segments) >= SubstepBudget \/ flow.width < SmallestStep
  /\ Certify("unresolved")
  /\ flow' = NoFlow

\* A flow may come back from cached evidence without its last segment, and the
\* geometry may be replaced while it is checked.
Guard ==
  /\ flow.kind = "guard"
  /\ \E cut \in BOOLEAN, after \in {"declared", "other"} :
       LET flows == IF cut THEN [certified EXCEPT !["first"].segments = Front(@)] ELSE certified
           safe == ProvenSafe(flows, "declared", after)
       IN  /\ verdict' = IF safe THEN "safe" ELSE "unresolved"
           /\ flow' = NoFlow
           /\ certified' = IF safe THEN [certified EXCEPT !["first"] = Missing, !["second"] = Missing,
                                                           !["target"] = Missing]
                           ELSE [kind \in DOMAIN certified |-> Missing]
           /\ flight' = IF safe THEN [tick |-> 0, geometry |-> after] ELSE NoFlight
  /\ UNCHANGED hold

\* Only an admitted hold is flown, from any state its entries allow.
Depart ==
  /\ flight.tick = 0 /\ "at" \notin DOMAIN flight
  /\ \E at \in {[c \in Members |-> IF low[c] THEN hold.entry[c].lo ELSE hold.entry[c].hi] :
                  low \in [Members -> BOOLEAN]},
        pose \in -PoseError..PoseError, rate \in BodyRates.lo..BodyRates.hi :
       flight' = [tick |-> 0, geometry |-> flight.geometry, at |-> at,
                  target |-> 0, angle |-> pose, pose |-> pose, rate |-> rate]
  /\ UNCHANGED <<hold, flow, certified, verdict>>

\* One tick under any disturbance.
Drift ==
  /\ flight.tick \in 0..(HoldWidth - 1) /\ "at" \in DOMAIN flight
  /\ \E d \in [Members -> {-Disturbance, Disturbance}], rise \in 0..1 :
       flight' = [flight EXCEPT
         !.tick = @ + 1, !.target = @ + rise,
         !.angle = @ + flight.rate, !.rate = IF hold.gravity THEN @ - Pull(flight.target) ELSE @,
         !.at = [c \in Members |-> @[c] + hold.input[c] + d[c] + Pull(flight.target)]]
  /\ UNCHANGED <<hold, flow, certified, verdict>>

HoldProofNext ==
  PicardStep \/ PicardHalves \/ FlowProven \/ FlowStarts \/ FlowUnresolved \/ Guard \/ Depart \/ Drift

HoldProofSpec == HoldProofInit /\ [][HoldProofNext]_holdVars

-----------------------------------------------------------------------------
Flying == "at" \in DOMAIN flight

\* The orientation in the frame that turned by one in every tick.
Carried(part) ==
  LET turn == (flight.angle - flight.pose) - flight.tick
  IN  part.lever * (Max({-Turned, Min({Turned, turn})}) + flight.pose)

\* A hold that the guard proved safe stays clear of every part of the turning
\* target and of the other chaser, whatever the disturbance, the target and its
\* spin do inside what was declared: the inclusions, the target flow they were
\* driven by and the reserve for the turn hold up together.
ProvenHoldsStayClear ==
  Flying =>
    /\ \A c \in Members, part \in Geometry(flight.geometry) :
         \/ flight.at[c] - BodyRadius > part.hi + Carried(part)
         \/ flight.at[c] + BodyRadius < part.lo + Carried(part)
    /\ LET gap == flight.at["first"] - flight.at["second"]
       IN  Max({gap, -gap}) > RequiredDistance

\* The attitude certificate answers for a moment inside a segment with a box
\* that the actual orientation and rate are in.
PointInclusionsKeepTheAttitude ==
  Flying => LET box == StateAt(certified["attitude"], flight.tick)
            IN  Inside(flight.angle, box[1]) /\ Inside(flight.rate, box[2])

=============================================================================
