--------------------------- MODULE FleetGeometry ---------------------------
(***************************************************************************)
(* The separation of a whole fleet (control/fallback/geometry.py and       *)
(* polynomial.py): flown flows are compared on the cuts of all their       *)
(* segments, feedback plans by the region of every controller and, where   *)
(* all references are polynomials, by the difference of two references at  *)
(* the same time.                                                          *)
(*                                                                         *)
(* One axis, where distances need no squares, and one occupied part.       *)
(* Clocks are ticks; references are cubic splines with one knot whose      *)
(* coefficients are multiples of three, which Bernstein numbers divide by. *)
(***************************************************************************)
EXTENDS Integers, Sequences, FiniteSetsExt, Functions

CONSTANTS LastTick, Motions, PartMotions, Splines, TrackingErrors, BoxSlack,
          BodyRadius, Clearance, CenterDistance

GeometryAssumption ==
  /\ LastTick \in Nat /\ LastTick >= 2
  /\ {BodyRadius, Clearance, CenterDistance, BoxSlack} \subseteq Nat

Bodies == 1..2
VARIABLES request,      \* the flows or controllers to separate
          separation,   \* "asked", "refused", "unproved" or "admissible"
          flown         \* the clock and the places of the bodies
geometryVars == <<request, separation, flown>>

Stretch(lo, hi) == [lo |-> lo, hi |-> hi]
StretchOver(values) == Stretch(Min(values), Max(values))
Padded(range, by) == Stretch(range.lo - by, range.hi + by)

\* _box_distance_squared
Gap(a, b) == Max({0, a.lo - b.hi, b.lo - a.hi})

-----------------------------------------------------------------------------
\* A cubic is the function of its four coefficients.
Pascal[n \in 0..3] ==
  [k \in 0..3 |-> IF k = 0 THEN 1 ELSE IF k > n THEN 0 ELSE Pascal[n - 1][k - 1] + Pascal[n - 1][k]]

Power(x, n) == IF n = 0 THEN 1 ELSE x ^ n

\* _polynomial_shift
Shifted(c, offset) ==
  [j \in 0..3 |-> MapThenSumSet(LAMBDA i : c[i] * Pascal[i][j] * Power(offset, i - j), j..3)]

\* _polynomial_range: the convex hull of the Bernstein numbers.
BernsteinRange(c, lower, upper) ==
  LET power == [j \in 0..3 |-> Shifted(c, lower)[j] * Power(upper - lower, j)]
  IN  StretchOver({MapThenSumSet(LAMBDA j : (power[j] * Pascal[k][j]) \div Pascal[3][j], 0..k) : k \in 0..3})

ValueOf(piece, q) == Shifted(piece.c, q - piece.start)[0]

\* The pieces of a spline: twice continuously differentiable, the third
\* derivative jumps at the knot.
Pieces(spline) ==
  LET second == Shifted(spline.c, spline.knot)
  IN  {[start |-> 0, end |-> spline.knot, c |-> spline.c],
       [start |-> spline.knot, end |-> LastTick, c |-> [second EXCEPT ![3] = @ + spline.jump]]}

PieceOver(spline, lower, upper) ==
  CHOOSE piece \in Pieces(spline) : piece.start <= lower /\ upper <= piece.end

ReferenceAt(spline, q) == ValueOf(CHOOSE piece \in Pieces(spline) : piece.start <= q /\ q <= piece.end, q)

\* Mutant: every two pieces are taken to have one time basis.
AnyBasis(left, right) == TRUE

SharedBasis(left, right) == left.start = right.start

Minus(a, b) == [i \in 0..3 |-> a[i] - b[i]]

\* The intervals between neighbours of a set of cuts.
Neighbours(cuts) == {cut \in cuts \X cuts : cut[1] < cut[2] /\ ~\E c \in cuts : cut[1] < c /\ c < cut[2]}

\* difference_bounds: the difference of two references over a common window,
\* taken before it is bounded.
DifferenceBounds(first, second, start, end) ==
  LET knots == {knot \in {first.knot, second.knot} : start < knot /\ knot < end}
      Bound(lower, upper) ==
        LET left == PieceOver(first, lower, upper)
            right == PieceOver(second, lower, upper)
        IN  IF SharedBasis(left, right)
            THEN BernsteinRange(Minus(left.c, right.c), lower - left.start, upper - left.start)
            ELSE BernsteinRange(Minus(Shifted(left.c, lower - left.start), Shifted(right.c, lower - right.start)),
                                0, upper - lower)
      bounds == {Bound(cut[1], cut[2]) : cut \in Neighbours({start, end} \cup knots)}
  IN  StretchOver({b.lo : b \in bounds} \cup {b.hi : b \in bounds})

-----------------------------------------------------------------------------
\* The occupied bounds of a window: a box with some slack and the projection
\* on one direction.
Occupied(start, end) ==
  LET places == {request.part[q] : q \in start..end}
  IN  [box |-> Padded(StretchOver(places), BoxSlack),
       direction |-> request.direction,
       projected |-> StretchOver({request.direction * p : p \in places})]

\* Mutant: a negative direction leaves the ends of the box in their order.
OrderedProducts(direction, box) == Stretch(direction * box.lo, direction * box.hi)

Products(direction, box) == StretchOver({direction * box.lo, direction * box.hi})

\* _records: strict separation of every body from the part and of the bodies
\* from each other; "peers" holds at most one bound of their difference.
Separated(boxes, start, end, peers) ==
  LET target == Occupied(start, end)
      needed == BodyRadius + Clearance
      required == Max({2 * BodyRadius + Clearance, CenterDistance})
      origin == Stretch(0, 0)
  IN  /\ \A body \in Bodies :
           \/ Gap(boxes[body], target.box) > needed
           \/ Gap(Products(target.direction, boxes[body]), target.projected) > needed
      /\ \/ Gap(boxes[1], boxes[2]) > required
         \/ \E relative \in peers : Gap(relative, origin) > required

\* The flows of a request: a start, a width, and where their segments are cut.
Cuts(body) == {0, request.width[body]} \cup request.cuts[body]

\* Mutant: flows are compared by their offsets alone.
AnyClock == TRUE

SameClock == request.start[1] = request.start[2] /\ request.width[1] = request.width[2]

Swept(body, lower, upper) ==
  LET segment == CHOOSE s \in Neighbours(Cuts(body)) : s[1] <= lower /\ upper <= s[2]
  IN  StretchOver({request.motion[body][request.start[body] + offset] : offset \in segment[1]..segment[2]})

\* flows: on the cuts of all flows, at the clock of the first.
CertifyFlows ==
  /\ separation = "asked" /\ request.kind = "flows"
  /\ separation' =
       IF ~SameClock THEN "refused"
       ELSE IF \A cut \in Neighbours(Cuts(1) \cup Cuts(2)) :
                 Separated([body \in Bodies |-> Swept(body, cut[1], cut[2])],
                           request.start[1] + cut[1], request.start[1] + cut[2], {})
            THEN "admissible" ELSE "unproved"
  /\ UNCHANGED <<request, flown>>

\* The state box of a controller: its reference over its window and its error.
RegionBox(body) ==
  LET ranges == {BernsteinRange(piece.c, 0, piece.end - piece.start) : piece \in Pieces(request.spline[body])}
  IN  Padded(StretchOver({r.lo : r \in ranges} \cup {r.hi : r \in ranges}), request.omega[body])

\* Mutant: the errors of the two controllers are taken to be the same error.
SharedError == Max({request.omega[1], request.omega[2]})

ErrorSum == request.omega[1] + request.omega[2]

\* feedback_regions: the regions, and the relative position when every
\* reference has its polynomials; some of them is an error.
CertifyFeedback ==
  /\ separation = "asked" /\ request.kind = "feedback"
  /\ LET peers == IF request.advertised = {} THEN {}
                  ELSE {Padded(DifferenceBounds(request.spline[1], request.spline[2], request.start, LastTick),
                               ErrorSum)}
     IN  separation' =
           IF request.advertised # {} /\ request.advertised # Bodies THEN "refused"
           ELSE IF Separated([body \in Bodies |-> RegionBox(body)], request.start, LastTick, peers)
                THEN "admissible" ELSE "unproved"
  /\ UNCHANGED <<request, flown>>

-----------------------------------------------------------------------------
FlowRequests ==
  [kind : {"flows"}, motion : [Bodies -> Motions], start : [Bodies -> {0, 1}], width : [Bodies -> {2}],
   cuts : [Bodies -> SUBSET {1}], part : PartMotions, direction : {-1, 1}]

FeedbackRequests ==
  [kind : {"feedback"}, spline : [Bodies -> Splines], omega : [Bodies -> TrackingErrors],
   advertised : SUBSET Bodies, start : {0, 2}, part : PartMotions, direction : {-1}]

GeometryInit ==
  /\ request \in FlowRequests \cup FeedbackRequests
  /\ separation = "asked"
  /\ flown = [q |-> -1, place |-> [body \in Bodies |-> 0]]

FirstTick == IF request.kind = "flows" THEN request.start[1] ELSE request.start
FinalTick == IF request.kind = "flows" THEN request.start[1] + request.width[1] ELSE LastTick

\* The bodies follow their flows, or their references within their errors.
Fly ==
  /\ separation = "admissible" /\ flown.q < FinalTick
  /\ LET q == IF flown.q = -1 THEN FirstTick ELSE flown.q + 1
     IN  \E error \in [Bodies -> {-1, 1}] :
           flown' = [q |-> q,
                     place |-> [body \in Bodies |->
                       IF request.kind = "flows" THEN request.motion[body][q]
                       ELSE ReferenceAt(request.spline[body], q) + error[body] * request.omega[body]]]
  /\ UNCHANGED <<request, separation>>

GeometryNext == CertifyFlows \/ CertifyFeedback \/ Fly
GeometrySpec == GeometryInit /\ [][GeometryNext]_geometryVars

-----------------------------------------------------------------------------
\* While a certified window is flown, every body keeps its radius and the
\* clearance from the part, and both bodies from each other.
CertifiedBodiesStayApart ==
  flown.q # -1 =>
    LET Distance(a, b) == IF a > b THEN a - b ELSE b - a
    IN  /\ \A body \in Bodies : Distance(flown.place[body], request.part[flown.q]) > BodyRadius + Clearance
        /\ Distance(flown.place[1], flown.place[2]) > Max({2 * BodyRadius + Clearance, CenterDistance})

=============================================================================
