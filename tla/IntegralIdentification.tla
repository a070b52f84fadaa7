----------------------- MODULE IntegralIdentification -----------------------
(***************************************************************************)
(* Bounded-error identification from three positions (estimation/          *)
(* membership/integral.py): a ledger accumulates moments of whole holds, a *)
(* tent between three snapshots removes the unknown velocity, and the rows *)
(* become cuts of a parameter set whose supports are certified by weights  *)
(* that anybody may propose.                                               *)
(*                                                                         *)
(* One axis and a clock of constant rate, so that acceleration is          *)
(*   p'' = drag * excitation + gain * command + bias + error.              *)
(* Positions are counted in half units; a row is multiplied by twice the   *)
(* lengths of its two arcs, an inequality by two.                          *)
(***************************************************************************)
EXTENDS Integers, Sequences, SequencesExt, FiniteSetsExt

CONSTANTS Prior,        \* the range of every parameter
          TrueParameters, Excitation, Commands, ErrorBound, PositionNoise,
          LastHold, MaximumRows, Cells, Objectives, Weights

IdentificationAssumption ==
  /\ TrueParameters \subseteq [{"drag", "gain", "bias"} -> Int]
  /\ \A theta \in TrueParameters, name \in {"drag", "gain", "bias"} :
       Prior[name][1] <= theta[name] /\ theta[name] <= Prior[name][2]
  /\ {ErrorBound, PositionNoise, LastHold, MaximumRows} \subseteq Nat

Names == {"drag", "gain", "bias"}

VARIABLES ledger,    \* IntegralMomentLedger
          snapshots, \* the retained IntegralPositionEvents
          cuts,      \* the rows of the IntegralParameterSet
          support,   \* the last certificate
          motion     \* the actual parameters, position and velocity
identificationVars == <<ledger, snapshots, cuts, support, motion>>

Sum(a, b) == <<a[1] + b[1], a[2] + b[2]>>
Times(k, range) == IF k >= 0 THEN <<k * range[1], k * range[2]>> ELSE <<k * range[2], k * range[1]>>
Dot(a, b) == MapThenSumSet(LAMBDA name : a[name] * b[name], Names)

Primitives == {"drag", "gain", "error"}
NoMoments == [name \in Primitives |-> <<0, 0>>]

-----------------------------------------------------------------------------
\* append: the bounds of one hold and their first moments, counted twice.
Appended(segment) ==
  LET zero == segment.end - segment.start
      first == segment.end * segment.end - segment.start * segment.start
      bounds == [drag |-> Excitation, gain |-> <<segment.command, segment.command>>,
                 error |-> <<ErrorBound, ErrorBound>>]
  IN  [q |-> segment.end, count |-> ledger.count + 1,
       zero |-> [name \in Primitives |-> Sum(ledger.zero[name], Times(zero, bounds[name]))],
       first |-> [name \in Primitives |-> Sum(ledger.first[name], Times(first, bounds[name]))]]

Since(left, right, name) == <<right[name][1] - left[name][1], right[name][2] - left[name][2]>>

\* _weighted: the integral of a line that is not negative on the arc, for the
\* end of the arc where the line vanishes and the factor of its slope.
Weighted(left, right, name, root, slope) ==
  LET first == Since(left.first, right.first, name)
      zero == Since(left.zero, right.zero, name)
  IN  <<slope * (first[1] - 2 * root * zero[1]), slope * (first[2] - 2 * root * zero[2])>>

\* Mutant: any three different snapshots.
Distinct(left, middle, right) == Cardinality({left.q, middle.q, right.q}) = 3

Ordered(left, middle, right) == left.q < middle.q /\ middle.q < right.q

\* rows: the tent between three snapshots, times twice both lengths.
TentRow(left, middle, right) ==
  LET before == middle.q - left.q
      after == right.q - middle.q
      Tent(name) == Sum(Weighted(left, middle, name, left.q, after),
                        Weighted(middle, right, name, right.q, -before))
      positions == Sum(Times(after, left.position),
                       Sum(Times(-(before + after), middle.position), Times(before, right.position)))
      error == Tent("error")[2]
  IN  [coefficients |-> [drag |-> Tent("drag"), gain |-> Tent("gain"),
                         bias |-> <<before * after * (before + after), before * after * (before + after)>>],
       observed |-> Sum(positions, <<-error, error>>)]

\* Mutant: the width of a coefficient is forgotten.
NoRemainder(row, cell) == 0

\* What the width of the coefficients adds over a cell, times two.
Remainder(row, cell) ==
  MapThenSumSet(LAMBDA name : (row.coefficients[name][2] - row.coefficients[name][1])
                                * Max({cell[name][1], -cell[name][1], cell[name][2], -cell[name][2]}), Names)

\* outer_inequalities: two half spaces of every row, times two.
OuterInequalities(cell) ==
  FlattenSeq([i \in DOMAIN cuts |->
    LET row == cuts[i]
        center == [name \in Names |-> row.coefficients[name][1] + row.coefficients[name][2]]
        remainder == Remainder(row, cell)
    IN  <<[normal |-> center, upper |-> 2 * row.observed[2] + remainder],
          [normal |-> [name \in Names |-> -center[name]], upper |-> remainder - 2 * row.observed[1]]>>])

\* support_certificate: proposed weights and the support of what they leave.
SupportOf(objective, weights, cell) ==
  LET rows == OuterInequalities(cell)
      Weight(i) == weights[(i % Len(weights)) + 1]
      residual == [name \in Names |->
                     objective[name] - FoldLeft(LAMBDA sum, i : sum + Weight(i) * rows[i].normal[name], 0,
                                                [i \in DOMAIN rows |-> i])]
  IN  FoldLeft(LAMBDA sum, i : sum + Weight(i) * rows[i].upper, 0, [i \in DOMAIN rows |-> i])
        + MapThenSumSet(LAMBDA name : Max({residual[name] * cell[name][1], residual[name] * cell[name][2]}), Names)

-----------------------------------------------------------------------------
SnapshotOf(moments, position) ==
  [q |-> moments.q, count |-> moments.count, zero |-> moments.zero, first |-> moments.first,
   position |-> <<position - PositionNoise, position + PositionNoise>>]

IdentificationInit ==
  /\ ledger = [q |-> -1, count |-> 0, zero |-> NoMoments, first |-> NoMoments]
  /\ motion \in [theta : TrueParameters, p : {0}, v : {1}]
  /\ snapshots = {SnapshotOf(ledger, 0)}
  /\ cuts = <<>> /\ support = {}

\* One hold of the actual motion, and perhaps a measured position at its end.
AppendHold ==
  /\ ledger.count < LastHold /\ cuts = <<>>
  /\ \E command \in Commands, excitation \in {Excitation[1], Excitation[2]}, error \in {-ErrorBound, ErrorBound} :
       LET a == motion.theta.drag * excitation + motion.theta.gain * command + motion.theta.bias + error
           segment == [start |-> ledger.q, end |-> ledger.q + 1, command |-> command]
       IN  /\ ledger' = Appended(segment)
           /\ motion' = [motion EXCEPT !.p = @ + 2 * motion.v + a, !.v = @ + a]
           /\ \/ UNCHANGED snapshots
              \/ \E noise \in {-PositionNoise, PositionNoise} :
                   snapshots' = snapshots \cup {SnapshotOf(ledger', motion'.p + noise)}
  /\ UNCHANGED <<cuts, support>>

\* add_rows: a whole arc, while the set has room.
AddRows ==
  /\ \E left, middle, right \in snapshots :
       /\ Ordered(left, middle, right)
       /\ Len(cuts) + 1 <= MaximumRows
       /\ cuts' = Append(cuts, TentRow(left, middle, right))
  /\ UNCHANGED <<ledger, snapshots, support, motion>>

\* A numerical backend proposes weights for some objective on some cell.
Certify ==
  /\ cuts # <<>> /\ support = {}
  /\ \E objective \in Objectives, weights \in Weights, cell \in Cells :
       support' = {[objective |-> objective, cell |-> cell, upper |-> SupportOf(objective, weights, cell)]}
  /\ UNCHANGED <<ledger, snapshots, cuts, motion>>

IdentificationNext == AppendHold \/ AddRows \/ Certify
IdentificationSpec == IdentificationInit /\ [][IdentificationNext]_identificationVars

-----------------------------------------------------------------------------
\* The actual parameters survive every cut, whatever happened between the
\* measured positions: no certificate over a cell that holds them bounds an
\* objective below its actual value, and none proves such a cell empty.
SupportsHoldTheTruth ==
  \A certificate \in support :
    (\A name \in Names : /\ certificate.cell[name][1] <= motion.theta[name]
                         /\ motion.theta[name] <= certificate.cell[name][2])
      => certificate.upper >= Dot(certificate.objective, motion.theta)

=============================================================================
