--------------------------- MODULE MCTerminalHandoff ---------------------------
(* A small instance of the terminal stage and its accounting for TLC. *)
EXTENDS TerminalHandoff, TLC

CONSTANTS a, b, out

Fleet == {a, b, out}
Set == {a, b}
OneEntry == {Set}

\* A greedy division of a unit hold leaves a fifth, less than the least step.
FourFifths == <<4, 5>>
AQuarter == <<1, 4>>

Interchangeable == Permutations(Set)

=============================================================================
