SPECIFICATION Spec
CONSTANTS
  MaxStep <- FourFifths
  MinStep <- AQuarter
  MaxSubsteps = 4
  a = a
  b = b
  out = out
  States <- Fleet
  Inside <- Set
  Entries <- OneEntry
  Bandwidths = 1
  MaximumHold = 2
  Window = 3
  Nothing = Nothing
  MaxHolds = 2
  MaxRuns = 1
SYMMETRY Interchangeable
INVARIANTS
  TerminalMovesAreProved
  HandoffIsWhole
CHECK_DEADLOCK FALSE
