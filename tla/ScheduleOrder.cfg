SPECIFICATION Spec
CONSTANTS
  Cells = {c1, c2, c3}
  Null = Null
  MaxEvents = 3
  MaxDelay = 2
  MaxControls = 0
  MaxSignals = 0
SYMMETRY CellSymmetry
INVARIANTS Inductive RunAtDue ReadOnlyStable
PROPERTIES OrderKept Implements
