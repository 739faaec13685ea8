SPECIFICATION Spec
CONSTANTS
  Federators = {f1, f2}
  Proposer = f1
  Scanning = {f1}
  Threshold = 2
  Mints = {mint}
  Melts = {melt}
  Inputs = {i1, i2, i3}
  MaxFaults = 1
  None = None
SYMMETRY Symmetry
INVARIANTS SignaturesStand ReportsAreTrue DisjointInputs NothingStuck
CHECK_DEADLOCK FALSE
