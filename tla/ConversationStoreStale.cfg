SPECIFICATION MCSpec
CONSTANTS
  Handler = {h1, h2}
  Mem = {m1, m2}
  Title = {"tea", "log"}
  Context = {"x", "y"}
  Text = {"s", "t"}
  ListLimit = 2
  MaxRev = 2
SYMMETRY Symmetry
INVARIANTS LogMatchesTables
CHECK_DEADLOCK FALSE
