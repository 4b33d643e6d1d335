SPECIFICATION StoreSpec
CONSTANTS
  Handler = {h1, h2}
  Mem = {a, b, c}
  Title = {"tea", "log"}
  Context = {"x", "y"}
  Text = {"s"}
  ListLimit = 2
  MaxRev = 3
  Id = {a, b, c}
  Portrait = {"calm", "glad"}
  MaxPending = 2
  MaxEdits = 2
  User = {a, b, c}
  Clerk = {h1, h2}
  MaxSteps = 7
SYMMETRY StoreSymmetry
INVARIANTS StoreConsistent MessagesConsistent AdminRemains
PROPERTIES BackgroundWorkKeepsEdits UpToDateCommitKeepsLog DeletionIsSafe VariantPortraitFits
CHECK_DEADLOCK FALSE
