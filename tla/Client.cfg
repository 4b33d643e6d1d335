SPECIFICATION Spec
CONSTANTS
  Target = {A, B}
  None = None
  Msg = {m}
  MaxActs = 3
  MaxFaults = 2
  MaxLogins = 2
  Conv = {c, d}
  NoChat = NoChat
  MaxMsgs = 1
  MaxSteps = 2
  MaxReplies = 1
  MaxSpeech = 3
  MaxChunks = 2
  MaxErrors = 1
  Img = {i1, i2}
  Model = {q}
  NoBatch = NoBatch
  MaxAttempts = 2
  MaxPics = 2
  MaxDownloads = 1
  Emotions = 2
  MaxWork = 3
  MaxLoss = 2
  Dev = {A, B}
  Char = {c}
  Realm = {w}
  NoOne = NoOne
  MaxImg = 2
  MaxImages = 2
  Budget = 2
  MaxEdits <- TheEdits
  MaxCuts <- TheCuts
INVARIANTS ConversationIsOrdered OnlyTheLastIsHeard PendingWorkEnds PortraitsAreWhole
PROPERTIES  PortraitsArrive
CHECK_DEADLOCK FALSE
