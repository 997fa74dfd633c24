SPECIFICATION FairSpec
CONSTANTS
  Threads = {t1}
  Sends = {m1, m2}
  Models = {claude}
  NoThread = NoThread
  NoSend = NoSend
  DefaultModel = claude
  MaxChunks = 1
  MaxSaves = 1
  MayFailWrites = TRUE
INVARIANTS TypeOK BusyIsAccurate ShownTextIsKept
PROPERTIES AnswersAreKept AbortedEnds
CHECK_DEADLOCK FALSE
