SPECIFICATION PanelSpec
CONSTANTS
  claude = claude
  gpt = gpt
  Threads = {t1}
  Sends = {m1}
  Models = {claude, gpt}
  ProviderOf <- MCProviderOf
  NoModel = NoModel
  Registry = {"papers"}
  NoThread = NoThread
  NoSend = NoSend
  DefaultModel = claude
  MaxChunks = 0
  MaxSaves = 1
  MayFailWrites = TRUE
INVARIANTS PanelTypeOK ChoiceHolds
PROPERTY NoKeylessSend
CHECK_DEADLOCK FALSE
