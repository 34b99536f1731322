SPECIFICATION Spec
CONSTANTS
  Keys = {k1}
  BinKeys = {k1}
  Values = {v1}
  MaxComms = 2
  MaxQueue = 1
  OpenMayFail = FALSE
  FrontMayClose = FALSE
  Callbacks = {"set_state"}
INVARIANT ListensWhileOpen
