SPECIFICATION Spec
CONSTANTS
  Keys = {k1}
  BinKeys = {k1}
  Values = {v1}
  MaxComms = 3
  MaxQueue = 2
  OpenMayFail = FALSE
  FrontMayClose = TRUE
  Callbacks = {"set_state"}
INVARIANTS StoryAgrees AnnouncedFirst FarewellLast
PROPERTIES ImplementsContract
