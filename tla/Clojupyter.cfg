SPECIFICATION Spec
CONSTANTS
  MaxClicks = 3
  MaxSends = 2
INVARIANTS TypeOK EchoSkipped NothingLost Verdict
PROPERTY Settles
CHECK_DEADLOCK FALSE
