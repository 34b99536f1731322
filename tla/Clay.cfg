SPECIFICATION Spec
CONSTANTS
  Sockets = {s1, s2}
  Widgets = {a}
  Stranger = none
  Workers = 2
  MaxNoise = 1
  MaxClicks = 2
  MaxQueue = 1
INVARIANTS TypeOK CountsOnce NewestReaches NeverAhead
PROPERTIES CountsCatchUp
CHECK_DEADLOCK FALSE
