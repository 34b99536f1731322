SPECIFICATION Spec
CONSTANTS
  Sockets = {s1, s2}
  Widgets = {a}
  Stranger = none
  Workers = 2
  MaxNoise = 0
  MaxClicks = 2
  MaxQueue = 1
INVARIANT PagesConverge
CHECK_DEADLOCK FALSE
