SPECIFICATION Spec
CONSTANTS
  Keys = {h, p}
  BinKeys = {}
  Values = {v1, v2}
  HostWrites = {h}
  PageWrites = {p}
  MaxQueue = 2
INVARIANTS TypeOK HostKeysAgree PageKeysAgree
PROPERTIES RequestHeals
