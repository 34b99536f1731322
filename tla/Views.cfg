SPECIFICATION Spec
CONSTANTS
  Keys = {k1, k2}
  Values = {lo, hi}
  Views = {v1, v2}
  Target = k1
  Low = lo
INVARIANTS TypeOK PaintsFresh ShowsFresh RemovedIsDeaf
