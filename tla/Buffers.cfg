SPECIFICATION Spec
CONSTANTS
  N = 3
  Width = 2
  MaxDepths = {1, 2}
INVARIANTS TypeOK OriginalUntouched SplitsRight RoundTrip ClonesOnlyChanged RefusesRight
