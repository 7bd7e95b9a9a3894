SPECIFICATION Spec
CONSTANTS
  Width = 16
  Debounce = 1
  HeldLimit = 1
  Hold = 1
  Grace = 2
  MaxLag = 1
  MaxFlips = 2
  MaxReloads = 1
INVARIANTS ForcedReported HeldReported
PROPERTY ForcedUnreleased
