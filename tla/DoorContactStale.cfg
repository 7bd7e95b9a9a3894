SPECIFICATION Spec
CONSTANTS
  Width = 16
  Debounce = 1
  HeldLimit = 1
  Hold = 1
  Grace = 2
  MaxLag = 1
  MaxFlips = 0
  MaxReloads = 0
INVARIANT NoneMissed
