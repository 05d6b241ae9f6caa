SPECIFICATION Spec
CONSTANTS
  MAX_ORDER = 3
  SKIP_ORDER = 1
  PHYSIZE = 12
  Size <- PowersOfTwo
INVARIANTS
  AllRamUsed
