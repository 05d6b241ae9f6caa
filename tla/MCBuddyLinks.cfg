SPECIFICATION Spec
CONSTANTS
  MAX_ORDER = 3
  SKIP_ORDER = 1
  PHYSIZE = 12
  Size <- PowersOfTwo
  PAGE_SIZE = 4096
  HEADER = 4
  Orders = {0}
  Requests = {4080, 4093}
  NULL = NULL
INVARIANTS
  BuffersFit ListsEnd
PROPERTIES
  ImplementsBuddy
