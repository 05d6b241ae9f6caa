SPECIFICATION Spec
CONSTANTS
  N = 3
  SPLIT = 1
  MMIOBASE = 2
  s1 = s1
  s2 = s2
  Page = {1, 2, 3, 4, 5, 6, 7, 8}
  Early = Early
  None = None
  Space = {s1, s2}
  Frame <- Frames
  VA <- Pages
INVARIANTS
  TablesOwned
  KernelMapped
  OwnTranslations
  StaleOnlyAfterExecve
PROPERTIES
  ImplementsAddrSpace

