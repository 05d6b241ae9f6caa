SPECIFICATION Spec
CONSTANTS
  W = 2
  PAGE_SIZE = 16
  USERSTACK = 100
  Name <- FirstName
  Calls <- ArgCalls
  MaxBuffers = 4
INVARIANTS
  ResultRight
  ProgramSeesArguments
  NothingLeftBehind
