SPECIFICATION Spec
CONSTANTS
  Task = {1, 2}
  Page = {1,2,3,4,5,6,7,8,9,10,11,12,13,14,15,16,17,18,19,20,21,22}
  PAGE_SIZE = 2
  USERSTACKMIN = 3
  USERSTACK = 6
  Program <- Code
  Written = {100}
  Zero = 200
  Stale = 300
  NULL = NULL
  None = None
  MaxExec = 1
INVARIANTS
  AreasSound
  PagesOwned
  StackCanGrow
PROPERTIES
  ImplementsUserMemory
