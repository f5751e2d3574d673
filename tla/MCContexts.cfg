SPECIFICATION MCSpec
CONSTANTS
  Thread = {master, parallel}
  Main = master
  Spawner = {master}
  Coro = {c1, c2}
  MaxCreates = 3
  Stk = {s1, s2}
  MainCoro = main
  Pages = 4
  PAGESIZE = 4
  Word = 2
  CORO_GUARDPAGES = 1
  DefaultSize = 1
  Size = {0, 3}
  NULL = NULL
INVARIANTS
  OwnFunction
  ContextsSound
  RunnerLocks
  ControlFollows
  ArgsAlive
  ThreadsOnStacks
  FailedCreateIsFinal
  StacksSound
PROPERTIES
  CreateReturns
  SomeoneRuns
CHECK_DEADLOCK FALSE
