SPECIFICATION FairSpec
CONSTANTS
  g_mastersched = gm
  g_parallelsched = gp
  Queue = {gm, gp}
  Elem = {c1, c2, c3, c4}
  NULL = NULL
  Uses = {"coro_spawn", "coro_yield", "coro_exit", "suspend", "sched_run_once"}
INVARIANTS
  Accounted
  NoCrash
PROPERTIES
  FifoSpec
  WaitingRuns
