SPECIFICATION Spec
CONSTANTS
  g_mastersched = gm
  g_parallelsched = gp
  Queue = {gm, gp}
  Elem = {c1, c2}
  NULL = NULL
  Uses = {"coro_spawn", "coro_yield", "coro_exit", "sched_run_once"}
INVARIANTS
  ExitedFreed
