SPECIFICATION Spec
CONSTANTS
  g_mastersched = gm
  g_parallelsched = gp
  Queue = {gm, gp}
  Elem = {c1, c2, c3}
  NULL = NULL
  Uses = {"coro_spawn", "coro_yield", "coro_exit", "suspend", "sched_run_once", "need_parallel", "spawn_parallel", "return", "env_stop", "register_event"}
INVARIANTS
  QueuesSound
  OneOwner
  NoUseAfterFree
  Exclusion
