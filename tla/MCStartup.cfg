SPECIFICATION FairSpec
CONSTANTS
  g_mastersched = gm
  g_parallelsched = gp
  Queue = {gm, gp}
  Elem = {c1}
  NULL = NULL
  Uses = {"coro_spawn", "coro_yield", "coro_exit"}
PROPERTIES
  MasterStarts
