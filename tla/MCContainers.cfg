SPECIFICATION MCSpec
CONSTANTS
  Queue = {qm, qp}
  Elem = {c1, c2, c3, c4}
  Key = {1, 2, 3, 4, 5, 6}
  ListElem = {c1, c2, c3}
  NULL = NULL
INVARIANTS
  PointersHoldQueues
  TreeSound
  ListsSound
  LoopsVisitAll
PROPERTIES
  DequeSpec
  RegistrySpec
