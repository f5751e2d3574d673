----------------------------- MODULE Registry ------------------------------
(***************************************************************************)
(* What the coroutine tree promises to cs_scheduler.c: a set of registered *)
(* coroutine ids that can be searched.                                     *)
(***************************************************************************)
EXTENDS Naturals

CONSTANTS Key, NULL

VARIABLES members,   \* the registered ids
          ret        \* the last query and its result, NULL after a change

vars == <<members, ret>>

Init == members = {} /\ ret = NULL

Register(k) == k \notin members /\ members' = members \cup {k} /\ ret' = NULL

Unregister(k) == k \in members /\ members' = members \ {k} /\ ret' = NULL

Find(k) == /\ ret' = [key |-> k, val |-> IF k \in members THEN k ELSE NULL]
           /\ members' = members

Least == /\ ret' = [min |-> IF members = {} THEN NULL
                             ELSE CHOOSE k \in members : \A l \in members : k <= l]
         /\ members' = members

\* 0 is the id of no coroutine; it may be searched for all the same.
Next == \/ Least
        \/ \E k \in Key : Register(k) \/ Unregister(k)
        \/ \E k \in Key \cup {0} : Find(k)

Spec == Init /\ [][Next]_vars
=============================================================================
