---------------------------- MODULE MCContainers ----------------------------
(***************************************************************************)
(* The containers: the wait queues, the red-black tree of the registry and *)
(* the lists of cs_queue.h.  They share nothing, so a behaviour is one of  *)
(* one of them (part) while the others rest.                               *)
(***************************************************************************)
EXTENDS WaitQueue

CONSTANTS Key,       \* the keys of the tree
          ListElem   \* bound: the elements that are put into the lists

ASSUME KeyAssumption == Key \subseteq Nat \ {0} /\ NULL \notin Nat

VARIABLES part, tree, found, members, kind, heap, seqs, loop

R == INSTANCE RBTree WITH ret <- found
L == INSTANCE Lists

treevars == <<tree, found, members>>
listvars == <<kind, heap, seqs, loop>>

MCInit == /\ part \in {"queues", "tree", "lists"}
          /\ Init /\ R!Init /\ L!Init
          /\ part # "lists" => kind = "TAILQ"

MCNext == \/ part = "queues" /\ Next /\ UNCHANGED <<part, treevars, listvars>>
          \/ part = "tree" /\ R!Next /\ UNCHANGED <<part, vars, listvars>>
          \/ /\ part = "lists" /\ L!Next /\ UNCHANGED <<part, vars, treevars>>
             /\ \A q \in Queue : Members(seqs'[q]) \subseteq ListElem

MCSpec == MCInit /\ [][MCNext]_<<part, vars, treevars, listvars>>

\* See RBTree: a red-black search tree whose pointers agree.
TreeSound == part = "tree" => R!TreeSound

\* See RBTree: the tree implements a set of keys.
RegistrySpec == R!RegistrySpec

\* See Lists: the pointers of every list spell out its content, and its last
\* element is found through them.
ListsSound == part = "lists" => L!ListsSound

\* See Lists: loops visit every element once, in order.
LoopsVisitAll == part = "lists" => L!LoopsVisitAll
=============================================================================
