------------------------------ MODULE ReviewSlots ------------------------------
(***************************************************************************)
(* What the Kubernetes executor promises about the reviews of a cluster:   *)
(* never more than MaxConcurrent at once, never two of one pull request,   *)
(* and no review that starts twice.  `ReviewJobs` is shown to implement it *)
(* with any number of replicas.                                            *)
(***************************************************************************)
EXTENDS Naturals, FiniteSets

CONSTANTS Request, PR, prOf, MaxConcurrent

VARIABLES waiting,   \* the reviews queued
          running    \* the reviews holding a slot

vars == <<waiting, running>>

Init == waiting = {} /\ running = {}

Queue(r) == /\ r \notin waiting \cup running
            /\ waiting' = waiting \cup {r}
            /\ UNCHANGED running

Start(r) == /\ r \in waiting
            /\ Cardinality(running) < MaxConcurrent
            /\ \A s \in running : prOf[s] # prOf[r]
            /\ waiting' = waiting \ {r}
            /\ running' = running \cup {r}

End(r) == /\ r \in running
          /\ running' = running \ {r}
          /\ UNCHANGED waiting

Next == \E r \in Request : Queue(r) \/ Start(r) \/ End(r)

Spec == Init /\ [][Next]_vars
=============================================================================
