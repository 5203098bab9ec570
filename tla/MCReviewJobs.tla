----------------------------- MODULE MCReviewJobs -----------------------------
(* Instances of ReviewJobs for TLC; the .cfg files choose the constants.   *)
EXTENDS ReviewJobs, TLC

CONSTANTS r1, r2, r3, x, y, p1, p2

\* Which pull request each request is for.
MCTwo       == r1 :> x @@ r2 :> y
MCThree     == r1 :> x @@ r2 :> x @@ r3 :> x

\* Where requests come in: anywhere, or the first where one replica is as good
\* as the other.
MCAnywhere   == [r \in Request |-> Replica]
MCFirstFixed == r1 :> {p1} @@ r2 :> {p1, p2}

\* How many replicas die: one if calls fail too, or one that alone disturbs.
MCOneInTrouble == TRUE :> 1 @@ FALSE :> 0
MCOne          == FALSE :> 1

\* Replicas are interchangeable: sound for the safety runs only.
Symmetry == Permutations(Replica)
=============================================================================
