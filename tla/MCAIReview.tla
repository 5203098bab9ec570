------------------------------ MODULE MCAIReview ------------------------------
(* Instances of AIReview for TLC: files, threads, branches, deployments.    *)
EXTENDS AIReview, TLC, FiniteSetsExt

\* Two light files, a heavy one, and two of middling weight.
MCUpTo == 0 :> 0 @@ 1 :> 1 @@ 2 :> 2 @@ 3 :> 7 @@ 4 :> 9 @@ 5 :> 11

\* A thread on a file that left, one on a light file, one on a later file.
MCFileOf == 1 :> 0 @@ 2 :> 2 @@ 3 :> 4

\* The namesake has a path in common with the pull request, so that the
\* tripwire alone would let it pass; the second version replaces the first.
MCOwn == 0 :> {"a", "n"} @@ 1 :> {"a"} @@ 2 :> {"b"}

\* The last commit of the target touches the path that the pull request does.
MCUpstream == 1 :> {"u"} @@ 2 :> {"v"} @@ 3 :> {"a"}

\* An operator who has not decided, with and without the scrub's tools.
MCDeployment == {[scrub |-> "unset", tools |-> t, exposed |-> TRUE] : t \in BOOLEAN}

\* Every pair of an error and a warning that pass the bar or not, an error that
\* has no text and one that has no dimension.
MCAnswers ==
    LET scored == [body : {TRUE}, dimension : {TRUE}, sure : BOOLEAN, error : BOOLEAN]
        void   == {f \in Finding : f.error /\ f.sure /\ f.body # f.dimension}
    IN  [verdict  : {"approve", "comment", "request_changes", "other"},
         findings : UNION {kSubset(k, scored \cup void) : k \in 0..2}]
=============================================================================
