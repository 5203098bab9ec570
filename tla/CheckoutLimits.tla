---------------------------- MODULE CheckoutLimits ----------------------------
(***************************************************************************)
(* The settings and bounds of CheckoutReview: the operator's, those of the *)
(* code, and those of an instance.                                         *)
(***************************************************************************)
EXTENDS Naturals

CONSTANTS
    CloneDepth,   \* ai.claude.agentic.clone_depth, 0 for the whole history
    MaxRounds,    \* maxDeepenRounds
    Attempts,     \* ai.max_attempts
    Credentials,  \* how many model credentials travel by descriptor
    Deployment,   \* [scrub, tools, exposed]: the environments to look at
    MaxTip,       \* the target branch grows up to this commit
    Versions,     \* how often the head is pushed, the first included
    own,          \* the paths each version changes; 0 is a namesake's
    upstream,     \* the paths each commit of the target changes
    Unrelated     \* in place of a commit: a history that shares none

ASSUME CheckoutAssumption ==
    /\ CloneDepth \in Nat /\ MaxRounds \in Nat /\ Credentials \in Nat
    /\ Attempts \in Nat \ {0}
    /\ MaxTip \in Nat /\ Versions \in Nat \ {0}
    /\ Deployment \subseteq
          [scrub : {"on", "off", "unset"}, tools : BOOLEAN, exposed : BOOLEAN]
    /\ own \in [0..Versions -> SUBSET STRING]
    /\ upstream \in [1..MaxTip -> SUBSET STRING]
    /\ Unrelated \notin Nat
=============================================================================
