---------------------------- MODULE AIReviewProof ----------------------------
(***************************************************************************)
(* Theorems about the checkout and the attempts (CheckoutReview), for any  *)
(* branches, pushes, clone depth, number of attempts and credentials: what *)
(* the agent is asked about, what a run leaves behind, and which failures  *)
(* are tried again.  Then about the run that they and the slices make      *)
(* together (AIReview): it behaves, for each of its two parts, as that     *)
(* part's own specification allows, so what is proved of the parts alone,  *)
(* here and in BatchReviewProof, holds of the run; and its vote is earned. *)
(***************************************************************************)
EXTENDS AIReview, BatchReviewProof, TLAPS

-----------------------------------------------------------------------------
(* The checkout and the attempts: the invariant.                           *)

\* The steps between a made directory and its release.
Checked == Asking \cup {"request", "failed", "posting"}

\* Where the directory, the descriptors and the agent are.
Held ==
    /\ step \in {"fetch", "base", "diff", "match", "discard"} => dir = "there"
    /\ agentic /\ step \in Checked => dir = "there"
    /\ step \in {"unavailable", "ended"} => dir # "there"
    /\ step \in {"start", "fork", "mkdir"} => dir = "none"
    /\ ~agentic => dir = "none"
    /\ step \in {"batches", "fallback"} => ~agentic
    /\ step \in (Making \ {"start"}) \cup {"handover", "sandbox", "launch", "running"} => agentic
    /\ step \notin {"handover", "sandbox", "launch", "exited"} => sockets = 0
    /\ cli <=> step = "running"

\* What is checked out, and what its changes are.
Found ==
    /\ head.version > 0
    /\ round > MaxRounds => low = 0
    /\ step \in {"start", "fork", "mkdir", "fetch"} => round = 0
    /\ step \in {"mkdir", "fetch", "base"} => repo.pullRef \/ ~repo.fork
    /\ agentic /\ step \in {"base", "diff", "match"} \cup Checked => at.version > 0
    /\ step = "diff" => base = headRef.fork
    /\ agentic /\ step \in {"match"} \cup Checked =>
          (headRef.fork = at.fork => changed = own[at.version])

\* What the last attempt came to allows another.
Retriable == ~late /\ reply \notin {"review", "limit", "overflow", "refusal"}

\* How far the attempts are, and what is known when one returns an error.
Trying ==
    /\ step \in Making \cup {"request"} => attempt = 0 /\ late = FALSE /\ reply = "none"
    /\ step \in {"attempt", "handover", "sandbox", "launch"} => Retriable
    /\ step = "fallback" => ~late
    /\ agentic /\ step \in {"handover", "sandbox", "launch", "running", "exited"} => ~unprotected
    /\ step = "returning" /\ failure = "error" /\ ~cancelled =>
          Retriable /\ (agentic => ~unprotected)

RunInv == CheckoutTypeOK /\ Held /\ Found /\ Trying

-----------------------------------------------------------------------------
\* The numbers among the constants.
LEMMA Bounds ==
    /\ CloneDepth \in Nat /\ MaxRounds \in Nat /\ Credentials \in Nat
    /\ Attempts \in Nat \ {0} /\ MaxTip \in Nat /\ Versions \in Nat \ {0}
BY CheckoutAssumption

LEMMA RunInit == CheckoutInit => RunInv
<1> SUFFICES ASSUME CheckoutInit PROVE RunInv
    OBVIOUS
<1> USE Bounds
<1>1. WorldTyped
    <2>1. PICK f \in 0..tip \cup {Unrelated} : head = [version |-> 1, fork |-> f]
        BY DEF CheckoutInit
    <2>2. tip \in 0..MaxTip
        BY DEF CheckoutInit
    <2>3. f \in Point /\ 1 \in 0..Versions
        BY <2>2 DEF Point
    <2>4. head \in Version
        BY <2>1, <2>3 DEF Version
    <2> QED BY <2>2, <2>4 DEF CheckoutInit, WorldTyped
<1>2. Nowhere \in Version
    BY DEF Nowhere, Version, Point
<1>3. CloneTyped
    BY <1>2 DEF CheckoutInit, CloneTyped
<1>3a. AgentTyped
    <2>1. 0 \in 0..Attempts /\ 0 \in 0..Credentials
        OBVIOUS
    <2> QED BY <2>1 DEF CheckoutInit, AgentTyped, Reply
<1>4. step \in Step /\ failure \in Failure
    BY DEF CheckoutInit, Step, Asking, Making, Remote, Failure
<1>5. Held
    BY DEF CheckoutInit, Held, Checked, Asking, Making, Remote
<1>6. Found
    BY DEF CheckoutInit, Found, Checked, Asking
<1>7. Trying
    BY DEF CheckoutInit, Trying, Retriable, Making, Remote
<1> QED BY <1>1, <1>3, <1>3a, <1>4, <1>5, <1>6, <1>7 DEF RunInv, CheckoutTypeOK

-----------------------------------------------------------------------------
(* Types.                                                                  *)

\* What only the world changes.
LEMMA WorldStep == WorldTyped /\ [CheckoutNext]_checkoutVars => WorldTyped'
<1> SUFFICES ASSUME WorldTyped, [CheckoutNext]_checkoutVars PROVE WorldTyped'
    OBVIOUS
<1> USE Bounds
<1>1. CASE UNCHANGED <<remote, setting, cancelled>>
    BY <1>1 DEF WorldTyped, remote, setting
<1>2. CASE Push
    <2>1. PICK f \in 0..tip \cup {Unrelated} :
              head' = [version |-> head.version + 1, fork |-> f]
        BY <1>2 DEF Push
    <2>2. f \in Point /\ head.version + 1 \in 0..Versions
        BY <1>2 DEF Push, WorldTyped, Point, Version
    <2>3. head' \in Version
        BY <2>1, <2>2 DEF Version
    <2> QED BY <1>2, <2>3 DEF Push, WorldTyped, setting
<1>3. CASE Advance
    <2>1. tip' \in 0..MaxTip
        BY <1>3 DEF Advance, WorldTyped
    <2> QED BY <1>3, <2>1 DEF Advance, WorldTyped, setting
<1>3a. CASE Close
    BY <1>3a DEF Close, WorldTyped, setting
<1>3b. CASE Interrupt
    BY <1>3b DEF Interrupt, WorldTyped, remote, setting
<1>4. CASE Work
    <2>1. UNCHANGED <<remote, setting, cancelled>>
        BY <1>4 DEF Work, Checkout, Attempt, KeepClone, KeepAgent, skipWorkspace, resolveBranches,
            refuseUnreachableFork, MkdirTemp, fetchBranches, MergeBase, Deepen, NoMergeBase,
            changedFiles, checkoutMatchesPullRequest, Discard, AnnounceUnavailable, Request,
            resolveSubprocessEnvScrub, handOverCredentials, prepareAgentSandbox, Launch, Deadline,
            Exit, interpret, AskModel, AskFallback, Retry, Succeed, GiveUp, Overflow, Batched, Announce, Post, Release
    <2> QED BY <1>1, <2>1
<1>5. CASE UNCHANGED checkoutVars
    BY <1>1, <1>5 DEF checkoutVars
<1> QED BY <1>2, <1>3, <1>3a, <1>3b, <1>4, <1>5 DEF CheckoutNext

\* What only the checkout changes.
LEMMA CloneStep ==
    CheckoutTypeOK /\ Found /\ [CheckoutNext]_checkoutVars => CloneTyped'
<1> SUFFICES ASSUME CheckoutTypeOK, Found, [CheckoutNext]_checkoutVars PROVE CloneTyped'
    OBVIOUS
<1> USE Bounds
<1>1. CASE UNCHANGED clone
    BY <1>1 DEF CheckoutTypeOK, CloneTyped, clone
<1>2. headSource \in Version
    BY DEF CheckoutTypeOK, WorldTyped, headSource, Version, Point
<1>3. CASE MkdirTemp
    BY <1>1, <1>3 DEF MkdirTemp, Unavailable, CheckoutTypeOK, CloneTyped
<1>4. CASE fetchBranches
    <2>1. CASE ~(UNCHANGED clone)
        <3>1. tip \in 0..MaxTip
            BY DEF CheckoutTypeOK, WorldTyped
        <3>2. low' \in 0..MaxTip
            BY <1>4, <2>1, <3>1 DEF fetchBranches, Discarded, less
        <3> QED BY <1>2, <1>4, <2>1, <3>2 DEF fetchBranches, Discarded, CheckoutTypeOK, CloneTyped
    <2> QED BY <1>1, <2>1
<1>5. CASE MergeBase
    BY <1>5 DEF MergeBase, hasMergeBase, CheckoutTypeOK, CloneTyped, Version, Point
<1>6. CASE Deepen
    <2>1. round' \in 0..(MaxRounds + 1)
        BY <1>6 DEF Deepen, Found, isShallow, complete, CheckoutTypeOK, CloneTyped
    <2> QED BY <1>2, <1>6, <2>1 DEF Deepen, less, CheckoutTypeOK, CloneTyped
<1>7. CASE changedFiles
    <2>1. at.version \in 0..Versions
        BY DEF CheckoutTypeOK, CloneTyped, Version
    <2>2. own[at.version] \subseteq STRING /\ \A k \in 1..MaxTip : upstream[k] \subseteq STRING
        BY <2>1, CheckoutAssumption
    <2>3. \A i, j : between(i, j) \subseteq 1..MaxTip
        BY DEF between
    <2>4. changed' \subseteq STRING
        BY <1>1, <1>7, <2>2, <2>3 DEF changedFiles, mergeFileChanges, Discarded, clone, CheckoutTypeOK, CloneTyped
    <2> QED BY <1>1, <1>7, <2>4 DEF changedFiles, Discarded, clone, CheckoutTypeOK, CloneTyped
<1>8. CASE Discard \/ Release
    BY <1>8 DEF Discard, Release, Remove, CheckoutTypeOK, CloneTyped
<1>9. CASE skipWorkspace \/ resolveBranches \/ refuseUnreachableFork \/ NoMergeBase
           \/ checkoutMatchesPullRequest \/ AnnounceUnavailable
    BY <1>1, <1>9 DEF skipWorkspace, resolveBranches, refuseUnreachableFork, NoMergeBase,
        checkoutMatchesPullRequest, AnnounceUnavailable, Unavailable, Discarded
<1>10. CASE Attempt \/ Announce \/ Post
    BY <1>1, <1>10 DEF Attempt, KeepClone, Request, resolveSubprocessEnvScrub, handOverCredentials,
        prepareAgentSandbox, Launch, Deadline, Exit, interpret, AskModel, AskFallback, Retry, Succeed, GiveUp,
        Overflow, Batched, Announce, Post
<1>11. CASE Push \/ Advance \/ Close \/ Interrupt \/ UNCHANGED checkoutVars
    BY <1>1, <1>11 DEF Push, Advance, Close, Interrupt, checkoutVars
<1> QED BY <1>3, <1>4, <1>5, <1>6, <1>7, <1>8, <1>9, <1>10, <1>11 DEF CheckoutNext, Work, Checkout

\* What only the attempts change.
LEMMA AgentStep == CheckoutTypeOK /\ Held /\ [CheckoutNext]_checkoutVars => AgentTyped'
<1> SUFFICES ASSUME CheckoutTypeOK, Held, [CheckoutNext]_checkoutVars PROVE AgentTyped'
    OBVIOUS
<1> USE Bounds
<1>1. CASE UNCHANGED agent
    BY <1>1 DEF CheckoutTypeOK, AgentTyped, agent
<1>2. CASE Checkout \/ Announce \/ Post \/ Release
    BY <1>1, <1>2 DEF Checkout, KeepAgent, skipWorkspace, resolveBranches, refuseUnreachableFork,
        MkdirTemp, fetchBranches, MergeBase, Deepen, NoMergeBase, changedFiles,
        checkoutMatchesPullRequest, Discard, AnnounceUnavailable, Announce, Post, Release
<1>3. CASE Request
    BY <1>3 DEF Request, CheckoutTypeOK, AgentTyped
<1>4. CASE resolveSubprocessEnvScrub \/ Succeed \/ GiveUp \/ Overflow \/ Batched
    BY <1>1, <1>4 DEF resolveSubprocessEnvScrub, Succeed, GiveUp, Overflow, Batched
<1>5. CASE handOverCredentials
    <2>1. sockets \in 0..Credentials
        BY DEF CheckoutTypeOK, AgentTyped
    <2>2. sockets' \in 0..Credentials
        BY <1>5, <2>1 DEF handOverCredentials, Return
    <2> QED BY <1>5, <2>2 DEF handOverCredentials, CheckoutTypeOK, AgentTyped
<1>5a. 0 \in 0..Credentials
    OBVIOUS
<1>6. CASE prepareAgentSandbox
    BY <1>5a, <1>6 DEF prepareAgentSandbox, CheckoutTypeOK, AgentTyped
<1>6a. CASE Launch
    BY <1>5a, <1>6a DEF Launch, CheckoutTypeOK, AgentTyped, Reply
<1>6b. CASE Deadline
    BY <1>6b DEF Deadline, CheckoutTypeOK, AgentTyped
<1>7. CASE Exit
    BY <1>7 DEF Exit, CheckoutTypeOK, AgentTyped, Reply
<1>8. CASE interpret
    BY <1>5a, <1>8 DEF interpret, CheckoutTypeOK, AgentTyped
<1>8a. CASE AskModel \/ AskFallback
    <2>1. reply' \in Reply
        BY <1>8a DEF AskModel, AskFallback, answers, cliAnswers, openaiAnswers, reviewAnswers, Reply
    <2> QED BY <1>8a, <2>1 DEF AskModel, AskFallback, CheckoutTypeOK, AgentTyped
<1>9. CASE Retry
    <2>1. attempt' \in 0..Attempts
        BY <1>9 DEF Retry, CheckoutTypeOK, AgentTyped
    <2> QED BY <1>9, <2>1 DEF Retry, CheckoutTypeOK, AgentTyped
<1>10. CASE Push \/ Advance \/ Close \/ Interrupt \/ UNCHANGED checkoutVars
    BY <1>1, <1>10 DEF Push, Advance, Close, Interrupt, checkoutVars
<1> QED BY <1>2, <1>3, <1>4, <1>5, <1>6, <1>6a, <1>6b, <1>7, <1>8, <1>8a, <1>9, <1>10
        DEF CheckoutNext, Work, Attempt

\* Where a step leads and what it makes of a failure.
LEMMA StageStep ==
    CheckoutTypeOK /\ [CheckoutNext]_checkoutVars => step' \in Step /\ failure' \in Failure
<1> SUFFICES ASSUME CheckoutTypeOK, [CheckoutNext]_checkoutVars
             PROVE  step' \in Step /\ failure' \in Failure
    OBVIOUS
<1> USE DEF Goto, Return, Step, Making, Remote, Asking, Failure, Final
<1>1. step \in Step /\ failure \in Failure
    BY DEF CheckoutTypeOK
<1>2. CASE Checkout
    BY <1>1, <1>2 DEF Checkout, skipWorkspace, resolveBranches, refuseUnreachableFork, MkdirTemp,
        fetchBranches, MergeBase, Deepen, NoMergeBase, changedFiles, checkoutMatchesPullRequest,
        Discard, AnnounceUnavailable, Unavailable, Discarded
<1>3. CASE Attempt
    BY <1>1, <1>3 DEF Attempt, Request, resolveSubprocessEnvScrub, handOverCredentials,
        prepareAgentSandbox, Launch, Deadline, Exit, interpret, AskModel, AskFallback, classify, Retry, Succeed,
        GiveUp, Overflow, Batched
<1>4. CASE Announce \/ Post \/ Release
    BY <1>1, <1>4 DEF Announce, Post, Release
<1>5. CASE Push \/ Advance \/ Close \/ Interrupt \/ UNCHANGED checkoutVars
    BY <1>1, <1>5 DEF Push, Advance, Close, Interrupt, checkoutVars
<1> QED BY <1>2, <1>3, <1>4, <1>5 DEF CheckoutNext, Work

-----------------------------------------------------------------------------
(* The directory, the descriptors, the agent.                              *)

LEMMA HeldStep == CheckoutTypeOK /\ Held /\ [CheckoutNext]_checkoutVars => Held'
<1> SUFFICES ASSUME CheckoutTypeOK, Held, [CheckoutNext]_checkoutVars PROVE Held'
    OBVIOUS
<1> USE DEF Held, Goto, Making, Remote, Checked, Asking, KeepAgent, KeepClone, remote, setting, agent, clone
<1>1. cli \in BOOLEAN /\ agentic \in BOOLEAN /\ cli' \in BOOLEAN
    BY AgentStep DEF CheckoutTypeOK, AgentTyped, WorldTyped
<1>2. CASE skipWorkspace \/ resolveBranches \/ refuseUnreachableFork \/ MkdirTemp
    BY <1>1, <1>2 DEF skipWorkspace, resolveBranches, refuseUnreachableFork, MkdirTemp, Unavailable
<1>3. CASE fetchBranches \/ MergeBase \/ Deepen \/ NoMergeBase
    BY <1>1, <1>3 DEF fetchBranches, MergeBase, Deepen, NoMergeBase, Discarded
<1>4. CASE changedFiles \/ checkoutMatchesPullRequest
    BY <1>1, <1>4 DEF changedFiles, checkoutMatchesPullRequest, Discarded
<1>5. CASE Discard \/ AnnounceUnavailable \/ Release
    BY <1>1, <1>5 DEF Discard, AnnounceUnavailable, Release, Remove
<1>6. CASE Request \/ resolveSubprocessEnvScrub \/ handOverCredentials \/ prepareAgentSandbox
    BY <1>1, <1>6 DEF Request, resolveSubprocessEnvScrub, handOverCredentials, prepareAgentSandbox, Return
<1>7. CASE Launch \/ Deadline \/ Exit
    BY <1>1, <1>7 DEF Launch, Deadline, Exit
<1>8. CASE interpret \/ AskModel \/ AskFallback
    BY <1>1, <1>8 DEF interpret, AskModel, AskFallback, Return
<1>9. CASE Retry \/ Succeed \/ GiveUp \/ Overflow \/ Batched
    BY <1>1, <1>9 DEF Retry, Succeed, GiveUp, Overflow, Batched
<1>10. CASE Announce \/ Post
    BY <1>1, <1>10 DEF Announce, Post
<1>11. CASE Push \/ Advance \/ Close \/ Interrupt \/ UNCHANGED checkoutVars
    BY <1>1, <1>11 DEF Push, Advance, Close, Interrupt, checkoutVars
<1> QED BY <1>2, <1>3, <1>4, <1>5, <1>6, <1>7, <1>8, <1>9, <1>10, <1>11
        DEF CheckoutNext, Work, Checkout, Attempt

-----------------------------------------------------------------------------
(* What is checked out.                                                    *)

LEMMA FoundStep ==
    CheckoutTypeOK /\ Held /\ Found /\ [CheckoutNext]_checkoutVars => Found'
<1> SUFFICES ASSUME CheckoutTypeOK, Held, Found, [CheckoutNext]_checkoutVars PROVE Found'
    OBVIOUS
<1> USE DEF Found, Goto, Making, Remote, Checked, Asking, KeepAgent, KeepClone, remote, setting, agent, clone
<1>1. head.version \in Nat /\ agentic \in BOOLEAN
    BY Bounds DEF CheckoutTypeOK, WorldTyped, Version
<1>2. CASE skipWorkspace \/ resolveBranches \/ refuseUnreachableFork \/ MkdirTemp
    BY <1>2 DEF skipWorkspace, resolveBranches, refuseUnreachableFork, MkdirTemp, Unavailable
<1>3. CASE fetchBranches
    <2>1. headSource = head
        BY <1>3 DEF fetchBranches, headSource, CheckoutTypeOK, WorldTyped
    <2>2. 0 > MaxRounds => FALSE
        BY Bounds
    <2> QED BY <1>3, <2>1, <2>2 DEF fetchBranches, Discarded
<1>4. CASE MergeBase \/ NoMergeBase
    BY <1>4, Bounds DEF MergeBase, NoMergeBase, Discarded
<1>5. CASE Deepen
    <2>1. round' > MaxRounds => low' = 0
        BY <1>5, Bounds DEF Deepen, CheckoutTypeOK, CloneTyped
    <2> QED BY <1>5, <2>1 DEF Deepen
<1>6. CASE changedFiles
    <2>1. CASE Discarded
        BY <1>6, <2>1 DEF changedFiles, Discarded
    <2>2. CASE ~Discarded
        <3>1. base = headRef.fork /\ UNCHANGED <<headRef, at, head, base>>
            BY <1>6, <2>2 DEF changedFiles
        <3>2. between(base, base) = {}
            BY Bounds DEF between, CheckoutTypeOK, CloneTyped
        <3>3. headRef.fork = at.fork => changed' = own[at.version]
            BY <1>6, <2>2, <3>1, <3>2 DEF changedFiles, mergeFileChanges
        <3> QED BY <1>6, <2>2, <3>1, <3>3 DEF changedFiles
    <2> QED BY <2>1, <2>2
<1>7. CASE checkoutMatchesPullRequest
    BY <1>7 DEF checkoutMatchesPullRequest
<1>8. CASE Discard \/ AnnounceUnavailable \/ Release
    BY <1>8 DEF Discard, AnnounceUnavailable, Release, Remove
<1>9. CASE Request \/ resolveSubprocessEnvScrub \/ handOverCredentials \/ prepareAgentSandbox
    BY <1>9 DEF Request, resolveSubprocessEnvScrub, handOverCredentials, prepareAgentSandbox, Return
<1>10. CASE Launch \/ Deadline \/ Exit \/ interpret \/ AskModel \/ AskFallback
    BY <1>10, <1>1 DEF Launch, Deadline, Exit, interpret, AskModel, AskFallback, Return, Held
<1>11. CASE Retry \/ Succeed \/ GiveUp \/ Overflow \/ Batched
    BY <1>11 DEF Retry, Succeed, GiveUp, Overflow, Batched, Held
<1>12. CASE Announce \/ Post
    BY <1>12 DEF Announce, Post
<1>13. CASE Push
    <2>1. head'.version > 0
        BY <1>1, <1>13 DEF Push
    <2> QED BY <1>13, <2>1 DEF Push
<1>14. CASE Advance \/ Close \/ Interrupt \/ UNCHANGED checkoutVars
    BY <1>14 DEF Advance, Close, Interrupt, checkoutVars
<1> QED BY <1>2, <1>3, <1>4, <1>5, <1>6, <1>7, <1>8, <1>9, <1>10, <1>11, <1>12, <1>13, <1>14
        DEF CheckoutNext, Work, Checkout, Attempt

-----------------------------------------------------------------------------
(* The attempts.                                                           *)

LEMMA TryingStep ==
    CheckoutTypeOK /\ Held /\ Trying /\ [CheckoutNext]_checkoutVars => Trying'
<1> SUFFICES ASSUME CheckoutTypeOK, Held, Trying, [CheckoutNext]_checkoutVars PROVE Trying'
    OBVIOUS
<1> USE DEF Trying, Retriable, Goto, Making, Remote, Asking, KeepAgent, KeepClone, remote, setting, agent, clone,
            unprotected
<1>1. late \in BOOLEAN /\ late' \in BOOLEAN /\ cancelled \in BOOLEAN /\ agentic \in BOOLEAN
    BY AgentStep DEF CheckoutTypeOK, AgentTyped, WorldTyped
<1>2. CASE skipWorkspace \/ resolveBranches \/ refuseUnreachableFork \/ MkdirTemp
    BY <1>2 DEF skipWorkspace, resolveBranches, refuseUnreachableFork, MkdirTemp, Unavailable
<1>3. CASE fetchBranches \/ MergeBase \/ Deepen \/ NoMergeBase \/ changedFiles
    BY <1>3 DEF fetchBranches, MergeBase, Deepen, NoMergeBase, changedFiles, Discarded
<1>4. CASE checkoutMatchesPullRequest \/ Discard \/ AnnounceUnavailable \/ Release
    BY <1>4 DEF checkoutMatchesPullRequest, Discard, AnnounceUnavailable, Release
<1>5. CASE Request \/ resolveSubprocessEnvScrub
    BY <1>5 DEF Request, resolveSubprocessEnvScrub, Return
<1>6. CASE handOverCredentials \/ prepareAgentSandbox
    BY <1>6 DEF handOverCredentials, prepareAgentSandbox, Return
<1>7. CASE Launch \/ Deadline \/ Exit
    BY <1>7 DEF Launch, Deadline, Exit
<1>8. CASE interpret
    BY <1>1, <1>8 DEF interpret, Return, classify
<1>9. CASE AskModel \/ AskFallback
    <2>1. reply' \in answers /\ late' = late /\ cancelled' = cancelled /\ agentic' = agentic
        BY <1>9 DEF AskModel, AskFallback
    <2>2. ~agentic
        BY <1>9 DEF AskModel, AskFallback, Held
    <2>3. ~late
        BY <1>9 DEF AskModel, AskFallback
    <2>4. step' = "fallback" \/ (step' = "returning" /\ failure' = classify(reply'))
        BY <1>9 DEF AskModel, AskFallback, Return
    <2>5. reply' \in {"review", "overflow", "refusal", "error"}
        BY <2>1 DEF answers, cliAnswers, openaiAnswers, reviewAnswers
    <2> QED BY <2>1, <2>2, <2>3, <2>4, <2>5 DEF classify
<1>10. CASE Retry
    BY <1>10 DEF Retry
<1>11. CASE Succeed \/ GiveUp \/ Overflow \/ Batched \/ Announce \/ Post
    BY <1>11 DEF Succeed, GiveUp, Overflow, Batched, Announce, Post
<1>12. CASE Push \/ Advance \/ Close \/ Interrupt \/ UNCHANGED checkoutVars
    BY <1>12 DEF Push, Advance, Close, Interrupt, checkoutVars
<1> QED BY <1>2, <1>3, <1>4, <1>5, <1>6, <1>7, <1>8, <1>9, <1>10, <1>11, <1>12
        DEF CheckoutNext, Work, Checkout, Attempt

-----------------------------------------------------------------------------
(* The checkout and the attempts: the theorems.                            *)

\* What is held, what was found and what may be tried again, at every step.
THEOREM RunInductive == CheckoutSpec => []RunInv
<1>1. RunInv /\ [CheckoutNext]_checkoutVars => RunInv'
    BY WorldStep, CloneStep, AgentStep, StageStep, HeldStep, FoundStep, TryingStep
        DEF RunInv, CheckoutTypeOK
<1> QED BY RunInit, <1>1, PTL DEF CheckoutSpec

\* Whatever the branches do meanwhile, the agent reads a version of the pull
\* request that was pushed to it, and is shown just what that version changes,
\* as long as no rebase came between the checkout and a deepening of it
\* (git_workspace_repository.go: refuseUnreachableFork, mergeBase).
THEOREM OwnChanges == CheckoutSpec => []ReviewsOwnChanges
<1>1. RunInv => ReviewsOwnChanges
    BY DEF RunInv, CheckoutTypeOK, AgentTyped, Held, Found, Checked, Asking, ReviewsOwnChanges
<1> QED BY RunInductive, <1>1, PTL

\* However a run ends, it leaves no directory it could remove, no credential in
\* a descriptor of its own and no agent (the deferred Release, and the closers
\* of handOverCredentials).
THEOREM NothingLeftBehind == CheckoutSpec => []NothingLeft
<1>1. RunInv => NothingLeft
    BY DEF RunInv, CheckoutTypeOK, AgentTyped, Held, Checked, Asking, NothingLeft
<1> QED BY RunInductive, <1>1, PTL

\* An attempt is followed by another only when it failed with an error that a
\* second one may not meet (retrying_ai_reviewer.go: retry).
THEOREM NoFutile == CheckoutSpec => NoFutileRetry
<1> DEFINE Again == attempt' > attempt /\ attempt > 0 =>
                        /\ ~late /\ ~cancelled
                        /\ reply \notin {"review", "limit", "overflow", "refusal"}
                        /\ agentic => ~unprotected
<1>1. RunInv /\ [CheckoutNext]_checkoutVars => [Again]_checkoutVars
    <2> SUFFICES ASSUME RunInv, CheckoutNext, attempt' > attempt, attempt > 0
                 PROVE  /\ ~late /\ ~cancelled
                        /\ reply \notin {"review", "limit", "overflow", "refusal"}
                        /\ agentic => ~unprotected
        OBVIOUS
    <2>1. attempt \in Nat
        BY DEF RunInv, CheckoutTypeOK, AgentTyped
    <2>2. Retry
        <3>1. UNCHANGED attempt \/ Request \/ Retry
            BY DEF CheckoutNext, Work, Checkout, Attempt, KeepAgent, agent, skipWorkspace,
                resolveBranches, refuseUnreachableFork, MkdirTemp, fetchBranches, MergeBase, Deepen,
                NoMergeBase, changedFiles, checkoutMatchesPullRequest, Discard, AnnounceUnavailable,
                resolveSubprocessEnvScrub, handOverCredentials, prepareAgentSandbox, Launch, Deadline,
                Exit, interpret, AskModel, AskFallback, Succeed, GiveUp, Overflow, Batched, Announce, Post, Release,
                Push, Advance, Close, Interrupt
        <3>2. ~Request
            BY <2>1 DEF Request, RunInv, Trying
        <3> QED BY <2>1, <3>1, <3>2
    <2> QED BY <2>2 DEF Retry, RunInv, Trying, Retriable
<1> QED BY RunInductive, <1>1, PTL DEF CheckoutSpec, NoFutileRetry

-----------------------------------------------------------------------------
(* The run implements its parts.                                           *)

\* Whatever becomes of the answer, a single step is one of the checkout and the
\* attempts.
LEMMA SingleSteps == Single => CheckoutNext /\ UNCHANGED batch
BY DEF Single, CheckoutNext, Work

\* A step of the run is a step of the slices, or none.
LEMMA BatchSteps == [ReviewNext]_allVars => [Next]_vars
<1> SUFFICES ASSUME [ReviewNext]_allVars PROVE [Next]_vars
    OBVIOUS
<1>1. CASE Single /\ ~(UNCHANGED cancelled)
    <2>1. Interrupt
        BY <1>1, SingleSteps DEF CheckoutNext, Work, Checkout, Attempt, KeepClone, KeepAgent, skipWorkspace,
            resolveBranches, refuseUnreachableFork, MkdirTemp, fetchBranches, MergeBase, Deepen,
            NoMergeBase, changedFiles, checkoutMatchesPullRequest, Discard, AnnounceUnavailable,
            Request, resolveSubprocessEnvScrub, handOverCredentials, prepareAgentSandbox, Launch,
            Deadline, Exit, interpret, AskModel, AskFallback, Retry, Succeed, GiveUp, Overflow, Batched, Announce,
            Post, Release, Push, Advance, Close
    <2>2. Cancel
        BY <1>1, <2>1, SingleSteps DEF Interrupt, Cancel, batch
    <2> QED BY <2>2 DEF Next
<1>2. CASE Single /\ UNCHANGED cancelled
    BY <1>2, SingleSteps DEF batch, vars
<1>3. CASE Sliced
    BY <1>3 DEF Sliced
<1>4. CASE Merge
    BY <1>4 DEF Merge, Batched, KeepClone, batch, vars
<1>5. CASE UNCHANGED allVars
    BY <1>5 DEF allVars, batch, vars
<1> QED BY <1>1, <1>2, <1>3, <1>4, <1>5 DEF ReviewNext

\* A step of the run is a step of the checkout and the attempts, or none.
LEMMA CheckoutSteps == [ReviewNext]_allVars => [CheckoutNext]_checkoutVars
<1> SUFFICES ASSUME [ReviewNext]_allVars PROVE [CheckoutNext]_checkoutVars
    OBVIOUS
<1>1. CASE Single
    BY <1>1, SingleSteps
<1>2. CASE Sliced /\ ~(UNCHANGED cancelled)
    <2>1. Cancel
        BY <1>2 DEF Sliced, Next, Begin, Ask, absorb, Shrink, recordFailure, Abandon, Finish
    <2>2. Interrupt
        BY <1>2, <2>1 DEF Sliced, Cancel, Interrupt, checkout
    <2> QED BY <2>2 DEF CheckoutNext
<1>3. CASE Sliced /\ UNCHANGED cancelled
    BY <1>3 DEF Sliced, checkout, checkoutVars
<1>4. CASE Merge
    BY <1>4 DEF Merge, CheckoutNext, Work, Attempt
<1>5. CASE UNCHANGED allVars
    BY <1>5 DEF allVars, checkout, checkoutVars
<1> QED BY <1>1, <1>2, <1>3, <1>4, <1>5 DEF ReviewNext

\* The run implements both parts: it never does to the slices, or to the
\* checkout and the attempts, what the part alone could not
\* (review_command.go: review, reviewInBatches).
THEOREM BothParts == FairSpec => Spec /\ CheckoutSpec
<1>1. ReviewInit => Init /\ CheckoutInit
    BY DEF ReviewInit
<1> QED BY <1>1, BatchSteps, CheckoutSteps, PTL DEF FairSpec, Spec, CheckoutSpec

\* So all that is proved of the parts is true of the run.  Of the checkout and
\* the attempts: the agent reads what the pull request changes, nothing is left
\* behind, and no failure is retried in vain.  Of the slices: each file is
\* accounted for, an objection survives the merge, threads are settled as the
\* answers meant, none is asked about twice, and what overflowed is not sent
\* again (review_command.go: review, reviewInBatches).
THEOREM WholeRun ==
    FairSpec => /\ []ReviewsOwnChanges /\ []NothingLeft /\ NoFutileRetry
                /\ []EveryFileAccounted /\ []BlockingSurvives /\ []ResolvedAsMeant
                /\ []AskedOnce /\ []NeverResent
<1> QED BY BothParts, OwnChanges, NothingLeftBehind, NoFutile,
           Accounting, Blocking, Resolution, NoQuestionTwice, NoResend, PTL

\* The run's state is always of its type, in either part of the code.
THEOREM RunTyped == FairSpec => []AllTyped
<1>1. RunInv => CheckoutTypeOK
    BY DEF RunInv
<1>2. TypeOK /\ CheckoutTypeOK => AllTyped
    BY DEF AllTyped
<1> QED BY BothParts, TypeCorrect, RunInductive, <1>1, <1>2, PTL

-----------------------------------------------------------------------------
(* The vote.                                                               *)

\* What a step of the checkout and the attempts does to the outcome.
LEMMA OutcomeMoves ==
    ASSUME [CheckoutNext]_checkoutVars
    PROVE  /\ agentic' = agentic
           /\ step \in {"releasing", "ended"} =>
                 step' \in {"releasing", "ended"} /\ failure' = failure
           /\ step' = "posting" => failure' = "none" \/ (step = "posting" /\ failure' = failure)
<1>1. CASE Checkout
    BY <1>1 DEF Checkout, skipWorkspace, resolveBranches, refuseUnreachableFork, MkdirTemp,
        fetchBranches, MergeBase, Deepen, NoMergeBase, changedFiles, checkoutMatchesPullRequest,
        Discard, AnnounceUnavailable, Discarded, Unavailable, Goto, KeepAgent, setting
<1>2. CASE Attempt
    BY <1>2 DEF Attempt, Request, resolveSubprocessEnvScrub, handOverCredentials, prepareAgentSandbox,
        Launch, Deadline, Exit, interpret, AskModel, AskFallback, Retry, Succeed, GiveUp, Overflow,
        Batched, Goto, Return, KeepClone, setting
<1>3. CASE Announce \/ Post \/ Release
    BY <1>3 DEF Announce, Post, Release, Goto, KeepClone, KeepAgent, setting
<1>4. CASE Push \/ Advance \/ Close \/ Interrupt
    BY <1>4 DEF Push, Advance, Close, Interrupt, Remote, setting
<1>5. CASE UNCHANGED checkoutVars
    BY <1>5 DEF checkoutVars, setting
<1> QED BY <1>1, <1>2, <1>3, <1>4, <1>5 DEF CheckoutNext, Work

\* Only a review that is there is posted; the vote is that of its verdict, and
\* nothing of the review changes after it.
Voting ==
    /\ step = "posting" => failure = "none"
    /\ vote # "none" => /\ step \in {"releasing", "ended"} /\ failure = "none"
                        /\ vote = MapVerdictToReview(finalVerdict)
    /\ report = NoReport \/ report = ReviewOf(answer)

LEMMA VotingInit == ReviewInit => Voting
BY DEF ReviewInit, CheckoutInit, Voting

LEMMA VotingStep == Voting /\ [ReviewNext]_allVars => Voting'
<1> SUFFICES ASSUME Voting, [ReviewNext]_allVars PROVE Voting'
    OBVIOUS
<1>1. /\ agentic' = agentic
      /\ step \in {"releasing", "ended"} =>
            step' \in {"releasing", "ended"} /\ failure' = failure
      /\ step' = "posting" => failure' = "none" \/ (step = "posting" /\ failure' = failure)
    BY CheckoutSteps, OutcomeMoves
<1>2. step' = "posting" => failure' = "none"
    BY <1>1 DEF Voting
<1>3. CASE Single /\ Post
    <2>1. UNCHANGED <<batch, result>> /\ submitNativeReview
        BY <1>3 DEF Single, Post, Answered, Goto
    <2>2. finalVerdict' = finalVerdict
        BY <2>1 DEF batch, merged, result, finalVerdict, mergedVerdict
    <2>3. step' = "releasing" /\ failure' = "none"
        BY <1>3 DEF Post, Goto, Voting
    <2>4. ReviewOf(answer)' = ReviewOf(answer)
        BY <1>1, <2>1 DEF ReviewOf, result
    <2> QED BY <1>2, <2>1, <2>2, <2>3, <2>4 DEF Voting, submitNativeReview, result
<1>4. CASE Single /\ ReviewDiff /\ Answered /\ UNCHANGED vote
    <2>1. vote = "none"
        BY <1>1, <1>4 DEF Voting, Answered
    <2>2. report' = ReviewOf(answer)'
        BY <1>1, <1>4 DEF ReviewDiff, ReviewOf
    <2> QED BY <1>2, <1>4, <2>1, <2>2 DEF Voting
<1>5. CASE UNCHANGED <<batch, result, vote>>
    <2>1. finalVerdict' = finalVerdict
        BY <1>5 DEF batch, merged, result, finalVerdict, mergedVerdict
    <2>2. ReviewOf(answer)' = ReviewOf(answer)
        BY <1>1, <1>5 DEF ReviewOf, result
    <2> QED BY <1>1, <1>2, <1>5, <2>1, <2>2 DEF Voting, result
<1>6. CASE Sliced
    <2>1. vote = "none"
        BY <1>6 DEF Sliced, Voting
    <2>2. ReviewOf(answer)' = ReviewOf(answer)
        BY <1>1, <1>6 DEF ReviewOf, Sliced, result
    <2> QED BY <1>2, <1>6, <2>1, <2>2 DEF Voting, Sliced, result
<1> QED BY <1>3, <1>4, <1>5, <1>6 DEF ReviewNext, Single, Merge, allVars

\* The merged verdict is one that a slice was given.
VerdictSaid == verdict \in said \cup {"none"} /\ verdict \in Verdict

LEMMA VerdictFromSlices == Spec => []VerdictSaid
<1>1. Init => VerdictSaid
    BY DEF Init, VerdictSaid, Verdict
<1>2. VerdictSaid /\ [Next]_vars => VerdictSaid'
    <2> SUFFICES ASSUME VerdictSaid, [Next]_vars PROVE VerdictSaid'
        OBVIOUS
    <2>1. CASE absorb
        <3>1. PICK v \in Verdict : verdict' = mergeBatchVerdicts(verdict, v) /\ said' = said \cup {v}
            BY <2>1 DEF absorb
        <3> QED BY <3>1 DEF VerdictSaid, mergeBatchVerdicts
    <2>2. CASE UNCHANGED <<verdict, said>>
        BY <2>2 DEF VerdictSaid
    <2> QED BY <2>1, <2>2 DEF Next, Begin, Ask, Shrink, recordFailure, Abandon, Finish, Cancel,
                vars, merged, history
<1> QED BY <1>1, <1>2, PTL DEF Spec

\* What an agent's answer is voted as, whatever it found.
LEMMA AnswerIsEarned ==
    ASSUME NEW a
    PROVE  LET r == ApplyConfidenceThreshold(ParseAgenticReviewResponse(a))
               weak == \E f \in a.findings : f.body /\ f.dimension /\ ~f.sure
           IN  /\ r.verdict = "approve" => a.verdict = "approve" \/ (weak /\ r.comments = {})
               /\ r.verdict = "request_changes" =>
                     /\ a.verdict = "request_changes"
                     /\ weak => \E f \in r.comments : f.error
               /\ r.verdict # "reject"
<1> DEFINE p == ParseAgenticReviewResponse(a)
           weak == {f \in p.comments : ~f.sure}
           kept == p.comments \ weak
           r == ApplyConfidenceThreshold(p)
           w == normalizeVerdict(a.verdict)
<1>1. p.verdict = w /\ p.comments = {f \in a.findings : f.body /\ f.dimension}
    BY DEF ParseAgenticReviewResponse
<1>2. /\ r.comments = kept
      /\ r.verdict = IF weak = {} THEN w ELSE relaxVerdict(w, verdictFor(kept))
    BY <1>1 DEF ApplyConfidenceThreshold
<1>3. weak # {} <=> \E f \in a.findings : f.body /\ f.dimension /\ ~f.sure
    BY <1>1
<1>4. /\ w \in {"approve", "comment", "request_changes"}
      /\ w # "comment" => w = a.verdict
    BY DEF normalizeVerdict
<1>5. /\ verdictFor(kept) \in {"approve", "comment", "request_changes"}
      /\ verdictFor(kept) = "approve" => kept = {}
      /\ verdictFor(kept) = "request_changes" => \E f \in kept : f.error
    BY DEF verdictFor
<1>6. \A v, u \in {"approve", "comment", "request_changes"} :
         /\ relaxVerdict(v, u) \in {v, u}
         /\ relaxVerdict(v, u) = "request_changes" => v = "request_changes" /\ u = "request_changes"
    BY DEF relaxVerdict, verdictStrictness
<1> HIDE DEF p, weak, kept, r, w
<1>7. r.verdict = "approve" => a.verdict = "approve" \/ (weak # {} /\ r.comments = {})
    BY <1>2, <1>4, <1>5, <1>6
<1>8. r.verdict = "request_changes" =>
         a.verdict = "request_changes" /\ (weak # {} => \E f \in r.comments : f.error)
    BY <1>2, <1>4, <1>5, <1>6
<1>9. r.verdict # "reject"
    BY <1>2, <1>4, <1>5, <1>6
<1> QED BY <1>3, <1>7, <1>8, <1>9 DEF r, p

\* Whoever reviewed, whatever was answered and however the slices ended: a vote
\* is cast only for a review that succeeded, an approval only if the whole was
\* approved or nothing that passed the bar was left of an agent's findings, and
\* a request for changes only if a model asked for it and, where findings fell
\* below the bar, with an error to show (review_command.go: submitNativeReview).
THEOREM VoteEarned == FairSpec => []VoteIsEarned
<1>1. Voting /\ ApprovalIsEarned /\ VerdictSaid => VoteIsEarned
    <2> SUFFICES ASSUME Voting, ApprovalIsEarned, VerdictSaid, vote # "none" PROVE VoteIsEarned
        BY DEF VoteIsEarned
    <2>1. /\ vote = "approved" => finalVerdict = "approve"
          /\ vote = "changes_requested" => finalVerdict \in {"reject", "request_changes"}
        BY DEF Voting, MapVerdictToReview
    <2>2. CASE pc = "done"
        <3>1. mergedVerdict \in {verdict, "comment"} /\ finalVerdict = mergedVerdict
            BY <2>2 DEF mergedVerdict, finalVerdict
        <3>2. verdict \in said \cup {"none"} /\ verdict # "reject"
            BY DEF VerdictSaid, Verdict
        <3> QED BY <2>1, <2>2, <3>1, <3>2 DEF Voting, VoteIsEarned, ApprovalIsEarned
    <2>3. CASE pc # "done"
        <3>1. finalVerdict = report.verdict
            BY <2>3 DEF finalVerdict
        <3>2. CASE report = NoReport
            BY <2>1, <3>1, <3>2, <2>3 DEF NoReport, Voting, VoteIsEarned
        <3>3. CASE report = ReviewOf(answer) /\ agentic
            BY <2>1, <2>3, <3>1, <3>3, AnswerIsEarned DEF ReviewOf, Weakened, Voting, VoteIsEarned
        <3>4. CASE report = ReviewOf(answer) /\ ~agentic
            BY <2>1, <2>3, <3>1, <3>4 DEF ReviewOf, ParseReviewResponse, normalizeVerdict,
                Weakened, Voting, VoteIsEarned
        <3> QED BY <3>2, <3>3, <3>4 DEF Voting
    <2> QED BY <2>2, <2>3
<1> QED BY <1>1, VotingInit, VotingStep, BothParts, Approval, VerdictFromSlices, PTL DEF FairSpec
=============================================================================
