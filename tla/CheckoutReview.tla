---------------------------- MODULE CheckoutReview ----------------------------
(***************************************************************************)
(* From the "reviewing" marker to the outcome, for a reviewer that reads a *)
(* checkout (the Claude agent) and for one that reads the diff:            *)
(* review_command.go (prepareWorkspace, ReviewDiff, the failure notice),   *)
(* git_workspace_repository.go, claude_agentic_reviewer_repository.go with *)
(* its credential handoff, and retrying_ai_reviewer.go around either.      *)
(*                                                                         *)
(* The target branch is a line of commits 0..tip; a version of the pull    *)
(* request is one commit on top of the commit it forks from, or of no      *)
(* commit of the target at all.  A commit stands for the paths it changes. *)
(* The branches move while the run works, the caller may cancel it, and    *)
(* every call may fail.                                                    *)
(***************************************************************************)
EXTENDS CheckoutLimits, RunContext

VARIABLES
    tip, head, open,  \* the target's newest commit; the pull request
    agentic,    \* whether the reviewer wants a checkout
    slices,     \* ai.batch_large_reviews
    fallback,   \* whether the backend has a model to ask after a refusal
    repo,       \* [pullRef, fork, named] of the pull request and its provider
    deploy,     \* the environment the agent would run in
    step,       \* where the run is
    dir,        \* the workspace directory: "none", "there", or "left" behind
    at,         \* the version that is checked out
    headRef,    \* the version refs/code-guru/head names now
    low,        \* the oldest commit of the target the clone has
    round, stride,  \* the next deepening and its size
    base,       \* the merge-base that was found
    changed,    \* the paths between it and the checkout
    attempt, late,  \* the current attempt; whether its deadline has passed
    sockets,    \* credential descriptors this process holds
    cli,        \* whether the agent runs
    reply,      \* how the last attempt ended, as it happened
    failure     \* what the code makes of it

remote   == <<tip, head, open>>
setting  == <<agentic, slices, fallback, repo, deploy>>
clone    == <<dir, at, headRef, low, round, stride, base, changed>>
agent    == <<attempt, late, sockets, cli, reply>>
checkoutVars == <<remote, setting, step, clone, agent, failure, cancelled>>

Point   == 0..MaxTip \cup {Unrelated}
Version == [version : 0..Versions, fork : Point]
Reply   == {"none", "review", "limit", "overflow", "refusal", "error", "killed"}
Final   == {"incomplete", "overflow", "unprotected", "refusal", "cancelled"}
Failure == Final \cup {"none", "unavailable", "error"}
Remote  == {"start", "fork", "mkdir", "fetch", "base"}
Making  == Remote \cup {"diff", "match"}
Asking  == {"attempt", "handover", "sandbox", "launch", "running", "exited", "fallback", "returning"}
Step    == Making \cup Asking \cup
              {"discard", "unavailable", "request", "batches", "failed", "posting", "releasing", "ended"}

less(a, b) == IF a > b THEN a - b ELSE 0
Goto(s) == step' = s

\* What leaves the clone, or the agent, as it is.
KeepClone == UNCHANGED <<remote, setting, clone, cancelled>>
KeepAgent == UNCHANGED <<remote, setting, agent, cancelled>>

-----------------------------------------------------------------------------
(* The checkout.                                                           *)

\* Prepare fails before it has made a directory, or after: then it discards it.
Unavailable == failure' = "unavailable" /\ Goto("unavailable") /\ UNCHANGED clone
Discarded   == failure' = "unavailable" /\ Goto("discard") /\ UNCHANGED clone

\* A reviewer of the diff goes on without a checkout.
skipWorkspace ==
    /\ step = "start" /\ ~agentic
    /\ Goto("request")
    /\ KeepAgent /\ UNCHANGED <<clone, failure>>

\* The branches come with the event or from the list of open pull requests.
resolveBranches ==
    /\ step = "start" /\ agentic
    /\ \/ /\ repo.named \/ (open /\ ~cancelled)
          /\ Goto("fork")
          /\ UNCHANGED <<clone, failure>>
       \/ Unavailable
    /\ KeepAgent

\* Mutation: a fork is left to the tripwire.
refuseUnreachableFork_open ==
    /\ step = "fork"
    /\ \/ Goto("mkdir") /\ UNCHANGED <<clone, failure>>
       \/ ~repo.pullRef /\ Unavailable
    /\ KeepAgent

\* Without a ref of its own the head of a fork cannot be told from a branch of
\* the same name; a check that fails refuses as well.
refuseUnreachableFork ==
    /\ step = "fork"
    /\ \/ /\ repo.pullRef \/ (~repo.fork /\ ~cancelled)
          /\ Goto("mkdir")
          /\ UNCHANGED <<clone, failure>>
       \/ ~repo.pullRef /\ Unavailable
    /\ KeepAgent

MkdirTemp ==
    /\ step = "mkdir"
    /\ \/ /\ dir' = "there" /\ Goto("fetch")
          /\ UNCHANGED <<at, headRef, low, round, stride, base, changed, failure>>
       \/ Unavailable
    /\ KeepAgent

\* headSource: the provider's ref of the pull request, or the branch's name on
\* the target repository, where a fork's branch has a namesake.
headSource == IF repo.fork /\ ~repo.pullRef THEN [version |-> 0, fork |-> 0] ELSE head

\* fetchBranches, then the checkout of what was fetched.
fetchBranches ==
    /\ step = "fetch"
    /\ \/ /\ ~cancelled
          /\ headRef' = headSource
          /\ at' = headSource
          /\ low' = IF CloneDepth = 0 THEN 0 ELSE less(tip + 1, CloneDepth)
          /\ Goto("base")
          /\ UNCHANGED <<dir, round, stride, base, changed, failure>>
       \/ Discarded
    /\ KeepAgent

\* A clone of depth one ends above the head's parent until it is deepened.
complete == CloneDepth # 1 \/ round > 0
isShallow == low > 0 \/ ~complete
hasMergeBase == headRef.fork # Unrelated /\ complete /\ low <= headRef.fork

MergeBase ==
    /\ step = "base"
    /\ hasMergeBase /\ ~cancelled
    /\ base' = headRef.fork
    /\ round' = 0 /\ stride' = CloneDepth
    /\ Goto("diff")
    /\ KeepAgent /\ UNCHANGED <<dir, at, headRef, low, changed, failure>>

\* A deepening fetch goes through the pinned refspecs, so that it moves the
\* head's ref, not the checkout, to what was pushed meanwhile.
Deepen ==
    /\ step = "base"
    /\ ~hasMergeBase /\ isShallow /\ ~cancelled
    /\ low' = IF round < MaxRounds THEN less(low, stride) ELSE 0
    /\ headRef' = headSource
    /\ round' = round + 1
    /\ stride' = 2 * stride
    /\ KeepAgent /\ UNCHANGED <<step, dir, at, base, changed, failure>>

\* No merge-base in a full clone, or a git command that fails.
NoMergeBase ==
    /\ step = "base"
    /\ Discarded
    /\ KeepAgent

\* The target's commits between two of its points, the older one excluded.
between(i, j) == {k \in 1..MaxTip : (i < k /\ k <= j) \/ (j < k /\ k <= i)}

\* What git names between a commit of the target and a version: were the two
\* apart, also what the target changed in between.
mergeFileChanges(from, v) ==
    own[v.version] \cup
        (IF v.fork = Unrelated THEN {} ELSE UNION {upstream[k] : k \in between(from, v.fork)})

\* The diff from the merge-base to the checkout.
changedFiles ==
    /\ step = "diff"
    /\ \/ /\ ~cancelled
          /\ changed' = mergeFileChanges(base, at)
          /\ Goto("match")
          /\ UNCHANGED <<dir, at, headRef, low, round, stride, base, failure>>
       \/ Discarded
    /\ KeepAgent

\* Mutation: the refused checkout stays where it is.
checkoutMatchesPullRequest_keep ==
    /\ step = "match"
    /\ IF changed \cap own[1] # {} THEN Goto("request") /\ UNCHANGED failure
                                   ELSE Goto("unavailable") /\ failure' = "unavailable"
    /\ KeepAgent /\ UNCHANGED clone

\* The tripwire: some path must be among those that the provider listed when
\* the run began, at the first version.
checkoutMatchesPullRequest ==
    /\ step = "match"
    /\ IF changed \cap own[1] # {} THEN Goto("request") /\ UNCHANGED failure
                                   ELSE Goto("discard") /\ failure' = "unavailable"
    /\ KeepAgent /\ UNCHANGED clone

\* Release, whose failure is only logged.
Remove ==
    /\ dir' \in IF dir = "there" THEN {"none", "left"} ELSE {dir}
    /\ UNCHANGED <<at, headRef, low, round, stride, base, changed>>

Discard ==
    /\ step = "discard"
    /\ Remove
    /\ Goto("unavailable")
    /\ KeepAgent /\ UNCHANGED failure

\* prepareWorkspaceOrAnnounce: nothing is deferred yet.
AnnounceUnavailable ==
    /\ step = "unavailable"
    /\ Goto("ended")
    /\ KeepAgent /\ UNCHANGED <<clone, failure>>

-----------------------------------------------------------------------------
(* The attempts.                                                           *)

\* Diffs, rules, conversation and metadata; the first two may fail, and then
\* the run ends without a notice.
Request ==
    /\ step = "request"
    /\ \/ Goto("attempt") /\ attempt' = 1 /\ UNCHANGED failure
       \/ Goto("releasing") /\ failure' = "error" /\ UNCHANGED attempt
    /\ UNCHANGED <<late, sockets, cli, reply>>
    /\ KeepClone

\* A credential that travels by the environment with no scrub to keep it from
\* the agent's commands, and no operator who said so.
unprotected == deploy.scrub = "unset" /\ ~deploy.tools /\ deploy.exposed

\* The attempt ends with this error.
Return(f) == Goto("returning") /\ failure' = f

resolveSubprocessEnvScrub ==
    /\ step = "attempt" /\ agentic
    /\ IF unprotected THEN Return("unprotected") ELSE Goto("handover") /\ UNCHANGED failure
    /\ KeepClone /\ UNCHANGED agent

\* Mutation: a credential that fails leaves those before it open.
handOverCredentials_open ==
    /\ step = "handover"
    /\ \/ sockets < Credentials /\ sockets' = sockets + 1 /\ UNCHANGED <<step, failure>>
       \/ Goto("sandbox") /\ UNCHANGED <<sockets, failure>>
       \/ sockets < Credentials /\ Return("error") /\ UNCHANGED sockets
    /\ UNCHANGED <<attempt, late, cli, reply>>
    /\ KeepClone

\* One socket after the other, until those left are not set; a credential that
\* spans lines, or a socket that fails, closes those before it.
handOverCredentials ==
    /\ step = "handover"
    /\ \/ sockets < Credentials /\ sockets' = sockets + 1 /\ UNCHANGED <<step, failure>>
       \/ Goto("sandbox") /\ UNCHANGED <<sockets, failure>>
       \/ sockets < Credentials /\ Return("error") /\ sockets' = 0
    /\ UNCHANGED <<attempt, late, cli, reply>>
    /\ KeepClone

\* The sandbox next to the checkout; from here on the return closes the
\* descriptors.
prepareAgentSandbox ==
    /\ step = "sandbox"
    /\ \/ Goto("launch") /\ UNCHANGED <<sockets, failure>>
       \/ Return("error") /\ sockets' = 0
    /\ UNCHANGED <<attempt, late, cli, reply>>
    /\ KeepClone

\* Once the agent has its copies this process closes its own.
Launch ==
    /\ step = "launch"
    /\ \/ ~cancelled /\ cli' = TRUE /\ sockets' = 0 /\ Goto("running") /\ UNCHANGED reply
       \/ reply' = "error" /\ Goto("exited") /\ UNCHANGED <<cli, sockets>>
    /\ UNCHANGED <<attempt, late, failure>>
    /\ KeepClone

\* The agent's deadline passes, at the latest just before the code looks.
Deadline ==
    /\ step \in {"running", "exited"} /\ ~late
    /\ late' = TRUE
    /\ UNCHANGED <<step, attempt, sockets, cli, reply, failure>>
    /\ KeepClone

\* The agent ends on its own, or is killed when its context ends.
Exit ==
    /\ step = "running"
    /\ reply' \in IF late \/ cancelled THEN {"killed"}
                  ELSE {"review", "limit", "overflow", "error"}
    /\ cli' = FALSE
    /\ Goto("exited")
    /\ UNCHANGED <<attempt, late, sockets, failure>>
    /\ KeepClone

classify(r) ==
    CASE r = "review" -> "none" [] r = "limit" -> "incomplete"
      [] r \in {"overflow", "refusal"} -> r [] OTHER -> "error"

\* Mutation: a run that its deadline ended is an error like any other.
interpret_untimed ==
    /\ step = "exited"
    /\ Return(classify(reply))
    /\ sockets' = 0
    /\ UNCHANGED <<attempt, late, cli, reply>>
    /\ KeepClone

\* ReviewDiff: what the deadline overtook is incomplete, whatever came back.
interpret ==
    /\ step = "exited"
    /\ Return(IF late /\ ~cancelled THEN "incomplete" ELSE classify(reply))
    /\ sockets' = 0
    /\ UNCHANGED <<attempt, late, cli, reply>>
    /\ KeepClone

\* A reviewer of the diff is one call: to the claude CLI, which cannot start on
\* an argument too long; to OpenAI, which may filter its answer; to Anthropic,
\* whose model may decline.  All three recognise an overflow in the error.
cliAnswers    == {"review", "overflow", "refusal", "error"}
openaiAnswers == {"review", "overflow", "refusal", "error"}
reviewAnswers == {"review", "overflow", "refusal", "error"}
answers == IF cancelled THEN {"error"} ELSE cliAnswers \cup openaiAnswers \cup reviewAnswers

AskModel ==
    /\ step = "attempt" /\ ~agentic
    /\ reply' \in answers
    /\ IF reply' = "refusal" /\ fallback
       THEN Goto("fallback") /\ UNCHANGED failure
       ELSE Return(classify(reply'))
    /\ UNCHANGED <<attempt, late, sockets, cli>>
    /\ KeepClone

\* After a refusal Anthropic's other model is asked, and its answer counts.
AskFallback ==
    /\ step = "fallback"
    /\ reply' \in answers
    /\ Return(classify(reply'))
    /\ UNCHANGED <<attempt, late, sockets, cli>>
    /\ KeepClone

\* Mutation: the attempts are not counted.
Retry_uncounted ==
    /\ step = "returning" /\ failure = "error" /\ ~cancelled
    /\ attempt < Attempts
    /\ late' = FALSE
    /\ Goto("attempt")
    /\ UNCHANGED <<attempt, sockets, cli, reply, failure>>
    /\ KeepClone

\* The retry loop: an error that another attempt may not meet.
Retry ==
    /\ step = "returning" /\ failure = "error" /\ ~cancelled
    /\ attempt < Attempts
    /\ attempt' = attempt + 1
    /\ late' = FALSE
    /\ Goto("attempt")
    /\ UNCHANGED <<sockets, cli, reply, failure>>
    /\ KeepClone

\* An answer counts even if the run was cancelled meanwhile.
Succeed ==
    /\ step = "returning" /\ failure = "none"
    /\ Goto("posting")
    /\ KeepClone /\ UNCHANGED <<agent, failure>>

GiveUp ==
    /\ step = "returning" /\ failure # "none"
    /\ cancelled \/ failure \in Final \/ attempt = Attempts
    /\ ~(failure = "overflow" /\ slices /\ ~agentic /\ ~cancelled)
    /\ failure' = IF cancelled THEN "cancelled" ELSE failure
    /\ Goto("failed")
    /\ KeepClone /\ UNCHANGED agent

\* Only a reviewer of the diff is given the pull request in slices.
Overflow ==
    /\ step = "returning" /\ failure = "overflow" /\ slices /\ ~agentic /\ ~cancelled
    /\ Goto("batches")
    /\ KeepClone /\ UNCHANGED <<agent, failure>>

Batched ==
    /\ step = "batches"
    /\ \/ Goto("posting") /\ failure' = "none"
       \/ Goto("failed") /\ UNCHANGED failure
    /\ KeepClone /\ UNCHANGED agent

-----------------------------------------------------------------------------
(* The outcome.                                                            *)

\* The failure notice, unless the pull request is closed; then the error.
Announce ==
    /\ step = "failed"
    /\ Goto("releasing")
    /\ KeepClone /\ UNCHANGED <<agent, failure>>

Post ==
    /\ step = "posting"
    /\ Goto("releasing")
    /\ KeepClone /\ UNCHANGED <<agent, failure>>

\* The deferred Release.
Release ==
    /\ step = "releasing"
    /\ Remove
    /\ Goto("ended")
    /\ KeepAgent /\ UNCHANGED failure

-----------------------------------------------------------------------------
(* The world, as far as the run can still see it.                          *)

\* A push, a rebase or a force-push of the pull request.
Push ==
    /\ agentic /\ step \in Remote
    /\ head.version < Versions
    /\ \E f \in 0..tip \cup {Unrelated} : head' = [version |-> head.version + 1, fork |-> f]
    /\ UNCHANGED <<tip, open, setting, step, clone, agent, failure, cancelled>>

\* Something is merged into the target.
Advance ==
    /\ agentic /\ step \in Remote
    /\ tip < MaxTip
    /\ tip' = tip + 1
    /\ UNCHANGED <<head, open, setting, step, clone, agent, failure, cancelled>>

Close ==
    /\ agentic /\ step = "start" /\ open
    /\ open' = FALSE
    /\ UNCHANGED <<tip, head, setting, step, clone, agent, failure, cancelled>>

\* The pod drains, or the caller gives up.
Interrupt ==
    /\ ~cancelled
    /\ cancelled' = TRUE
    /\ UNCHANGED <<remote, setting, step, clone, agent, failure>>

-----------------------------------------------------------------------------
Nowhere == [version |-> 0, fork |-> Unrelated]

CheckoutInit ==
    /\ tip \in 0..MaxTip
    /\ \E f \in 0..tip \cup {Unrelated} : head = [version |-> 1, fork |-> f]
    /\ open = TRUE
    /\ agentic \in BOOLEAN /\ slices \in BOOLEAN /\ fallback \in BOOLEAN
    /\ repo \in [pullRef : BOOLEAN, fork : BOOLEAN, named : BOOLEAN]
    /\ deploy \in Deployment
    /\ step = "start"
    /\ dir = "none"
    /\ at = Nowhere /\ headRef = Nowhere
    /\ low = 0 /\ round = 0 /\ stride = CloneDepth
    /\ base = 0 /\ changed = {}
    /\ attempt = 0 /\ late = FALSE
    /\ sockets = 0 /\ cli = FALSE
    /\ reply = "none" /\ failure = "none"
    /\ cancelled = FALSE

Checkout ==
    \/ skipWorkspace \/ resolveBranches \/ refuseUnreachableFork \/ MkdirTemp
    \/ fetchBranches \/ MergeBase \/ Deepen \/ NoMergeBase \/ changedFiles
    \/ checkoutMatchesPullRequest \/ Discard \/ AnnounceUnavailable

Attempt ==
    \/ Request \/ resolveSubprocessEnvScrub \/ handOverCredentials \/ prepareAgentSandbox
    \/ Launch \/ Deadline \/ Exit \/ interpret \/ AskModel \/ AskFallback
    \/ Retry \/ Succeed \/ GiveUp \/ Overflow \/ Batched

Work == Checkout \/ Attempt \/ Announce \/ Post \/ Release

CheckoutNext == Work \/ Push \/ Advance \/ Close \/ Interrupt

CheckoutSpec == CheckoutInit /\ [][CheckoutNext]_checkoutVars

-----------------------------------------------------------------------------
(* Properties.                                                             *)

WorldTyped ==
    /\ tip \in 0..MaxTip
    /\ head \in Version /\ open \in BOOLEAN
    /\ agentic \in BOOLEAN /\ slices \in BOOLEAN /\ fallback \in BOOLEAN
    /\ repo \in [pullRef : BOOLEAN, fork : BOOLEAN, named : BOOLEAN]
    /\ deploy \in Deployment
    /\ cancelled \in BOOLEAN

CloneTyped ==
    /\ dir \in {"none", "there", "left"}
    /\ at \in Version /\ headRef \in Version
    /\ low \in 0..MaxTip /\ round \in 0..(MaxRounds + 1) /\ stride \in Nat
    /\ base \in 0..MaxTip
    /\ changed \subseteq STRING

AgentTyped ==
    /\ attempt \in 0..Attempts /\ late \in BOOLEAN
    /\ sockets \in 0..Credentials /\ cli \in BOOLEAN
    /\ reply \in Reply

CheckoutTypeOK ==
    /\ WorldTyped /\ CloneTyped /\ AgentTyped
    /\ step \in Step /\ failure \in Failure

\* What the agent reads is a version that was pushed to the pull request, never
\* a namesake's, and its changed files are just that version's, as long as no
\* rebase came between the checkout and a deepening of it
\* (git_workspace_repository.go:226-231, entities/workspace.go:6-8).
ReviewsOwnChanges ==
    cli => /\ at.version > 0
           /\ headRef.fork = at.fork => changed = own[at.version]

\* The agent runs only over a checkout that is there and with no credential
\* open in this process; however the run ends, the directory is removed, or
\* its removal failed, the descriptors are closed and no agent is running.
NothingLeft ==
    /\ cli => dir = "there" /\ sockets = 0
    /\ step \in {"attempt", "failed", "posting"} => sockets = 0
    /\ step = "ended" => dir # "there" /\ sockets = 0 /\ ~cli

\* A new attempt is made only after an error: not after an answer, a limit, an
\* overflow, a refusal, a deadline that passed, or without an attempt that ran
\* for want of a scrub (retrying_ai_reviewer.go: "a re-run would stop at the
\* same point").
NoFutileRetry ==
    [][attempt' > attempt /\ attempt > 0 =>
          /\ ~late /\ ~cancelled
          /\ reply \notin {"review", "limit", "overflow", "refusal"}
          /\ agentic => ~unprotected]_checkoutVars
=============================================================================
