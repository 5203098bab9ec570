------------------------------- MODULE AIReview -------------------------------
(***************************************************************************)
(* A review run from its marker to its outcome: the checkout and the       *)
(* attempts of CheckoutReview, and BatchReview for a pull request whose    *)
(* whole prompt overflowed the window of a reviewer of the diff            *)
(* (review_command.go: review).  One goroutine works through both; they    *)
(* share its context.  What comes out of either is posted and voted.       *)
(***************************************************************************)
EXTENDS BatchReview, CheckoutReview, AgentAnswer

VARIABLES
    answer,  \* what the reviewer of the whole answered (history)
    report,  \* what the code makes of it
    vote     \* the native review on the pull request

batch    == <<settings, pc, next, end, budget, calls, completed, failures, merged,
              tried, history>>
checkout == <<remote, setting, step, clone, agent, failure>>
result   == <<answer, report>>
allVars  == <<batch, checkout, cancelled, result, vote>>

NoAnswer == [verdict |-> "none", findings |-> {}]
NoReport == [verdict |-> "none", comments |-> {}, dropped |-> {}]

\* The reviewer of the diff reads no branch and starts no agent, and the agent
\* knows no slices: of what they do not read one value is looked at.
Unread ==
    IF agentic THEN n = 1 /\ maxBatches = 1 /\ slices /\ ~fallback
               ELSE /\ tip = 0 /\ head.fork = 0
                    /\ repo = [pullRef |-> TRUE, fork |-> FALSE, named |-> TRUE]
                    /\ deploy = CHOOSE d \in Deployment : TRUE

ReviewInit ==
    /\ Init /\ CheckoutInit /\ Unread
    /\ answer = NoAnswer /\ report = NoReport
    /\ vote = "none"

\* What an answer is to be posted as.
ReviewOf(a) ==
    IF agentic THEN ApplyConfidenceThreshold(ParseAgenticReviewResponse(a)) ELSE ParseReviewResponse(a)

\* What an agent answers does not depend on the branches or on what attempt it
\* is: all answers are looked at for the first over branches that stand still.
Plain == tip = 0 /\ head.version = 1 /\ attempt = 1

\* The call that returns with a review.
Answered == step' = "returning" /\ failure' = "none"
ReviewDiff ==
    /\ answer' \in IF agentic /\ ~Plain THEN {CHOOSE a \in Answers : TRUE}
                   ELSE {a \in Answers : agentic \/ a.findings = {}}
    /\ report' = ReviewOf(answer')

\* The verdict of the review, whichever way it was made.
finalVerdict == IF pc = "done" THEN mergedVerdict ELSE report.verdict

\* submitNativeReview, last of all: configured or not, and best-effort; a
\* closed pull request gets none.
submitNativeReview == vote' \in {"none", MapVerdictToReview(finalVerdict)}

\* What the slices came to decides how the run goes on.
handBack == (step' = "posting") <=> (pc = "done")

Single ==
    /\ step # "batches"
    /\ \/ Post /\ submitNativeReview /\ UNCHANGED result
       \/ CheckoutNext /\ Answered /\ step # "returning" /\ ReviewDiff /\ UNCHANGED vote
       \/ CheckoutNext /\ ~(Answered /\ step # "returning") /\ ~Post /\ UNCHANGED <<result, vote>>
    /\ UNCHANGED batch
Sliced == step = "batches" /\ pc \notin Ended /\ Next /\ UNCHANGED <<checkout, result, vote>>
Merge  == Batched /\ pc \in Ended /\ handBack /\ UNCHANGED <<batch, result, vote>>

ReviewNext == Single \/ Sliced \/ Merge

\* The program itself, without the world around it.
Program == (Single /\ Work) \/ (Sliced /\ ~Cancel) \/ Merge

\* The program goes on, and a call to git, to a provider or to a model comes
\* back; the agent's own is ended by its deadline if by nothing else.
FairSpec == ReviewInit /\ [][ReviewNext]_allVars /\ WF_allVars(Program)

-----------------------------------------------------------------------------
(* Properties.                                                             *)

\* Both parts are well typed together.
AllTyped == TypeOK /\ CheckoutTypeOK

\* Some of what the agent found did not pass the bar.
Weakened == agentic /\ \E f \in answer.findings : f.body /\ f.dimension /\ ~f.sure

\* A vote is cast for a review that succeeded, and it is earned.  An approval:
\* the reviewer of the whole approved, or all that an agent found fell below
\* the bar, or every slice was answered and none objected.  A request for
\* changes: the model asked for them and, if findings fell below the bar, an
\* error that is posted remains ("an error below the bar must not cast a
\* changes-requested vote it never posts", agentic_review.go:80-82).
VoteIsEarned ==
    /\ vote # "none" => step \in {"releasing", "ended"} /\ failure = "none"
    /\ vote = "approved" =>
          IF pc = "done" THEN read = File /\ said \subseteq {"approve", "none"}
          ELSE answer.verdict = "approve" \/ (Weakened /\ report.comments = {})
    /\ vote = "changes_requested" =>
          IF pc = "done" THEN "request_changes" \in said
          ELSE /\ answer.verdict = "request_changes"
               /\ Weakened => \E f \in report.comments : f.error

\* The run comes to its end, whatever history the clone lacks, however the
\* attempts fail and however the slices overflow: the three loops are bounded.
ReviewEnds == <>(step = "ended")
=============================================================================
