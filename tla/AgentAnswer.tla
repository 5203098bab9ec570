----------------------------- MODULE AgentAnswer -----------------------------
(***************************************************************************)
(* What the code makes of a reviewer's answer: the parsing of              *)
(* support/response_parser.go and agentic_prompt_builder.go, the bar that  *)
(* an agent's findings have to pass (support/agentic_review.go), and the   *)
(* vote of support/verdict_mapper.go.                                      *)
(***************************************************************************)
EXTENDS Naturals

CONSTANT Answers  \* the answers to look at

\* A finding: whether it has a text, a known dimension, and a confidence that
\* reaches the bar; and whether its severity is "error".
Finding == [body : BOOLEAN, dimension : BOOLEAN, sure : BOOLEAN, error : BOOLEAN]
Answer  == [verdict : STRING, findings : SUBSET Finding]

ASSUME AnswersAssumption == Answers \subseteq Answer

normalizeVerdict(v) == IF v \in {"approve", "request_changes", "comment"} THEN v ELSE "comment"

\* A reviewer of the diff knows neither dimensions nor scores.
ParseReviewResponse(a) ==
    [verdict |-> normalizeVerdict(a.verdict), comments |-> a.findings, dropped |-> {}]

\* Findings without a text vanish, those without a dimension are only reported.
ParseAgenticReviewResponse(a) ==
    LET told == {f \in a.findings : f.body}
    IN  [verdict  |-> normalizeVerdict(a.verdict),
         comments |-> {f \in told : f.dimension},
         dropped  |-> {f \in told : ~f.dimension}]

\* The verdict these findings ask for.
verdictFor(findings) ==
    IF \E f \in findings : f.error THEN "request_changes"
    ELSE IF findings # {} THEN "comment" ELSE "approve"

verdictStrictness(v) ==
    CASE v = "approve" -> 1 [] v = "comment" -> 2 [] v = "request_changes" -> 3 [] OTHER -> 0

\* Mutation: the verdict stays as the model gave it.
relaxVerdict_never(v, justified) == v

relaxVerdict(v, justified) ==
    IF verdictStrictness(justified) < verdictStrictness(v) THEN justified ELSE v

\* Findings below the bar are reported, not posted, and no longer count.
ApplyConfidenceThreshold(r) ==
    LET weak == {f \in r.comments : ~f.sure}
        kept == r.comments \ weak
    IN  [verdict  |-> IF weak = {} THEN r.verdict ELSE relaxVerdict(r.verdict, verdictFor(kept)),
         comments |-> kept,
         dropped  |-> r.dropped \cup weak]

\* An unknown verdict, and a review with none, is no vote.
MapVerdictToReview(v) ==
    CASE v = "approve" -> "approved"
      [] v \in {"reject", "request_changes"} -> "changes_requested"
      [] v = "comment" -> "waiting_for_author"
      [] OTHER -> "none"
=============================================================================
