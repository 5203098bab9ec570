------------------------------ MODULE BatchReview ------------------------------
(***************************************************************************)
(* The batched review of code-guru (domain/commands/review_batches.go):    *)
(* a pull request whose prompt overflowed the model's window is reviewed   *)
(* slice by slice, each slice as large as a budget that halves whenever a  *)
(* slice overflows too, and the answers are merged into one review.        *)
(*                                                                         *)
(* Files are 1..n in the provider's order, threads are 1..|Thread| in the  *)
(* conversation's.  The model answers anything: a slice may overflow at    *)
(* any size.  What is kept of an answer is its verdict and the threads it  *)
(* settles; comments and summaries are only ever appended.                 *)
(***************************************************************************)
EXTENDS Naturals, FiniteSets, RunContext

CONSTANTS
    MaxFiles,
    upTo,        \* the weight of the first i files together
    Thread,      \* the earlier threads, by their index
    fileOf,      \* the file of each, 0 if it left the change
    Scaled,      \* the budgets an overflow's token figures may suggest
    MaxBatches,  \* the largest ai.max_review_batches of the instance
    MaxShrinks,  \* maxBatchBudgetShrinks
    None

ASSUME BatchAssumption ==
    /\ MaxFiles \in Nat \ {0}
    /\ upTo \in [0..MaxFiles -> Nat]
    /\ upTo[0] = 0
    /\ \A i, j \in 0..MaxFiles : i < j => upTo[i] < upTo[j]
    /\ Thread \subseteq Nat
    /\ IsFiniteSet(Thread)
    /\ fileOf \in [Thread -> 0..MaxFiles]
    /\ Scaled \subseteq Nat
    /\ MaxBatches \in Nat \ {0}
    /\ MaxShrinks \in Nat
    /\ None \notin Nat

VARIABLES
    n,           \* how many files the pull request changes
    maxBatches,  \* ai.max_review_batches
    pc,          \* where the run is
    next,        \* the files up to here are consumed
    end,         \* the slice that is being asked is next+1..end
    budget,      \* the weight a slice may have
    calls, completed, failures,
    verdict,     \* the most severe verdict so far
    resolved,    \* the threads the merged review settles
    unreviewed,  \* the files it says could not be read
    tried,       \* the shortest slice from here that overflowed (history)
    read,        \* the files of the slices that were answered (history)
    said,        \* the verdicts they got (history)
    meant,       \* the threads their answers named (history)
    asked        \* in how many of them each thread was shown (history)

settings == <<n, maxBatches>>
merged   == <<verdict, resolved, unreviewed>>
history  == <<read, said, meant, asked>>
vars == <<settings, pc, next, end, budget, calls, completed, failures, merged,
          cancelled, tried, history>>

File == 1..n
weight(i, j) == upTo[j] - upTo[i]
half(w) == w \div 2
atLeast(a, b) == IF a > b THEN a ELSE b

Verdict == {"none", "approve", "comment", "request_changes"}
Ended   == {"refused", "done", "failed", "cancelled"}
Stage   == {"start", "loop", "asking"} \cup Ended

-----------------------------------------------------------------------------
(* The pure parts: budgets, slices, threads, verdicts.                     *)

\* From the token figures if there are any; less than the whole, but no less
\* than what lets the cap's number of slices cover it.
initialBatchBudget(m, b, scaled) ==
    LET total == upTo[m]
        hint  == IF scaled = None \/ scaled >= total THEN half(total) ELSE scaled
    IN atLeast(atLeast(hint, total \div b), 1)

fits(e) == weight(next, e) <= budget

\* The end of the longest run of pending files within the budget, or of a
\* single file whatever its weight.
takeBatch ==
    {e \in next + 1..n : (e = next + 1 \/ fits(e)) /\ (e < n => ~fits(e + 1))}

\* Mutation: threads whose file left the change go with every slice.
conversationFor_always == {t \in Thread : fileOf[t] \in next + 1..end \/ fileOf[t] \notin File}

\* conversationFor: the threads on the slice's files; before any slice is
\* consumed, also those whose file is not part of the change.
conversationFor ==
    {t \in Thread : \/ fileOf[t] \in next + 1..end
                    \/ completed + failures = 0 /\ fileOf[t] \notin File}

\* ThreadPromptID: the prompt numbers the threads it shows from one.
promptID(S, t) == Cardinality({u \in S : u <= t})

\* Mutation: the slice's numbers are taken for the whole run's.
remapBatchThreadResolutions_as_is(ids, S) == {t \in Thread : t \in ids}

\* A number is read back as the thread it was given; others are dropped.
remapBatchThreadResolutions(ids, S) == {t \in S : promptID(S, t) \in ids}

batchVerdictSeverityRank(v) ==
    CASE v = "request_changes" -> 3 [] v = "comment" -> 2 [] v = "approve" -> 1 [] OTHER -> 0

\* Mutation: the last slice decides.
mergeBatchVerdicts_last(v, w) == IF w = "none" THEN v ELSE w

mergeBatchVerdicts(v, w) ==
    IF batchVerdictSeverityRank(w) > batchVerdictSeverityRank(v) THEN w ELSE v

\* What was not read in full is not approved.
mergedVerdict ==
    IF verdict = "none" \/ (verdict = "approve" /\ unreviewed # {}) THEN "comment" ELSE verdict

-----------------------------------------------------------------------------
(* The run.                                                                *)

\* reviewLargePullRequest: a single file cannot be split.  The notice that it
\* posts otherwise is best effort.
Begin ==
    /\ pc = "start"
    /\ pc' = IF n < 2 THEN "refused" ELSE "loop"
    /\ UNCHANGED <<settings, next, end, budget, calls, completed, failures, merged,
                   cancelled, tried, history>>

\* The condition of the loop.
goesOn ==
    /\ next < n
    /\ completed + failures < maxBatches
    /\ calls < maxBatches + MaxShrinks

Ask ==
    /\ pc = "loop"
    /\ goesOn /\ ~cancelled
    /\ end' \in takeBatch
    /\ calls' = calls + 1
    /\ pc' = "asking"
    /\ UNCHANGED <<settings, next, budget, completed, failures, merged, cancelled,
                   tried, history>>

\* absorb: an answer names threads by their numbers, and may make some up; it
\* may come without a verdict, or be no result at all.
absorb ==
    /\ pc = "asking"
    /\ pc' = "loop"
    /\ completed' = completed + 1
    /\ next' = end
    /\ tried' = n + 1
    /\ \E v \in Verdict, T \in SUBSET conversationFor, U \in SUBSET {0, Cardinality(Thread) + 1} :
        /\ verdict' = mergeBatchVerdicts(verdict, v)
        /\ resolved' = resolved \cup
              remapBatchThreadResolutions({promptID(conversationFor, t) : t \in T} \cup U, conversationFor)
        /\ said' = said \cup {v}
        /\ meant' = meant \cup T
    /\ read' = read \cup next + 1..end
    /\ asked' = [t \in Thread |-> IF t \in conversationFor THEN asked[t] + 1 ELSE asked[t]]
    /\ UNCHANGED <<settings, end, budget, calls, failures, unreviewed, cancelled>>

\* Mutation: only the budget is halved, though the slice may weigh less.
shrunk_budget == atLeast(half(budget), 1)

\* shrink: half the weight of the slice that overflowed.
shrunk == atLeast(half(weight(next, end)), 1)

\* A slice of several files overflowed: ask for less.
Shrink ==
    /\ pc = "asking" /\ ~cancelled
    /\ end - next > 1
    /\ budget' = shrunk
    /\ tried' = end
    /\ pc' = "loop"
    /\ UNCHANGED <<settings, next, end, calls, completed, failures, merged, cancelled,
                   history>>

\* Mutation: a failed slice is dropped without a word.
recordFailure_silent ==
    /\ pc = "asking" /\ ~cancelled
    /\ failures' = failures + 1
    /\ next' = end
    /\ tried' = n + 1
    /\ pc' = "loop"
    /\ UNCHANGED <<settings, end, budget, calls, completed, merged, cancelled, history>>

\* The call failed otherwise, or a single file overflowed.
recordFailure ==
    /\ pc = "asking" /\ ~cancelled
    /\ failures' = failures + 1
    /\ next' = end
    /\ tried' = n + 1
    /\ unreviewed' = unreviewed \cup next + 1..end
    /\ pc' = "loop"
    /\ UNCHANGED <<settings, end, budget, calls, completed, verdict, resolved, cancelled,
                   history>>

\* The context is found cancelled before a slice, or after a call that failed.
Abandon ==
    /\ cancelled
    /\ pc = "asking" \/ (pc = "loop" /\ goesOn)
    /\ pc' = "cancelled"
    /\ UNCHANGED <<settings, next, end, budget, calls, completed, failures, merged,
                   cancelled, tried, history>>

\* recordRemainingUnreviewed; without any answered slice the run is an error.
Finish ==
    /\ pc = "loop"
    /\ ~goesOn
    /\ unreviewed' = unreviewed \cup next + 1..n
    /\ next' = n
    /\ tried' = n + 1
    /\ pc' = IF completed = 0 THEN "failed" ELSE "done"
    /\ UNCHANGED <<settings, end, budget, calls, completed, failures, verdict, resolved,
                   cancelled, history>>

\* The pod drains, or the caller gives up.
Cancel ==
    /\ ~cancelled
    /\ cancelled' = TRUE
    /\ UNCHANGED <<settings, pc, next, end, budget, calls, completed, failures, merged,
                   tried, history>>

-----------------------------------------------------------------------------
\* The whole prompt has just overflowed.
Init ==
    /\ n \in 1..MaxFiles
    /\ maxBatches \in 1..MaxBatches
    /\ pc = "start"
    /\ next = 0 /\ end = 0
    /\ \E scaled \in Scaled \cup {None} : budget = initialBatchBudget(n, maxBatches, scaled)
    /\ calls = 0 /\ completed = 0 /\ failures = 0
    /\ verdict = "none"
    /\ resolved = {} /\ unreviewed = {}
    /\ cancelled = FALSE
    /\ tried = n
    /\ read = {} /\ said = {} /\ meant = {}
    /\ asked = [t \in Thread |-> 0]

Next == Begin \/ Ask \/ absorb \/ Shrink \/ recordFailure \/ Abandon \/ Finish \/ Cancel

Spec == Init /\ [][Next]_vars

-----------------------------------------------------------------------------
(* Properties.                                                             *)

TypeOK ==
    /\ n \in 1..MaxFiles /\ maxBatches \in 1..MaxBatches
    /\ pc \in Stage
    /\ next \in 0..n /\ end \in 0..n
    /\ budget \in Nat
    /\ calls \in 0..(maxBatches + MaxShrinks)
    /\ completed \in Nat /\ failures \in Nat
    /\ completed + failures <= maxBatches
    /\ verdict \in Verdict
    /\ resolved \subseteq Thread /\ unreviewed \subseteq File
    /\ cancelled \in BOOLEAN
    /\ tried \in 1..(n + 1)
    /\ read \subseteq File /\ said \subseteq Verdict /\ meant \subseteq Thread
    /\ asked \in [Thread -> Nat]

\* Whatever fails, overflows or is cut short by a cap, a review that is handed
\* on accounts for each file once: the model answered for it, or the summary
\* names it as unread.
EveryFileAccounted ==
    pc = "done" => read \cup unreviewed = File /\ read \cap unreviewed = {}

\* A merged approval was earned: every file is in an answered slice, and no
\* slice came back with a comment or a request for changes.
ApprovalIsEarned ==
    pc = "done" /\ mergedVerdict = "approve" =>
        read = File /\ said \subseteq {"approve", "none"}

\* A request for changes on one slice is the verdict of the whole, whatever
\* the other slices are answered and however many of them fail.
BlockingSurvives ==
    pc = "done" /\ "request_changes" \in said => mergedVerdict = "request_changes"

\* The merged review settles just the threads the answers meant, although
\* every prompt numbers its threads anew.
ResolvedAsMeant == resolved = meant

\* A thread is put to the model with its file and never twice, so that two
\* slices cannot answer it differently.
AskedOnce ==
    \A t \in Thread :
        /\ asked[t] <= 1
        /\ fileOf[t] \in File => (asked[t] = 1 <=> fileOf[t] \in read)

\* A slice that overflowed is never sent again as it was, nor a longer one
\* from the same file (unless the cap is a single slice, whose floor is the
\* whole).
NeverResent == pc = "asking" /\ maxBatches > 1 => end < tried
=============================================================================
