------------------------------ MODULE ReviewRuns ------------------------------
(***************************************************************************)
(* The review command of code-guru (domain/commands/review_command.go) as  *)
(* it meets ONE pull request again and again: reviews that pushes trigger  *)
(* and re-reviews that mentions ask for, while its author pushes, answers  *)
(* and closes.                                                             *)
(*                                                                         *)
(* A run keeps nothing: what it knows of earlier runs it reads from the    *)
(* comments they left on the pull request.  Every call to the provider is  *)
(* a step; the AI answers anything its prompt allows.  Comments are those  *)
(* inline on a line, threads those of a provider with thread states (Azure *)
(* DevOps), and a large review answers like any other.                     *)
(***************************************************************************)
EXTENDS Naturals, Sequences, FiniteSets, TrivialDetectors

CONSTANTS
    Push, Mention,     \* the runs, by what triggered them
    Comment,           \* the inline comments the AI may make
    lineOf, fileOf,    \* the line, and the file, each is on
    Worlds             \* the pull requests and configurations to look at

Run  == Push \cup Mention
File == {fileOf[c] : c \in Comment}

\* What a world is; edits and replies are bounds of the model.
World ==
    [runs : SUBSET Run,           \* who triggers a run
     remarks : SUBSET Comment,    \* what the AI may find
     key : [Run -> STRING],       \* the dedup record or job slot that keeps runs apart
     screening : SUBSET Run,      \* the runs that are a server's triage ahead of a Job
     draft : SUBSET Push,         \* the push runs whose payload says draft
     flaky : SUBSET Run,          \* the runs whose provider calls may fail
     mortal : SUBSET Run,         \* the runs whose process may die
     workspace : BOOLEAN,         \* whether the AI reads a checkout
     merges : BOOLEAN,            \* whether approved trivial changes of this author merge
     adapters : Seq(Adapter),     \* the enabled detectors, in their order
     autobump : SUBSET Config,
     paths : SUBSET Path,         \* what the author may change
     edits : Nat, replies : Nat]  \* how often the author pushes, and people reply

\* Any finite number of runs; a line belongs to one file.
ASSUME RunsAssumption ==
    /\ Push \cap Mention = {} /\ IsFiniteSet(Run)
    /\ DOMAIN lineOf = Comment /\ DOMAIN fileOf = Comment
    /\ \A c, d \in Comment : lineOf[c] = lineOf[d] => fileOf[c] = fileOf[d]
    /\ \A w \in DOMAIN Worlds : Worlds[w] \in World

VARIABLES
    world,    \* the world this is
    open,     \* the pull request's status
    files,    \* the files its head changes
    thread,   \* the thread of each comment: how many copies, messages, state
    marker,   \* the "reviewing" notice of each run
    outcome,  \* its "review complete" or "review failed" notice
    blind,    \* what some run did without seeing what another did (history)
    edits, replies,
    pc,       \* where each run is
    read,     \* the files it listed
    ruling,   \* what a detector says of them
    seen,     \* the messages of each thread when it read the conversation
    answers,  \* the AI's verdicts on those threads
    todo,     \* the verdicts it has yet to apply
    closing,  \* the verdicts whose thread it sets the state of next
    keep      \* the AI's comments, less the ones dropped or posted

headVars == <<world, open, files, edits>>
runVars  == <<read, ruling, seen, answers, todo, closing, keep>>
vars == <<headVars, thread, marker, outcome, blind, replies, pc, runVars>>

W == Worlds[world]

Ruling  == {"none", "approve", "reject"}
Verdict == {"resolved", "outstanding", "outdated"}
Message == {"finding", "person"} \cup Verdict
Ended   == {"skipped", "handed", "silent", "told", "done", "lost"}
Stage   == {"new", "gate", "files", "verdict", "merging", "marking", "preparing",
            "reading", "reviewing", "failed", "announcing", "checking",
            "answering", "filtering", "deduping", "posting"} \cup Ended

NoThread == [copies |-> 0, msgs |-> <<>>, state |-> "none"]
Exists(c) == thread[c].copies > 0
Threads   == {c \in Comment : Exists(c)}
Last(s)   == s[Len(s)]

\* A run that is over has forgotten everything.
Blank(f, r) == [f EXCEPT ![r] = {}]
Forgets(r) ==
    /\ read' = Blank(read, r)
    /\ ruling' = [ruling EXCEPT ![r] = "none"]
    /\ seen' = [seen EXCEPT ![r] = <<>>]
    /\ answers' = [answers EXCEPT ![r] = <<>>]
    /\ todo' = Blank(todo, r)
    /\ closing' = Blank(closing, r)
    /\ keep' = Blank(keep, r)

Goto(r, s) == pc' = [pc EXCEPT ![r] = s]

\* The run ends here, as s.
Ends(r, s) == s \in Ended /\ Goto(r, s) /\ Forgets(r)

\* What a call of a run that only posts can come to: the comment is there, or
\* the call failed, with or without its effect.
MayMiss(r) == r \in W.flaky

-----------------------------------------------------------------------------
(* The gates: draft, review-once, no files, trivial.                       *)

\* Runs with one key are kept apart by the dedup record or the job queue.
Start(r) ==
    /\ pc[r] = "new"
    /\ r \in W.runs
    /\ \A s \in Run \ {r} : W.key[s] = W.key[r] => pc[s] \in Ended \cup {"new"}
    /\ Goto(r, "gate")
    /\ UNCHANGED <<headVars, thread, marker, outcome, blind, replies, runVars>>

\* Mutation: a failed review does not count as one.
HasCompletedReviewMarker_complete == \E r \in Run : outcome[r] = "complete"

\* Any "review complete" or "review failed" notice counts as a review.
HasCompletedReviewMarker == \E r \in Run : outcome[r] # "none"

\* shouldSkip: a listing that fails counts as "not reviewed".
Gate(r) ==
    /\ pc[r] = "gate"
    /\ \/ /\ r \in W.draft \/ (r \in Push /\ HasCompletedReviewMarker)
          /\ Ends(r, "skipped")
       \/ /\ r \notin W.draft
          /\ r \in Mention \/ ~HasCompletedReviewMarker \/ MayMiss(r)
          /\ Goto(r, "files")
          /\ UNCHANGED runVars
    /\ UNCHANGED <<headVars, thread, marker, outcome, blind, replies>>

\* The rest of triage: list the files, then ask the detectors, each of which
\* may fail to read the bump configuration.  With the Kubernetes executor the
\* server triages, hands what it cannot settle to a Job, and the Job triages
\* again.
Triage(r) ==
    /\ pc[r] = "files"
    /\ \/ files = {} /\ Ends(r, "skipped")
       \/ MayMiss(r) /\ Ends(r, "silent")
       \/ /\ files # {}
          /\ \E verdict \in Ruling, unread \in SUBSET (IF MayMiss(r) THEN Bumps ELSE {}) :
                /\ Detect(W.adapters, files, W.autobump, unread, verdict)
                /\ \/ /\ verdict = "none" /\ r \in W.screening
                      /\ Ends(r, "handed")
                   \/ /\ verdict # "none" \/ r \notin W.screening
                      /\ read' = [read EXCEPT ![r] = files]
                      /\ ruling' = [ruling EXCEPT ![r] = verdict]
                      /\ Goto(r, IF verdict = "none" THEN "marking" ELSE "verdict")
                      /\ UNCHANGED <<seen, answers, todo, closing, keep>>
    /\ UNCHANGED <<seen, answers, todo, closing, keep>>
    /\ UNCHANGED <<headVars, thread, marker, outcome, blind, replies>>

\* A trivial pull request gets its verdict as a complete review; only an
\* approval is merged.
PostVerdict(r) ==
    /\ pc[r] = "verdict"
    /\ \/ outcome' = [outcome EXCEPT ![r] = "complete"]
       \/ MayMiss(r) /\ UNCHANGED outcome
    /\ IF ruling[r] = "approve" /\ W.merges THEN Goto(r, "merging") /\ UNCHANGED runVars
       ELSE Ends(r, "done")
    /\ UNCHANGED <<headVars, thread, marker, blind, replies>>

\* The merge names the pull request, not the commit the detector looked at;
\* a branch policy may refuse it.
autoMergeTrivial(r) ==
    /\ pc[r] = "merging"
    /\ open' \in {open, FALSE}
    /\ Ends(r, "done")
    /\ UNCHANGED <<world, files, edits, thread, marker, outcome, blind, replies>>

-----------------------------------------------------------------------------
(* The review: marker, checkout, rules, conversation, AI.                  *)

postReviewingMarker(r) ==
    /\ pc[r] = "marking"
    /\ \/ marker' = [marker EXCEPT ![r] = TRUE]
       \/ MayMiss(r) /\ UNCHANGED marker
    /\ Goto(r, "preparing")
    /\ UNCHANGED <<headVars, thread, outcome, blind, replies, runVars>>

\* The checkout, or the diffs, and the rules.  Only a failed checkout is
\* announced: the other errors end the run.
Prepare(r) ==
    /\ pc[r] = "preparing"
    /\ \/ Goto(r, "reading") /\ UNCHANGED runVars
       \/ W.workspace /\ Goto(r, "failed") /\ UNCHANGED runVars
       \/ Ends(r, "silent")
    /\ UNCHANGED <<headVars, thread, marker, outcome, blind, replies>>

\* buildConversation: only a mention reads the threads, and does without when
\* the listing fails.
buildConversation(r) ==
    /\ pc[r] = "reading"
    /\ \/ /\ r \in Mention
          /\ seen' = [seen EXCEPT ![r] = [c \in Threads |-> thread[c].msgs]]
          /\ blind' = blind \cup
                {"conversation" : s \in {m \in Mention \ {r} :
                                        pc[m] \in {"reviewing", "checking", "answering"}}}
       \/ (r \in Push \/ MayMiss(r)) /\ UNCHANGED <<seen, blind>>
    /\ Goto(r, "reviewing")
    /\ UNCHANGED <<headVars, thread, marker, outcome, replies, read, ruling, answers, todo, closing, keep>>

\* Mutation: a verdict counts for any thread of the pull request.
matchResolutionThread_any(r) == Threads

\* A verdict counts only for a thread of the conversation.
matchResolutionThread(r) == DOMAIN seen[r]

\* The AI fails, or returns comments on the files it was given and at most one
\* verdict on each thread.
ReviewDiff(r) ==
    /\ pc[r] = "reviewing"
    /\ \/ Goto(r, "failed") /\ UNCHANGED runVars
       \/ /\ keep' \in {[keep EXCEPT ![r] = C] : C \in SUBSET {c \in W.remarks : fileOf[c] \in read[r]}}
          /\ \E T \in SUBSET matchResolutionThread(r) :
                /\ answers' \in {[answers EXCEPT ![r] = v] : v \in [T -> Verdict]}
                /\ todo' = [todo EXCEPT ![r] = T]
          /\ read' = Blank(read, r)
          /\ Goto(r, "checking")
          /\ UNCHANGED <<ruling, seen, closing>>
    /\ UNCHANGED <<headVars, thread, marker, outcome, blind, replies>>

\* isPullRequestClosed, before anything of the result or the failure is
\* posted; a status that cannot be read counts as open.
CheckOpen(r) ==
    /\ pc[r] \in {"failed", "checking"}
    /\ \/ ~open /\ Ends(r, "silent")
       \/ /\ open \/ MayMiss(r)
          /\ Goto(r, IF pc[r] = "failed" THEN "announcing" ELSE "answering")
          /\ UNCHANGED runVars
    /\ UNCHANGED <<headVars, thread, marker, outcome, blind, replies>>

postReviewFailedAnnotation(r) ==
    /\ pc[r] = "announcing"
    /\ \/ outcome' = [outcome EXCEPT ![r] = "failed"]
       \/ MayMiss(r) /\ UNCHANGED outcome
    /\ Ends(r, "told")
    /\ UNCHANGED <<headVars, thread, marker, blind, replies>>

-----------------------------------------------------------------------------
(* applyThreadResolutions: one reply, then one state change, per verdict.  *)

\* Mutation: every verdict is replied.
alreadyAnswered_never(r, c) == FALSE

\* The newest message the run read is this very verdict.
alreadyAnswered(r, c) ==
    Len(seen[r][c]) > 1 /\ Last(seen[r][c]) = answers[r][c]

shouldClose(v) == v \in {"resolved", "outdated"}

\* Mutation: a thread that carries the verdict is left alone altogether.
Reply_settled(r, c) ==
    /\ pc[r] = "answering"
    /\ closing[r] = {}
    /\ c \in todo[r]
    /\ todo' = [todo EXCEPT ![r] = @ \ {c}]
    /\ \/ /\ ~alreadyAnswered(r, c)
          /\ thread' = [thread EXCEPT ![c].msgs = Append(@, answers[r][c])]
          /\ closing' = [closing EXCEPT ![r] = {c}]
       \/ /\ alreadyAnswered(r, c) \/ MayMiss(r)
          /\ UNCHANGED <<thread, closing>>
    /\ UNCHANGED <<headVars, marker, outcome, blind, replies, pc, read, ruling, seen, answers, keep>>

\* Reply unless the thread carries the verdict already.  After a reply that
\* failed, though it may have landed, the thread is not closed.
Reply(r, c) ==
    /\ pc[r] = "answering"
    /\ closing[r] = {}
    /\ c \in todo[r]
    /\ todo' = [todo EXCEPT ![r] = @ \ {c}]
    /\ \/ /\ IF alreadyAnswered(r, c) THEN UNCHANGED thread
             ELSE thread' = [thread EXCEPT ![c].msgs = Append(@, answers[r][c])]
          /\ closing' = [closing EXCEPT ![r] = {c}]
       \/ /\ MayMiss(r)
          /\ ~alreadyAnswered(r, c)
          /\ thread' \in {thread, [thread EXCEPT ![c].msgs = Append(@, answers[r][c])]}
          /\ UNCHANGED closing
    /\ UNCHANGED <<headVars, marker, outcome, blind, replies, pc, read, ruling, seen, answers, keep>>

\* closeResolvedThread: no verdict opens a thread again.
closeResolvedThread(r, c) ==
    /\ pc[r] = "answering"
    /\ c \in closing[r]
    /\ closing' = Blank(closing, r)
    /\ \/ /\ shouldClose(answers[r][c])
          /\ thread' = [thread EXCEPT ![c].state = IF answers[r][c] = "resolved" THEN "fixed" ELSE "closed"]
       \/ (~shouldClose(answers[r][c]) \/ MayMiss(r)) /\ UNCHANGED thread
    /\ UNCHANGED <<headVars, marker, outcome, blind, replies, pc, read, ruling, seen, answers, todo, keep>>

Answered(r) ==
    /\ pc[r] = "answering"
    /\ todo[r] = {} /\ closing[r] = {}
    /\ Goto(r, "filtering")
    /\ UNCHANGED <<headVars, thread, marker, outcome, blind, replies, runVars>>

-----------------------------------------------------------------------------
(* postComments: drop the stale, the handled and the duplicate comments.   *)

\* The lines of the threads this run's verdicts close, replied or not.
handledAnchors(r) ==
    {lineOf[c] : c \in {d \in DOMAIN answers[r] : shouldClose(answers[r][d])}}

\* dropStaleComments with the files of the head, dropResolvedAnchorComments.
dropStaleComments(r) ==
    /\ pc[r] = "filtering"
    /\ \E live \in {files} \cup (IF MayMiss(r) THEN {File} ELSE {}) :
          keep' = [keep EXCEPT ![r] = {c \in @ : fileOf[c] \in live /\ lineOf[c] \notin handledAnchors(r)}]
    /\ Goto(r, "deduping")
    /\ UNCHANGED <<headVars, thread, marker, outcome, blind, replies, read, ruling, seen, answers, todo, closing>>

\* Mutation: only the threads of the conversation count as posted.
isDuplicate_conversation(r, c) == c \in DOMAIN seen[r]

\* A comment with this line and text is on the pull request, open or closed.
isDuplicate(r, c) == Exists(c)

dropDuplicateComments(r) ==
    /\ pc[r] = "deduping"
    /\ \/ /\ keep' = [keep EXCEPT ![r] = {c \in @ : ~isDuplicate(r, c)}]
          /\ blind' = blind \cup {"posting" : s \in {q \in Run \ {r} : pc[q] = "posting"}}
       \/ /\ MayMiss(r)
          /\ UNCHANGED keep
          /\ blind' = blind \cup {"posting"}
    /\ Goto(r, "posting")
    /\ UNCHANGED <<headVars, thread, marker, outcome, replies, read, ruling, seen, answers, todo, closing>>

Opened(c) ==
    IF Exists(c) THEN [thread[c] EXCEPT !.copies = @ + 1]
    ELSE [copies |-> 1, msgs |-> <<"finding">>, state |-> "active"]

Post(r, c) ==
    /\ pc[r] = "posting"
    /\ c \in keep[r]
    /\ keep' = [keep EXCEPT ![r] = @ \ {c}]
    /\ \/ thread' = [thread EXCEPT ![c] = Opened(c)]
       \/ MayMiss(r) /\ UNCHANGED thread
    /\ UNCHANGED <<headVars, marker, outcome, blind, replies, pc, read, ruling, seen, answers, todo, closing>>

postReviewCompleteAnnotation(r) ==
    /\ pc[r] = "posting"
    /\ keep[r] = {}
    /\ \/ outcome' = [outcome EXCEPT ![r] = "complete"]
       \/ MayMiss(r) /\ UNCHANGED outcome
    /\ Ends(r, "done")
    /\ UNCHANGED <<headVars, thread, marker, blind, replies>>

-----------------------------------------------------------------------------
(* The world: authors, reviewers, pods.                                    *)

\* The author pushes: other files.
Edit ==
    /\ open /\ edits < W.edits
    /\ edits' = edits + 1
    /\ files' \in SUBSET W.paths
    /\ UNCHANGED <<world, open, thread, marker, outcome, blind, replies, pc, runVars>>

\* Somebody answers in a thread.
Answer(c) ==
    /\ open /\ replies < W.replies
    /\ Exists(c)
    /\ replies' = replies + 1
    /\ thread' = [thread EXCEPT ![c].msgs = Append(@, "person")]
    /\ UNCHANGED <<headVars, marker, outcome, blind, pc, runVars>>

\* The pull request is merged or abandoned.
Close ==
    /\ open
    /\ open' = FALSE
    /\ UNCHANGED <<world, files, edits, thread, marker, outcome, blind, replies, pc, runVars>>

\* The process dies in the middle of a run.
Die(r) ==
    /\ r \in W.mortal
    /\ pc[r] \notin Ended \cup {"new"}
    /\ Ends(r, "lost")
    /\ UNCHANGED <<headVars, thread, marker, outcome, blind, replies>>

-----------------------------------------------------------------------------
Init ==
    /\ world \in DOMAIN Worlds
    /\ open = TRUE
    /\ files \in SUBSET W.paths \ {{}}
    /\ thread = [c \in Comment |-> NoThread]
    /\ marker = [r \in Run |-> FALSE]
    /\ outcome = [r \in Run |-> "none"]
    /\ blind = {}
    /\ edits = 0 /\ replies = 0
    /\ pc = [r \in Run |-> "new"]
    /\ read = [r \in Run |-> {}]
    /\ ruling = [r \in Run |-> "none"]
    /\ seen = [r \in Run |-> <<>>]
    /\ answers = [r \in Run |-> <<>>]
    /\ todo = [r \in Run |-> {}]
    /\ closing = [r \in Run |-> {}]
    /\ keep = [r \in Run |-> {}]

triage(r) == Start(r) \/ Gate(r) \/ Triage(r) \/ PostVerdict(r) \/ autoMergeTrivial(r)
review(r) == \/ postReviewingMarker(r) \/ Prepare(r) \/ buildConversation(r)
             \/ ReviewDiff(r) \/ CheckOpen(r) \/ postReviewFailedAnnotation(r)
applyThreadResolutions(r) ==
    (\E c \in Comment : Reply(r, c) \/ closeResolvedThread(r, c)) \/ Answered(r)
postComments(r) ==
    \/ dropStaleComments(r) \/ dropDuplicateComments(r)
    \/ \E c \in Comment : Post(r, c)
    \/ postReviewCompleteAnnotation(r)

Execute(r) == triage(r) \/ review(r) \/ applyThreadResolutions(r) \/ postComments(r)

Next == \/ \E r \in Run : Execute(r) \/ Die(r)
        \/ \E c \in Comment : Answer(c)
        \/ Edit \/ Close

Spec == Init /\ [][Next]_vars

-----------------------------------------------------------------------------
(* Properties.                                                             *)

TypeOK ==
    /\ world \in DOMAIN Worlds
    /\ open \in BOOLEAN /\ files \subseteq W.paths
    /\ \A c \in Comment :
        /\ thread[c].copies \in 0..Cardinality(Run)
        /\ thread[c].msgs \in Seq(Message)
        /\ thread[c].state \in {"none", "active", "fixed", "closed"}
        /\ (thread[c].copies = 0) <=> (thread[c] = NoThread)
    /\ marker \in [Run -> BOOLEAN]
    /\ outcome \in [Run -> {"none", "complete", "failed"}]
    /\ blind \subseteq {"conversation", "posting"}
    /\ edits \in 0..W.edits /\ replies \in 0..W.replies
    /\ pc \in [Run -> Stage]
    /\ read \in [Run -> SUBSET W.paths]
    /\ ruling \in [Run -> Ruling]
    /\ \A r \in Run :
        /\ DOMAIN seen[r] \subseteq Comment
        /\ DOMAIN answers[r] \subseteq DOMAIN seen[r]
        /\ todo[r] \subseteq DOMAIN answers[r] /\ closing[r] \subseteq DOMAIN answers[r]
        /\ Cardinality(closing[r]) <= 1
    /\ keep \in [Run -> SUBSET Comment]

\* README.md:198: "A PR is reviewed once; later pushes are no-ops".  However
\* many pushes there are, processes that die and reviews that fail, of the
\* runs that pushes trigger under one key at most one tells an outcome (unless
\* the comments could not be listed).
ReviewedOnce ==
    \A r, s \in Push \ W.flaky :
        W.key[r] = W.key[s] /\ outcome[r] # "none" /\ outcome[s] # "none" => r = s

\* No finding is on the pull request twice, neither from a re-review nor from
\* the review after one that died halfway through posting, unless a run posted
\* beside another one, or could not list what was there.  An answer that names a
\* finding twice, which the code does not look for, is not among these.
TwinsOnlyFromOverlap ==
    \A c \in Comment : thread[c].copies > 1 => "posting" \in blind

\* A thread never carries the same verdict twice in a row, even when the
\* answer to the first reply was lost, unless two mentions were answered at
\* the same time.  As ReviewDiff has it, an answer names a thread once.
NoRepeatedVerdict ==
    "conversation" \notin blind =>
        \A c \in Comment : \A i \in 1..Len(thread[c].msgs) - 1 :
            thread[c].msgs[i] \in Verdict => thread[c].msgs[i + 1] # thread[c].msgs[i]

\* A re-review whose calls all succeed leaves every thread it settled closed,
\* whatever of it an earlier run had got done before it failed.
SettledIsClosed ==
    [][\A r \in Run : postReviewCompleteAnnotation(r) /\ ~MayMiss(r) =>
        \A c \in DOMAIN answers[r] :
            shouldClose(answers[r][c]) => thread[c].state \in {"fixed", "closed"}]_vars

\* registry.go's and README.md:253-283's promises: what is approved unseen is
\* in the class of an enabled adapter, and nothing but a bump adapter approves
\* a changelog by itself; what is rejected lacks a file that .autobump.yaml
\* requires, whichever reads of it failed.
SettledByItsClass ==
    [][\A r \in Run : PostVerdict(r) =>
        \/ /\ ruling[r] = "approve"
           /\ \E i \in DOMAIN W.adapters :
                /\ InClass(W.adapters[i], read[r], W.autobump)
                /\ ChangelogOnly(read[r]) => W.adapters[i] \in Bumps
        \/ /\ ruling[r] = "reject"
           /\ \E i \in DOMAIN W.adapters : Incomplete(W.adapters[i], read[r], W.autobump)]_vars

-----------------------------------------------------------------------------
(* What the comments and documents say and the code does not do.           *)

\* review_command.go:1003-1004, the notice of a failed review: "push a new
\* commit or mention `@code-guru` in a comment to try again": a push is a
\* no-op only after a review that was completed.
PushRetriesFailure ==
    [][\A r \in Push \ W.draft :
        Gate(r) /\ pc'[r] = "skipped" => \E s \in Run : outcome[s] = "complete"]_vars
=============================================================================
