---------------------------- MODULE Conversation ----------------------------
(***************************************************************************)
(* How a re-review knows what was said (support/conversation.go,           *)
(* support/review_marker.go) and how its verdicts get back to the threads  *)
(* they are about (applyThreadResolutions in commands/review_command.go).  *)
(*                                                                         *)
(* `posted' is the truth: every comment of one pull request in the order   *)
(* it was made, the thread it is in and what it answers.  The provider     *)
(* shows the code a listing of it that names threads and comments in a way *)
(* of its own, and the code puts the conversation together again.          *)
(***************************************************************************)
EXTENDS Naturals, FiniteSets, SequencesExt

CONSTANTS
    Bot, Person,   \* the account the bot posts under, those of people
    Line,          \* the lines comments are on; 0 is none, a PR-wide comment
    Status,        \* what the AI may say of a thread
    Shapes,        \* how providers may list comments
    Quoting,       \* whether people blockquote the bot's notices
    MaxComments    \* how many comments are made (bound of the model)

ASSUME ConversationAssumption ==
    /\ Bot \notin Person
    /\ Line \subseteq Nat \ {0}
    /\ Status \subseteq {"resolved", "outstanding", "outdated"}
    /\ Shapes \subseteq {"azure", "github", "flat"}
    /\ Quoting \in BOOLEAN
    /\ MaxComments \in Nat

VARIABLES
    shape,    \* how this provider lists comments
    known,    \* whether the bot's account is configured or named code-guru
    posted,   \* the comments
    phase,    \* where the run is
    conv,     \* the threads it read
    bots      \* the accounts it took for its own

vars == <<shape, known, posted, phase, conv, bots>>

Said  == {"finding", "text", "notice", "discussing", "quoting"} \cup Status
State == {"active", "fixed", "closed"}

\* A comment that opens a thread, one that answers comment p.
Opening(author, said, line) ==
    [author |-> author, said |-> said, line |-> line,
     thread |-> Len(posted) + 1, parent |-> 0, state |-> "active"]
Answering(author, said, p) ==
    [author |-> author, said |-> said, line |-> posted[p].line,
     thread |-> posted[p].thread, parent |-> p, state |-> "active"]

Room == Len(posted) < MaxComments

-----------------------------------------------------------------------------
(* What the provider lists.                                                *)

\* How many comments of its thread there were up to i.
Place(i) == Cardinality({j \in 1..i : posted[j].thread = posted[i].thread})

\* Azure DevOps numbers comments within their thread and stores the bot's
\* replies without a parent; GitHub numbers all comments and has every reply
\* answer the first; a provider without threads has chains of replies.
Listed(i) ==
    LET c == posted[i] IN
    [of |-> i, Author |-> c.author, Line |-> c.line,
     ThreadID |-> IF shape = "flat" THEN 0 ELSE c.thread,
     ID |-> IF shape = "azure" THEN Place(i) ELSE i,
     InReplyToID |-> IF c.parent = 0 THEN 0
                     ELSE IF shape = "azure" THEN (IF c.author = Bot THEN 0 ELSE Place(c.parent))
                     ELSE IF shape = "github" THEN c.thread
                     ELSE c.parent]

comments == {Listed(i) : i \in DOMAIN posted}

-----------------------------------------------------------------------------
(* Who the bot is.                                                         *)

\* Mutation: the marker counts wherever it is in the body.
looksLikeBotAnnotation_anywhere(said) == said \in {"notice", "discussing", "quoting"}

\* The marker with no letter and no backtick before it: a notice, and also a
\* notice behind the ">" of a quotation.
looksLikeBotAnnotation(said) == said \in {"notice", "quoting"}

DetectBotAuthors ==
    {c.Author : c \in {d \in comments : d.Line = 0 /\ looksLikeBotAnnotation(posted[d.of].said)}}

identities == DetectBotAuthors \cup (IF known THEN {Bot} ELSE {})

IsBotAuthor(author) == author \in identities

-----------------------------------------------------------------------------
(* The conversation.                                                       *)

\* Azure DevOps numbers comments per thread: the ID alone is not enough.
keyOf(c) == <<c.ThreadID, c.ID>>

\* A map by key keeps, of two with one key, the later.
ByKey(S) == {c \in S : \A d \in S : keyOf(d) = keyOf(c) => d.of <= c.of}

firstCommentOfEachThread ==
    [t \in {c.ThreadID : c \in comments} |-> Min({c.ID : c \in {d \in comments : d.ThreadID = t}})]

\* Mutation: a comment that answers nothing opens a conversation.
opensConversation_unparented(c, first) == c.InReplyToID = 0

\* The first of its thread or, without threads, one that answers nothing.
opensConversation(c, first) ==
    IF c.ThreadID # 0 THEN c.ID = first[c.ThreadID] ELSE c.InReplyToID = 0

\* Mutation: PR-wide comments are not passed over.
discoverThreadRoots_wide ==
    LET first == firstCommentOfEachThread IN
    ByKey({c \in comments : opensConversation(c, first) /\ IsBotAuthor(c.Author)})

discoverThreadRoots ==
    LET first == firstCommentOfEachThread IN
    ByKey({c \in comments : c.Line > 0 /\ opensConversation(c, first) /\ IsBotAuthor(c.Author)})

maxReplyChainDepth == 32

\* The comment that d answers.
parentOf(d) == {e \in ByKey(comments) : e.ThreadID = d.ThreadID /\ e.ID = d.InReplyToID}

\* From each comment to the one it answers, and on from there as `walk' does.
hop(roots, walk) ==
    [d \in comments |-> UNION {IF e \in roots THEN {e} ELSE walk[e] : e \in parentOf(d)}]

\* The root that the chain of replies from c ends in, if it is the bot's.
walkToRoot(c, roots) ==
    LET walk[n \in 0..maxReplyChainDepth] ==
            IF n = 0 THEN [d \in comments |-> {}] ELSE hop(roots, walk[n - 1])
    IN  walk[maxReplyChainDepth][c]

\* A provider's thread decides outright.
rootFor(c, roots) ==
    IF c.ThreadID # 0 THEN {r \in roots : r.ThreadID = c.ThreadID} ELSE walkToRoot(c, roots)

\* S sorted by these numbers: before the n-th come n - 1.
InOrder(S, number) ==
    [n \in 1..Cardinality(S) |-> CHOOSE c \in S : Cardinality({d \in S : number[d] < number[c]}) = n - 1]

repliesTo(r, roots) == {c \in comments \ roots : c.Line > 0 /\ rootFor(c, roots) = {r}}

\* A thread of the bot's, its replies in the order of their IDs.
ReviewThread(r, roots) ==
    LET replies == InOrder(repliesTo(r, roots), [c \in repliesTo(r, roots) |-> c.ID])
    IN  [ThreadID |-> r.ThreadID, line |-> r.Line,
         msgs |-> <<r.of>> \o [n \in DOMAIN replies |-> replies[n].of]]

\* `liveFiles' is nil: threads on files that left the diff are among them.
BuildReviewConversation ==
    LET roots == discoverThreadRoots IN {ReviewThread(r, roots) : r \in roots}

-----------------------------------------------------------------------------
(* A run, as far as it reads and writes comments.                          *)

\* The "reviewing" and "review complete" notices; one that cannot be posted is
\* passed over, and after the first nothing reads another.
Announced ==
    {posted} \cup
    (IF Room /\ \A i \in DOMAIN posted : posted[i].said # "notice"
     THEN {Append(posted, Opening(Bot, "notice", 0))} ELSE {})

\* Only a mention reads the conversation.
postReviewingMarker ==
    /\ phase = "idle"
    /\ phase' \in {"reading", "posting"}
    /\ posted' \in Announced
    /\ UNCHANGED <<shape, known, conv, bots>>

\* Sorted by line; threads on one line come in any order, the order of a Go
\* map, which is that of the prompt's T1, T2, ... until the run ends.  Without
\* the listing there is no conversation.
buildConversation ==
    /\ phase = "reading"
    /\ phase' = "answering"
    /\ \/ /\ conv' \in {s \in SetToSeqs(BuildReviewConversation) :
                           \A i, j \in DOMAIN s : i < j => s[i].line <= s[j].line}
          /\ bots' = {a \in Person \cup {Bot} : IsBotAuthor(a)}
       \/ UNCHANGED <<conv, bots>>
    /\ UNCHANGED <<shape, known, posted>>

\* Mutation: of several threads on the line the first is taken.
matchResolutionThread_first(id, line) ==
    LET on == {i \in DOMAIN conv : conv[i].line = line} IN
    IF id \in DOMAIN conv THEN {id}
    ELSE {i \in on : \A j \in on : i <= j}

\* By the id the prompt gave it, else by its line when that is unambiguous.
matchResolutionThread(id, line) ==
    LET on == {i \in DOMAIN conv : conv[i].line = line} IN
    IF id \in DOMAIN conv THEN {id}
    ELSE IF Cardinality(on) = 1 THEN on ELSE {}

\* The newest message of thread i is this very verdict, by an account the run
\* takes for its own.
alreadyAnswered(i, s) ==
    LET newest == posted[Last(conv[i].msgs)] IN
    Len(conv[i].msgs) > 1 /\ newest.author \in bots /\ newest.said = s

\* Into the thread when the provider names it, else a fresh comment.
postResolutionReply(i, s) ==
    Append(posted, IF conv[i].ThreadID > 0 THEN Answering(Bot, s, conv[i].ThreadID)
                   ELSE Opening(Bot, s, conv[i].line))

\* Only Azure DevOps has thread states, and only two verdicts close.
closeResolvedThread(p, i, s) ==
    IF conv[i].ThreadID > 0 /\ shape = "azure" /\ s \in {"resolved", "outdated"}
    THEN [p EXCEPT ![conv[i].ThreadID].state = IF s = "resolved" THEN "fixed" ELSE "closed"]
    ELSE p

\* The AI, asked about thread k, answers s and names the thread, or omits its
\* id.  A reply that fails, though it may have landed, closes nothing.
Resolve(k, id, s, replied) ==
    /\ phase = "answering"
    /\ Room
    /\ id \in {k, 0}
    /\ LET i == matchResolutionThread(id, conv[k].line)
           reply == {IF alreadyAnswered(j, s) THEN posted ELSE postResolutionReply(j, s) : j \in i}
       IN  posted' \in IF i = {} THEN {posted}
                       ELSE IF ~replied THEN {posted} \cup reply
                       ELSE reply \cup {closeResolvedThread(p, j, s) : p \in reply, j \in i}
    /\ UNCHANGED <<shape, known, phase, conv, bots>>

\* The conversation is of no use any more.
Answered ==
    /\ phase = "answering"
    /\ phase' = "posting"
    /\ conv' = <<>> /\ bots' = {}
    /\ UNCHANGED <<shape, known, posted>>

\* A finding: which ones are posted is the business of ReviewRuns.
Post(line) ==
    /\ phase = "posting"
    /\ Room
    /\ posted' = Append(posted, Opening(Bot, "finding", line))
    /\ UNCHANGED <<shape, known, phase, conv, bots>>

postReviewCompleteAnnotation ==
    /\ phase = "posting"
    /\ phase' = "idle"
    /\ posted' \in Announced
    /\ UNCHANGED <<shape, known, conv, bots>>

-----------------------------------------------------------------------------
(* People, at any time.                                                    *)

Remark(p, line) ==
    /\ Room
    /\ posted' = Append(posted, Opening(p, "text", line))
    /\ UNCHANGED <<shape, known, phase, conv, bots>>

\* GitHub has every reply answer the first comment of the thread.
Reply(p, i) ==
    /\ Room
    /\ posted[i].line > 0
    /\ shape = "github" => posted[i].thread = i
    /\ posted' = Append(posted, Answering(p, "text", i))
    /\ UNCHANGED <<shape, known, phase, conv, bots>>

\* A PR-wide comment about the notices, "should we reword `**Code Guru ...**`?",
\* or an answer below one that is quoted, "> **Code Guru ...**".
Mark(p) ==
    /\ Room
    /\ \E said \in {"discussing", "quoting"} :
        /\ said = "quoting" => Quoting /\ \E i \in DOMAIN posted : posted[i].said = "notice"
        /\ posted' = Append(posted, Opening(p, said, 0))
    /\ UNCHANGED <<shape, known, phase, conv, bots>>

-----------------------------------------------------------------------------
Init ==
    /\ shape \in Shapes
    /\ known \in BOOLEAN
    /\ posted = <<>>
    /\ phase = "idle"
    /\ conv = <<>> /\ bots = {}

Run ==
    \/ postReviewingMarker \/ buildConversation \/ Answered \/ postReviewCompleteAnnotation
    \/ \E k \in DOMAIN conv, s \in Status, replied \in BOOLEAN :
          \E id \in {k, 0} : Resolve(k, id, s, replied)
    \/ \E line \in Line : Post(line)

People ==
    \E p \in Person :
        \/ \E line \in Line : Remark(p, line)
        \/ \E i \in DOMAIN posted : Reply(p, i)
        \/ Mark(p)

Next == Run \/ People

Spec == Init /\ [][Next]_vars

-----------------------------------------------------------------------------
(* Properties.                                                             *)

TypeOK ==
    /\ shape \in Shapes /\ known \in BOOLEAN
    /\ Len(posted) <= MaxComments
    /\ \A i \in DOMAIN posted :
        /\ posted[i].author \in Person \cup {Bot} /\ posted[i].said \in Said
        /\ posted[i].line \in Line \cup {0} /\ posted[i].state \in State
        /\ posted[i].thread \in 1..i /\ posted[i].parent \in 0..i - 1
    /\ phase \in {"idle", "reading", "answering", "posting"}
    /\ phase # "answering" => conv = <<>> /\ bots = {}
    /\ \A k \in DOMAIN conv : conv[k].line \in Line /\ Range(conv[k].msgs) \subseteq DOMAIN posted
    /\ bots \subseteq Person \cup {Bot}

\* The comments of the thread that comment t opened, in order.
ThreadOf(t) ==
    LET S == {i \in DOMAIN posted : posted[i].thread = t} IN InOrder(S, [i \in S |-> i])

\* The inline threads the bot opened.
OwnThreads == {t \in DOMAIN posted : posted[t].thread = t /\ posted[t].line > 0 /\ posted[t].author = Bot}

\* The bot can be told from people: by its account, or by a notice it posted.
Recognised == known \/ \E i \in DOMAIN posted : posted[i].author = Bot /\ posted[i].said = "notice"

\* Whatever the provider's way of numbering, and whoever answered what in
\* which order, the code puts together exactly the threads the bot opened,
\* each with all its messages in the order they were made; if it cannot know
\* its own account, nothing.
ConversationIsTrue ==
    {t.msgs : t \in BuildReviewConversation}
        = IF Recognised THEN {ThreadOf(t) : t \in OwnThreads} ELSE {}

\* A verdict is posted in the thread the AI was asked about or, where threads
\* have no name, on its line, and in no other, whatever was said meanwhile and
\* however many threads share the line.  If it names the thread and the reply
\* succeeds, the verdict stands there below all the run had read.
VerdictReachesItsThread ==
    [][\A k \in DOMAIN conv, s \in Status, replied \in BOOLEAN : \A id \in {k, 0} :
        Resolve(k, id, s, replied) =>
            LET root == conv[k].msgs[1]
                own(i) == posted'[i].author = Bot /\
                          IF shape = "flat" THEN posted'[i].line = conv[k].line
                          ELSE posted'[i].thread = root
            IN  /\ Len(posted') > Len(posted) => own(Len(posted'))
                /\ \A i \in DOMAIN posted : posted'[i] # posted[i] => i = root
                /\ replied /\ id = k =>
                      \E i \in DOMAIN posted' :
                         own(i) /\ posted'[i].said = s /\ i >= Last(conv[k].msgs)]_vars

\* The bot neither answers in a thread that a person opened nor closes it.
OnlyOwnThreads ==
    \A i \in DOMAIN posted :
        /\ posted[i].author = Bot => posted[posted[i].thread].author = Bot
        /\ posted[i].state # "active" => posted[i].author = Bot

\* CHANGELOG.md:457: "a human who merely quotes the marker is not mistaken for
\* the bot", so that no review answers or closes a thread of theirs.
QuoterKeepsTheirThreads == OnlyOwnThreads
=============================================================================
