---------------------------- MODULE WebhookIntake ----------------------------
(***************************************************************************)
(* The webhook handlers of `code-guru serve` (webhooks/github.go and       *)
(* webhooks/azuredevops.go), from the request to the end of the job it     *)
(* becomes: which requests ask for a review, which are turned away, and    *)
(* what the dedup record, the queue and the calls to the forge do to the   *)
(* others on the way.                                                      *)
(*                                                                         *)
(* One pod, with the in-memory dedup backend.  The bot's own comments come *)
(* back as requests: a review that fails posts a notice whose text         *)
(* mentions the bot, under the account the deployment uses.  The worker    *)
(* pool's own steps are ServePod's subject; here it is a set of jobs.      *)
(***************************************************************************)
EXTENDS Naturals, FiniteSets

CONSTANTS
    PR,
    Delivery,     \* the requests, the bot's own comments among them
    prOf,         \* the pull request of each
    kindOf,       \* what each asks for
    Notice,       \* the requests that the bot's failure notices cause
    GitHub,       \* the pull requests on GitHub; others are on Azure DevOps
    Allowed,      \* those whose organization and project are allowlisted
    Recognised,   \* those where IsBotAuthor knows the account the bot uses
    QueueSize, Workers,
    Traffic,      \* which sets of requests come in together (bound of the model)
    MaxFaults     \* how many calls to a forge fail (bound of the model)

\* "push": a created or updated pull request; "skinny": the same with
\* nothing but its URL; "closing": one whose payload says that it is closed.
\* Comments: "text" mentions the bot by name, "picked" by the identity that
\* the comment box filled in, "named" does so with somebody else, "chat"
\* mentions nobody.  "other": an event or action no handler acts on.
\* "forged": a source address or a credential that does not check out.
Lifecycle == {"push", "skinny"}
Identity  == {"picked", "named"}
Kind      == Lifecycle \cup Identity \cup {"closing", "text", "chat", "other", "forged"}

ASSUME IntakeAssumption ==
    /\ prOf \in [Delivery -> PR]
    /\ kindOf \in [Delivery -> Kind]
    /\ Notice \subseteq {d \in Delivery : kindOf[d] = "text"}
    /\ GitHub \subseteq PR /\ Allowed \subseteq PR /\ Recognised \subseteq PR
    /\ \A d \in Delivery :
        kindOf[d] \in Identity \cup {"skinny", "closing"} => prOf[d] \notin GitHub
    /\ QueueSize \in Nat \ {0} /\ Workers \in Nat \ {0}
    /\ Traffic \subseteq SUBSET (Delivery \ Notice)
    /\ MaxFaults \in Nat

VARIABLES
    pc,      \* where each request is
    record,  \* the dedup keys with a record
    closed,  \* the pull requests that were completed or abandoned
    self,    \* those whose organization's answer to "who am I" is cached
    token,   \* those whose installation token is cached
    faults   \* calls to a forge that failed

vars == <<pc, record, closed, self, token, faults>>
caches == <<self, token>>

Accepted == {"queued", "running", "reviewed"}
InFlight == {"submit", "rolling"} \cup Accepted
Ended    == {"rejected", "ignored", "forbidden", "duplicate", "done"}
Stage    == {"absent", "sent", "identity", "hydrate", "token", "dedup", "failed"}
                \cup InFlight \cup Ended

At(S) == {d \in Delivery : pc[d] \in S}
Goto(d, s) == pc' = [pc EXCEPT ![d] = s]

Genuine(d) == kindOf[d] # "forged"
IsPush(d)  == kindOf[d] \in Lifecycle

\* The text names the bot, as `@code-guru` or by a configured identity.
HasMention(d) == kindOf[d] = "text"

\* Mutation: the accounts that the bot uses are not looked at.
IsBotAuthor_never(d) == FALSE

\* Whether the author is a configured identity or has the shape of one of
\* the bot's own names: false for an account that nobody configured.
IsBotAuthor(d) == d \in Notice /\ prOf[d] \in Recognised

\* Mutation: a mention goes under the key of the pushes.
dedupKey_shared(d) == <<"push", prOf[d]>>

dedupKey(d) == <<IF IsPush(d) THEN "push" ELSE "mention", prOf[d]>>

\* Mentions on Azure DevOps take no dedup record.
Deduped(d) == IsPush(d) \/ prOf[d] \in GitHub

\* allowedOrganization and allowedProject: 403, or on to s.
IfAllowed(d, s) == Goto(d, IF prOf[d] \in Allowed THEN s ELSE "forbidden")

\* The tail the comment handlers share: the bot does not answer itself.
IfPerson(d, s) == IF IsBotAuthor(d) THEN Goto(d, "ignored") ELSE IfAllowed(d, s)

-----------------------------------------------------------------------------
(* The handlers.  What they do between two calls is one step.              *)

\* The source address, the signature or the credentials: 400, 401 or 403.
Reject(d) ==
    /\ pc[d] = "sent"
    /\ ~Genuine(d)
    /\ Goto(d, "rejected")
    /\ UNCHANGED <<record, closed, caches, faults>>

\* A cached token serves, else one is asked for.
WithToken(d) == IF prOf[d] \in token THEN "dedup" ELSE "token"

HandleGitHub(d) ==
    /\ pc[d] = "sent"
    /\ prOf[d] \in GitHub
    /\ \/ IsPush(d) /\ IfAllowed(d, WithToken(d))
       \/ kindOf[d] = "other" /\ Goto(d, "ignored")
    /\ UNCHANGED <<record, closed, caches, faults>>

\* An issue comment or one inside a review thread: submitGitHubMention.
handleGitHubComment(d) ==
    /\ pc[d] = "sent"
    /\ prOf[d] \in GitHub
    /\ \/ HasMention(d) /\ IfPerson(d, WithToken(d))
       \/ kindOf[d] = "chat" /\ Goto(d, "ignored")
    /\ UNCHANGED <<record, closed, caches, faults>>

HandleAzureDevOps(d) ==
    /\ pc[d] = "sent"
    /\ prOf[d] \notin GitHub
    /\ \/ kindOf[d] = "push" /\ IfAllowed(d, "dedup")
       \/ kindOf[d] = "skinny" /\ Goto(d, "hydrate")
       \/ kindOf[d] \in {"closing", "other"} /\ Goto(d, "ignored")
    /\ UNCHANGED <<record, closed, caches, faults>>

\* Whether the identity in the comment is the bot's own.
Compare(d) ==
    IF kindOf[d] = "picked" /\ prOf[d] \in Allowed
    THEN IfPerson(d, "submit")
    ELSE Goto(d, "ignored")

\* An organization off the allowlist is never asked who the bot is there, so
\* that nothing compares equal.
handleADOComment(d) ==
    /\ pc[d] = "sent"
    /\ prOf[d] \notin GitHub
    /\ \/ HasMention(d) /\ IfPerson(d, "submit")
       \/ kindOf[d] = "chat" /\ Goto(d, "ignored")
       \/ /\ kindOf[d] \in Identity
          /\ IF prOf[d] \in Allowed \ self THEN Goto(d, "identity") ELSE Compare(d)
    /\ UNCHANGED <<record, closed, caches, faults>>

\* A call to the forge times out, is refused or answers with nonsense.
CallFails == faults < MaxFaults /\ faults' = faults + 1

\* fetchSelfID: cached once it has succeeded.  A failed lookup is an answer
\* too, that nobody was mentioned (204), even when another has succeeded.
ResolveSelfID(d) ==
    /\ pc[d] = "identity"
    /\ \/ /\ self' = self \cup {prOf[d]}
          /\ Compare(d)
          /\ UNCHANGED faults
       \/ /\ CallFails
          /\ Goto(d, "ignored")
          /\ UNCHANGED self
    /\ UNCHANGED <<record, closed, token>>

\* The payload said nothing of the status, the forge does.
Hydrate(d) ==
    /\ pc[d] = "hydrate"
    /\ \/ prOf[d] \in closed /\ Goto(d, "ignored") /\ UNCHANGED faults
       \/ prOf[d] \notin closed /\ IfAllowed(d, "dedup") /\ UNCHANGED faults
       \/ CallFails /\ Goto(d, "failed")
    /\ UNCHANGED <<record, closed, caches>>

InstallationToken(d) ==
    /\ pc[d] = "token"
    /\ \/ token' = token \cup {prOf[d]} /\ Goto(d, "dedup") /\ UNCHANGED faults
       \/ /\ CallFails
          /\ Goto(d, "failed")
          /\ UNCHANGED token
    /\ UNCHANGED <<record, closed, self>>

\* 200 "duplicate", or the record is made.
dedupSeen(d) ==
    /\ pc[d] = "dedup"
    /\ IF dedupKey(d) \in record
       THEN Goto(d, "duplicate") /\ UNCHANGED record
       ELSE Goto(d, "submit") /\ record' = record \cup {dedupKey(d)}
    /\ UNCHANGED <<closed, caches, faults>>

\* Mutation: Submit waits for no room.
Submit_unbounded(d) ==
    /\ pc[d] = "submit"
    /\ Goto(d, "queued")
    /\ UNCHANGED <<record, closed, caches, faults>>

Submit(d) ==
    /\ pc[d] = "submit"
    /\ Goto(d, IF Cardinality(At({"queued"})) < QueueSize THEN "queued" ELSE "rolling")
    /\ UNCHANGED <<record, closed, caches, faults>>

\* What Forget leaves: it does not ask whose record it deletes.
Forgotten(d) == IF Deduped(d) THEN record \ {dedupKey(d)} ELSE record

\* Mutation: 503 leaves the record.
RollBack_keep(d) ==
    /\ pc[d] = "rolling"
    /\ Goto(d, "failed")
    /\ UNCHANGED <<record, closed, caches, faults>>

\* dedupForget, then 503.
RollBack(d) ==
    /\ pc[d] = "rolling"
    /\ record' = Forgotten(d)
    /\ Goto(d, "failed")
    /\ UNCHANGED <<closed, caches, faults>>

-----------------------------------------------------------------------------
(* The job, the clocks and the forge.                                      *)

Start(d) ==
    /\ pc[d] = "queued"
    /\ Cardinality(At({"running", "reviewed"})) < Workers
    /\ Goto(d, "running")
    /\ UNCHANGED <<record, closed, caches, faults>>

\* HandlePR returns.  When the review failed its notice is a comment, of
\* which the forge sends word while the job still holds its record.
HandlePR(d) ==
    /\ pc[d] = "running"
    /\ \/ Goto(d, "reviewed")
       \/ \E n \in Notice :
            /\ pc[n] = "absent"
            /\ prOf[n] = prOf[d]
            /\ pc' = [pc EXCEPT ![d] = "reviewed", ![n] = "sent"]
    /\ UNCHANGED <<record, closed, caches, faults>>

ReleaseDedup(d) ==
    /\ pc[d] = "reviewed"
    /\ record' = Forgotten(d)
    /\ Goto(d, "done")
    /\ UNCHANGED <<closed, caches, faults>>

\* The record's TTL is over, whatever has become of its job: the next call
\* of seenRecently prunes it.
Lapse(k) ==
    /\ k \in record
    /\ record' = record \ {k}
    /\ UNCHANGED <<pc, closed, caches, faults>>

\* An installation token comes within its safety margin.
TokenExpires(p) ==
    /\ p \in token
    /\ token' = token \ {p}
    /\ UNCHANGED <<pc, record, closed, self, faults>>

\* The status matters, and closes, while a skinny request is to be hydrated.
Close(p) ==
    /\ p \notin closed
    /\ \E d \in At({"sent", "hydrate"}) : kindOf[d] = "skinny" /\ prOf[d] = p
    /\ closed' = closed \cup {p}
    /\ UNCHANGED <<pc, record, caches, faults>>

\* The forge sends a request again that was answered 500, 502 or 503.
Redeliver(d) ==
    /\ pc[d] = "failed"
    /\ Goto(d, "sent")
    /\ UNCHANGED <<record, closed, caches, faults>>

-----------------------------------------------------------------------------
Init ==
    /\ \E D \in Traffic :
        pc = [d \in Delivery |-> IF d \in D THEN "sent" ELSE "absent"]
    /\ record = {}
    /\ closed = {}
    /\ self = {}
    /\ token = {}
    /\ faults = 0

Handler(d) ==
    \/ HandleGitHub(d) \/ handleGitHubComment(d)
    \/ HandleAzureDevOps(d) \/ handleADOComment(d)
    \/ ResolveSelfID(d) \/ Hydrate(d) \/ InstallationToken(d)
    \/ dedupSeen(d) \/ Submit(d) \/ RollBack(d)
Job(d) == Start(d) \/ HandlePR(d) \/ ReleaseDedup(d)

Next ==
    \/ \E d \in Delivery : Reject(d) \/ Handler(d) \/ Job(d) \/ Redeliver(d)
    \/ \E k \in record : Lapse(k)
    \/ \E p \in PR : TokenExpires(p) \/ Close(p)

Spec == Init /\ [][Next]_vars

\* Handlers and workers go on, reviews return, and the forge sends again what
\* was answered with an error.  A request is in one of these stages at a time.
Fairness == \A d \in Delivery : WF_vars(Handler(d) \/ Job(d) \/ Redeliver(d))

FairSpec == Spec /\ Fairness

-----------------------------------------------------------------------------
(* Properties.                                                             *)

\* Types, and the two limits of the worker pool (worker.go).
TypeOK ==
    /\ pc \in [Delivery -> Stage]
    /\ record \subseteq {"push", "mention"} \X PR
    /\ closed \subseteq PR /\ self \subseteq PR /\ token \subseteq PR
    /\ faults \in 0..MaxFaults
    /\ Cardinality(At({"queued"})) <= QueueSize
    /\ Cardinality(At({"running", "reviewed"})) <= Workers

\* A comment of the bot's own, where its account is known, comes to nothing:
\* no job, no record that a person's mention would run into, no call
\* (azuredevops.go:437-457, github.go:375-386).
OwnNoticeIsInert ==
    [][\A n \in Notice :
        prOf[n] \in Recognised /\ pc[n] # pc'[n] =>
            \/ pc[n] = "absent"
            \/ pc'[n] \in Ended \ {"done"} /\ UNCHANGED <<record, caches, faults>>]_vars

\* A person who mentions the bot on an allowlisted pull request.
Asks(d) == kindOf[d] \in {"text", "picked"} /\ d \notin Notice /\ prOf[d] \in Allowed

\* Another mention of the pull request is on its way or under review.
Covered(d) ==
    \E e \in Delivery \ {d} :
        ~IsPush(e) /\ ~IsBotAuthor(e) /\ prOf[e] = prOf[d] /\ pc[e] \in InFlight

\* A mention is turned down only as the duplicate of another mention on
\* GitHub that is still in flight, never because of a push or of the bot's
\* own notice, and it is overlooked only when the bot was picked by its
\* identity and the lookup that this very comment made has failed.
MentionIsHeard ==
    [][\A d \in Delivery : Asks(d) /\ pc[d] # pc'[d] /\ pc'[d] \in Ended \ {"done"} =>
        \/ pc'[d] = "duplicate" /\ prOf[d] \in GitHub /\ Covered(d)
        \/ pc'[d] = "ignored" /\ pc[d] = "identity" /\ faults' > faults]_vars

\* A push to an allowlisted pull request that stays open leads to a review:
\* a full queue, a failed call or a duplicate in a bad moment delay it only.
PushIsReviewed ==
    \A d \in {e \in Delivery : IsPush(e) /\ prOf[e] \in Allowed} :
        pc[d] = "sent" ~>
            \/ prOf[d] \in closed
            \/ \E e \in Delivery : IsPush(e) /\ prOf[e] = prOf[d] /\ pc[e] = "done"
=============================================================================
