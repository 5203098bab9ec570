# Verification of code-guru

code-guru is a bot that reviews pull requests with an AI. A webhook server takes
deliveries from GitHub and Azure DevOps, keeps one review per pull request going,
runs it in-process or in a Kubernetes Job, and posts findings, verdicts on its
earlier threads and notices on the pull request. This directory holds TLA+ models
of the parts of it that are concurrent, that can fail half-way, or that meet their
own past on the pull request, TLC configurations that check them, and proofs.

To check a run of `PROJECT.json`: `tlc -workers 2 -config <cfg> <module>`. To check
the proofs: `tlapm` on `DedupLeaseProof`, `ServePodProof`, `ReviewJobsProof`,
`ReviewRunsProof`, `BatchReviewProof`, `AIReviewProof`, `ConversationProof` and
`WebhookIntakeProof`. `PROJECT.json` also maps every definition
to the lines it stands for and lists, for every property, a mutated definition
(`..._keep`, `..._never` and the like in the modules) that breaks it.

## 1. The system

### Components, their state and their operations

| component | code (`src/internal/...`) | state | operations |
|---|---|---|---|
| webhook intake | `webhooks/github.go`, `azuredevops.go`, `auth.go`, `source_ip.go` | none | which request is which job, under which key, and what it is answered |
| hydration, identity, tokens | `webhooks/azuredevops_hydrator.go`, `azuredevops_identity.go`, `installation_token_exchange.go` | caches with an expiry | look up, refresh |
| in-memory dedup | `webhooks/dedup_cache.go` | a map from key to expiry, under a mutex | SeenRecently, Forget, sweep |
| cross-pod dedup | `webhooks/dedup_lease.go`, `dedup_lease_client.go` | one Lease per pull request: uid, resourceVersion, renewTime | SeenRecently (Create, Get, Delete by uid, Create), Renew (Get, Update), Forget (Delete by name) |
| serve process | `webhooks/dispatcher.go`, `worker.go`, `controllers/serve_controller.go` | the keys in flight, the pool's channel and `closed` flag, the shutdown sequence | handle a delivery, Submit, run a job, Shutdown, ReleaseAllInFlight |
| Job executor | `webhooks/review_job_launcher.go`, `review_job_scheduler.go`, `review_job_locks.go`, `review_job_client.go` | Jobs (suspended, running, complete, failed; annotations), a scheduler Lease, an enqueue Lease per pull request | Enqueue, Reconcile (list, plan, start), report failures, take and release locks |
| pod of a Job | `controllers/review_controller.go` | whether its notice is up | gates, notice, review, exit code |
| review command | `domain/commands/review_command.go` | none of its own: the comments and threads of the pull request | triage, review, applyThreadResolutions, postComments, the notices, the native vote |
| re-review conversation | `support/conversation.go`, `support/review_marker.go` | none: read from the comments | who is the bot, BuildReviewConversation, matchResolutionThread |
| detectors | `repositories/trivial` | none | Detect, over a configured order of adapters |
| checkouts | `repositories/workspace/git_workspace_repository.go` | a directory; refs of a shallow clone | Prepare (refuse, fetch, deepen, merge-base, changed files), Release |
| batches | `domain/commands/review_batches.go`, `support/context_window.go`, `support/diff_splitter.go` | the queue of files, the merged result | run, takeBatch, shrink, absorb |
| AI backends | `repositories/claude`, `anthropic`, `openai` | a child process and the descriptors it reads its credentials from | ReviewDiff |
| answers | `support/response_parser.go`, `agentic_prompt_builder.go`, `agentic_review.go`, `verdict_mapper.go` | none | parse, drop what is below the bar, relax the verdict, map it to a vote |
| retrying reviewer | `repositories/retrying_ai_reviewer.go` | the attempt | what is tried again |
| rules, metadata, prompts, settings, command line | the rest | none, or files | reads and text |

### How they meet

    webhook -> intake -> dedup (Lease or map) -> pool -> [triage -> Enqueue -> Job ->] review command -> provider
       ^                     ^     renewal loop, ReleaseDedup    |                        |  comments, threads
       |                     +------------- shutdown ------------+                        +-- read by the next run
       +------------ the bot's own comments come back as webhooks ------------------------+

    review command -> checkout -> attempts (agent or model) -> [slices] -> outcome
                         ^               ^                         ^
                the branches move     deadlines            one context, cancelled by the drain

* Two pods share only the API server: the Lease keeps one pull request's reviews
  apart, every call to it can fail or lose its answer, and the pod can die.
* In a pod, handlers, workers, a renewal goroutine per job and the shutdown share
  the in-flight set and the pool; none of them holds a lock across the others' steps.
* Replicas of the Kubernetes executor share Jobs and Leases. A pass reads a list
  and writes later; optimistic concurrency covers single Jobs, not the cap.
* Runs of the review command share only the pull request: what a run knows of an
  earlier one is what that one managed to post, and it reads it minutes before it acts on it.
* Inside a run everything is one goroutine, but the repository it clones, the
  agent it starts and the context it was given change while it works.

### What is hard, and what makes each part correct

* Intake: a mention must not be taken for a duplicate of a push, nor the bot's
  notice for a mention; a request that meets a full queue or a failed call must
  leave nothing that stops the next one.
* Dedup: two reviews of a pull request at once, a Lease nobody deletes, a delivery
  lost behind a dead pod's Lease. Correct if at most one delivery is past the gate,
  a Lease always has somebody to end it, and a crash does not block for ever.
* Serve process: jobs lost or leaked between refusal, panic, drain and the kill.
  Correct if each accepted job is handled, each record has a job, and a drained pod leaves nothing.
* Job executor: the cap and "one review per pull request" across replicas that
  die, plan from old lists and retry. Correct if it is a set of slots (`ReviewSlots`),
  creates no duplicates, starts in order, and tells each outcome once.
* Review command, over runs: repeated findings, repeated or silent verdicts, runs
  that die half-way. Correct if reviews are once, findings and verdicts do not
  repeat, and what one run left half done the next finishes.
* Conversation: forges number comments differently, threads share lines, and the
  bot's account is known only from what it posted. Correct if the code puts together
  exactly the bot's threads and a verdict lands in the one that was meant.
* Detectors: several adapters in a configured order, a configuration file whose read
  may fail. Correct if nothing outside an enabled adapter's class is settled unread.
* Answers and vote: the model's verdict, its findings and the bar must agree, or a
  vote blocks a pull request over nothing that is posted.
* Checkout: it must be the pull request's own code although the branches move, the
  clone is shallow and a fork's branch may have a namesake. Whatever fails, no
  directory, credential descriptor or agent may stay behind.
* Attempts: a second one is only worth its price if the error may go away; a run
  ends however the errors combine.
* Batches: every file is reviewed or reported, the merged verdict approves nothing
  that was not read, and the answers about threads, numbered anew in every prompt,
  reach the threads that were meant.

`PROJECT.json` lists each hazard at its line with the properties that guard it.

## 2. The modules

| module | models | variables and actions |
|---|---|---|
| `PullRequestSlot` | abstract: at most one delivery active per pull request, a slot it leaves | `active`, `slot`; Admit, End, Free |
| `DedupLease` | the Lease protocol for one key | one action per API call (`Create`, `Get`, `TakeOver`, `CreateAgain`, `RenewGet`, `RenewUpdate`, `Forget`), the job around it (`Submit`, `Start`, `Finish`), `Crash`, `Tick`; `faulty`: whose calls may fail |
| `ServePod` | one pod: handlers, pool, in-flight set, shutdown | `lease` is the dedup record of each key (Lease or map), `phase` the shutdown; one action per critical section or call (a refused `Submit`, `untrackInFlight` and `RollBack` are three) |
| `ReviewSlots` | abstract: the slots of the executor | `waiting`, `running`; Queue, Start, End |
| `ReviewJobs` | the Kubernetes executor, replicas, locks, and the pods of the Jobs | `job`, `order` (the enqueuedAt stamps), `enqLock`, `lock`, `pass` (what a replica read and decided), `flying` (starts whose caller no longer waits), `reports`, `claim`, `posts`, `pod`, `open`; one action per API call (a report is `Check`, then `Report`), `Land` for a late start, `StartReview`, `FinishReview` and `Die` for a pod, `Close` for the author |
| `TrivialDetectors` | operators: the adapters, `.autobump.yaml`, the registry | `Detect` (the first enabled adapter with an opinion), `InClass`, `Incomplete` |
| `ReviewRuns` | the review command over many runs of one pull request | `thread`, `outcome`, `marker`: what is on the pull request; `read`, `ruling`, `seen`, `answers`, `todo`, `closing`, `keep`: what a run holds in memory; `blind`: what some run did without seeing another's posts (history); one action per provider call, and the author's `Edit`, `Answer`, `Close` |
| `Conversation` | how a re-review reads the threads and how verdicts get back to them | `posted`: the comments as they were made; `shape`: how the provider lists them; `known`: whether the bot's account is configured; `conv`, `bots`: what the run put together; `buildConversation`, `Resolve`, `Post`, the notices, and people's `Remark`, `Reply`, `Mark` |
| `WebhookIntake` | the handlers of both forges, from the request to the end of its job | `pc` of each request, `record` (dedup), `self` and `token` (caches); one action per stretch between two calls, and `Lapse`, `TokenExpires`, `Close`, `Redeliver` |
| `RunContext` | Go's `ctx` of a run | `cancelled`, shared by the next two |
| `BatchReview` | the slices of a pull request that is too large for one prompt | `next`, `end`, `budget`, the counters, the merged review; `Ask`, `absorb`, `Shrink`, `recordFailure`, `Abandon`, `Finish` |
| `CheckoutLimits`, `CheckoutReview` | one run from its marker to its outcome | `tip`, `head`: the branches; `at`, `headRef`, `low`, `base`, `changed`: the clone; `attempt`, `late`, `sockets`, `cli`, `reply`, `failure`: the attempts; `handOverCredentials` opens one descriptor per step |
| `AgentAnswer` | operators: from a model's answer to findings, verdict and vote | `ParseReviewResponse`, `ParseAgenticReviewResponse`, `ApplyConfidenceThreshold`, `MapVerdictToReview` |
| `AIReview` | the composition of the last four | `Single` (a step of `CheckoutReview`), `Sliced` (one of `BatchReview`), `Merge` (its result is handed back); `answer`, `report`, `vote` |
| `DedupLeaseProof`, `ServePodProof`, `ReviewJobsProof`, `ReviewRunsProof`, `BatchReviewProof`, `AIReviewProof` (with the theorems about `CheckoutReview`), `ConversationProof`, `WebhookIntakeProof` | theorems | |

The `MC...` modules only choose constants. `DedupLease` is shown and proved to
implement `PullRequestSlot`, and `ReviewJobs` `ReviewSlots`, both with an
`INSTANCE ... WITH` and the abstract `Spec` as a property; `AIReview` is proved to
implement both its parts. `ServePod` and `WebhookIntake` see the dedup record as
a set or a map: what happens between pods is `DedupLease`'s, what the pool does
is `ServePod`'s, what a request is is `WebhookIntake`'s. `ReviewRuns` takes from
the modules below it only which runs are kept apart: the `key` of a world. One key
for all is a Lease; a key of the server's triage beside that of the Jobs is the
Kubernetes executor; keys of their own are the in-process keys of pushes and
mentions, and a record that lapsed. What `ReviewRuns` has as one step between
`reviewing` and the AI's answer is `AIReview`. That it reads the messages of each
thread as they stand is `Conversation`'s `ConversationIsTrue`; `Conversation` in
turn leaves to `ReviewRuns` which findings are posted, and lets the AI give
several verdicts on one thread.

Abstractions worth knowing:

* Time is a count of ticks no shorter than `leaseAPITimeout`; a Lease's age stops
  at its duration. Clocks of pods agree (the code compares a server-written time with its own clock).
* An object's uid is the delivery that made it; its resourceVersion is its state.
  A request sent before a crash or a cancellation may land after it.
* The AI answers anything: any comments on the files it was given, at most one
  verdict for each thread it was shown, numbers it made up, or an error of any kind.
* In `ReviewRuns` an answer does not repeat itself: its comments are a set, its
  verdicts a function of the thread. The code takes lists and does not compare one
  with itself: a finding the model names twice is posted twice
  (`review_command.go:1891-1917`), a thread it names twice gets both replies
  (`:2129-2166`). `TwinsOnlyFromOverlap` and `NoRepeatedVerdict` speak of repetition
  across runs. (`Conversation` has answers with several verdicts on one thread.)
* What an agent answers cannot depend on branches that moved under it or on the
  attempt it is, as far as the code after it goes: all `Answers` are looked at where
  `AIReview!Plain` holds, one of them elsewhere. The findings of a reviewer of the
  diff have no score, are not filtered and are not varied. Slices keep their own verdicts.
* Comments are those inline on a line; threads are those of Azure DevOps (GitHub
  ignores the state). A comment is identified with its line and the text prefix the code compares.
* Azure DevOps mentions carry no dedup key, so they are not deliveries of
  `ServePod`; they are requests of `WebhookIntake` and runs of `ReviewRuns`.
* `WebhookIntake!Allowed` stands for the organization's and the project's
  allowlist together. Off-list requests differ in one point: an allowlisted
  organization with an off-list project is still asked for the bot's identity.
* In `CheckoutReview` a commit is the set of paths it changes, the target branch a
  line of commits and a version of the pull request one commit on a fork point,
  or on an unrelated history. Only what git does with ancestry is kept.
* A prompt that is too long for a process's arguments is a refusal there, as is a
  filtered or declined answer; errors of the handoff and the sandbox are plain
  errors and are tried again. A call to git returns: the code gives it no
  deadline. Children that a killed agent leaves are not modelled.
* Branches move (`Push`, `Advance`) only while the run still reads them, and each
  kind of reviewer starts from one value of what it never reads (`AIReview!Unread`).

## 3. The runs

Every run explores its instance completely. A "violation" run checks one sentence
of a document or a comment that the code does not keep; `PROJECT.json` quotes it.

| run | shows | bounds, and why they are enough |
|---|---|---|
| `DedupLease_slot` | one review at a time and the protocol is the slot, while the deciding calls succeed; no orphan Lease and a dead holder's Lease lapses, whatever fails | 3 deliveries (a holder, a taker and a third between them), one of which has failing and answerless calls in half of the instances; crashes; duration 6 ticks, interval 2, one missed renewal, one tick in the queue: inside `Timing` (section 4) |
| `DedupLease_takeover` | violation: a takeover removes a renewed Lease | 2 deliveries; the code's proportion of duration to interval (2) |
| `ServePod_pod` | records have a job, the drain is clean, the shutdown ends, accepted jobs are handled | 3 deliveries for 2 keys, 2 workers, queue of 1: a full queue, a duplicate and two keys at once all happen |
| `ServePod_orphan` | violation: a record left behind by the drain | 2 deliveries, 1 key |
| `ReviewJobs_same` | the executor is the slots; outcomes told once; no duplicates; mentions read the newest; order | 2 replicas, a push and two mentions of one pull request, room for 2 so that only the rule keeps them apart; without trouble, and with failing calls, unlocked enqueues and a crash (then without the third request); the push's pod may die; replicas are symmetric |
| `ReviewJobs_progress` | every Job ends; nobody is left waiting for an outcome | 2 pull requests, 1 slot, 2 replicas of which one may die, a pod that may die, a pull request that may close; the first request comes in at one of the replicas, which are alike |
| `ReviewRuns_all` | a pull request is reviewed once; no finding twice; verdicts do not repeat and close what they settle; what is settled unread is an adapter's | twelve worlds: `Serial` (4 pushes, one of them a draft's and one the server's triage, a mention, a death, a changing head, a merge), `FailingCalls` (a push and 2 mentions; those of the first two fail with and without effect; replies), `Beside` (the same three at once), `Lapsed` (two pushes at once, one mortal), and 8 of `Detecting` (4 orders of adapters, with and without `.autobump.yaml`, every set of 8 paths, reads that fail) |
| `ReviewRuns_retry` | violation: a push after a failure is skipped | 2 pushes |
| `Conversation_threads` | the conversation is the truth; verdicts reach their thread; other people's threads are left alone | 5 comments by the bot and one person (a thread, a reply, a verdict, a further thread, a notice), 2 lines, the three ways of listing, a known and an unknown bot |
| `Conversation_quote` | violation: a person who quotes a notice is taken for the bot | 4 comments |
| `AIReview_run` | a whole review: accounting, vote, threads, own changes, nothing left, no futile attempt, end | 5 files of which one outweighs the others, 3 threads (a file that left, a light one, a later one), up to 4 slices and 1 shrink beyond; a clone of depth 1, 1 deepening before the full fetch, a target of up to 3 commits, 2 versions; 2 attempts, 2 credentials; answers of 4 verdicts with up to 2 findings out of the 6 kinds that are told apart |
| `WebhookIntake_requests` | the bot does not answer itself; no mention is swallowed; every push is reviewed | 16 requests of all kinds for a pull request on each forge and one off the allowlist, arriving alone, in pairs and in the triples that compete; queue of 1, 1 worker, 1 failing call |

Named bounds. Of the world: `MaxMissed` renewals in a row, `MaxWait` ticks in the
queue, `Faults` (whose calls fail), `MaxCrashes`, `MaxFaults`, `MaxTip`, `Versions`,
`MaxComments`, the fields `edits`, `replies`, `flaky` and `mortal` of a world of
`ReviewRuns`, and the sets `Mortal` (what may die), `Closable` (what may close, and
only while a Job of it runs), `entry` (where requests come in), `Trouble` (with and
without failures), `Calm` (requests left out in trouble), `Traffic` (what arrives
together) and `Answers`. Smaller than the code's own: `MaxBatches`, `MaxShrinks`,
`CloneDepth`, `MaxRounds`, `Attempts`, `QueueSize`, `Workers`, `MaxConcurrent`; the
loops they bound have the same exits at any size, and the proofs do not depend on
them. Deadlock is not checked where a system may stop: all jobs done, a pod that
exited, all runs over.

### Fairness

* `DedupLease!FairSpec`: time passes, a handler that has begun goes on, a job's
  review ends and renewals happen. Not: that deliveries arrive or pods die. The
  code bounds each call by `leaseAPITimeout` and each review by its context.
* `ServePod!FairSpec`: handlers, workers, the drain's clock and the shutdown take
  their steps, but reviews need not return: `ShutdownEnds` holds all the same, since
  the drain has a budget. `AcceptedIsHandled` has `ReviewsEnd` as its antecedent.
* `ReviewJobs!FairSpec`: threads go on, each poll loop ticks and finds the lock
  free again and again (strong fairness: two pollers may alternate), Jobs end
  (`activeDeadlineSeconds`), a dead holder's Lease lapses. Not: that a pull request
  closes or a pod dies.
* `WebhookIntake!FairSpec`: handlers and workers go on, reviews return, and the
  forge delivers again what was answered with an error, as
  `src/internal/infrastructure/controllers/webhooks/github_test.go:286` has it.
* `AIReview!FairSpec`: the program goes on (`Program`); nothing is assumed of the
  world, and a running agent is ended by its deadline if by nothing else.

## 4. The proofs

The prover shows these for every value of the constants that the `ASSUME`s of the
modules allow. Each rests on an inductive invariant, one lemma per group of actions.

`DedupLeaseProof`:

* `TypeCorrect` and `NoOrphan`, faults included. `NoOrphanLease` is inductive with
  the types and with what a pending renewal knows of its own Lease.
* `Exclusion` (`OneReviewAtATime`) and `Refinement` (`Spec => Implements`), both
  under `Timing == MaxWait + Interval * (MaxMissed + 1) < Duration`, and both about
  the instances in which no delivery is `faulty`. The code's own numbers, 60 s and
  30 s, leave no room for a missed renewal.

  `OneReviewAtATime` is not inductive: nothing in it says why a takeover cannot
  remove the Lease of a job at work. `IInv` adds that a delivery that is still asking
  has no renewal pending and no time counted (`AskingIsBlank`), that a pending renewal
  holds its own Lease (`CopyIsOwn`), that a delivery past the gate is the uid of the
  Lease (`HolderOwns`), that its age is at most what the renewals it missed account
  for (`HolderInTime`, where `Timing` enters), that a takeover's target is over
  (`TargetIsOver`) and that a Lease was made by one that asked (`MakerAsked`).
  `Refinement` maps each action to a step of the slot or a stutter.

`ServePodProof`, for any pods' size: `TypeCorrect`, `NoStrayRecord` (`RecordHasJob`),
`ShutdownKnows` (`InFlightKnown`) and `DrainIsClean` (`CleanDrain`). The invariant adds
to the types that the queue holds just the queued jobs (`QueueTrue`) and the workers
just those at work (`WorkersTrue`), what the order of the shutdown allows within its
budget (`InTime`), and who owns a record: while none has lapsed, whoever is past the
gate has it and its key is tracked (`Owned`); whatever happens, a record belongs to a
delivery that is past the gate (`RecordHeld`).

`ReviewJobsProof`, for any number of requests, replicas and slots:

* `Types`; `Newest`, `OneJobEach`, `InLine` and `Once` (`MentionReadsNewest`,
  `NoDuplicateJobs`, `StartsInOrder`, `ToldOnce`); `Refinement`: the executor is the
  slots, crashes and failing calls included.
* `IInv` says that whoever plans a pass holds the scheduler lock (`OnePass`) for the
  thread that waits for it (`Within`), that its plan stays on the safe side of the
  Jobs that run or may yet start, because a start of theirs is on its way (`Taken`;
  `PlanHolds`, a count over finite sets: the cap), that Jobs are new
  (`Fresh`), that what had started stays started (`Seen`) and that stamps are unique
  (`Stamped`); and, while every enqueue had its lock, that the lock is true, a Job
  about to be created duplicates none and is the youngest, and what a pass left out
  of its plan is younger than what it may start (`Ordered`). `Once` needs what the
  claim on a failed Job excludes (`Quiet`).

`ReviewRunsProof`, for every world:

* `OnceReviewed` (`ReviewedOnce`) and `Settlement` (`SettledByItsClass`), from `IInv`:
  of the runs of a key one is at work (`Apart`), who has told an outcome is through
  (`Told`), a push past its gate is the first to tell one (`First`), and a verdict in
  hand is one that some adapter's class justifies (`Ruled`).
* `NoTwins` (`TwinsOnlyFromOverlap`) and `NoRepeats` (`NoRepeatedVerdict`), from `PInv`:
  a thread begins with its finding (`Begun`), a run's verdicts are on threads it read
  (`Knows`), and unless runs overlapped one at a time has verdicts to give, on threads
  nobody but a person has touched since (`ReadsAlone`), and one posts, none of whose
  comments is there yet (`PostsAlone`).
* `Settled` (`SettledIsClosed`), from `SInv`: every verdict of a run is still to be
  replied, about to be closed, or through, and one that is through and closes its
  thread has closed it if no call of that run can fail. That other runs, authors and
  reviewers do not open it again is a lemma about all steps (`StaysClosed`).
* `Types`, from `TInv`: that a finding's copies stay within the number of runs needs
  that the copies there and the runs that may still post it are together never more
  than the runs (`Bounded`, a count over a finite set of runs).

`BatchReviewProof`, for any number of files and threads, any weights and budgets:

* `TypeCorrect`; `Accounting`, `Approval`, `Blocking` (the merged review);
  `Resolution` and `NoQuestionTwice` (the threads); `NoResend` (progress).
* The invariants behind them: the consumed prefix is what was read or reported
  (`Consumed`), the slice in flight starts after it (`SliceIsNext`), the verdict is
  the most severe one said (`VerdictCovers`), a thread has been asked once its file
  was read (`AskedSoFar`), and a budget after a shrink is below what overflowed
  (`TooMuch`). The renumbering of threads is a lemma about counting (`PromptIDs`,
  `RemapIsExact`); progress needs that half of a slice weighs less (`HalfIsLess`)
  and that the first budget is below the whole (`FirstBudget`).

`AIReviewProof`, first of the checkout and the attempts (`CheckoutReview`), for any
branches, clone depth, attempts and credentials:

* `RunInductive`: `RunInv` is the types, what the run holds at each step (`Held`:
  directory, descriptors, agent), what the clone has found (`Found`) and how the
  last attempt's answer and its error correspond (`Trying`).
* `OwnChanges`, `NothingLeftBehind` and the action property `NoFutile` follow.

Then of the whole run:

* `BothParts` (`FairSpec => Spec /\ CheckoutSpec`): a whole run is, for each part, a
  behaviour of that part. `WholeRun` and `RunTyped` draw the conclusion: what is proved
  above of the slices, the checkout and the attempts holds of the run they make up.
* `VoteEarned` (`VoteIsEarned`), for any set of answers: the vote is that of the final
  verdict, and nothing of the review changes after it (`Voting`); a merged verdict is
  one that a slice said (`VerdictSaid`, and `Approval` through `BothParts`); what the
  bar leaves of an answer is a lemma about `AgentAnswer` (`AnswerIsEarned`).

`ConversationProof`, for any people, lines, ways of listing and number of comments:

* With any history: `Types`; `VerdictsReachTheirThreads` (`VerdictReachesItsThread`);
  and `NothingMixedUp`: whatever the code puts together as a thread starts with the
  comment that opened it, holds comments of that one thread in the order they were
  made, and shares its start with no other. This is what is left of
  `ConversationIsTrue` when somebody who quotes a notice is taken for the bot.
* Where nobody quotes a notice (`~Quoting`, the setting of `Conversation_threads`):
  `OwnThreadsOnly` (`OnlyOwnThreads`) and `TrueConversation` (`ConversationIsTrue`).
  With quotations both are false, as `Conversation_quote` shows of the first.
  `TrueConversation` also assumes that where a provider has no threads no chain of
  replies is longer than 32 (as `MaxComments <= maxReplyChainDepth + 1`): the code
  stops following it there (`conversation.go:276-281`) and drops what is below.

  `Inv` says that comments are in threads and only the bot gives verdicts
  (`InThreads`), that what a run remembers are threads of these, with their line and
  name (`Remembered`), and, without quotations, that notices are the bot's, that its
  comments are in threads it opened and that it closes no other (`ToldApart`). The
  rest is about the operators: `InOrder` sorts (`Sorts`), comments are told apart by
  the key the code uses (`keyOf`), a walk up the replies finds the comment that opened
  them, if it may be long enough, and never another (`WalkUp`). The walk needs induction
  over its length, for which the library's theorem takes an operator; `Induction`
  states it for a set of numbers, from the well-foundedness of `<`.

`WebhookIntakeProof`, for any requests: `NoticesAreInert` and `MentionsAreHeard`, over
`IInv`: the types, what each kind of request may be at (`Legitimate`), what a request
is waiting for (`Waits`) and that a record never outlives every request under its key
(`RecordHeld`), which is why a duplicate has another mention in flight. `WithinLimits`
(`TypeOK`): queue and workers never hold more than there is room for, by counting
(`Limits`).

Every invariant of the passing runs is a theorem, under the hypotheses named above,
and so is every property of their steps and every refinement. Only model-checked is
liveness, since the prover does no fairness: `CrashedLeaseLapses`, `ShutdownEnds`,
`AcceptedIsHandled`, `ReviewsHappen`, `NoneLeftWaiting`, `ReviewEnds` and
`PushIsReviewed`. The violation runs show single
behaviours, which need no proof.

## 5. Not modelled

Findings about the whole pull request, what an agent says it dropped itself, the
repair of broken JSON and the redaction of secrets, wording, prompts and parsing of
text, REST encodings, the HTTP server, git's configuration and the environment of its
credentials, the signing of tokens, settings, the command line and self update, rules
and metadata (reads that go into the prompt). Of a Job: its pod template with a
`backoffLimit` above zero (a pod that is started again) and the TTL of finished Jobs.
`PROJECT.json` gives the reason for each component.

Four behaviours of modelled parts are left out, and the properties named do not
speak of them:

* A start patch that gets no answer may land later, until the next listing
  (`ReviewJobs!flying`, `Land`). One that lands after it is excluded: the next pass
  counts the Job as queued and gives its slot away, and the cap is exceeded
  (`Implements`; section 6).
* A lock lapses only when its holder is dead (`ReviewJobs!LockLapses`). A holder that
  lives but stalls for longer than the Lease is outside the code's time limits (30 s
  for what a lock guards, a Lease of 60 s); what remains then is the conditional
  patch (`review_job_scheduler.go:207-210`), by which no Job is started twice: the
  second half of `Implements`.
* A pod that posts after Kubernetes failed its Job, and a notice without an answer that
  is created only after the retry's `Check` (`ToldOnce`; section 6).
* An answer that names a finding or a thread twice (`TwinsOnlyFromOverlap`,
  `NoRepeatedVerdict`; section 2).

## 6. What the documents say and the code does not do

Four of these are violation runs. The others came up while the modules were
written, and are recorded here with the lines that disagree (`...` is
`src/internal`; `webhooks` is `infrastructure/controllers/webhooks`).

| says | does |
|---|---|
| `.../webhooks/dedup_lease.go:299-300`: a renewer's work is not lost to a takeover | `:302`: the Delete carries only the uid, which a renewal does not change (`DedupLease_takeover`) |
| `.../webhooks/dispatcher.go:56-59`: Leases of cancelled jobs are released, not orphaned | `:165`: a key is untracked before its Delete (`ServePod_orphan`) |
| `.../domain/commands/review_command.go:1003-1004`: "push a new commit ... to try again" | `:1666`: that notice makes the push a no-op (`ReviewRuns_retry`) |
| `CHANGELOG.md:457`: a human who merely quotes the marker is not mistaken for the bot | `.../support/review_marker.go:121`: only letters and backticks before the marker count, and `> ` has none (`Conversation_quote`) |
| `.../webhooks/dispatcher.go:235-237`: renewal keeps an actively held Lease from being stolen | `.../controllers/serve_controller.go:121`: it starts with the worker, so a job's time in the queue is not covered |
| `.../webhooks/dedup_lease.go:126-128`: a single missed renewal does not let the Lease expire | 60 s and 30 s: the next renewal comes when the Lease is 60 s old |
| `docs/AGENTIC_REVIEWS.md:230-232`: a pod that dies without reporting is reported | `.../webhooks/review_job_scheduler.go:285-292`: the claim comes first; a replica that dies after it leaves a failure nobody reports (`NoneLeftWaiting` excepts it) |
| `.../webhooks/review_job_scheduler.go:212-215`: an unsettled start keeps its slot, because the cap must hold | until the next pass only (`:229-236`), whose listing cannot show a patch that is still on its way |
| `.../webhooks/review_job_scheduler.go:279-281`: a second attempt at a report finds the first one's notice; `.../support/agentic_review.go:233-237`: a failure is never reported twice | a comment that is created after the second attempt read the comments, or by the pod after its Job failed, is not found: `review_job_annotations.go:62-82` is a read and a write |
| the "queued" notice tells a position | `.../webhooks/dispatcher.go:404-407`: it is posted after the Job exists, so it may follow the "reviewing" notice of that very Job |
| `review_command.go:788-792`: what fails after the marker is announced | `:391` and `:398`: a failure to read the diffs or the rules returns without a notice |
| `review_command.go:2240-2243`: a disputed thread is always answered again | `:2158`: the dispute is looked for in the conversation as it was before the AI ran |
| `review_command.go:2290-2291`: `outstanding` keeps the thread active | `:2218` returns early: a thread that an earlier run closed is not opened again |
| `.../support/conversation.go:56-62`: a verdict does not open a thread of its own that is answered again | where the provider gives no thread, `postResolutionReply` posts a fresh comment, which opens one |
| `README.md:198`: a pull request is reviewed once | `.../webhooks/dispatcher.go:381`: with the Kubernetes executor the server's triage has its own gate, beside a Job's |
| `README.md:253`: trivial detection needs that "CI has passed" | `review_command.go:338-343`: no CI gate |
| `review_command.go:339-340`: bump detectors require a matching `.autobump.yaml` | `.../repositories/trivial/bump_detector_base.go:54-62`: without one they approve the default files |
| `README.md:269`: a missing file results in a reject | an adapter earlier in the order may approve first; and a configuration that cannot be read counts as none |
| `README.md:283`, `registry.go:33-36`: disabling the `bump-*` adapters reliably keeps version bumps out | `update-node` approves `package.json` with `CHANGELOG.md`, which is what `bump-node` matches |
| `review_command.go:1471-1473`: the vote's mapper does not recognise `comment` | `.../support/verdict_mapper.go:55-59`: it votes "waiting for author" |
| `.../support/agentic_review.go:80-82`: an error that is not posted must not cast a changes-requested vote | an error without a dimension is dropped by the parser (`agentic_prompt_builder.go:307-315`), and one may be dropped later as a duplicate or as stale; neither relaxes the verdict (`VoteIsEarned` speaks of the bar only) |
| `review_batches.go:322-326`: the ceiling keeps the run from sending the prompt that just failed | `:354-355`: the floor is applied after it; with a cap of one batch it is the whole (`NeverResent` excepts it) |
| `review_batches.go:474-478`: threads whose file left the change go with the first batch, or they would never be classified | they do not, if the first batch fails |
| `README.md:114-118`: `bot_identities` is optional | `.../webhooks/azuredevops.go:437-443`: the loop it guards against comes back for an account that is not listed (`OwnNoticeIsInert` excepts it) |
| `.../webhooks/dedup_cache.go:180-183`: the TTL covers the worst-case review | `.../webhooks/dispatcher.go:31`: it is 30 s (the world `Lapsed` shows what that costs: twins, from an overlap) |
| `.../webhooks/github.go:298-299`: a PR-wide mention "always goes through"; `:255-256`: only the inline path asks for dedup | `:300`: `dedupe: true` |
| `.../domain/entities/workspace.go:4-8`: the diff is exactly the pull request's changes | `git_workspace_repository.go:398`: a deepening fetch after a rebase finds a merge-base of the new head, not of the checkout (`ReviewsOwnChanges` excepts it) |

## 7. Plan

Done, in this order: `DedupLease` and its proofs, `ServePod`, `ReviewJobs`,
`ReviewRuns`, `BatchReview` and its proofs, `CheckoutReview`, `AIReview` and their
proofs, `WebhookIntake` and its proofs; then `Conversation`, `TrivialDetectors`, the
pods of Jobs, runs side by side in `ReviewRuns`, `AgentAnswer` with the vote, and the
proofs about `ServePod`, `ReviewJobs`, `ReviewRuns` and the vote; then the proofs about
`Conversation`, what is settled and the types of `ReviewRuns`, and the pool's limits.

Next:

1. `WebhookIntake` with a timed dedup record, and a token that expires under the job
   that was given it (`installation_token_exchange.go:95`).
2. The launcher's pod template with restarts (`backoffLimit`), and the TTL of finished
   Jobs, after which a duplicate is no longer seen.
3. Composition: that pushes are reviewed once across Jobs, from `ReviewJobs`'
   exclusion and `ReviewRuns`' gate.
4. A model of the merge in `ReviewRuns` that can state what moves between detection
   and merge (`review_command.go:720`): the merge names the pull request, not the
   commit that was looked at.
5. Proofs: what the liveness properties rest on without fairness, as the measures
   that each step of a review or of the shutdown decreases.

New questions take the place of weaker ones: the properties are the ones worth
their time, not all that could be stated.
