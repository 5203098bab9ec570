------------------------------ MODULE ReviewJobs ------------------------------
(***************************************************************************)
(* The Kubernetes executor of code-guru: server replicas turn review       *)
(* requests into suspended Jobs (webhooks/review_job_launcher.go), release *)
(* them into a bounded number of slots and report the ones that died       *)
(* (webhooks/review_job_scheduler.go), serialised by Lease locks           *)
(* (webhooks/review_job_locks.go); and the pods that run the Jobs          *)
(* (controllers/review_controller.go).                                     *)
(*                                                                         *)
(* Replicas share only the API server: the Jobs and the two kinds of lock. *)
(* Every call to it is a step.  A Job is named after the request that      *)
(* creates it, and its resourceVersion is its state: every write a client  *)
(* conditions on changes the state, and never back.                        *)
(***************************************************************************)
EXTENDS Naturals, Sequences, FiniteSets

CONSTANTS
    Request,        \* the review requests that passed the in-process gates
    PR, prOf,       \* the pull requests, and the one of each request
    Mention,        \* the requests a user's mention made
    Mortal,         \* the requests whose pod may fail (bound of the model)
    Closable,       \* the pull requests that may close (bound of the model)
    Replica,        \* the server's replicas
    entry,          \* those each request may come in at (bound of the model)
    MaxConcurrent,  \* max_concurrent_jobs
    MaxCrashes,     \* how many replicas may die in each kind (bound of the model)
    Trouble,        \* the kinds of instance: TRUE if calls to the API server
                    \* and the provider fail and enqueues tire of waiting
    Calm,           \* the requests that come only without (bound of the model)
    Poll, None, Dead

ASSUME JobsAssumption ==
    /\ prOf \in [Request -> PR]
    /\ Mention \subseteq Request /\ Mortal \subseteq Request
    /\ Closable \subseteq PR
    /\ entry \in [Request -> SUBSET Replica]
    /\ MaxConcurrent \in Nat \ {0}
    /\ MaxCrashes \in [Trouble -> Nat]
    /\ Trouble \subseteq BOOLEAN /\ Calm \subseteq Request
    /\ None \notin Replica \cup Request
    /\ Dead \notin Replica \cup Request
    /\ Poll \notin Request /\ Poll # None
    /\ None # Dead

VARIABLES
    job,      \* the state of each request's Job
    order,    \* the requests stamped with annotationEnqueuedAt, oldest first
    stage,    \* where each request is
    at,       \* the replica that handles it
    started,  \* the Jobs that had started when it came in (history)
    answer,   \* the Job that carries its review
    enqLock,  \* the enqueue lock of each pull request: its holder
    lock,     \* the scheduler lock: its holder
    pass,     \* the pass each replica is in, under its mutex
    flying,   \* the Jobs with a start on its way that nobody waits for
    reports,  \* the failed Jobs each replica's poll loop has yet to report
    claim,    \* the Job it is reporting, how often it tried, and its next step
    posts,    \* the outcome notices of each Job on its pull request
    pod,      \* how far the pod of each Job came
    open,     \* which pull requests are open
    crashes,
    troubled  \* which kind of instance this is

enqueueVars == <<order, stage, at, started, answer, enqLock>>
passVars    == <<lock, pass, flying>>
reportVars  == <<reports, claim, posts>>
podVars     == <<pod, open>>
env         == <<crashes, troubled>>
vars == <<job, enqueueVars, passVars, reportVars, podVars, env>>

\* A Job is suspended, then runs, then completes or fails; "reported" is a
\* failed one that carries annotationFailureReported.
JobState == {"none", "suspended", "running", "complete", "failed", "reported"}
Finished(r)  == job[r] \in {"complete", "failed", "reported"}
Suspended(r) == job[r] = "suspended"
Running      == {r \in Request : job[r] = "running"}
Stage == {"new", "locking", "listing", "creating", "reconciling", "in_pass",
          "asking", "queued", "started", "duplicate", "error", "lost"}
Settled == {"queued", "started", "duplicate", "error", "lost"}

\* A pass: who asked for it, whether it has its listing, the queued Jobs not
\* offered a slot yet, the slots left, the pull requests that may not start
\* another Job, and the failed Jobs nobody reported.
NoPass == [by |-> None, listed |-> FALSE, left |-> {}, free |-> 0, closed |-> {}, dead |-> {}]
Pass == [by : Request \cup {Poll, None}, listed : BOOLEAN, left : SUBSET Request,
         free : 0..MaxConcurrent, closed : SUBSET PR, dead : SUBSET Request]
NoClaim == [job |-> None, tries |-> 0, next |-> "check"]
Claims  == [job : Request \cup {None}, tries : 0..1, next : {"check", "post"}]

IndexOf(r) == CHOOSE i \in 1..Len(order) : order[i] = r
Older(r, s) == IndexOf(r) < IndexOf(s)

SetJob(r, s)   == job' = [job EXCEPT ![r] = s]
\* A request that is settled has no handler any more.
SetStage(r, s) ==
    /\ stage' = [stage EXCEPT ![r] = s]
    /\ at' = IF s \in Settled THEN [at EXCEPT ![r] = None] ELSE at

\* alreadyReviewed: a push is settled by any outcome notice on its pull request.
alreadyReviewed(r) ==
    /\ r \notin Mention
    /\ \E s \in Request : prOf[s] = prOf[r] /\ posts[s] > 0

-----------------------------------------------------------------------------
(* Enqueue: lock the pull request, list its Jobs, create one unless the    *)
(* request duplicates another, run a pass, read the queue position.        *)

\* Triage lets the request through; one it settles leaves no trace here.
Receive(r, p) ==
    /\ stage[r] = "new" /\ p \in entry[r]
    /\ troubled => r \notin Calm
    /\ alreadyReviewed(r) => troubled
    /\ at' = [at EXCEPT ![r] = p]
    /\ started' = [started EXCEPT ![r] = {s \in Request : r \in Mention /\ job[s] \notin {"none", "suspended"}}]
    /\ stage' = [stage EXCEPT ![r] = "locking"]
    /\ UNCHANGED <<job, order, answer, enqLock, passVars, reportVars, podVars, env>>

\* Mutation: an enqueue never waits.
lockOrProceed_never(r) ==
    /\ stage[r] = "locking"
    /\ SetStage(r, "listing")
    /\ UNCHANGED <<job, order, started, answer, enqLock, passVars, reportVars, podVars, env>>

\* lockOrProceed: the lock, or after ten seconds no lock at all: the holder is
\* dead, is slower than that, or the API server does not answer.
lockOrProceed(r) ==
    /\ stage[r] = "locking"
    /\ \/ /\ enqLock[prOf[r]] = None
          /\ enqLock' = [enqLock EXCEPT ![prOf[r]] = r]
       \/ /\ \/ enqLock[prOf[r]] = Dead
             \/ enqLock[prOf[r]] # None /\ troubled
          /\ UNCHANGED enqLock
       \/ /\ troubled
          /\ \/ UNCHANGED enqLock
             \/ enqLock[prOf[r]] = None /\ enqLock' = [enqLock EXCEPT ![prOf[r]] = Dead]
    /\ SetStage(r, "listing")
    /\ UNCHANGED <<job, order, started, answer, passVars, reportVars, podVars, env>>

\* A lock whose holder will not release it: released or created by a call
\* that got no answer, it stays until its Lease lapses.
Left == IF troubled THEN {None, Dead} ELSE {None}

\* The deferred release: only the acquisition of this request is deleted.
Unlocked(r) == IF enqLock[prOf[r]] = r
               THEN {[enqLock EXCEPT ![prOf[r]] = v] : v \in Left}
               ELSE {enqLock}

\* Mutation: a mention counts any unfinished mention Job as its answer.
duplicates_running(r, s) ==
    /\ prOf[s] = prOf[r]
    /\ job[s] # "none" /\ ~Finished(s)
    /\ r \in Mention => s \in Mention

\* duplicateReviewJob: any unfinished Job of the pull request for a push, a
\* mention Job that is still suspended for a mention.
duplicates(r, s) ==
    /\ prOf[s] = prOf[r]
    /\ job[s] # "none" /\ ~Finished(s)
    /\ r \in Mention => Suspended(s) /\ s \in Mention

\* create, first half: the listing settles whether there is anything to do.
ListOwn(r) ==
    /\ stage[r] = "listing"
    /\ \/ \E s \in Request :
            /\ duplicates(r, s)
            /\ answer' = [answer EXCEPT ![r] = s]
            /\ SetStage(r, "duplicate")
            /\ enqLock' \in Unlocked(r)
            /\ UNCHANGED order
       \/ /\ \A s \in Request : ~duplicates(r, s)
          /\ order' = Append(order, r)
          /\ SetStage(r, "creating")
          /\ UNCHANGED <<answer, enqLock>>
       \/ /\ troubled
          /\ SetStage(r, "error")
          /\ enqLock' \in Unlocked(r)
          /\ UNCHANGED <<order, answer>>
    /\ UNCHANGED <<job, started, passVars, reportVars, podVars, env>>

\* create, second half.  A call that failed may have created the Job.
CreateJob(r) ==
    /\ stage[r] = "creating"
    /\ \/ SetJob(r, "suspended") /\ SetStage(r, "reconciling")
            /\ answer' = [answer EXCEPT ![r] = r]
       \/ /\ troubled
          /\ SetJob(r, "suspended") \/ UNCHANGED job
          /\ SetStage(r, "error")
          /\ UNCHANGED answer
    /\ enqLock' \in Unlocked(r)
    /\ UNCHANGED <<order, started, passVars, reportVars, podVars, env>>

-----------------------------------------------------------------------------
(* startQueued: a pass under the replica's mutex and the scheduler lock.   *)

\* What planReconcile makes of a listing.
planReconcile(by) ==
    [by     |-> by,
     listed |-> TRUE,
     left   |-> {r \in Request : Suspended(r)},
     free   |-> IF Cardinality(Running) < MaxConcurrent
                THEN MaxConcurrent - Cardinality(Running) ELSE 0,
     closed |-> {prOf[r] : r \in Running},
     dead   |-> {r \in Request : job[r] = "failed"}]

\* The thread that asked for a pass goes on to read its queue position.
Resume(by) == stage' = IF by = Poll THEN stage ELSE [stage EXCEPT ![by] = "asking"]

\* A poll that would find nothing to start or to report is left out (bound of
\* the model); the listing still decides what the pass does.
worthPolling == \E r \in Request : job[r] \in {"suspended", "failed"}

\* TryLock fails closed: a lock that is held, or an error, skips the pass; the
\* Lease may have been created all the same.
TryLock(p, by) ==
    /\ pass[p] = NoPass
    /\ IF by = Poll THEN reports[p] = {} /\ claim[p] = NoClaim /\ worthPolling
                    ELSE at[by] = p /\ stage[by] = "reconciling"
    /\ \/ /\ lock = None
          /\ lock' = p
          /\ pass' = [pass EXCEPT ![p] = [NoPass EXCEPT !.by = by]]
          /\ stage' = IF by = Poll THEN stage ELSE [stage EXCEPT ![by] = "in_pass"]
       \/ /\ lock # None \/ troubled
          /\ lock' = lock \/ (lock = None /\ lock' = Dead)
          /\ Resume(by)
          /\ UNCHANGED pass
    /\ UNCHANGED <<job, order, at, started, answer, enqLock, flying, reportVars, podVars, env>>

\* List: the pass plans from one listing, taken under the lock.  A start still
\* on its way by then is taken for lost (bound of the model).
List(p) ==
    /\ pass[p].by # None
    /\ ~pass[p].listed
    /\ pass' = [pass EXCEPT ![p] = planReconcile(pass[p].by)]
    /\ flying' = {}
    /\ UNCHANGED <<job, enqueueVars, lock, reportVars, podVars, env>>

\* Mutation: the walk of the queue does not count the slots it gives out.
eligible_uncapped(p) == {r \in pass[p].left : prOf[r] \notin pass[p].closed}

\* The Jobs of the listing that can still be offered a slot.
eligible(p) == {r \in pass[p].left : pass[p].free > 0 /\ prOf[r] \notin pass[p].closed}

\* Mutation: any eligible Job is next, whatever its age.
nextInLine_any(p, r) == r \in eligible(p)

\* offerSlots walks the queue oldest first and past the Jobs that may not
\* start; one it has passed never becomes eligible later in the pass.
nextInLine(p, r) == r \in eligible(p) /\ \A s \in eligible(p) \ {r} : Older(r, s)

\* Mutation: a start that conflicts, or gets no answer, gives its slot back.
Unsettled_free(p, r) == [pass EXCEPT ![p].left = @ \ {r}]

\* Started or unsettled: the slot and the pull request are spent.
Unsettled(p, r) == [pass EXCEPT ![p].left = @ \ {r},
                                ![p].free = @ - 1,
                                ![p].closed = @ \cup {prOf[r]}]

\* One start: a patch conditioned on the listing's resourceVersion.  It takes
\* effect only on a Job that is still suspended.  A conflict (the Job changed,
\* even in its status alone) and a lost answer leave it unsettled: the patch may
\* be lost too, or land later.  A refusal uses no slot.
StartJob(p, r) ==
    /\ pass[p].listed
    /\ nextInLine(p, r)
    /\ \/ /\ Suspended(r)
          /\ SetJob(r, "running")
          /\ pass' = Unsettled(p, r)
          /\ UNCHANGED flying
       \/ /\ ~Suspended(r)
          /\ pass' = Unsettled(p, r)
          /\ UNCHANGED <<job, flying>>
       \/ /\ troubled
          /\ pass' = Unsettled(p, r)
          /\ flying' = flying \cup {r}
          /\ UNCHANGED job
       \/ /\ troubled
          /\ pass' = [pass EXCEPT ![p].left = @ \ {r}]
          /\ UNCHANGED <<job, flying>>
    /\ UNCHANGED <<enqueueVars, lock, reportVars, podVars, env>>

\* The API server carries out a start whose caller stopped waiting.
Land(r) ==
    /\ r \in flying
    /\ Suspended(r)
    /\ SetJob(r, "running")
    /\ flying' = flying \ {r}
    /\ UNCHANGED <<enqueueVars, lock, pass, reportVars, podVars, env>>

\* The pass ends, with nothing left to offer or after a failed List: its lock
\* is released by uid, so one that was taken over stays, and a poll's failed
\* Jobs are reported outside it.
EndPass(p) ==
    /\ pass[p].by # None
    /\ IF pass[p].listed THEN eligible(p) = {} ELSE troubled
    /\ pass' = [pass EXCEPT ![p] = NoPass]
    /\ IF lock = p THEN lock' \in Left ELSE UNCHANGED lock
    /\ Resume(pass[p].by)
    /\ reports' = IF pass[p].by = Poll THEN [reports EXCEPT ![p] = pass[p].dead] ELSE reports
    /\ UNCHANGED <<job, order, at, started, answer, enqLock, flying, claim, posts, podVars, env>>

\* QueuePosition: a fresh listing says whether the Job still waits once the
\* free slots are given out; a failed listing counts as started.
QueuePosition(r) ==
    LET plan   == planReconcile(Poll)
        ahead  == {s \in plan.left : s # r /\ Older(s, r) /\ prOf[s] \notin plan.closed}
        passed == {prOf[s] : s \in ahead}
        waits  == /\ Suspended(r)
                  /\ \/ prOf[r] \in plan.closed \cup passed
                     \/ Cardinality(passed) >= plan.free
    IN /\ stage[r] = "asking"
       /\ \/ SetStage(r, IF waits THEN "queued" ELSE "started")
          \/ troubled /\ SetStage(r, "started")
       /\ UNCHANGED <<job, order, started, answer, enqLock, passVars, reportVars, podVars, env>>

-----------------------------------------------------------------------------
(* reportFailures: claim each failed Job, then tell its pull request.      *)

\* Mutation: the conflict test is inverted, the report follows a lost claim.
claimable_lost(r) == job[r] = "reported"

claimable(r) == job[r] = "failed"

\* The claim, conditioned on the listing's resourceVersion.  Losing it, or an
\* error whatever its effect, drops the Job.
Claim(p, r) ==
    /\ r \in reports[p]
    /\ claim[p] = NoClaim
    /\ reports' = [reports EXCEPT ![p] = @ \ {r}]
    /\ \/ /\ claimable(r)
          /\ SetJob(r, "reported")
          /\ claim' = [claim EXCEPT ![p] = [NoClaim EXCEPT !.job = r]]
       \/ /\ ~claimable(r) \/ troubled
          /\ UNCHANGED <<job, claim>>
       \/ troubled /\ claimable(r) /\ SetJob(r, "reported") /\ UNCHANGED claim
    /\ UNCHANGED <<enqueueVars, passVars, posts, podVars, env>>

\* Mutation: the report does not look for a notice of this Job.
untold_never(r) == TRUE

\* HasReviewOutcomeOf: no notice stamped with the Job's name is there yet.
untold(r) == posts[r] = 0

\* A call of a report fails, or its answer is lost: one retry from the top,
\* then the replica gives up for good.
Retry(p) ==
    /\ troubled
    /\ claim' = [claim EXCEPT ![p] =
                    IF @.tries = 0 THEN [@ EXCEPT !.tries = 1, !.next = "check"] ELSE NoClaim]

\* The reads of a report: nothing is posted on a pull request that closed, or
\* that was told already.
Check(p) ==
    LET r == claim[p].job
    IN /\ r # None /\ claim[p].next = "check"
       /\ \/ claim' = [claim EXCEPT ![p] = IF untold(r) /\ open[prOf[r]]
                                           THEN [@ EXCEPT !.next = "post"] ELSE NoClaim]
          \/ Retry(p)
       /\ UNCHANGED <<job, enqueueVars, passVars, reports, posts, podVars, env>>

\* The notice itself.  A post whose answer was lost may be there.
Report(p) ==
    LET r      == claim[p].job
        posted == [posts EXCEPT ![r] = @ + 1]
    IN /\ r # None /\ claim[p].next = "post"
       /\ \/ posts' = posted /\ claim' = [claim EXCEPT ![p] = NoClaim]
          \/ posts' \in {posts, posted} /\ Retry(p)
       /\ UNCHANGED <<job, enqueueVars, passVars, reports, podVars, env>>

\* The pass's reporting budget runs out after its first Job.
BudgetOut(p) ==
    /\ troubled
    /\ reports[p] # {}
    /\ claim[p] = NoClaim
    /\ reports' = [reports EXCEPT ![p] = {}]
    /\ UNCHANGED <<job, enqueueVars, passVars, claim, posts, podVars, env>>

-----------------------------------------------------------------------------
(* The world: pods, replicas and Leases.                                   *)

\* The pod of a Job: the review command of the request (ReviewController.Execute).
\* It exits at once if its pull request is not open any more, or is settled by
\* now; else the "reviewing" notice is on the pull request.
StartReview(r) ==
    /\ job[r] = "running"
    /\ pod[r] = "starting"
    /\ \/ ~open[prOf[r]] /\ SetJob(r, "failed") /\ UNCHANGED pod
       \/ open[prOf[r]] /\ alreadyReviewed(r) /\ SetJob(r, "complete") /\ UNCHANGED pod
       \/ /\ open[prOf[r]]
          /\ alreadyReviewed(r) => troubled
          /\ pod' = [pod EXCEPT ![r] = "reviewing"]
          /\ UNCHANGED job
    /\ UNCHANGED <<enqueueVars, passVars, reportVars, open, env>>

\* The outcome notice, stamped with the Job's name: none on a closed pull
\* request, and best-effort.
Noticed(r) == IF open[prOf[r]]
              THEN {[posts EXCEPT ![r] = @ + 1]} \cup (IF troubled THEN {posts} ELSE {})
              ELSE {posts}

\* The review has a result, or an error it tells; the exit code says which.
FinishReview(r) ==
    /\ job[r] = "running"
    /\ pod[r] = "reviewing"
    /\ SetJob(r, "complete") \/ (r \in Mortal /\ SetJob(r, "failed"))
    /\ posts' \in Noticed(r)
    /\ UNCHANGED <<enqueueVars, passVars, reports, claim, podVars, env>>

\* The pod ends with no word: an error before the review or between its steps
\* (token, settings, diffs, rules), a deadline, no memory, an eviction.
Die(r) ==
    /\ r \in Mortal
    /\ job[r] = "running"
    /\ SetJob(r, "failed")
    /\ UNCHANGED <<enqueueVars, passVars, reportVars, podVars, env>>

RunJob(r) == StartReview(r) \/ FinishReview(r) \/ Die(r)

\* A pull request is merged or abandoned; bound of the model: while a Job
\* of it runs; what comes later sees it closed all the same.
Close(x) ==
    /\ x \in Closable /\ open[x]
    /\ \E r \in Request : prOf[r] = x /\ job[r] = "running"
    /\ open' = [open EXCEPT ![x] = FALSE]
    /\ UNCHANGED <<job, enqueueVars, passVars, reportVars, pod, env>>

\* A replica dies in whatever it was doing, its Leases remain.
Crash(p) ==
    /\ crashes < MaxCrashes[troubled]
    /\ crashes' = crashes + 1
    /\ stage' = [r \in Request |-> IF at[r] = p THEN "lost" ELSE stage[r]]
    /\ at' = [r \in Request |-> IF at[r] = p THEN None ELSE at[r]]
    /\ enqLock' = [x \in PR |-> IF enqLock[x] \in Request /\ at[enqLock[x]] = p
                               THEN Dead ELSE enqLock[x]]
    /\ lock' = IF lock = p THEN Dead ELSE lock
    /\ pass' = [pass EXCEPT ![p] = NoPass]
    /\ reports' = [reports EXCEPT ![p] = {}]
    /\ claim' = [claim EXCEPT ![p] = NoClaim]
    /\ UNCHANGED <<job, order, started, answer, flying, posts, podVars, troubled>>

\* Mutation: a stale scheduler Lease is never taken over.
LockLapses_never ==
    /\ lock = Dead
    /\ UNCHANGED vars

\* The Lease of a holder that died runs out.  A live holder's never does: the
\* time limits on what it guards are well under leaseDurationSeconds.
LockLapses ==
    /\ lock = Dead
    /\ lock' = None
    /\ UNCHANGED <<job, enqueueVars, pass, flying, reportVars, podVars, env>>

EnqLockLapses(x) ==
    /\ enqLock[x] = Dead
    /\ enqLock' = [enqLock EXCEPT ![x] = None]
    /\ UNCHANGED <<job, order, stage, at, started, answer, passVars, reportVars, podVars, env>>

-----------------------------------------------------------------------------
Init ==
    /\ job = [r \in Request |-> "none"]
    /\ order = <<>>
    /\ stage = [r \in Request |-> "new"]
    /\ at = [r \in Request |-> None]
    /\ started = [r \in Request |-> {}]
    /\ answer = [r \in Request |-> None]
    /\ enqLock = [x \in PR |-> None]
    /\ lock = None
    /\ pass = [p \in Replica |-> NoPass]
    /\ flying = {}
    /\ reports = [p \in Replica |-> {}]
    /\ claim = [p \in Replica |-> NoClaim]
    /\ posts = [r \in Request |-> 0]
    /\ pod = [r \in Request |-> "starting"]
    /\ open = [x \in PR |-> TRUE]
    /\ crashes = 0
    /\ troubled \in Trouble

Enqueue(r)   == lockOrProceed(r) \/ ListOwn(r) \/ CreateJob(r) \/ QueuePosition(r)
startQueued(p) == List(p) \/ (\E r \in Request : StartJob(p, r)) \/ EndPass(p)
reportFailures(p) == (\E r \in Request : Claim(p, r)) \/ Check(p) \/ Report(p) \/ BudgetOut(p)

Next ==
    \/ \E r \in Request : Enqueue(r) \/ Land(r) \/ RunJob(r) \/ \E p \in Replica : Receive(r, p)
    \/ \E p \in Replica : \/ \E by \in Request \cup {Poll} : TryLock(p, by)
                          \/ startQueued(p)
                          \/ reportFailures(p)
                          \/ Crash(p)
    \/ LockLapses
    \/ \E x \in PR : EnqLockLapses(x) \/ Close(x)

Spec == Init /\ [][Next]_vars

\* Threads that can go on do; every poll loop ticks, and one of them finds the
\* lock free again and again; a review ends (activeDeadlineSeconds); a dead
\* holder's Lease lapses.
Fairness ==
    /\ \A r \in Request : WF_vars(Enqueue(r)) /\ WF_vars(RunJob(r))
    /\ \A p \in Replica :
        /\ SF_vars(TryLock(p, Poll) /\ lock = None)
        /\ \A r \in Request : WF_vars(TryLock(p, r))
        /\ WF_vars(startQueued(p))
        /\ WF_vars(reportFailures(p))
    /\ WF_vars(LockLapses)
    /\ \A x \in PR : WF_vars(EnqLockLapses(x))

FairSpec == Spec /\ Fairness

-----------------------------------------------------------------------------
(* Properties.                                                             *)

TypeOK ==
    /\ job \in [Request -> JobState]
    /\ order \in Seq(Request)
    /\ stage \in [Request -> Stage]
    /\ at \in [Request -> Replica \cup {None}]
    /\ started \in [Request -> SUBSET Request]
    /\ answer \in [Request -> Request \cup {None}]
    /\ enqLock \in [PR -> Request \cup {None, Dead}]
    /\ lock \in Replica \cup {None, Dead}
    /\ pass \in [Replica -> Pass]
    /\ flying \subseteq Request
    /\ reports \in [Replica -> SUBSET Request]
    /\ claim \in [Replica -> Claims]
    /\ posts \in [Request -> Nat]
    /\ pod \in [Request -> {"starting", "reviewing"}]
    /\ open \in [PR -> BOOLEAN]
    /\ troubled \in Trouble
    /\ crashes \in 0..MaxCrashes[troubled]

\* The executor implements the slots: the cap holds and one pull request's
\* reviews follow one another, across replicas, crashes and failed calls.
Slots == INSTANCE ReviewSlots WITH
            waiting <- {r \in Request : Suspended(r)},
            running <- Running

\* A Job that left the queue cannot enter it again, which Slots allows.
Implements == Slots!Spec /\ [][\A r \in Request : job'[r] \in {"none", "suspended"} => job[r] \in {"none", "suspended"}]_vars

\* No enqueue had to go on without its lock.
AllLocked == ~troubled /\ crashes = 0

\* Two deliveries never create Jobs that answer the same request: a pull
\* request has at most one unfinished push Job and one suspended mention Job, as
\* long as every enqueue has its lock.
NoDuplicateJobs ==
    AllLocked => \A r, s \in Request :
        /\ r # s /\ prOf[r] = prOf[s]
        /\ job[r] # "none" /\ ~Finished(r)
        /\ job[s] # "none" /\ ~Finished(s)
        => /\ r \in Mention \/ s \in Mention
           /\ ~(r \in Mention /\ s \in Mention /\ Suspended(r) /\ Suspended(s))

\* The Job that answers a mention starts after the mention came in, so it
\* reads the code and the threads the user meant.
MentionReadsNewest ==
    \A r \in Mention : answer[r] # None => answer[r] \notin started[r]

\* A pull request is told the outcome of a Job at most once, whatever the
\* replicas, the retries and the pod's own notice.
ToldOnce == \A r \in Request : posts[r] <= 1

\* Jobs of one pull request start in the order their requests were stamped, so
\* a re-review reads what the review it was queued behind posted; again as long
\* as every enqueue has its lock.
StartsInOrder ==
    AllLocked => \A r, s \in Request :
        prOf[r] = prOf[s] /\ Suspended(s) /\ job[r] \notin {"none", "suspended"} => Older(r, s)

\* Every Job that is created is run to its end, whichever replicas die.
ReviewsHappen == \A r \in Request : Suspended(r) ~> Finished(r)

\* A pull request with a Job that died, or with the notice that its review
\* began, is told the outcome unless it closes or a replica dies.
NoneLeftWaiting ==
    \A r \in Request : (job[r] = "failed" \/ pod[r] = "reviewing")
                           ~> (posts[r] = 1 \/ ~open[prOf[r]] \/ crashes > 0)
=============================================================================
