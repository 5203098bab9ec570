------------------------------ MODULE DedupLease ------------------------------
(***************************************************************************)
(* The cross-pod webhook dedup of code-guru: one Kubernetes Lease per pull *)
(* request (webhooks/dedup_lease.go), taken by the handler that accepts a  *)
(* delivery, renewed by the goroutine the serve controller starts with the *)
(* job, and deleted when the job's handler returns.                        *)
(*                                                                         *)
(* The module follows ONE dedup key.  A delivery is one webhook request    *)
(* and the job it becomes, on whichever pod received it; pods share        *)
(* nothing but the lease, so a pod's death is the death of any of its      *)
(* deliveries.  Every call to the API server is a step of its own.  Time   *)
(* is counted in ticks no shorter than leaseAPITimeout.                    *)
(***************************************************************************)
EXTENDS Naturals

CONSTANTS
    Delivery,   \* the webhook deliveries for one pull request
    None, Stale,
    Duration,   \* leaseDurationSeconds, in ticks
    Interval,   \* leaseRenewInterval, in ticks
    MaxWait,    \* most ticks a job waits between its lease and its worker
    MaxMissed,  \* most renewals in a row that may fail
    Faults      \* the sets of deliveries whose Create, Get and Delete may fail

ASSUME LeaseAssumption ==
    /\ None \notin Delivery
    /\ Stale \notin Delivery
    /\ None # Stale
    /\ None \notin [uid : Delivery, age : Nat]
    /\ Duration \in Nat \ {0}
    /\ Interval \in Nat \ {0}
    /\ MaxWait \in Nat
    /\ MaxMissed \in Nat
    /\ Faults \subseteq SUBSET Delivery

VARIABLES
    lease,   \* the Lease object: None, or its uid and the ticks since renewTime
    pc,      \* where each delivery is
    seen,    \* the uid a takeover read, its Delete's precondition
    timer,   \* ticks waited in the queue, then since the renewal ticker fired
    missed,  \* renewals failed since the last one that landed
    copy,    \* the lease the renewal Get read, while its Update is pending
    faulty   \* the deliveries whose calls may fail, or lose their answer

vars == <<lease, pc, seen, timer, missed, copy, faulty>>

\* The stages of a delivery.  "leaked" is a handler that is through while the
\* answer of its last call was an error: whether its lease exists is unknown.
Waiting   == {"admitted", "queued"}
Holding   == Waiting \cup {"running"}
Releasing == {"rollback", "releasing"}
Ended     == {"done", "refused", "dropped", "leaked", "crashed"}
Stage     == {"new", "get", "takeover", "retry"}
                \cup Holding \cup Releasing \cup Ended

\* The uid of a lease is the delivery whose Create made it: each makes one.
Lease == [uid : Delivery, age : 0..Duration]

At(S) == {d \in Delivery : pc[d] \in S}

Goto(d, s) == pc' = [pc EXCEPT ![d] = s]

\* buildLease: acquireTime and renewTime are both the time of the Create.
buildLease(d) == [uid |-> d, age |-> 0]

\* leaseExpired: renewTime + leaseDurationSeconds is not after now.
leaseExpired(l) == l.age >= Duration

-----------------------------------------------------------------------------
(* SeenRecently: Create, else Get, else Delete by uid, else Create again.  *)

\* The first Create.  Any error that is not AlreadyExists lets the webhook
\* through without a lease.
Create(d) ==
    /\ pc[d] = "new"
    /\ \/ lease = None /\ lease' = buildLease(d) /\ Goto(d, "admitted")
       \/ lease # None /\ UNCHANGED lease /\ Goto(d, "get")
       \/ d \in faulty /\ UNCHANGED lease /\ Goto(d, "admitted")
    /\ UNCHANGED <<seen, timer, missed, copy, faulty>>

\* Get after AlreadyExists: gone, stale or alive.  An error is a duplicate.
Get(d) ==
    /\ pc[d] = "get"
    /\ \/ lease = None /\ Goto(d, "retry") /\ UNCHANGED seen
       \/ /\ lease # None
          /\ leaseExpired(lease)
          /\ seen' = [seen EXCEPT ![d] = lease.uid]
          /\ Goto(d, "takeover")
       \/ /\ d \in faulty \/ (lease # None /\ ~leaseExpired(lease))
          /\ Goto(d, "dropped")
          /\ UNCHANGED seen
    /\ UNCHANGED <<lease, timer, missed, copy, faulty>>

\* Mutation: the takeover sends no precondition.
takeoverMatches_any(d) == lease # None

\* The Delete's precondition: the uid read by Get, not the resourceVersion.
takeoverMatches(d) == lease # None /\ lease.uid = seen[d]

\* The Delete of a stale lease.  NotFound counts as done; a failed
\* precondition, like any other error, makes the delivery a duplicate.
TakeOver(d) ==
    /\ pc[d] = "takeover"
    /\ \/ lease = None /\ UNCHANGED lease /\ Goto(d, "retry")
       \/ takeoverMatches(d) /\ lease' = None /\ Goto(d, "retry")
       \/ /\ lease # None
          /\ ~takeoverMatches(d)
          /\ UNCHANGED lease
          /\ Goto(d, "dropped")
       \/ /\ d \in faulty
          /\ \/ UNCHANGED lease
             \/ takeoverMatches(d) /\ lease' = None
          /\ Goto(d, "dropped")
    /\ seen' = [seen EXCEPT ![d] = None]
    /\ UNCHANGED <<timer, missed, copy, faulty>>

\* The second Create: only its success admits the delivery.
CreateAgain(d) ==
    /\ pc[d] = "retry"
    /\ \/ lease = None /\ lease' = buildLease(d) /\ Goto(d, "admitted")
       \/ lease # None /\ UNCHANGED lease /\ Goto(d, "dropped")
       \/ d \in faulty /\ UNCHANGED lease /\ Goto(d, "dropped")
       \/ d \in faulty /\ lease = None /\ lease' = buildLease(d) /\ Goto(d, "leaked")
    /\ UNCHANGED <<seen, timer, missed, copy, faulty>>

-----------------------------------------------------------------------------
(* The job: submitted, picked up by a worker, renewed, released.           *)

\* Submit succeeds (202), or the pool is full or closed (503 and a rollback).
Submit(d) ==
    /\ pc[d] = "admitted"
    /\ Goto(d, "queued") \/ Goto(d, "rollback")
    /\ UNCHANGED <<lease, seen, timer, missed, copy, faulty>>

\* A worker picks the job up; the renewal ticker starts only now.
Start(d) ==
    /\ pc[d] = "queued"
    /\ Goto(d, "running")
    /\ timer' = [timer EXCEPT ![d] = 0]
    /\ UNCHANGED <<lease, seen, missed, copy, faulty>>

\* The ticker fires: Renew Gets the lease, whoever's it is by now.
RenewGet(d) ==
    /\ pc[d] = "running"
    /\ copy[d] = None
    /\ timer[d] = Interval
    /\ timer' = [timer EXCEPT ![d] = 0]
    /\ \/ /\ lease # None
          /\ copy' = [copy EXCEPT ![d] = lease.uid]
          /\ UNCHANGED missed
       \/ lease = None /\ UNCHANGED <<copy, missed>>
       \/ /\ missed[d] < MaxMissed
          /\ missed' = [missed EXCEPT ![d] = @ + 1]
          /\ UNCHANGED copy
    /\ UNCHANGED <<lease, pc, seen, faulty>>

\* Mutation: a renewal that finds the lease gone creates it anew.
RenewUpdate_upsert(d) ==
    /\ copy[d] # None
    /\ lease' = buildLease(IF copy[d] = Stale THEN d ELSE copy[d])
    /\ copy' = [copy EXCEPT ![d] = None]
    /\ UNCHANGED <<pc, seen, timer, missed, faulty>>

\* Mutation: the Update leaves renewTime as it was.
RenewUpdate_idle(d) ==
    /\ copy[d] # None
    /\ copy' = [copy EXCEPT ![d] = None]
    /\ UNCHANGED <<lease, pc, seen, timer, missed, faulty>>

\* The Update carries the resourceVersion the Get read: it refreshes that
\* object or answers NotFound / Conflict.  A request already sent may land
\* after the handler returned and cancelled the renewal's context.
RenewUpdate(d) ==
    /\ copy[d] # None
    /\ \/ /\ lease # None
          /\ lease.uid = copy[d]
          /\ lease' = [uid |-> lease.uid, age |-> 0]
          /\ missed' = [missed EXCEPT ![d] = 0]
          /\ copy' = [e \in Delivery |->
                        IF e = d THEN None
                        ELSE IF copy[e] = lease.uid THEN Stale ELSE copy[e]]
       \/ /\ lease = None \/ (lease # None /\ lease.uid # copy[d])
          /\ copy' = [copy EXCEPT ![d] = None]
          /\ UNCHANGED <<lease, missed>>
       \/ /\ missed[d] < MaxMissed
          /\ missed' = [missed EXCEPT ![d] = @ + 1]
          /\ copy' = [copy EXCEPT ![d] = None]
          /\ UNCHANGED lease
    /\ UNCHANGED <<pc, seen, timer, faulty>>

\* HandleJob returns, fails or panics: cancelRenew runs, then ReleaseDedup.
\* The pending Update is dropped unless the request was already on its way.
Finish(d) ==
    /\ pc[d] = "running"
    /\ Goto(d, "releasing")
    /\ copy' \in {copy, [copy EXCEPT ![d] = None]}
    /\ UNCHANGED <<lease, seen, timer, missed, faulty>>

\* Forget: Delete by name with NO precondition, after a failed Submit or at
\* the end of the job.  It removes whichever lease is there.
Forget(d) ==
    /\ pc[d] \in Releasing
    /\ \/ /\ lease' = None
          /\ Goto(d, IF pc[d] = "rollback" THEN "refused" ELSE "done")
       \/ d \in faulty /\ lease' \in {lease, None} /\ Goto(d, "leaked")
    /\ UNCHANGED <<seen, timer, missed, copy, faulty>>

-----------------------------------------------------------------------------
(* The world: pods die, time passes.                                       *)

\* The pod dies (kill, OOM, rollout past its drain budget).
Crash(d) ==
    /\ pc[d] \notin Ended \cup {"new"}
    /\ Goto(d, "crashed")
    /\ copy' = [copy EXCEPT ![d] = None]
    /\ seen' = [seen EXCEPT ![d] = None]
    /\ UNCHANGED <<lease, timer, missed, faulty>>

\* Mutation: a lease does not grow older by the clock.
aged_never(l) == l

\* A stale lease stays stale: its age stops at Duration.
aged(l) == IF leaseExpired(l) THEN l ELSE [uid |-> l.uid, age |-> l.age + 1]

\* What is assumed of the scheduler and the API server: a job waits at most
\* MaxWait ticks, a due renewal and a Forget are over before the next tick.
Punctual(d) ==
    /\ pc[d] \in Waiting => timer[d] < MaxWait
    /\ pc[d] = "running" => timer[d] < Interval /\ copy[d] = None
    /\ pc[d] \notin Releasing

Tick ==
    /\ \A d \in Delivery : Punctual(d)
    /\ lease' = IF lease = None THEN None ELSE aged(lease)
    /\ timer' = [d \in Delivery |->
                    IF pc[d] \in Holding THEN timer[d] + 1 ELSE timer[d]]
    /\ UNCHANGED <<pc, seen, missed, copy, faulty>>

-----------------------------------------------------------------------------
Init ==
    /\ faulty \in Faults
    /\ lease = None
    /\ pc = [d \in Delivery |-> "new"]
    /\ seen = [d \in Delivery |-> None]
    /\ timer = [d \in Delivery |-> 0]
    /\ missed = [d \in Delivery |-> 0]
    /\ copy = [d \in Delivery |-> None]

SeenRecently(d) == Create(d) \/ Get(d) \/ TakeOver(d) \/ CreateAgain(d)
Job(d) == Submit(d) \/ Start(d) \/ Finish(d) \/ Forget(d)
Renew(d) == RenewGet(d) \/ RenewUpdate(d)

Next == \/ Tick
        \/ \E d \in Delivery : SeenRecently(d) \/ Job(d) \/ Renew(d) \/ Crash(d)

Spec == Init /\ [][Next]_vars

\* A handler that runs goes on, a job's review ends, and time passes.
\* Nothing says that deliveries arrive or that pods die.
Fairness ==
    /\ WF_vars(Tick)
    /\ \A d \in Delivery :
        /\ WF_vars((Get(d) \/ TakeOver(d) \/ CreateAgain(d)))
        /\ WF_vars(Job(d))
        /\ WF_vars(Renew(d))

FairSpec == Spec /\ Fairness

-----------------------------------------------------------------------------
(* Properties.                                                             *)

TypeOK ==
    /\ lease \in Lease \cup {None}
    /\ pc \in [Delivery -> Stage]
    /\ seen \in [Delivery -> Delivery \cup {None}]
    /\ timer \in [Delivery -> 0..(MaxWait + Interval)]
    /\ missed \in [Delivery -> 0..MaxMissed]
    /\ copy \in [Delivery -> Delivery \cup {None, Stale}]
    /\ faulty \subseteq Delivery

\* The durations under which the lease excludes: even a job that waited MaxWait
\* and then missed MaxMissed renewals in a row refreshes its lease in time.
Timing == MaxWait + Interval * (MaxMissed + 1) < Duration

\* While the calls that decide succeed, no two deliveries for a pull request are
\* both past SeenRecently and not yet through: duplicate reviews are what
\* dedup_lease.go exists to prevent.
OneReviewAtATime ==
    faulty = {} =>
      \A d, e \in Delivery : pc[d] \in Holding /\ pc[e] \in Holding => d = e

\* A lease stands only for a job that still has to delete it, or for one whose
\* pod died or whose call failed: a late renewal or a rolled back submission
\* never leaves one behind (dedup_lease.go: Update cannot recreate).
NoOrphanLease ==
    lease # None => pc[lease.uid] \in Holding \cup Releasing \cup {"crashed", "leaked"}

\* While those calls succeed, the dedup implements the slot it stands for.
Slot == INSTANCE PullRequestSlot WITH
            active <- IF faulty # {} THEN {} ELSE At(Holding),
            slot <- IF faulty # {} \/ lease = None THEN None ELSE lease.uid

Implements == Slot!Spec

\* A crashed pod's lease does not block the pull request for ever: it goes or
\* becomes stale, so that the next delivery takes it over.
CrashedLeaseLapses ==
    \A d \in Delivery :
        pc[d] = "crashed" ~> (lease = None \/ lease.uid # d \/ leaseExpired(lease))

-----------------------------------------------------------------------------
(* What the comments say and the code does not do.                         *)

\* The takeover of e removes the lease in this step.
TakenOverBy(e) == pc[e] = "takeover" /\ pc'[e] # "takeover" /\ lease # None /\ lease' = None

\* dedup_lease.go:300: "a renewer that just refreshed it cannot lose its work
\* to our cleanup".
TakeoverSparesRenewed ==
    [][\A e \in Delivery : TakenOverBy(e) => leaseExpired(lease)]_vars
=============================================================================
