------------------------------- MODULE ServePod -------------------------------
(***************************************************************************)
(* One pod of `code-guru serve`: the webhook handlers that deduplicate and *)
(* submit, the bounded worker pool (webhooks/worker.go), the set of keys   *)
(* the dispatcher knows to be in flight (webhooks/dispatcher.go) and the   *)
(* shutdown sequence of serve_controller.go, which must leave no Lease     *)
(* behind.  The Leases themselves are a map from key to owner; what        *)
(* happens between pods is DedupLease's subject.                           *)
(***************************************************************************)
EXTENDS Naturals, Sequences, FiniteSets

CONSTANTS
    Delivery,   \* the webhook requests this pod receives
    Key,        \* the pull requests
    keyOf,      \* the pull request of each delivery
    Worker,     \* the goroutines of the pool
    QueueSize,  \* the capacity of its channel
    None

ASSUME PodAssumption ==
    /\ keyOf \in [Delivery -> Key]
    /\ Worker # {}
    /\ QueueSize \in Nat \ {0}
    /\ None \notin Delivery

VARIABLES
    pc,        \* where each delivery is
    lease,     \* the dedup record of each key: its owner, or None
    inFlight,  \* Dispatcher.inFlight
    queue,     \* Pool.queue
    worker,    \* the job each worker handles, or None
    phase,     \* how far shutdown has come
    expired,   \* whether shutdownCtx has expired (the 90 s drain budget)
    doomed,    \* the keys ReleaseAllInFlight has yet to Forget
    lapsed     \* whether a record has aged out under its job (history)

vars == <<pc, lease, inFlight, queue, worker, phase, expired, doomed, lapsed>>

\* pool.Shutdown closes the queue when it begins, and cancels the base
\* context every job runs under when it returns.
Phase     == {"serving", "http", "pool", "cancelled", "release", "exited"}
closed    == phase \in {"pool", "cancelled", "release", "exited"}
cancelled == phase \in {"cancelled", "release", "exited"}
alive     == phase # "exited"

\* "acquired": dedupSeen has the record but has not tracked the key yet;
\* "rejected": Submit failed; "rolling": and the key is untracked; "returned"
\* and "untracked": the job's handler returned, then ReleaseDedup untracked.
Handling == {"open", "acquired", "tracked", "rejected", "rolling"}
Working  == {"running", "returned", "untracked"}
Ended    == {"dropped", "refused", "done", "cut"}
Stage    == {"new", "queued"} \cup Handling \cup Working \cup Ended

Goto(d, s) == pc' = [pc EXCEPT ![d] = s]

-----------------------------------------------------------------------------
(* The webhook handlers: dedupSeen, trackInFlight, Submit, roll back.      *)

\* A request comes in; server.Shutdown accepts no more of them.
Arrive(d) ==
    /\ phase = "serving"
    /\ pc[d] = "new"
    /\ Goto(d, "open")
    /\ UNCHANGED <<lease, inFlight, queue, worker, phase, expired, doomed, lapsed>>

\* SeenRecently: the record is taken, or the delivery is a duplicate.
SeenRecently(d) ==
    /\ alive
    /\ pc[d] = "open"
    /\ IF lease[keyOf[d]] = None
       THEN lease' = [lease EXCEPT ![keyOf[d]] = d] /\ Goto(d, "acquired")
       ELSE UNCHANGED lease /\ Goto(d, "dropped")
    /\ UNCHANGED <<inFlight, queue, worker, phase, expired, doomed, lapsed>>

trackInFlight(d) ==
    /\ alive
    /\ pc[d] = "acquired"
    /\ inFlight' = inFlight \cup {keyOf[d]}
    /\ Goto(d, "tracked")
    /\ UNCHANGED <<lease, queue, worker, phase, expired, doomed, lapsed>>

\* Submit, under the pool's mutex: never blocks; a closed or full pool is an
\* error, which the handler rolls back.
Submit(d) ==
    /\ alive
    /\ pc[d] = "tracked"
    /\ IF ~closed /\ Len(queue) < QueueSize
       THEN queue' = Append(queue, d) /\ Goto(d, "queued")
       ELSE UNCHANGED queue /\ Goto(d, "rejected")
    /\ UNCHANGED <<lease, inFlight, worker, phase, expired, doomed, lapsed>>

\* dedupForget after a failed Submit, first half: the key is untracked.
untrackInFlight(d) ==
    /\ alive
    /\ pc[d] = "rejected"
    /\ inFlight' = inFlight \ {keyOf[d]}
    /\ Goto(d, "rolling")
    /\ UNCHANGED <<lease, queue, worker, phase, expired, doomed, lapsed>>

\* Mutation: a failed Submit keeps the record.
RollBack_keep(d) ==
    /\ alive
    /\ pc[d] = "rolling"
    /\ Goto(d, "refused")
    /\ UNCHANGED <<lease, inFlight, queue, worker, phase, expired, doomed, lapsed>>

\* Second half: Forget, under the request's own context.
RollBack(d) ==
    /\ alive
    /\ pc[d] = "rolling"
    /\ lease' = [lease EXCEPT ![keyOf[d]] = None]
    /\ Goto(d, "refused")
    /\ UNCHANGED <<inFlight, queue, worker, phase, expired, doomed, lapsed>>

-----------------------------------------------------------------------------
(* The workers, which drain the closed queue too.                          *)

Take(w) ==
    /\ alive
    /\ worker[w] = None
    /\ queue # <<>>
    /\ worker' = [worker EXCEPT ![w] = Head(queue)]
    /\ queue' = Tail(queue)
    /\ Goto(Head(queue), "running")
    /\ UNCHANGED <<lease, inFlight, phase, expired, doomed, lapsed>>

\* HandleJob returns, with or without an error, or panics: the deferred calls
\* run in any case, and handle recovers.
Return(w) ==
    /\ alive
    /\ worker[w] # None
    /\ pc[worker[w]] = "running"
    /\ Goto(worker[w], "returned")
    /\ UNCHANGED <<lease, inFlight, queue, worker, phase, expired, doomed, lapsed>>

\* ReleaseDedup, first half: the key is untracked before it is forgotten.
Untrack(w) ==
    /\ alive
    /\ worker[w] # None
    /\ pc[worker[w]] = "returned"
    /\ inFlight' = inFlight \ {keyOf[worker[w]]}
    /\ Goto(worker[w], "untracked")
    /\ UNCHANGED <<lease, queue, worker, phase, expired, doomed, lapsed>>

\* Mutation: a panic is not recovered, its worker is gone.
Release_panics(w) ==
    /\ alive
    /\ worker[w] # None
    /\ pc[worker[w]] = "untracked"
    /\ lease' = [lease EXCEPT ![keyOf[worker[w]]] = None]
    /\ Goto(worker[w], "done")
    /\ UNCHANGED <<inFlight, queue, worker, phase, expired, doomed, lapsed>>

\* ReleaseDedup, second half: Forget under the job's context.  Once that is
\* cancelled the Delete fails, and the review was cut short too.
Release(w) ==
    /\ alive
    /\ worker[w] # None
    /\ pc[worker[w]] = "untracked"
    /\ IF cancelled
       THEN UNCHANGED lease /\ Goto(worker[w], "cut")
       ELSE lease' = [lease EXCEPT ![keyOf[worker[w]]] = None] /\ Goto(worker[w], "done")
    /\ worker' = [worker EXCEPT ![w] = None]
    /\ UNCHANGED <<inFlight, queue, phase, expired, doomed, lapsed>>

\* The record ages out under a job in progress: the in-memory TTL, or another
\* pod's takeover of a Lease that was not renewed in time.
Lapse(k) ==
    /\ lease[k] # None
    /\ lease' = [lease EXCEPT ![k] = None]
    /\ lapsed' = TRUE
    /\ UNCHANGED <<pc, inFlight, queue, worker, phase, expired, doomed>>

-----------------------------------------------------------------------------
(* Shutdown: HTTP server, pool, remaining records, exit.                   *)

\* SIGTERM: shutdownCtx starts, server.Shutdown closes the listener.
Signal ==
    /\ phase = "serving"
    /\ phase' = "http"
    /\ UNCHANGED <<pc, lease, inFlight, queue, worker, expired, doomed, lapsed>>

\* The drain budget runs out.
Expire ==
    /\ phase \in {"http", "pool"}
    /\ ~expired
    /\ expired' = TRUE
    /\ UNCHANGED <<pc, lease, inFlight, queue, worker, phase, doomed, lapsed>>

\* server.Shutdown returns once its requests are through, or on expiry with
\* handlers still at work; pool.Shutdown then closes the queue.
ClosePool ==
    /\ phase = "http"
    /\ expired \/ \A d \in Delivery : pc[d] \notin Handling
    /\ phase' = "pool"
    /\ UNCHANGED <<pc, lease, inFlight, queue, worker, expired, doomed, lapsed>>

\* Mutation: the pool does not wait for its workers.
Drained_eager == TRUE

\* Every worker has left its loop: the queue is empty and nobody works.
Drained == queue = <<>> /\ \A w \in Worker : worker[w] = None

\* Mutation: pool.Shutdown waits for the workers, whatever its context says.
PoolReturns_patient ==
    /\ phase = "pool"
    /\ Drained
    /\ phase' = "cancelled"
    /\ UNCHANGED <<pc, lease, inFlight, queue, worker, expired, doomed, lapsed>>

\* pool.Shutdown returns, drained or expired; its deferred cancelBase runs.
PoolReturns ==
    /\ phase = "pool"
    /\ Drained \/ expired
    /\ phase' = "cancelled"
    /\ UNCHANGED <<pc, lease, inFlight, queue, worker, expired, doomed, lapsed>>

\* ReleaseAllInFlight takes the set over under its lock ...
ReleaseAllInFlight ==
    /\ phase = "cancelled"
    /\ phase' = "release"
    /\ doomed' = inFlight
    /\ inFlight' = {}
    /\ UNCHANGED <<pc, lease, queue, worker, expired, lapsed>>

\* ... and Forgets its keys one by one, under a context of its own.
ForgetInFlight(k) ==
    /\ phase = "release"
    /\ k \in doomed
    /\ doomed' = doomed \ {k}
    /\ lease' = [lease EXCEPT ![k] = None]
    /\ UNCHANGED <<pc, inFlight, queue, worker, phase, expired, lapsed>>

\* The process exits with whatever its goroutines were doing.
Exit ==
    /\ phase = "release"
    /\ doomed = {}
    /\ phase' = "exited"
    /\ UNCHANGED <<pc, lease, inFlight, queue, worker, expired, doomed, lapsed>>

-----------------------------------------------------------------------------
Init ==
    /\ pc = [d \in Delivery |-> "new"]
    /\ lease = [k \in Key |-> None]
    /\ inFlight = {}
    /\ queue = <<>>
    /\ worker = [w \in Worker |-> None]
    /\ phase = "serving"
    /\ expired = FALSE
    /\ doomed = {}
    /\ lapsed = FALSE

Handle(d) == SeenRecently(d) \/ trackInFlight(d) \/ Submit(d) \/ untrackInFlight(d) \/ RollBack(d)
Shutdown  == ClosePool \/ PoolReturns \/ ReleaseAllInFlight
                \/ (\E k \in Key : ForgetInFlight(k)) \/ Exit

Next ==
    \/ \E d \in Delivery : Arrive(d) \/ Handle(d)
    \/ \E w \in Worker : Take(w) \/ Return(w) \/ Untrack(w) \/ Release(w)
    \/ \E k \in Key : Lapse(k)
    \/ Signal
    \/ Expire
    \/ Shutdown

Spec == Init /\ [][Next]_vars

\* Goroutines that can go on do, and the drain budget runs out.  A review may
\* hang: only the cancelled context makes it return.
ShutdownFairness ==
    /\ \A d \in Delivery : WF_vars(Handle(d))
    /\ \A w \in Worker : WF_vars(Take(w)) /\ WF_vars(Untrack(w) \/ Release(w))
    /\ WF_vars(Expire)
    /\ WF_vars(Shutdown)

\* Reviews end, so that a queued job is reached.
ReviewsEnd == \A w \in Worker : WF_vars(Return(w))

FairSpec == Spec /\ ShutdownFairness

-----------------------------------------------------------------------------
(* Properties.                                                             *)

TypeOK ==
    /\ pc \in [Delivery -> Stage]
    /\ lease \in [Key -> Delivery \cup {None}]
    /\ inFlight \subseteq Key
    /\ queue \in Seq(Delivery)
    /\ Len(queue) <= QueueSize
    /\ worker \in [Worker -> Delivery \cup {None}]
    /\ phase \in Phase
    /\ expired \in BOOLEAN
    /\ doomed \subseteq Key
    /\ lapsed \in BOOLEAN

\* A shutdown within its budget loses nothing: when the pod exits, every
\* accepted delivery was handled to its end and no record is left behind.
CleanDrain ==
    phase = "exited" /\ ~expired =>
        /\ \A d \in Delivery : pc[d] \in {"new", "dropped", "refused", "done"}
        /\ \A k \in Key : lease[k] = None

\* A record has a job that will remove it, unless the drain budget cut that
\* job: neither a refused delivery nor a finished one leaves its own behind.
RecordHasJob ==
    \A k \in Key : lease[k] # None =>
        /\ keyOf[lease[k]] = k
        /\ pc[lease[k]] \notin {"new", "dropped", "refused", "done"}
        /\ pc[lease[k]] = "cut" => expired

\* While the pod serves or drains, the shutdown knows the key of every job
\* that is waiting or at work (as long as no record has aged out).
InFlightKnown ==
    ~lapsed => \A d \in Delivery :
        pc[d] \in {"queued", "running"} /\ ~(phase \in {"release", "exited"}) =>
            keyOf[d] \in inFlight

\* If reviews end, every job that was accepted is handled, unless the process
\* exits first.
AcceptedIsHandled ==
    ReviewsEnd => \A d \in Delivery :
        pc[d] = "queued" ~> (pc[d] \in {"done", "cut"} \/ phase = "exited")

\* A shutdown ends even when a review hangs.
ShutdownEnds == phase = "http" ~> phase = "exited"

-----------------------------------------------------------------------------
(* What the comments say and the code does not do.                         *)

\* dispatcher.go:57-59: "a SIGTERM-time ReleaseAllInFlight walks the set so
\* leases for jobs the drain timeout cancelled are explicitly released instead
\* of orphaned in etcd".
NoLeaseOrphanedOnExit ==
    phase = "exited" =>
        \A k \in Key : lease[k] # None => pc[lease[k]] \notin {"queued", "cut"} \cup Working
=============================================================================
