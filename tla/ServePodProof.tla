---------------------------- MODULE ServePodProof ----------------------------
(***************************************************************************)
(* What ServePod claims of records, for any deliveries, workers and queue: *)
(* a record has a job that will remove it, a drain within its budget       *)
(* leaves nothing, and the shutdown knows the keys of what it may cut      *)
(* short.  Liveness stays with TLC.                                        *)
(***************************************************************************)
EXTENDS ServePod, SequenceTheorems, TLAPS

\* The queue holds just the queued jobs, each once.
QueueTrue ==
    /\ \A i \in 1..Len(queue) : pc[queue[i]] = "queued"
    /\ \A i, j \in 1..Len(queue) : queue[i] = queue[j] => i = j
    /\ \A d \in Delivery : pc[d] = "queued" => \E i \in 1..Len(queue) : queue[i] = d

\* The workers have just the jobs at work, each one of its own.
WorkersTrue ==
    /\ \A w \in Worker : worker[w] # None => pc[worker[w]] \in Working
    /\ \A v, w \in Worker : worker[v] = worker[w] /\ worker[v] # None => v = w
    /\ \A d \in Delivery : pc[d] \in Working => \E w \in Worker : worker[w] = d

\* Within the budget no handler is at work when the queue closes, and no
\* worker when the context is cancelled.
InTime ==
    /\ closed /\ ~expired => \A d \in Delivery : pc[d] \notin Handling
    /\ cancelled /\ ~expired => Drained
    /\ \A d \in Delivery : pc[d] = "cut" => expired

\* Whoever has passed the gate has the record, and its key is tracked.
Held  == {"acquired", "tracked", "rejected", "rolling", "queued"} \cup Working
Known == {"tracked", "rejected", "queued", "running", "returned"}
Owned ==
    ~lapsed /\ phase \notin {"release", "exited"} =>
        \A d \in Delivery :
            /\ pc[d] \in Held => lease[keyOf[d]] = d
            /\ pc[d] \in Known => keyOf[d] \in inFlight

\* A record belongs to a delivery that has passed the gate.
RecordHeld ==
    \A k \in Key : lease[k] # None =>
        /\ keyOf[lease[k]] = k
        /\ pc[lease[k]] \notin {"new", "open", "dropped", "refused", "done"}
        /\ pc[lease[k]] = "cut" => expired

IInv == TypeOK /\ QueueTrue /\ WorkersTrue /\ InTime /\ RecordHeld /\ Owned

-----------------------------------------------------------------------------
(* Initially, and the steps that only the types need a look at.            *)

LEMMA Initial == Init => IInv
<1>1. SUFFICES ASSUME Init PROVE IInv
  OBVIOUS
<1>2. TypeOK
  <2>1. queue \in Seq(Delivery) /\ Len(queue) <= QueueSize
    BY <1>1, PodAssumption DEF Init
  <2>2. pc \in [Delivery -> Stage] /\ phase \in Phase
    BY <1>1 DEF Init, Stage, Phase
  <2>3. QED
    BY <1>1, <2>1, <2>2 DEF Init, TypeOK
<1>3. QueueTrue /\ WorkersTrue
  BY <1>1 DEF Init, QueueTrue, WorkersTrue, Working
<1>4. InTime /\ Owned
  BY <1>1 DEF Init, InTime, Owned, Handling, Held, Known, Working, closed, cancelled
<1>5. RecordHeld
  BY <1>1 DEF Init, RecordHeld
<1>6. QED
  BY <1>2, <1>3, <1>4, <1>5 DEF IInv

LEMMA Stays == ASSUME IInv, UNCHANGED vars PROVE IInv'
<1>1. TypeOK' /\ QueueTrue' /\ WorkersTrue'
  BY DEF IInv, TypeOK, QueueTrue, WorkersTrue, vars
<1>2. InTime'
  BY DEF IInv, InTime, Drained, closed, cancelled, vars
<1>3. RecordHeld' /\ Owned'
  BY DEF IInv, RecordHeld, Owned, vars
<1>4. QED
  BY <1>1, <1>2, <1>3 DEF IInv

-----------------------------------------------------------------------------
(* The handlers.                                                           *)

\* A delivery that is neither queued nor at work, before and after, leaves
\* queue and workers as they are.
LEMMA HandlerFrame ==
    ASSUME IInv, NEW d \in Delivery, NEW s \in Stage \ ({"queued"} \cup Working),
           pc[d] \notin {"queued"} \cup Working, Goto(d, s), UNCHANGED <<queue, worker>>
    PROVE  /\ pc' \in [Delivery -> Stage] /\ pc'[d] = s
           /\ \A e \in Delivery \ {d} : pc'[e] = pc[e]
           /\ QueueTrue' /\ WorkersTrue'
<1>1. /\ pc' \in [Delivery -> Stage] /\ pc'[d] = s
      /\ \A e \in Delivery \ {d} : pc'[e] = pc[e]
  BY DEF IInv, TypeOK, Goto
<1>2. QueueTrue'
  BY <1>1 DEF IInv, TypeOK, QueueTrue
<1>3. WorkersTrue'
  BY <1>1, PodAssumption DEF IInv, TypeOK, WorkersTrue
<1>4. QED
  BY <1>1, <1>2, <1>3

LEMMA ArriveKeeps == ASSUME IInv, NEW d \in Delivery, Arrive(d) PROVE IInv'
<1>1. /\ pc' \in [Delivery -> Stage] /\ pc'[d] = "open"
      /\ \A e \in Delivery \ {d} : pc'[e] = pc[e]
      /\ QueueTrue' /\ WorkersTrue'
  BY HandlerFrame DEF Arrive, Stage, Handling, Working, Ended
<1>2. TypeOK'
  BY <1>1 DEF IInv, TypeOK, Arrive
<1>3. InTime'
  BY <1>1 DEF IInv, InTime, Arrive, Drained, closed, cancelled
<1>4. RecordHeld'
  BY <1>1 DEF IInv, TypeOK, RecordHeld, Arrive
<1>5. Owned'
  BY <1>1 DEF IInv, Owned, Arrive, Held, Known, Working
<1>6. QED
  BY <1>1, <1>2, <1>3, <1>4, <1>5 DEF IInv

LEMMA SeenRecentlyKeeps == ASSUME IInv, NEW d \in Delivery, SeenRecently(d) PROVE IInv'
<1>1. PICK s \in {"acquired", "dropped"} :
        /\ Goto(d, s)
        /\ s = "acquired" => lease[keyOf[d]] = None /\ lease' = [lease EXCEPT ![keyOf[d]] = d]
        /\ s = "dropped" => lease' = lease
  BY DEF SeenRecently
<1>2. /\ pc' \in [Delivery -> Stage] /\ pc'[d] = s
      /\ \A e \in Delivery \ {d} : pc'[e] = pc[e]
      /\ QueueTrue' /\ WorkersTrue'
  BY <1>1, HandlerFrame DEF SeenRecently, Stage, Handling, Working, Ended
<1>3. TypeOK'
  BY <1>1, <1>2, PodAssumption DEF IInv, TypeOK, SeenRecently
<1>4. InTime'
  BY <1>1, <1>2 DEF IInv, InTime, SeenRecently, Drained, closed, cancelled, Handling
<1>5. RecordHeld'
  <2> SUFFICES ASSUME NEW k \in Key, lease'[k] # None
               PROVE  /\ keyOf[lease'[k]] = k
                      /\ pc'[lease'[k]] \notin {"new", "open", "dropped", "refused", "done"}
                      /\ pc'[lease'[k]] = "cut" => expired'
    BY DEF RecordHeld
  <2>1. CASE s = "acquired" /\ k = keyOf[d]
    BY <1>1, <1>2, <2>1 DEF IInv, TypeOK
  <2>2. CASE ~(s = "acquired" /\ k = keyOf[d])
    <3>1. lease'[k] = lease[k] /\ lease[k] # None /\ lease[k] \in Delivery
      BY <1>1, <2>2 DEF IInv, TypeOK
    <3>2. pc[d] = "open" /\ expired' = expired
      BY DEF SeenRecently
    <3>3. CASE lease[k] = d
      BY <3>1, <3>2, <3>3 DEF IInv, RecordHeld
    <3>4. CASE lease[k] # d
      BY <1>2, <3>1, <3>2, <3>4 DEF IInv, RecordHeld
    <3>5. QED
      BY <3>3, <3>4
  <2>3. QED
    BY <2>1, <2>2
<1>6. Owned'
  BY <1>1, <1>2, PodAssumption DEF IInv, TypeOK, Owned, SeenRecently, Held, Known, Working
<1>7. QED
  BY <1>2, <1>3, <1>4, <1>5, <1>6 DEF IInv

LEMMA trackInFlightKeeps == ASSUME IInv, NEW d \in Delivery, trackInFlight(d) PROVE IInv'
<1>1. /\ pc' \in [Delivery -> Stage] /\ pc'[d] = "tracked"
      /\ \A e \in Delivery \ {d} : pc'[e] = pc[e]
      /\ QueueTrue' /\ WorkersTrue'
  BY HandlerFrame DEF trackInFlight, Stage, Handling, Working, Ended
<1>2. TypeOK'
  BY <1>1, PodAssumption DEF IInv, TypeOK, trackInFlight
<1>3. InTime'
  BY <1>1 DEF IInv, InTime, trackInFlight, Drained, closed, cancelled, Handling
<1>4. RecordHeld'
  BY <1>1 DEF IInv, TypeOK, RecordHeld, trackInFlight
<1>5. Owned'
  BY <1>1 DEF IInv, Owned, trackInFlight, Held, Known, Working
<1>6. QED
  BY <1>1, <1>2, <1>3, <1>4, <1>5 DEF IInv

LEMMA RollBackKeeps == ASSUME IInv, NEW d \in Delivery, RollBack(d) PROVE IInv'
<1>1. /\ pc' \in [Delivery -> Stage] /\ pc'[d] = "refused"
      /\ \A e \in Delivery \ {d} : pc'[e] = pc[e]
      /\ QueueTrue' /\ WorkersTrue'
  BY HandlerFrame DEF RollBack, Stage, Handling, Working, Ended
<1>2. TypeOK'
  BY <1>1, PodAssumption DEF IInv, TypeOK, RollBack
<1>3. InTime'
  BY <1>1 DEF IInv, InTime, RollBack, Drained, closed, cancelled, Handling
<1>4. RecordHeld'
  BY <1>1, PodAssumption DEF IInv, TypeOK, RecordHeld, RollBack
<1>5. Owned'
  BY <1>1, PodAssumption DEF IInv, TypeOK, Owned, RollBack, Held, Known, Working
<1>6. QED
  BY <1>1, <1>2, <1>3, <1>4, <1>5 DEF IInv

LEMMA untrackInFlightKeeps == ASSUME IInv, NEW d \in Delivery, untrackInFlight(d) PROVE IInv'
<1>1. /\ pc' \in [Delivery -> Stage] /\ pc'[d] = "rolling"
      /\ \A e \in Delivery \ {d} : pc'[e] = pc[e]
      /\ QueueTrue' /\ WorkersTrue'
  BY HandlerFrame DEF untrackInFlight, Stage, Handling, Working, Ended
<1>2. TypeOK'
  BY <1>1, PodAssumption DEF IInv, TypeOK, untrackInFlight
<1>3. InTime'
  BY <1>1 DEF IInv, InTime, untrackInFlight, Drained, closed, cancelled, Handling
<1>4. RecordHeld'
  BY <1>1, PodAssumption DEF IInv, TypeOK, RecordHeld, untrackInFlight
<1>5. Owned'
  BY <1>1, PodAssumption DEF IInv, TypeOK, Owned, untrackInFlight, Held, Known, Working
<1>6. QED
  BY <1>1, <1>2, <1>3, <1>4, <1>5 DEF IInv

\* Submit that fails moves within the handler; one that succeeds appends.
LEMMA SubmitKeeps == ASSUME IInv, NEW d \in Delivery, Submit(d) PROVE IInv'
<1>1. CASE ~(~closed /\ Len(queue) < QueueSize)
  <2>1. /\ pc' \in [Delivery -> Stage] /\ pc'[d] = "rejected"
        /\ \A e \in Delivery \ {d} : pc'[e] = pc[e]
        /\ QueueTrue' /\ WorkersTrue'
    BY <1>1, HandlerFrame DEF Submit, Stage, Handling, Working, Ended
  <2>2. TypeOK'
    BY <1>1, <2>1 DEF IInv, TypeOK, Submit
  <2>3. InTime'
    BY <1>1, <2>1 DEF IInv, InTime, Submit, Drained, closed, cancelled, Handling
  <2>4. RecordHeld'
    BY <1>1, <2>1 DEF IInv, TypeOK, RecordHeld, Submit
  <2>5. Owned'
    BY <1>1, <2>1, PodAssumption DEF IInv, TypeOK, Owned, Submit, Held, Known, Working
  <2>6. QED
    BY <2>1, <2>2, <2>3, <2>4, <2>5 DEF IInv
<1>2. CASE ~closed /\ Len(queue) < QueueSize
  <2>1. /\ pc' \in [Delivery -> Stage] /\ pc[d] = "tracked" /\ pc'[d] = "queued"
        /\ \A e \in Delivery \ {d} : pc'[e] = pc[e]
        /\ queue' = Append(queue, d)
        /\ UNCHANGED <<lease, inFlight, worker, phase, expired, doomed, lapsed>>
    BY <1>2 DEF IInv, TypeOK, Submit, Goto, Stage
  <2>2. /\ queue' \in Seq(Delivery) /\ Len(queue') = Len(queue) + 1
        /\ queue'[Len(queue) + 1] = d
        /\ \A i \in 1..Len(queue) : queue'[i] = queue[i]
    BY <2>1 DEF IInv, TypeOK
  <2>3. TypeOK'
    BY <1>2, <2>1, <2>2, PodAssumption DEF IInv, TypeOK
  <2>4. QueueTrue'
    <3>1. \A i \in 1..Len(queue) : queue[i] \in Delivery /\ queue[i] # d
      BY <2>1 DEF IInv, TypeOK, QueueTrue
    <3>2. Len(queue) \in Nat /\ 1..Len(queue') = 1..Len(queue) \cup {Len(queue) + 1}
      BY <2>2 DEF IInv, TypeOK
    <3>3. \A i \in 1..Len(queue') : pc'[queue'[i]] = "queued"
      BY <2>1, <2>2, <3>1, <3>2 DEF IInv, QueueTrue
    <3>4. \A i, j \in 1..Len(queue') : queue'[i] = queue'[j] => i = j
      BY <2>2, <3>1, <3>2 DEF IInv, QueueTrue
    <3>5. \A e \in Delivery : pc'[e] = "queued" => \E i \in 1..Len(queue') : queue'[i] = e
      BY <2>1, <2>2, <3>2 DEF IInv, QueueTrue
    <3>6. QED
      BY <3>3, <3>4, <3>5 DEF QueueTrue
  <2>5. WorkersTrue'
    BY <2>1, PodAssumption DEF IInv, TypeOK, WorkersTrue, Working
  <2>6. InTime'
    BY <1>2, <2>1 DEF IInv, InTime, closed, cancelled
  <2>7. RecordHeld'
    BY <2>1 DEF IInv, TypeOK, RecordHeld
  <2>8. Owned'
    BY <2>1 DEF IInv, Owned, Held, Known, Working
  <2>9. QED
    BY <2>3, <2>4, <2>5, <2>6, <2>7, <2>8 DEF IInv
<1>3. QED
  BY <1>1, <1>2

-----------------------------------------------------------------------------
(* The workers.                                                            *)

LEMMA TakeKeeps == ASSUME IInv, NEW w \in Worker, Take(w) PROVE IInv'
<1> DEFINE d == Head(queue)
<1>1. /\ queue \in Seq(Delivery) /\ queue # <<>> /\ Len(queue) \in Nat \ {0}
      /\ d = queue[1] /\ d \in Delivery /\ pc[d] = "queued"
  BY EmptySeq DEF IInv, TypeOK, QueueTrue, Take
<1>2. /\ queue' = Tail(queue) /\ queue' \in Seq(Delivery) /\ Len(queue') = Len(queue) - 1
      /\ \A i \in 1..Len(queue') : queue'[i] = queue[i + 1]
  BY <1>1, HeadTailProperties DEF Take
<1>3. /\ pc' \in [Delivery -> Stage] /\ pc'[d] = "running"
      /\ \A e \in Delivery \ {d} : pc'[e] = pc[e]
      /\ worker[w] = None /\ worker' = [worker EXCEPT ![w] = d]
      /\ UNCHANGED <<lease, inFlight, phase, expired, doomed, lapsed>>
  BY <1>1 DEF IInv, TypeOK, Take, Goto, Stage, Working
<1> HIDE DEF d
<1>4. TypeOK'
  BY <1>1, <1>2, <1>3, PodAssumption DEF IInv, TypeOK
<1>5. QueueTrue'
  <2>1. \A i \in 1..Len(queue') : i + 1 \in 1..Len(queue) /\ queue[i + 1] \in Delivery \ {d}
    BY <1>1, <1>2 DEF IInv, QueueTrue
  <2>2. \A i \in 1..Len(queue') : pc'[queue'[i]] = "queued"
    BY <1>2, <1>3, <2>1 DEF IInv, QueueTrue
  <2>3. \A i, j \in 1..Len(queue') : queue'[i] = queue'[j] => i = j
    <3> SUFFICES ASSUME NEW i \in 1..Len(queue'), NEW j \in 1..Len(queue'), queue'[i] = queue'[j]
                 PROVE  i = j
      OBVIOUS
    <3>1. i + 1 = j + 1
      BY <1>2, <2>1 DEF IInv, QueueTrue
    <3>2. QED
      BY <3>1
  <2>4. ASSUME NEW e \in Delivery, pc'[e] = "queued"
        PROVE  \E i \in 1..Len(queue') : queue'[i] = e
    <3>1. e # d /\ pc[e] = "queued"
      BY <1>3, <2>4
    <3>2. PICK i \in 1..Len(queue) : queue[i] = e
      BY <3>1 DEF IInv, QueueTrue
    <3>3. i # 1
      BY <1>1, <3>1, <3>2
    <3>4. i - 1 \in 1..Len(queue') /\ queue'[i - 1] = queue[(i - 1) + 1] /\ (i - 1) + 1 = i
      BY <1>1, <1>2, <3>3
    <3>5. QED
      BY <3>2, <3>4
  <2>5. QED
    BY <2>2, <2>3, <2>4 DEF QueueTrue
<1>6. WorkersTrue'
  <2>1. worker'[w] = d /\ \A v \in Worker \ {w} : worker'[v] = worker[v]
    BY <1>3 DEF IInv, TypeOK
  <2>2. \A v \in Worker : worker[v] # None => worker[v] \in Delivery \ {d}
    BY <1>1 DEF IInv, TypeOK, WorkersTrue, Working
  <2>3. \A v \in Worker : worker'[v] # None => pc'[worker'[v]] \in Working
    BY <1>3, <2>1, <2>2 DEF IInv, WorkersTrue, Working
  <2>4. \A u, v \in Worker : worker'[u] = worker'[v] /\ worker'[u] # None => u = v
    BY <2>1, <2>2 DEF IInv, WorkersTrue
  <2>5. \A e \in Delivery : pc'[e] \in Working => \E v \in Worker : worker'[v] = e
    <3> SUFFICES ASSUME NEW e \in Delivery, e # d, pc[e] \in Working
                 PROVE  \E v \in Worker : worker'[v] = e
      BY <1>3, <2>1
    <3>1. PICK v \in Worker : worker[v] = e
      BY DEF IInv, WorkersTrue
    <3>2. v # w
      BY <1>3, <3>1, PodAssumption
    <3>3. QED
      BY <2>1, <3>1, <3>2
  <2>6. QED
    BY <2>3, <2>4, <2>5 DEF WorkersTrue
<1>7. InTime'
  BY <1>1, <1>3 DEF IInv, InTime, Drained, closed, cancelled, Handling
<1>8. RecordHeld'
  BY <1>1, <1>3 DEF IInv, TypeOK, RecordHeld
<1>9. Owned'
  BY <1>1, <1>3 DEF IInv, Owned, Held, Known, Working
<1>10. QED
  BY <1>4, <1>5, <1>6, <1>7, <1>8, <1>9 DEF IInv

\* A job that stays with its worker.
LEMMA WorkFrame ==
    ASSUME IInv, NEW w \in Worker, NEW s \in Working, worker[w] # None,
           Goto(worker[w], s), UNCHANGED <<queue, worker>>
    PROVE  /\ worker[w] \in Delivery /\ pc[worker[w]] \in Working
           /\ pc' \in [Delivery -> Stage] /\ pc'[worker[w]] = s
           /\ \A e \in Delivery \ {worker[w]} : pc'[e] = pc[e]
           /\ QueueTrue' /\ WorkersTrue'
<1>1. worker[w] \in Delivery /\ pc[worker[w]] \in Working
  BY DEF IInv, TypeOK, WorkersTrue
<1>2. /\ pc' \in [Delivery -> Stage] /\ pc'[worker[w]] = s
      /\ \A e \in Delivery \ {worker[w]} : pc'[e] = pc[e]
  BY <1>1 DEF IInv, TypeOK, Goto, Stage
<1>3. QueueTrue'
  BY <1>1, <1>2 DEF IInv, TypeOK, QueueTrue, Working
<1>4. WorkersTrue'
  BY <1>1, <1>2 DEF IInv, TypeOK, WorkersTrue
<1>5. QED
  BY <1>1, <1>2, <1>3, <1>4

LEMMA ReturnKeeps == ASSUME IInv, NEW w \in Worker, Return(w) PROVE IInv'
<1>1. /\ worker[w] \in Delivery /\ pc[worker[w]] \in Working
      /\ pc' \in [Delivery -> Stage] /\ pc'[worker[w]] = "returned"
      /\ \A e \in Delivery \ {worker[w]} : pc'[e] = pc[e]
      /\ QueueTrue' /\ WorkersTrue'
  BY WorkFrame DEF Return, Working
<1>2. TypeOK'
  BY <1>1 DEF IInv, TypeOK, Return
<1>3. InTime'
  BY <1>1 DEF IInv, InTime, Return, Drained, closed, cancelled, Handling
<1>4. RecordHeld'
  BY <1>1 DEF IInv, TypeOK, RecordHeld, Return
<1>5. Owned'
  BY <1>1 DEF IInv, Owned, Return, Held, Known, Working
<1>6. QED
  BY <1>1, <1>2, <1>3, <1>4, <1>5 DEF IInv

LEMMA UntrackKeeps == ASSUME IInv, NEW w \in Worker, Untrack(w) PROVE IInv'
<1>1. /\ worker[w] \in Delivery /\ pc[worker[w]] \in Working
      /\ pc' \in [Delivery -> Stage] /\ pc'[worker[w]] = "untracked"
      /\ \A e \in Delivery \ {worker[w]} : pc'[e] = pc[e]
      /\ QueueTrue' /\ WorkersTrue'
  BY WorkFrame DEF Untrack, Working
<1>2. TypeOK'
  BY <1>1 DEF IInv, TypeOK, Untrack
<1>3. InTime'
  BY <1>1 DEF IInv, InTime, Untrack, Drained, closed, cancelled, Handling
<1>4. RecordHeld'
  BY <1>1 DEF IInv, TypeOK, RecordHeld, Untrack
<1>5. Owned'
  BY <1>1, PodAssumption DEF IInv, TypeOK, Owned, Untrack, Held, Known, Working
<1>6. QED
  BY <1>1, <1>2, <1>3, <1>4, <1>5 DEF IInv

\* The job leaves its worker; it is only cut if the budget has run out, as
\* otherwise no worker would still be at work.
LEMMA ReleaseKeeps == ASSUME IInv, NEW w \in Worker, Release(w) PROVE IInv'
<1> DEFINE d == worker[w]
<1>1. d \in Delivery /\ pc[d] = "untracked" /\ keyOf[d] \in Key
  BY PodAssumption DEF IInv, TypeOK, Release
<1>2. PICK s \in {"cut", "done"} :
        /\ Goto(d, s)
        /\ s = "cut" => cancelled /\ lease' = lease
        /\ s = "done" => lease' = [lease EXCEPT ![keyOf[d]] = None]
  BY DEF Release
<1>3. /\ pc' \in [Delivery -> Stage] /\ pc'[d] = s
      /\ \A e \in Delivery \ {d} : pc'[e] = pc[e]
      /\ worker' = [worker EXCEPT ![w] = None]
      /\ UNCHANGED <<inFlight, queue, phase, expired, doomed, lapsed>>
  BY <1>1, <1>2 DEF IInv, TypeOK, Release, Goto, Stage, Ended
<1>4. s = "cut" => expired
  BY <1>1, <1>2 DEF IInv, InTime, Drained, Release
<1>5. TypeOK'
  BY <1>1, <1>2, <1>3 DEF IInv, TypeOK
<1>6. QueueTrue'
  BY <1>1, <1>3 DEF IInv, TypeOK, QueueTrue
<1>7. WorkersTrue'
  <2>1. worker'[w] = None /\ \A v \in Worker \ {w} : worker'[v] = worker[v]
    BY <1>3 DEF IInv, TypeOK
  <2>2. \A v \in Worker \ {w} : worker[v] # d
    BY <1>1, PodAssumption DEF IInv, WorkersTrue
  <2>3. \A v \in Worker : worker'[v] # None => pc'[worker'[v]] \in Working
    BY <1>3, <2>1, <2>2 DEF IInv, TypeOK, WorkersTrue
  <2>4. \A u, v \in Worker : worker'[u] = worker'[v] /\ worker'[u] # None => u = v
    BY <2>1 DEF IInv, WorkersTrue
  <2>5. \A e \in Delivery : pc'[e] \in Working => \E v \in Worker : worker'[v] = e
    <3> SUFFICES ASSUME NEW e \in Delivery, e # d, pc[e] \in Working
                 PROVE  \E v \in Worker : worker'[v] = e
      BY <1>3 DEF Working
    <3>1. PICK v \in Worker : worker[v] = e
      BY DEF IInv, WorkersTrue
    <3>2. QED
      BY <2>1, <3>1
  <2>6. QED
    BY <2>3, <2>4, <2>5 DEF WorkersTrue
<1>8. InTime'
  BY <1>1, <1>3, <1>4 DEF IInv, TypeOK, InTime, Drained, closed, cancelled, Handling
<1>9. RecordHeld'
  BY <1>1, <1>2, <1>3, <1>4 DEF IInv, TypeOK, RecordHeld
<1>10. Owned'
  BY <1>1, <1>2, <1>3, PodAssumption DEF IInv, TypeOK, Owned, Held, Known, Working
<1>11. QED
  BY <1>5, <1>6, <1>7, <1>8, <1>9, <1>10 DEF IInv

-----------------------------------------------------------------------------
(* Records that age out, and the shutdown.                                 *)

LEMMA LapseKeeps == ASSUME IInv, NEW k \in Key, Lapse(k) PROVE IInv'
<1>1. TypeOK' /\ QueueTrue' /\ WorkersTrue'
  BY DEF IInv, TypeOK, QueueTrue, WorkersTrue, Lapse
<1>2. InTime'
  BY DEF IInv, InTime, Drained, closed, cancelled, Lapse
<1>3. RecordHeld' /\ Owned'
  BY DEF IInv, TypeOK, RecordHeld, Owned, Lapse
<1>4. QED
  BY <1>1, <1>2, <1>3 DEF IInv

\* A phase that begins keeps the invariant if what must hold in it does.
LEMMA PhaseKeeps ==
    ASSUME IInv, phase' \in Phase, expired' \in BOOLEAN, expired => expired',
           UNCHANGED <<pc, lease, inFlight, queue, worker, doomed, lapsed>>,
           phase' \notin {"release", "exited"} => phase \notin {"release", "exited"},
           InTime'
    PROVE  IInv'
<1>1. TypeOK' /\ QueueTrue' /\ WorkersTrue'
  BY DEF IInv, TypeOK, QueueTrue, WorkersTrue
<1>2. RecordHeld' /\ Owned'
  BY DEF IInv, TypeOK, RecordHeld, Owned
<1>3. QED
  BY <1>1, <1>2 DEF IInv

LEMMA ShutdownKeeps ==
    ASSUME IInv, Signal \/ Expire \/ ClosePool \/ PoolReturns \/ ReleaseAllInFlight
                 \/ (\E k \in Key : ForgetInFlight(k)) \/ Exit
    PROVE  IInv'
<1>1. CASE Signal
  <2>1. InTime'
    BY <1>1 DEF IInv, InTime, Drained, closed, cancelled, Signal
  <2>2. QED
    BY <1>1, <2>1, PhaseKeeps DEF Signal, Phase, IInv, TypeOK
<1>2. CASE Expire
  <2>1. InTime'
    BY <1>2 DEF IInv, InTime, Expire
  <2>2. QED
    BY <1>2, <2>1, PhaseKeeps DEF Expire, IInv, TypeOK
<1>3. CASE ClosePool
  <2>1. InTime'
    BY <1>3 DEF IInv, InTime, closed, cancelled, ClosePool
  <2>2. QED
    BY <1>3, <2>1, PhaseKeeps DEF ClosePool, Phase, IInv, TypeOK
<1>4. CASE PoolReturns
  <2>1. InTime'
    BY <1>4 DEF IInv, InTime, Drained, closed, cancelled, PoolReturns
  <2>2. QED
    BY <1>4, <2>1, PhaseKeeps DEF PoolReturns, Phase, IInv, TypeOK
<1>5. CASE ReleaseAllInFlight
  <2>1. TypeOK' /\ QueueTrue' /\ WorkersTrue'
    BY <1>5 DEF IInv, TypeOK, QueueTrue, WorkersTrue, ReleaseAllInFlight, Phase
  <2>2. InTime'
    BY <1>5 DEF IInv, InTime, Drained, closed, cancelled, ReleaseAllInFlight
  <2>3. RecordHeld' /\ Owned'
    BY <1>5 DEF IInv, RecordHeld, Owned, ReleaseAllInFlight
  <2>4. QED
    BY <2>1, <2>2, <2>3 DEF IInv
<1>6. ASSUME NEW k \in Key, ForgetInFlight(k) PROVE IInv'
  <2>1. TypeOK' /\ QueueTrue' /\ WorkersTrue'
    BY <1>6 DEF IInv, TypeOK, QueueTrue, WorkersTrue, ForgetInFlight
  <2>2. InTime'
    BY <1>6 DEF IInv, InTime, Drained, closed, cancelled, ForgetInFlight
  <2>3. RecordHeld' /\ Owned'
    BY <1>6 DEF IInv, TypeOK, RecordHeld, Owned, ForgetInFlight
  <2>4. QED
    BY <2>1, <2>2, <2>3 DEF IInv
<1>7. CASE Exit
  <2>1. InTime'
    BY <1>7 DEF IInv, InTime, Drained, closed, cancelled, Exit
  <2>2. QED
    BY <1>7, <2>1, PhaseKeeps DEF Exit, Phase, IInv, TypeOK
<1>8. QED
  BY <1>1, <1>2, <1>3, <1>4, <1>5, <1>6, <1>7

LEMMA Step == ASSUME IInv, [Next]_vars PROVE IInv'
<1>1. ASSUME NEW d \in Delivery, Arrive(d) \/ Handle(d) PROVE IInv'
  BY <1>1, ArriveKeeps, SeenRecentlyKeeps, trackInFlightKeeps, SubmitKeeps, untrackInFlightKeeps, RollBackKeeps DEF Handle
<1>2. ASSUME NEW w \in Worker, Take(w) \/ Return(w) \/ Untrack(w) \/ Release(w) PROVE IInv'
  BY <1>2, TakeKeeps, ReturnKeeps, UntrackKeeps, ReleaseKeeps
<1>3. QED
  BY <1>1, <1>2, LapseKeeps, ShutdownKeeps, Stays DEF Next, Shutdown

LEMMA Inductive == Spec => []IInv
BY Initial, Step, PTL DEF Spec

-----------------------------------------------------------------------------
(* The theorems.                                                           *)

\* Every reachable state is well typed; in particular the queue never holds
\* more than its channel, however handlers, workers and shutdown interleave.
THEOREM TypeCorrect == Spec => []TypeOK
<1>1. IInv => TypeOK
  BY DEF IInv
<1>2. QED
  BY <1>1, Inductive, PTL

\* A dedup record always has a job that will remove it, unless the drain
\* budget cut that job.
THEOREM NoStrayRecord == Spec => []RecordHasJob
<1>1. IInv => RecordHasJob
  BY DEF IInv, RecordHeld, RecordHasJob
<1>2. QED
  BY <1>1, Inductive, PTL

\* While the pod serves or drains, the shutdown knows the key of every job
\* that waits or runs, as long as no record has aged out under its job.
THEOREM ShutdownKnows == Spec => []InFlightKnown
<1>1. IInv => InFlightKnown
  BY DEF IInv, Owned, Known, InFlightKnown
<1>2. QED
  BY <1>1, Inductive, PTL

\* A pod that drains within its budget has handled every job it accepted and
\* leaves no record behind.
THEOREM DrainIsClean == Spec => []CleanDrain
<1>1. ASSUME IInv, phase = "exited", ~expired
      PROVE  /\ \A d \in Delivery : pc[d] \in {"new", "dropped", "refused", "done"}
             /\ \A k \in Key : lease[k] = None
  <2>1. closed /\ cancelled
    BY <1>1 DEF closed, cancelled
  <2>2. queue = <<>> /\ \A w \in Worker : worker[w] = None
    BY <1>1, <2>1 DEF IInv, InTime, Drained
  <2>3. \A d \in Delivery : pc[d] # "queued" /\ pc[d] \notin Working
    BY <1>1, <2>2, PodAssumption DEF IInv, QueueTrue, WorkersTrue
  <2>4. \A d \in Delivery : pc[d] \notin Handling /\ pc[d] # "cut"
    BY <1>1, <2>1 DEF IInv, InTime
  <2>5. \A d \in Delivery : pc[d] \in {"new", "dropped", "refused", "done"}
    BY <1>1, <2>3, <2>4 DEF IInv, TypeOK, Stage, Ended
  <2>6. \A k \in Key : lease[k] = None
    BY <1>1, <2>5 DEF IInv, TypeOK, RecordHeld
  <2>7. QED
    BY <2>5, <2>6
<1>2. IInv => CleanDrain
  BY <1>1 DEF CleanDrain
<1>3. QED
  BY <1>2, Inductive, PTL
=============================================================================
