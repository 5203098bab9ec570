---------------------------- MODULE ReviewJobsProof ----------------------------
(***************************************************************************)
(* What ReviewJobs claims of a cluster's Jobs, for any requests, replicas, *)
(* crashes and failed calls: the slots (the cap, one review of a pull      *)
(* request at a time, no second start), one notice per Job, mentions that  *)
(* read the newest state; and, while no enqueue goes on without its lock,  *)
(* no duplicate Jobs and starts in the order of the queue.                 *)
(***************************************************************************)
EXTENDS ReviewJobs, SequenceTheorems, FiniteSetTheorems, TLAPS

\* The Jobs that run, or may before anyone lists them again.
Taken == Running \cup flying

\* What TLC calls TypeOK, and a finite number of Jobs that take a slot.
Typed == TypeOK /\ IsFiniteSet(Taken)

\* The slots hold the starts on their way too, which only trouble leaves behind.
Fits ==
    /\ Cardinality(Taken) <= MaxConcurrent
    /\ \A r, s \in Taken : r # s => prOf[r] # prOf[s]
    /\ troubled \/ flying = {}

\* One pass at a time: whoever plans one holds the scheduler lock.
OnePass == \A p \in Replica :
    /\ pass[p].by # None => lock = p
    /\ pass[p].listed => pass[p].by # None

\* The thread that asked for it waits for its end.
Within == \A p \in Replica : pass[p].by \in Request =>
    stage[pass[p].by] = "in_pass" /\ at[pass[p].by] = p

\* The plan of a pass stays on the safe side of the Jobs that take a slot.
PlanHolds == \A p \in Replica : pass[p].listed =>
    /\ pass[p].free > 0 => Cardinality(Taken) + pass[p].free <= MaxConcurrent
    /\ \A r \in Taken : prOf[r] \in pass[p].closed

\* A request has no Job before it creates one.
Early == {"new", "locking", "listing"}
Fresh == \A r \in Request : stage[r] \in Early \cup {"creating"} => job[r] = "none"

\* What had started when a request came in stays out of the queue.
Seen == \A r \in Request :
    /\ \A s \in started[r] : job[s] \notin {"none", "suspended"}
    /\ r \in Mention /\ answer[r] # None => answer[r] \notin started[r]
    /\ stage[r] \in Early \cup {"creating"} => answer[r] = None

\* Each stamp belongs to one request, and a Job is stamped.
InOrder(r) == \E i \in 1..Len(order) : order[i] = r
Stamped ==
    /\ \A i, j \in 1..Len(order) : order[i] = order[j] => i = j
    /\ \A r \in Request : /\ job[r] # "none" \/ stage[r] = "creating" => InOrder(r)
                          /\ stage[r] \in Early => ~InOrder(r)

\* An enqueue between its lock and its Job holds the lock, alone.
LockTrue ==
    /\ \A x \in PR : enqLock[x] # Dead
    /\ \A r \in Request : stage[r] \in {"listing", "creating"} => enqLock[prOf[r]] = r

\* It is about to create a Job that duplicates none, and the youngest.
Settling == \A r \in Request : stage[r] = "creating" =>
    \A s \in Request : /\ ~duplicates(r, s)
                       /\ prOf[s] = prOf[r] /\ job[s] # "none" => Older(s, r)

\* What a pass has not in its plan is younger than what it may start.
PlanOrder == \A p \in Replica : pass[p].listed =>
    /\ \A r \in pass[p].left : job[r] # "none"
    /\ \A r \in pass[p].left, s \in Request :
        /\ s \notin pass[p].left /\ Suspended(s)
        /\ prOf[r] = prOf[s] /\ prOf[s] \notin pass[p].closed
        => Older(r, s)

Ordered == LockTrue /\ Settling /\ PlanOrder /\ NoDuplicateJobs /\ StartsInOrder

IInv == /\ Typed /\ Fits /\ OnePass /\ Within /\ PlanHolds /\ Fresh /\ Seen /\ Stamped
        /\ AllLocked => Ordered

-----------------------------------------------------------------------------
(* Types.                                                                  *)

LEMMA ClaimTypes ==
    /\ NoClaim \in Claims /\ NoClaim.job = None /\ NoClaim.next = "check"
    /\ \A r \in Request : [NoClaim EXCEPT !.job = r] \in Claims
    /\ \A c \in Claims : /\ c.job \in Request \cup {None}
                         /\ [c EXCEPT !.next = "post"] \in Claims
                         /\ [c EXCEPT !.next = "post"].job = c.job
                         /\ [c EXCEPT !.tries = 1, !.next = "check"] \in Claims
                         /\ [c EXCEPT !.tries = 1, !.next = "check"].job = c.job
                         /\ [c EXCEPT !.tries = 1, !.next = "check"].next = "check"
<1>1. /\ NoClaim \in Claims /\ NoClaim.job = None /\ NoClaim.next = "check"
      /\ \A r \in Request : [NoClaim EXCEPT !.job = r] \in Claims
  BY DEF Claims, NoClaim
<1>2. ASSUME NEW c \in Claims
      PROVE  /\ c.job \in Request \cup {None}
             /\ [c EXCEPT !.next = "post"] \in Claims
             /\ [c EXCEPT !.next = "post"].job = c.job
             /\ [c EXCEPT !.tries = 1, !.next = "check"] \in Claims
             /\ [c EXCEPT !.tries = 1, !.next = "check"].job = c.job
             /\ [c EXCEPT !.tries = 1, !.next = "check"].next = "check"
  <2>1. [c EXCEPT !.next = "post"] \in Claims /\ [c EXCEPT !.next = "post"].job = c.job
    BY DEF Claims
  <2>2. DEFINE d == [c EXCEPT !.tries = 1]
  <2>3. d \in Claims /\ d.job = c.job
    BY DEF Claims
  <2>4. [d EXCEPT !.next = "check"] \in Claims
        /\ [d EXCEPT !.next = "check"].job = d.job /\ [d EXCEPT !.next = "check"].next = "check"
    <3> HIDE DEF d
    <3>1. QED
      BY <2>3 DEF Claims
  <2>5. [d EXCEPT !.next = "check"] = [c EXCEPT !.tries = 1, !.next = "check"]
    OBVIOUS
  <2>6. c.job \in Request \cup {None}
    BY DEF Claims
  <2>7. QED
    BY <2>1, <2>3, <2>4, <2>5, <2>6
<1>3. QED
  BY <1>1, <1>2

LEMMA EmptyPass == NoPass \in Pass
  BY JobsAssumption DEF NoPass, Pass

LEMMA RunningFits ==
    ASSUME Typed
    PROVE  /\ IsFiniteSet(Running) /\ Cardinality(Running) \in Nat
           /\ Cardinality(Running) <= Cardinality(Taken) /\ Cardinality(Taken) \in Nat
<1>1. Running \subseteq Taken
  BY DEF Taken
<1>2. QED
  BY <1>1, FS_Subset, FS_CardinalityType DEF Typed

LEMMA Planned ==
    ASSUME Typed, NEW by \in Request \cup {Poll, None}
    PROVE  /\ planReconcile(by) \in Pass
           /\ planReconcile(by).free > 0 =>
                Cardinality(Running) + planReconcile(by).free <= MaxConcurrent
<1>1. Cardinality(Running) \in Nat
  BY RunningFits
<1>2. /\ {r \in Request : Suspended(r)} \in SUBSET Request
      /\ {prOf[r] : r \in Running} \in SUBSET PR
      /\ {r \in Request : job[r] = "failed"} \in SUBSET Request
  BY JobsAssumption DEF Running
<1>3. planReconcile(by).free \in 0..MaxConcurrent
  BY <1>1, JobsAssumption DEF planReconcile
<1>4. QED
  BY <1>1, <1>2, <1>3, JobsAssumption DEF planReconcile, Pass

\* The ways a Job changes, in one step of the system.
Creates(r) == /\ stage[r] = "creating" /\ job' = [job EXCEPT ![r] = "suspended"]
              /\ CreateJob(r)
Starts(r)  == job' = [job EXCEPT ![r] = "running"] /\ (Land(r) \/ \E p \in Replica : StartJob(p, r))
Leaves(r)  == /\ job[r] = "running" /\ job' \in {[job EXCEPT ![r] = "complete"], [job EXCEPT ![r] = "failed"]}
Claimed(r) == job[r] = "failed" /\ job' = [job EXCEPT ![r] = "reported"]

LEMMA JobMoves ==
    ASSUME [Next]_vars
    PROVE  \/ job' = job
           \/ \E r \in Request : Creates(r) \/ Starts(r) \/ Leaves(r) \/ Claimed(r)
<1>1. ASSUME NEW r \in Request, Enqueue(r) PROVE job' = job \/ Creates(r)
  BY <1>1 DEF Enqueue, lockOrProceed, ListOwn, CreateJob, QueuePosition, SetJob, Creates
<1>2. ASSUME NEW r \in Request, RunJob(r) PROVE job' = job \/ Leaves(r)
  BY <1>2 DEF RunJob, StartReview, FinishReview, Die, SetJob, Leaves
<1>3. ASSUME NEW r \in Request, NEW p \in Replica, Receive(r, p) PROVE job' = job
  BY <1>3 DEF Receive
<1>4. ASSUME NEW p \in Replica, NEW by \in Request \cup {Poll}, TryLock(p, by) PROVE job' = job
  BY <1>4 DEF TryLock
<1>5. ASSUME NEW p \in Replica, startQueued(p) PROVE job' = job \/ \E r \in Request : Starts(r)
  BY <1>5 DEF startQueued, List, StartJob, EndPass, SetJob, Starts
<1>6. ASSUME NEW p \in Replica, reportFailures(p)
      PROVE job' = job \/ \E r \in Request : Claimed(r)
  BY <1>6 DEF reportFailures, Claim, claimable, Check, Report, BudgetOut, SetJob, Claimed
<1>7. ASSUME NEW p \in Replica, Crash(p) PROVE job' = job
  BY <1>7 DEF Crash
<1>8. (LockLapses \/ \E x \in PR : EnqLockLapses(x) \/ Close(x)) \/ UNCHANGED vars => job' = job
  BY DEF LockLapses, EnqLockLapses, Close, vars
<1>9. ASSUME NEW r \in Request, Land(r) PROVE Starts(r)
  BY <1>9 DEF Land, SetJob, Starts
<1>10. QED
  BY <1>1, <1>2, <1>3, <1>4, <1>5, <1>6, <1>7, <1>8, <1>9 DEF Next

\* Only a start puts a patch on its way.
LEMMA FlyingMoves ==
    ASSUME [Next]_vars
    PROVE  flying' \subseteq flying \/ \E p \in Replica, r \in Request : StartJob(p, r)
<1>1. ASSUME NEW r \in Request, Enqueue(r) \/ RunJob(r) \/ \E p \in Replica : Receive(r, p)
      PROVE  flying' = flying
  BY <1>1 DEF Enqueue, lockOrProceed, ListOwn, CreateJob, QueuePosition, RunJob, StartReview,
              FinishReview, Die, Receive, passVars
<1>2. ASSUME NEW p \in Replica, \/ reportFailures(p) \/ List(p) \/ EndPass(p) \/ Crash(p)
                                \/ \E by \in Request \cup {Poll} : TryLock(p, by)
      PROVE  flying' \subseteq flying
  BY <1>2 DEF reportFailures, Claim, Check, Report, BudgetOut, List, EndPass, Crash, TryLock, passVars
<1>3. ASSUME NEW r \in Request, Land(r) PROVE flying' \subseteq flying
  BY <1>3 DEF Land
<1>4. LockLapses \/ (\E x \in PR : EnqLockLapses(x) \/ Close(x)) \/ UNCHANGED vars => flying' = flying
  BY DEF LockLapses, EnqLockLapses, Close, vars, passVars
<1>5. QED
  BY <1>1, <1>2, <1>3, <1>4 DEF Next, startQueued

\* What kind of instance it is never changes, and no crash is undone.
LEMMA TroubleStays == ASSUME [Next]_vars PROVE /\ troubled' = troubled
                                               /\ crashes' = crashes \/ \E p \in Replica : Crash(p)
<1>1. ASSUME NEW p \in Replica, Crash(p) PROVE troubled' = troubled
  BY <1>1 DEF Crash
<1>2. ASSUME NEW r \in Request, Enqueue(r) \/ \E p \in Replica : Receive(r, p)
      PROVE UNCHANGED <<crashes, troubled>>
  BY <1>2 DEF Enqueue, lockOrProceed, ListOwn, CreateJob, QueuePosition, Receive, env
<1>3. ASSUME NEW p \in Replica, \/ reportFailures(p) \/ startQueued(p)
                                \/ \E by \in Request \cup {Poll} : TryLock(p, by)
      PROVE UNCHANGED <<crashes, troubled>>
  BY <1>3 DEF reportFailures, Claim, Check, Report, BudgetOut, startQueued, List, StartJob, EndPass,
              TryLock, env
<1>4. ASSUME \/ LockLapses \/ (\E x \in PR : EnqLockLapses(x) \/ Close(x)) \/ UNCHANGED vars
             \/ \E r \in Request : RunJob(r) \/ Land(r)
      PROVE UNCHANGED <<crashes, troubled>>
  BY <1>4 DEF LockLapses, Land, EnqLockLapses, Close, RunJob, StartReview, FinishReview, Die, vars, env
<1>5. QED
  BY <1>1, <1>2, <1>3, <1>4 DEF Next

\* A start takes a slot, whether or not its patch arrives.
LEMMA TakenMoves ==
    ASSUME [Next]_vars, Typed
    PROVE  /\ IsFiniteSet(Taken')
           /\ \/ Taken' \subseteq Taken /\ Cardinality(Taken') <= Cardinality(Taken)
              \/ \E p \in Replica, r \in Request :
                    /\ StartJob(p, r) /\ Taken' \subseteq Taken \cup {r}
                    /\ Cardinality(Taken') <= Cardinality(Taken) + 1
<1>0. IsFiniteSet(Taken) /\ Cardinality(Taken) \in Nat
  BY RunningFits DEF Typed
<1>1. ASSUME NEW p \in Replica, NEW r \in Request, StartJob(p, r)
      PROVE  Taken' \subseteq Taken \cup {r}
  <2>1. Running' \subseteq Running \cup {r}
    BY <1>1 DEF StartJob, SetJob, Typed, TypeOK, Running
  <2>2. flying' \subseteq flying \cup {r}
    BY <1>1 DEF StartJob
  <2>3. QED
    BY <2>1, <2>2 DEF Taken
<1>2. ASSUME NEW r \in Request, Land(r) PROVE Taken' \subseteq Taken
  <2>1. Running' \subseteq Running \cup {r} /\ flying' \subseteq flying /\ r \in flying
    BY <1>2 DEF Land, SetJob, Typed, TypeOK, Running
  <2>2. QED
    BY <2>1 DEF Taken
<1>3. ASSUME ~(\E p \in Replica, r \in Request : StartJob(p, r)), ~(\E r \in Request : Land(r))
      PROVE  Taken' \subseteq Taken
  <2>1. flying' \subseteq flying
    BY <1>3, FlyingMoves
  <2>2. Running' \subseteq Running
    <3>1. ASSUME NEW r \in Request, Creates(r) \/ Leaves(r) \/ Claimed(r) PROVE Running' \subseteq Running
      BY <3>1 DEF Creates, Leaves, Claimed, Typed, TypeOK, Running
    <3>2. job' = job => Running' = Running
      BY DEF Running
    <3>3. QED
      BY <1>3, <3>1, <3>2, JobMoves DEF Starts
  <2>3. QED
    BY <2>1, <2>2 DEF Taken
<1>4. CASE Taken' \subseteq Taken
  BY <1>0, <1>4, FS_Subset
<1>5. ASSUME NEW p \in Replica, NEW r \in Request, StartJob(p, r)
      PROVE  IsFiniteSet(Taken') /\ Cardinality(Taken') <= Cardinality(Taken) + 1
  <2>1. /\ IsFiniteSet(Taken \cup {r})
        /\ Cardinality(Taken \cup {r}) = IF r \in Taken THEN Cardinality(Taken) ELSE Cardinality(Taken) + 1
    BY <1>0, FS_AddElement
  <2>2. /\ IsFiniteSet(Taken') /\ Cardinality(Taken') <= Cardinality(Taken \cup {r})
        /\ Cardinality(Taken') \in Nat
    BY <1>1, <1>5, <2>1, FS_Subset, FS_CardinalityType
  <2>3. QED
    BY <1>0, <2>1, <2>2
<1>6. QED
  BY <1>1, <1>2, <1>3, <1>4, <1>5

LEMMA StageTypes ==
    ASSUME TypeOK, NEW r \in Request, NEW s \in Stage, SetStage(r, s)
    PROVE  stage' \in [Request -> Stage] /\ at' \in [Request -> Replica \cup {None}]
<1>1. stage' \in [Request -> Stage]
  BY DEF TypeOK, SetStage
<1>2. at' = at \/ at' = [at EXCEPT ![r] = None]
  BY DEF SetStage
<1>3. QED
  BY <1>1, <1>2 DEF TypeOK

LEMMA UnlockTypes ==
    ASSUME TypeOK, NEW r \in Request, NEW l \in Unlocked(r)
    PROVE  l \in [PR -> Request \cup {None, Dead}]
<1>1. \A v \in Left : v \in {None, Dead}
  BY DEF Left
<1>2. prOf[r] \in PR
  BY JobsAssumption
<1>3. l = enqLock \/ \E v \in Left : l = [enqLock EXCEPT ![prOf[r]] = v]
  BY DEF Unlocked
<1>4. QED
  BY <1>1, <1>2, <1>3 DEF TypeOK

LEMMA EnqueueTypes == ASSUME TypeOK, NEW r \in Request, Enqueue(r) PROVE TypeOK'
<1>1. PICK to \in Stage : SetStage(r, to)
  BY DEF Enqueue, lockOrProceed, ListOwn, CreateJob, QueuePosition, Stage
<1>2. stage' \in [Request -> Stage] /\ at' \in [Request -> Replica \cup {None}]
  BY <1>1, StageTypes
<1>3. prOf[r] \in PR
  BY JobsAssumption
<1>4. CASE lockOrProceed(r)
  <2>1. enqLock' \in [PR -> Request \cup {None, Dead}]
    <3>1. \/ enqLock' = enqLock
          \/ enqLock' = [enqLock EXCEPT ![prOf[r]] = r]
          \/ enqLock' = [enqLock EXCEPT ![prOf[r]] = Dead]
      BY <1>4 DEF lockOrProceed
    <3>2. QED
      BY <1>3, <3>1 DEF TypeOK
  <2>2. QED
    BY <1>2, <1>4, <2>1 DEF TypeOK, lockOrProceed, passVars, reportVars, podVars, env
<1>5. CASE ListOwn(r)
  <2>1. enqLock' = enqLock \/ enqLock' \in Unlocked(r)
    BY <1>5 DEF ListOwn
  <2>2. enqLock' \in [PR -> Request \cup {None, Dead}]
    BY <2>1, UnlockTypes DEF TypeOK
  <2>3. order' \in Seq(Request) /\ answer' \in [Request -> Request \cup {None}]
    <3>1. order' = order \/ order' = Append(order, r)
      BY <1>5 DEF ListOwn
    <3>2. answer' = answer \/ \E s \in Request : answer' = [answer EXCEPT ![r] = s]
      BY <1>5 DEF ListOwn
    <3>3. order' \in Seq(Request)
      <4>1. order \in Seq(Request)
        BY DEF TypeOK
      <4>2. Append(order, r) \in Seq(Request)
        BY <4>1, AppendProperties
      <4>3. QED
        BY <3>1, <4>1, <4>2
    <3>4. answer' \in [Request -> Request \cup {None}]
      BY <3>2 DEF TypeOK
    <3>5. QED
      BY <3>3, <3>4
  <2>4. QED
    BY <1>2, <1>5, <2>2, <2>3 DEF TypeOK, ListOwn, passVars, reportVars, podVars, env
<1>6. CASE CreateJob(r)
  <2>1. enqLock' \in [PR -> Request \cup {None, Dead}]
    BY <1>6, UnlockTypes DEF CreateJob
  <2>2. job' \in [Request -> JobState] /\ answer' \in [Request -> Request \cup {None}]
    <3>1. /\ job' = job \/ job' = [job EXCEPT ![r] = "suspended"]
          /\ answer' = answer \/ answer' = [answer EXCEPT ![r] = r]
      BY <1>6 DEF CreateJob, SetJob
    <3>0. answer \in [Request -> Request \cup {None}]
      BY DEF TypeOK
    <3>2. job' \in [Request -> JobState]
      BY <3>1 DEF TypeOK, JobState
    <3>3. answer' \in [Request -> Request \cup {None}]
      BY <3>0, <3>1
    <3>4. QED
      BY <3>2, <3>3
  <2>3. QED
    BY <1>2, <1>6, <2>1, <2>2 DEF TypeOK, CreateJob, passVars, reportVars, podVars, env
<1>7. CASE QueuePosition(r)
  BY <1>2, <1>7 DEF TypeOK, QueuePosition, passVars, reportVars, podVars, env
<1>8. QED
  BY <1>4, <1>5, <1>6, <1>7 DEF Enqueue

LEMMA PassTypes ==
    ASSUME Typed, NEW p \in Replica, startQueued(p) \/ \E by \in Request \cup {Poll} : TryLock(p, by)
    PROVE  TypeOK'
<1>1. ASSUME NEW by \in Request \cup {Poll}, TryLock(p, by) PROVE TypeOK'
  <2>1. [NoPass EXCEPT !.by = by] \in Pass
    BY EmptyPass DEF Pass
  <2>2. /\ pass' \in [Replica -> Pass] /\ stage' \in [Request -> Stage]
        /\ lock' \in Replica \cup {None, Dead}
    <3>1. /\ pass' = pass \/ pass' = [pass EXCEPT ![p] = [NoPass EXCEPT !.by = by]]
          /\ stage' = stage \/ \E s \in {"in_pass", "asking"} : stage' = [stage EXCEPT ![by] = s]
          /\ lock' \in {lock, p, Dead}
      BY <1>1 DEF TryLock, Resume
    <3>2. pass' \in [Replica -> Pass]
      BY <2>1, <3>1 DEF Typed, TypeOK
    <3>3. stage' \in [Request -> Stage]
      BY <3>1 DEF Typed, TypeOK, Stage
    <3>4. QED
      BY <3>1, <3>2, <3>3 DEF Typed, TypeOK
  <2>3. QED
    BY <1>1, <2>2 DEF Typed, TypeOK, TryLock, reportVars, podVars, env
<1>2. CASE List(p)
  <2>1. pass' \in [Replica -> Pass]
    BY <1>2, Planned DEF Typed, TypeOK, List, Pass
  <2>2. QED
    BY <1>2, <2>1 DEF Typed, TypeOK, List, enqueueVars, reportVars, podVars, env
<1>3. ASSUME NEW r \in Request, StartJob(p, r) PROVE TypeOK'
  <2>1. pass[p].free > 0 /\ pass[p] \in Pass /\ prOf[r] \in PR
    BY <1>3, JobsAssumption DEF StartJob, nextInLine, eligible, Typed, TypeOK
  <2>2. pass[p].free - 1 \in 0..MaxConcurrent
    BY <2>1, JobsAssumption DEF Pass
  <2>3. /\ Unsettled(p, r) \in [Replica -> Pass]
        /\ [pass EXCEPT ![p].left = @ \ {r}] \in [Replica -> Pass]
    BY <2>1, <2>2 DEF Unsettled, Typed, TypeOK, Pass
  <2>4. pass' \in [Replica -> Pass] /\ job' \in [Request -> JobState]
    BY <1>3, <2>3 DEF Typed, TypeOK, StartJob, SetJob, JobState
  <2>5. QED
    BY <1>3, <2>4 DEF Typed, TypeOK, StartJob, enqueueVars, reportVars, podVars, env
<1>4. CASE EndPass(p)
  <2>1. pass' \in [Replica -> Pass]
    BY <1>4, EmptyPass DEF Typed, TypeOK, EndPass
  <2>2. stage' \in [Request -> Stage]
    BY <1>4 DEF Typed, TypeOK, EndPass, Resume, Stage
  <2>3. pass[p].dead \in SUBSET Request
    BY DEF Typed, TypeOK, Pass
  <2>4. reports' \in [Replica -> SUBSET Request] /\ lock' \in Replica \cup {None, Dead}
    BY <1>4, <2>3 DEF Typed, TypeOK, EndPass, Left
  <2>5. QED
    BY <1>4, <2>1, <2>2, <2>4 DEF Typed, TypeOK, EndPass, podVars, env
<1>5. QED
  BY <1>1, <1>2, <1>3, <1>4 DEF startQueued

LEMMA ReportTypes == ASSUME TypeOK, NEW p \in Replica, reportFailures(p) PROVE TypeOK'
<1>0. claim \in [Replica -> Claims] /\ NoClaim \in Claims
  BY ClaimTypes DEF TypeOK
<1>1. ASSUME NEW r \in Request, Claim(p, r) PROVE TypeOK'
  <2>1. claim' = claim \/ claim' = [claim EXCEPT ![p] = [NoClaim EXCEPT !.job = r]]
    BY <1>1 DEF Claim
  <2>2. claim' \in [Replica -> Claims]
    BY <1>0, <2>1, ClaimTypes
  <2>3. job' \in [Request -> JobState] /\ reports' \in [Replica -> SUBSET Request]
    BY <1>1 DEF TypeOK, Claim, SetJob, JobState
  <2>4. QED
    BY <1>1, <2>2, <2>3 DEF TypeOK, Claim, enqueueVars, passVars, podVars, env
<1>2. ASSUME Retry(p) PROVE claim' \in [Replica -> Claims]
  <2>1. \/ claim' = [claim EXCEPT ![p] = NoClaim]
        \/ claim' = [claim EXCEPT ![p] = [@ EXCEPT !.tries = 1, !.next = "check"]]
    BY <1>2 DEF Retry
  <2>2. [claim[p] EXCEPT !.tries = 1, !.next = "check"] \in Claims
    BY <1>0, ClaimTypes
  <2>3. QED
    BY <1>0, <2>1, <2>2
<1>3. CASE Check(p)
  <2>1. \/ Retry(p) \/ claim' = [claim EXCEPT ![p] = NoClaim]
        \/ claim' = [claim EXCEPT ![p] = [@ EXCEPT !.next = "post"]]
    BY <1>3 DEF Check
  <2>2. [claim[p] EXCEPT !.next = "post"] \in Claims
    BY <1>0, ClaimTypes
  <2>3. claim' \in [Replica -> Claims]
    BY <1>0, <1>2, <2>1, <2>2
  <2>4. QED
    BY <1>3, <2>3 DEF TypeOK, Check, enqueueVars, passVars, podVars, env
<1>4. CASE Report(p)
  <2>1. claim[p].job \in Request
    BY <1>0, <1>4, ClaimTypes DEF Report
  <2>2. Retry(p) \/ claim' = [claim EXCEPT ![p] = NoClaim]
    BY <1>4 DEF Report
  <2>3. claim' \in [Replica -> Claims]
    BY <1>0, <1>2, <2>2
  <2>4. posts' \in [Request -> Nat]
    <3>1. posts' = posts \/ posts' = [posts EXCEPT ![claim[p].job] = @ + 1]
      BY <1>4 DEF Report
    <3>2. posts \in [Request -> Nat] /\ posts[claim[p].job] + 1 \in Nat
      BY <2>1 DEF TypeOK
    <3>3. QED
      BY <2>1, <3>1, <3>2
  <2>5. QED
    BY <1>4, <2>3, <2>4 DEF TypeOK, Report, enqueueVars, passVars, podVars, env
<1>5. CASE BudgetOut(p)
  BY <1>5 DEF TypeOK, BudgetOut, enqueueVars, passVars, podVars, env
<1>6. QED
  BY <1>1, <1>3, <1>4, <1>5 DEF reportFailures

LEMMA TypedKeeps == ASSUME Typed, [Next]_vars PROVE Typed'
<1>1. TypeOK
  BY DEF Typed
<1>2. ASSUME NEW r \in Request, NEW p \in Replica, Receive(r, p) PROVE TypeOK'
  BY <1>1, <1>2 DEF TypeOK, Receive, Stage, passVars, reportVars, podVars, env
<1>3. ASSUME NEW r \in Request, RunJob(r) PROVE TypeOK'
  <2>1. /\ job' = job \/ \E s \in {"complete", "failed"} : job' = [job EXCEPT ![r] = s]
        /\ posts' = posts \/ posts' = [posts EXCEPT ![r] = @ + 1]
        /\ pod' = pod \/ pod' = [pod EXCEPT ![r] = "reviewing"]
    BY <1>3 DEF RunJob, StartReview, FinishReview, Noticed, Die, SetJob, reportVars, podVars
  <2>2. job' \in [Request -> JobState] /\ pod' \in [Request -> {"starting", "reviewing"}]
    BY <1>1, <2>1 DEF TypeOK, JobState
  <2>3. posts' \in [Request -> Nat]
    <3>1. posts \in [Request -> Nat] /\ posts[r] + 1 \in Nat
      BY <1>1 DEF TypeOK
    <3>2. QED
      BY <2>1, <3>1
  <2>4. /\ UNCHANGED <<order, stage, at, started, answer, enqLock>>
        /\ UNCHANGED <<lock, pass, flying, reports, claim, open, crashes, troubled>>
    BY <1>3 DEF RunJob, StartReview, FinishReview, Die, enqueueVars, passVars, reportVars, podVars, env
  <2>5. QED
    BY <1>1, <2>2, <2>3, <2>4 DEF TypeOK
<1>4. ASSUME NEW p \in Replica, Crash(p) PROVE TypeOK'
  <2>1. NoClaim \in Claims
    BY ClaimTypes
  <2>2. crashes' \in 0..MaxCrashes[troubled]
    BY <1>1, <1>4, JobsAssumption DEF TypeOK, Crash
  <2>3. pass' \in [Replica -> Pass] /\ claim' \in [Replica -> Claims]
    BY <1>1, <1>4, <2>1, EmptyPass DEF TypeOK, Crash
  <2>4. /\ stage' \in [Request -> Stage] /\ at' \in [Request -> Replica \cup {None}]
        /\ enqLock' \in [PR -> Request \cup {None, Dead}] /\ lock' \in Replica \cup {None, Dead}
    BY <1>1, <1>4 DEF TypeOK, Crash, Stage
  <2>5. reports' \in [Replica -> SUBSET Request]
    BY <1>1, <1>4 DEF TypeOK, Crash
  <2>6. QED
    BY <1>1, <1>4, <2>2, <2>3, <2>4, <2>5 DEF TypeOK, Crash, podVars
<1>5. LockLapses => TypeOK'
  BY <1>1 DEF TypeOK, LockLapses, enqueueVars, reportVars, podVars, env
<1>6. ASSUME NEW x \in PR, EnqLockLapses(x) \/ Close(x) PROVE TypeOK'
  <2>1. CASE EnqLockLapses(x)
    BY <1>1, <2>1 DEF TypeOK, EnqLockLapses, passVars, reportVars, podVars, env
  <2>2. CASE Close(x)
    BY <1>1, <2>2 DEF TypeOK, Close, enqueueVars, passVars, reportVars, env
  <2>3. QED
    BY <1>6, <2>1, <2>2
<1>7. UNCHANGED vars => TypeOK'
  BY <1>1 DEF TypeOK, vars, enqueueVars, passVars, reportVars, podVars, env
<1>7a. ASSUME NEW r \in Request, Land(r) PROVE TypeOK'
  BY <1>1, <1>7a DEF TypeOK, Land, SetJob, JobState, enqueueVars, reportVars, podVars, env
<1>8. TypeOK'
  BY <1>1, <1>2, <1>3, <1>4, <1>5, <1>6, <1>7, <1>7a, EnqueueTypes, PassTypes, ReportTypes DEF Next
<1>9. QED
  BY <1>8, TakenMoves DEF Typed

-----------------------------------------------------------------------------
(* The passes: who is in one, what it plans, and that it starts one at a   *)
(* time inside the slots.                                                  *)

LEMMA Entering ==
    ASSUME NEW by
    PROVE  /\ [NoPass EXCEPT !.by = by].by = by
           /\ ~[NoPass EXCEPT !.by = by].listed
           /\ NoPass.by = None /\ ~NoPass.listed
  BY DEF NoPass

\* A start spends the slot and the pull request, unless the call was refused.
LEMMA StartSpends ==
    ASSUME Typed, NEW p \in Replica, NEW r \in Request, StartJob(p, r)
    PROVE  /\ \A q \in Replica \ {p} : pass'[q] = pass[q]
           /\ pass'[p].by = pass[p].by /\ pass'[p].listed = pass[p].listed
           /\ pass'[p].left = pass[p].left \ {r}
           /\ \/ /\ pass'[p].free = pass[p].free - 1
                 /\ pass'[p].closed = pass[p].closed \cup {prOf[r]}
              \/ /\ pass'[p].free = pass[p].free /\ pass'[p].closed = pass[p].closed
                 /\ job' = job /\ flying' = flying /\ troubled
<1>1. pass \in [Replica -> Pass]
  BY DEF Typed, TypeOK
<1>2. \A q \in Replica \ {p} : pass'[q] = pass[q]
  BY <1>1 DEF StartJob, Unsettled
<1>3. CASE pass' = Unsettled(p, r)
  <2>1. pass'[p] = [pass[p] EXCEPT !.left = @ \ {r}, !.free = @ - 1, !.closed = @ \cup {prOf[r]}]
    BY <1>1, <1>3 DEF Unsettled
  <2>2. pass[p] \in Pass
    BY <1>1
  <2>3. QED
    BY <1>2, <2>1, <2>2 DEF Pass
<1>4. CASE /\ pass' = [pass EXCEPT ![p].left = @ \ {r}]
           /\ job' = job /\ flying' = flying /\ troubled
  <2>1. pass'[p] = [pass[p] EXCEPT !.left = @ \ {r}]
    BY <1>1, <1>4
  <2>2. pass[p] \in Pass
    BY <1>1
  <2>3. QED
    BY <1>2, <1>4, <2>1, <2>2 DEF Pass
<1>5. QED
  BY <1>3, <1>4 DEF StartJob

LEMMA OnePassKeeps == ASSUME Typed, OnePass, [Next]_vars PROVE OnePass'
<1>1. CASE UNCHANGED <<lock, pass>>
  BY <1>1 DEF OnePass
<1>2. ASSUME NEW p \in Replica, NEW by \in Request \cup {Poll}, TryLock(p, by) PROVE OnePass'
  <2>1. pass \in [Replica -> Pass] /\ by # None
    BY JobsAssumption DEF Typed, TypeOK
  <2>2. CASE lock = None /\ lock' = p /\ pass' = [pass EXCEPT ![p] = [NoPass EXCEPT !.by = by]]
    BY <2>1, <2>2, Entering, JobsAssumption DEF OnePass
  <2>3. CASE pass' = pass /\ (lock' = lock \/ lock = None)
    BY <2>3, JobsAssumption DEF OnePass
  <2>4. QED
    BY <1>2, <2>2, <2>3 DEF TryLock
<1>3. ASSUME NEW p \in Replica, List(p) PROVE OnePass'
  BY <1>3 DEF OnePass, List, planReconcile, Typed, TypeOK
<1>4. ASSUME NEW p \in Replica, NEW r \in Request, StartJob(p, r) PROVE OnePass'
  <2>1. lock' = lock
    BY <1>4 DEF StartJob
  <2>2. QED
    BY <1>4, <2>1, StartSpends DEF OnePass
<1>5. ASSUME NEW p \in Replica, EndPass(p) PROVE OnePass'
  BY <1>5, JobsAssumption DEF OnePass, EndPass, NoPass, Left, Typed, TypeOK
<1>6. ASSUME NEW p \in Replica, Crash(p) PROVE OnePass'
  BY <1>6, JobsAssumption DEF OnePass, Crash, NoPass, Typed, TypeOK
<1>7. LockLapses => OnePass'
  BY JobsAssumption DEF OnePass, LockLapses
<1>8. ASSUME NEW r \in Request, Enqueue(r) \/ RunJob(r) \/ \E p \in Replica : Receive(r, p)
      PROVE UNCHANGED <<lock, pass>>
  BY <1>8 DEF Enqueue, lockOrProceed, ListOwn, CreateJob, QueuePosition, RunJob, StartReview, FinishReview, Die, Receive, passVars
<1>9. ASSUME NEW p \in Replica, reportFailures(p) PROVE UNCHANGED <<lock, pass>>
  BY <1>9 DEF reportFailures, Claim, Check, Report, BudgetOut, passVars
<1>10. (\E l \in Request : Land(l)) \/ (\E x \in PR : EnqLockLapses(x) \/ Close(x)) \/ UNCHANGED vars => UNCHANGED <<lock, pass>>
  BY DEF Land, EnqLockLapses, Close, vars, passVars
<1>11. QED
  BY <1>1, <1>2, <1>3, <1>4, <1>5, <1>6, <1>7, <1>8, <1>9, <1>10 DEF Next, startQueued

\* What a start finds, and leaves to its pass.
LEMMA StartFinds ==
    ASSUME Typed, OnePass, PlanHolds, NEW p \in Replica, NEW r \in Request, StartJob(p, r)
    PROVE  /\ Cardinality(Taken) < MaxConcurrent
           /\ \A s \in Taken : prOf[s] # prOf[r]
           /\ \A q \in Replica \ {p} : ~pass[q].listed
<1>1. Cardinality(Taken) \in Nat
  BY RunningFits
<1>2. pass[p].listed /\ pass[p].free > 0 /\ prOf[r] \notin pass[p].closed /\ pass[p].free \in Nat
  BY JobsAssumption DEF StartJob, nextInLine, eligible, Typed, TypeOK, Pass
<1>3. QED
  BY <1>1, <1>2, JobsAssumption DEF PlanHolds, OnePass

\* Only a listing and a start leave a plan behind that was not there.
LEMMA PassesMove ==
    ASSUME Typed, [Next]_vars
    PROVE  \/ \A q \in Replica : pass'[q] = pass[q] \/ ~pass'[q].listed
           \/ \E p \in Replica : List(p) \/ \E r \in Request : StartJob(p, r)
<1>1. pass \in [Replica -> Pass]
  BY DEF Typed, TypeOK
<1>2. ASSUME NEW p \in Replica,
             (\E by \in Request \cup {Poll} : TryLock(p, by)) \/ EndPass(p) \/ Crash(p)
      PROVE  \A q \in Replica : pass'[q] = pass[q] \/ ~pass'[q].listed
  <2>1. ASSUME NEW by \in Request \cup {Poll}, TryLock(p, by)
        PROVE  pass' = pass \/ pass' = [pass EXCEPT ![p] = [NoPass EXCEPT !.by = by]]
    BY <2>1 DEF TryLock
  <2>2. EndPass(p) \/ Crash(p) => pass' = [pass EXCEPT ![p] = NoPass]
    BY DEF EndPass, Crash
  <2>3. CASE EndPass(p) \/ Crash(p)
    BY <1>1, <2>2, <2>3, Entering
  <2>4. ASSUME NEW by \in Request \cup {Poll}, pass' = [pass EXCEPT ![p] = [NoPass EXCEPT !.by = by]]
        PROVE  \A q \in Replica : pass'[q] = pass[q] \/ ~pass'[q].listed
    BY <1>1, <2>4, Entering
  <2>5. QED
    BY <1>2, <2>1, <2>3, <2>4
<1>3. ASSUME NEW r \in Request, Enqueue(r) \/ RunJob(r) \/ \E p \in Replica : Receive(r, p)
      PROVE pass' = pass
  BY <1>3 DEF Enqueue, lockOrProceed, ListOwn, CreateJob, QueuePosition, RunJob, StartReview, FinishReview, Die, Receive, passVars
<1>4. ASSUME NEW p \in Replica, reportFailures(p) PROVE pass' = pass
  BY <1>4 DEF reportFailures, Claim, Check, Report, BudgetOut, passVars
<1>5. LockLapses \/ (\E l \in Request : Land(l)) \/ (\E x \in PR : EnqLockLapses(x) \/ Close(x)) \/ UNCHANGED vars => pass' = pass
  BY DEF LockLapses, Land, EnqLockLapses, Close, vars, passVars
<1>6. QED
  BY <1>2, <1>3, <1>4, <1>5 DEF Next, startQueued

LEMMA PlanKeeps == ASSUME Typed, OnePass, PlanHolds, [Next]_vars PROVE PlanHolds'
<1>1. /\ Cardinality(Taken) \in Nat /\ Cardinality(Taken') \in Nat
      /\ \A p \in Replica : pass[p].free \in Nat
  <2>1. Cardinality(Taken) \in Nat /\ Cardinality(Taken') \in Nat
    BY RunningFits, TakenMoves, FS_CardinalityType
  <2>2. QED
    BY <2>1, JobsAssumption DEF Typed, TypeOK, Pass
<1>2. ASSUME NEW p \in Replica, NEW r \in Request, StartJob(p, r) PROVE PlanHolds'
  <2>1. /\ \A q \in Replica \ {p} : pass'[q] = pass[q]
        /\ pass'[p].free = pass[p].free - 1 \/ (Taken' = Taken /\ pass'[p].free = pass[p].free)
        /\ pass[p].closed \subseteq pass'[p].closed
        /\ prOf[r] \in pass'[p].closed \/ Taken' = Taken
    BY <1>2, StartSpends DEF Taken, Running
  <2>2. Taken' \subseteq Taken \cup {r} /\ Cardinality(Taken') <= Cardinality(Taken) + 1
    <3>1. Taken' \subseteq Taken \cup {r}
      BY <1>2 DEF StartJob, SetJob, Typed, TypeOK, Running, Taken
    <3>2. QED
      BY <1>1, <3>1, TakenMoves
  <2>3. \A q \in Replica \ {p} : ~pass[q].listed
    BY <1>2, StartFinds
  <2>4. pass[p].listed
    BY <1>2 DEF StartJob
  <2>5. pass'[p].free > 0 => Cardinality(Taken') + pass'[p].free <= MaxConcurrent
    BY <1>1, <2>1, <2>2, <2>4, JobsAssumption DEF PlanHolds
  <2>6. \A s \in Taken' : prOf[s] \in pass'[p].closed
    BY <2>1, <2>2, <2>4 DEF PlanHolds
  <2>7. QED
    BY <2>1, <2>3, <2>5, <2>6 DEF PlanHolds
<1>3. ASSUME NEW p \in Replica, List(p) PROVE PlanHolds'
  <2>1. /\ job' = job /\ flying' = {} /\ ~pass[p].listed
        /\ pass' = [pass EXCEPT ![p] = planReconcile(pass[p].by)]
    BY <1>3 DEF List
  <2>2. Taken' = Running
    BY <2>1 DEF Running, Taken
  <2>3. pass[p].by \in Request \cup {Poll, None}
    BY DEF Typed, TypeOK, Pass
  <2>4. pass'[p].free > 0 => Cardinality(Running) + pass'[p].free <= MaxConcurrent
    BY <2>1, <2>3, Planned DEF Typed, TypeOK
  <2>5. \A r \in Running : prOf[r] \in pass'[p].closed
    BY <2>1 DEF planReconcile, Typed, TypeOK
  <2>6. \A q \in Replica \ {p} : ~pass'[q].listed
    BY <1>3, <2>1, JobsAssumption DEF List, OnePass, Typed, TypeOK
  <2>7. QED
    BY <2>2, <2>4, <2>5, <2>6 DEF PlanHolds
<1>4. ASSUME Taken' \subseteq Taken, Cardinality(Taken') <= Cardinality(Taken),
             \A p \in Replica : pass'[p] = pass[p] \/ ~pass'[p].listed
      PROVE  PlanHolds'
  BY <1>1, <1>4, JobsAssumption DEF PlanHolds
<1>5. QED
  BY <1>2, <1>3, <1>4, TakenMoves, PassesMove

LEMMA FitsKeeps == ASSUME Typed, Fits, OnePass, PlanHolds, [Next]_vars PROVE Fits'
<1>1. /\ Cardinality(Taken) \in Nat /\ Cardinality(Taken') \in Nat
      /\ MaxConcurrent \in Nat
  BY RunningFits, TakenMoves, FS_CardinalityType, JobsAssumption
<1>2. troubled' \/ flying' = {}
  <2>1. troubled' = troubled
    BY TroubleStays
  <2>2. ASSUME ~troubled PROVE flying' = {}
    <3>1. flying = {}
      BY <2>2 DEF Fits
    <3>2. ASSUME NEW r \in Request PROVE ~Land(r)
      BY <3>1 DEF Land
    <3>3. ASSUME NEW p \in Replica, NEW r \in Request, StartJob(p, r) PROVE flying' = flying
      BY <2>2, <3>3 DEF StartJob
    <3>4. QED
      BY <3>1, <3>3, FlyingMoves
  <2>3. QED
    BY <2>1, <2>2
<1>3. CASE Taken' \subseteq Taken /\ Cardinality(Taken') <= Cardinality(Taken)
  BY <1>1, <1>2, <1>3 DEF Fits
<1>4. ASSUME NEW p \in Replica, NEW r \in Request, StartJob(p, r),
             Taken' \subseteq Taken \cup {r}, Cardinality(Taken') <= Cardinality(Taken) + 1
      PROVE  Fits'
  BY <1>1, <1>2, <1>4, StartFinds DEF Fits
<1>5. QED
  BY <1>3, <1>4, TakenMoves

-----------------------------------------------------------------------------
(* Requests: a new Job is new, and what started stays started.             *)

\* A step of an enqueue leaves the other requests where they are.
LEMMA Frame ==
    ASSUME Typed, NEW r \in Request, NEW s \in Stage, SetStage(r, s)
    PROVE  stage'[r] = s /\ \A t \in Request \ {r} : stage'[t] = stage[t]
  BY DEF SetStage, Typed, TypeOK

\* No request goes back, and only its own CreateJob takes it out of "creating".
LEMMA StagesMove ==
    ASSUME Typed, Within, [Next]_vars, NEW r \in Request
    PROVE  /\ stage'[r] \in Early => stage[r] \in Early
           /\ stage'[r] = "creating" => stage[r] = "creating" \/ ListOwn(r)
           /\ stage[r] = "creating" => stage'[r] \in {"creating", "reconciling", "error", "lost"}
           /\ stage'[r] = "listing" => stage[r] = "listing" \/ lockOrProceed(r)
<1>1. ASSUME NEW t \in Request, NEW p \in Replica, Receive(t, p)
      PROVE  /\ stage'[t] = "locking" /\ stage[t] = "new"
             /\ \A u \in Request \ {t} : stage'[u] = stage[u]
  BY <1>1 DEF Receive, Typed, TypeOK
<1>2. ASSUME NEW t \in Request, lockOrProceed(t)
      PROVE  /\ stage[t] = "locking" /\ stage'[t] = "listing"
             /\ \A u \in Request \ {t} : stage'[u] = stage[u]
  BY <1>2, Frame DEF lockOrProceed, Stage
<1>3. ASSUME NEW t \in Request, ListOwn(t)
      PROVE  /\ stage[t] = "listing" /\ stage'[t] \in {"duplicate", "creating", "error"}
             /\ \A u \in Request \ {t} : stage'[u] = stage[u]
  BY <1>3, Frame DEF ListOwn, Stage
<1>4. ASSUME NEW t \in Request, CreateJob(t)
      PROVE  /\ stage[t] = "creating" /\ stage'[t] \in {"reconciling", "error"}
             /\ \A u \in Request \ {t} : stage'[u] = stage[u]
  BY <1>4, Frame DEF CreateJob, Stage
<1>5. ASSUME NEW t \in Request, QueuePosition(t)
      PROVE  /\ stage[t] = "asking" /\ stage'[t] \in {"queued", "started"}
             /\ \A u \in Request \ {t} : stage'[u] = stage[u]
  <2>1. PICK s \in {"queued", "started"} : SetStage(t, s)
    BY <1>5 DEF QueuePosition
  <2>2. QED
    BY <1>5, <2>1, Frame DEF QueuePosition, Stage
<1>6. ASSUME NEW p \in Replica, NEW by \in Request \cup {Poll}, TryLock(p, by)
      PROVE  \A u \in Request : \/ stage'[u] = stage[u]
                                \/ stage[u] = "reconciling" /\ stage'[u] \in {"in_pass", "asking"}
  BY <1>6 DEF TryLock, Resume, Typed, TypeOK
<1>7. ASSUME NEW p \in Replica, Crash(p)
      PROVE  \A u \in Request : stage'[u] \in {stage[u], "lost"}
  BY <1>7 DEF Crash
<1>8. ASSUME NEW p \in Replica, startQueued(p)
      PROVE  \A u \in Request : \/ stage'[u] = stage[u]
                                \/ stage[u] = "in_pass" /\ stage'[u] = "asking"
  <2>1. CASE stage' = stage
    BY <2>1
  <2>2. CASE EndPass(p) /\ pass[p].by # Poll
    <3>1. pass[p].by \in Request
      BY <2>2 DEF EndPass, Typed, TypeOK, Pass
    <3>2. stage[pass[p].by] = "in_pass" /\ stage' = [stage EXCEPT ![pass[p].by] = "asking"]
      BY <2>2, <3>1 DEF EndPass, Resume, Within
    <3>3. QED
      BY <3>1, <3>2 DEF Typed, TypeOK
  <2>3. QED
    BY <1>8, <2>1, <2>2 DEF startQueued, List, StartJob, EndPass, Resume, enqueueVars
<1>9. ASSUME NEW p \in Replica, reportFailures(p) PROVE stage' = stage
  BY <1>9 DEF reportFailures, Claim, Check, Report, BudgetOut, enqueueVars
<1>10. LockLapses \/ (\E l \in Request : Land(l)) \/ (\E x \in PR : EnqLockLapses(x) \/ Close(x)) \/ (\E t \in Request : RunJob(t)) \/ UNCHANGED vars
       => stage' = stage
  BY DEF LockLapses, Land, EnqLockLapses, Close, RunJob, StartReview, FinishReview, Die, vars, enqueueVars
<1>11. QED
  BY <1>1, <1>2, <1>3, <1>4, <1>5, <1>6, <1>7, <1>8, <1>9, <1>10 DEF Next, Enqueue, Early

\* A request in a pass is not the one that any other step acts for.
LEMMA WithinKeeps == ASSUME Typed, OnePass, Within, [Next]_vars PROVE Within'
<1>0. /\ pass \in [Replica -> Pass] /\ stage \in [Request -> Stage]
      /\ at \in [Request -> Replica \cup {None}]
  BY DEF Typed, TypeOK
<1>1. ASSUME NEW r \in Request, Enqueue(r) \/ \E p \in Replica : Receive(r, p) PROVE Within'
  <2>1. stage[r] # "in_pass" /\ pass' = pass
    BY <1>1 DEF Enqueue, lockOrProceed, ListOwn, CreateJob, QueuePosition, Receive, passVars
  <2>2. \A t \in Request \ {r} : stage'[t] = stage[t] /\ at'[t] = at[t]
    BY <1>0, <1>1 DEF Enqueue, lockOrProceed, ListOwn, CreateJob, QueuePosition, Receive, SetStage
  <2>3. QED
    BY <2>1, <2>2 DEF Within
<1>2. ASSUME NEW p \in Replica, NEW by \in Request \cup {Poll}, TryLock(p, by) PROVE Within'
  <2>1. at' = at
    BY <1>2 DEF TryLock
  <2>2. CASE /\ pass' = [pass EXCEPT ![p] = [NoPass EXCEPT !.by = by]]
             /\ stage' = IF by = Poll THEN stage ELSE [stage EXCEPT ![by] = "in_pass"]
    <3>1. \A q \in Replica \ {p} : pass'[q] = pass[q]
      BY <1>0, <2>2
    <3>2. pass'[p].by = by
      BY <1>0, <2>2, Entering
    <3>3. CASE by = Poll
      BY <2>1, <2>2, <3>1, <3>2, <3>3, JobsAssumption DEF Within
    <3>4. CASE by \in Request
      <4>1. by # Poll /\ at[by] = p
        BY <1>2, <3>4, JobsAssumption DEF TryLock
      <4>2. stage' = [stage EXCEPT ![by] = "in_pass"]
        BY <2>2, <4>1
      <4>3. QED
        BY <1>0, <2>1, <3>1, <3>2, <3>4, <4>1, <4>2 DEF Within
    <3>5. QED
      BY <3>3, <3>4
  <2>3. CASE Resume(by) /\ pass' = pass
    <3>1. by \in Request => stage[by] = "reconciling"
      BY <1>2, JobsAssumption DEF TryLock
    <3>2. \A t \in Request : stage[t] = "in_pass" => stage'[t] = "in_pass"
      BY <1>0, <2>3, <3>1, JobsAssumption DEF Resume
    <3>3. QED
      BY <2>1, <2>3, <3>2 DEF Within
  <2>4. QED
    BY <1>2, <2>2, <2>3 DEF TryLock
<1>3. ASSUME NEW p \in Replica, List(p) PROVE Within'
  <2>1. \A q \in Replica : pass'[q].by = pass[q].by
    BY <1>0, <1>3 DEF List, planReconcile
  <2>2. QED
    BY <1>3, <2>1 DEF Within, List, enqueueVars
<1>4. ASSUME NEW p \in Replica, NEW r \in Request, StartJob(p, r) PROVE Within'
  <2>1. \A q \in Replica : pass'[q].by = pass[q].by
    BY <1>4, StartSpends
  <2>2. QED
    BY <1>4, <2>1 DEF Within, StartJob, enqueueVars
<1>5. ASSUME NEW p \in Replica, EndPass(p) PROVE Within'
  <2>1. /\ \A q \in Replica \ {p} : pass'[q] = pass[q]
        /\ pass'[p].by = None
    BY <1>0, <1>5, Entering DEF EndPass
  <2>2. at' = at /\ Resume(pass[p].by) /\ pass[p].by \in Request \cup {Poll}
    BY <1>0, <1>5 DEF EndPass, Pass
  <2>3. \A q \in Replica \ {p} : pass[q].by \in Request => pass[q].by # pass[p].by
    BY DEF Within
  <2>4. \A t \in Request : t # pass[p].by => stage'[t] = stage[t]
    BY <1>0, <2>2 DEF Resume
  <2>5. QED
    BY <2>1, <2>2, <2>3, <2>4, JobsAssumption DEF Within
<1>6. ASSUME NEW p \in Replica, Crash(p) PROVE Within'
  <2>1. /\ \A q \in Replica \ {p} : pass'[q] = pass[q]
        /\ pass'[p].by = None
    BY <1>0, <1>6, Entering DEF Crash
  <2>2. \A t \in Request : at[t] # p => stage'[t] = stage[t] /\ at'[t] = at[t]
    BY <1>0, <1>6 DEF Crash
  <2>3. QED
    BY <2>1, <2>2, JobsAssumption DEF Within
<1>7. ASSUME NEW p \in Replica, reportFailures(p) PROVE UNCHANGED <<stage, at, pass>>
  BY <1>7 DEF reportFailures, Claim, Check, Report, BudgetOut, enqueueVars, passVars
<1>8. LockLapses \/ (\E l \in Request : Land(l)) \/ (\E x \in PR : EnqLockLapses(x) \/ Close(x)) \/ (\E r \in Request : RunJob(r)) \/ UNCHANGED vars
      => UNCHANGED <<stage, at, pass>>
  BY DEF LockLapses, Land, EnqLockLapses, Close, RunJob, StartReview, FinishReview, Die, vars, enqueueVars, passVars
<1>9. UNCHANGED <<stage, at, pass>> => Within'
  BY DEF Within
<1>10. QED
  BY <1>1, <1>2, <1>3, <1>4, <1>5, <1>6, <1>7, <1>8, <1>9 DEF Next, startQueued

LEMMA FreshKeeps == ASSUME Typed, Within, Fresh, [Next]_vars PROVE Fresh'
<1>1. SUFFICES ASSUME NEW r \in Request, stage'[r] \in Early \cup {"creating"} PROVE job'[r] = "none"
  BY DEF Fresh
<1>2. stage[r] \in Early \cup {"creating"}
  BY <1>1, StagesMove DEF ListOwn, Early
<1>3. job[r] = "none"
  BY <1>2 DEF Fresh
<1>4. ~Creates(r)
  <2> SUFFICES ASSUME Creates(r) PROVE FALSE
    OBVIOUS
  <2>1. stage'[r] \in {"reconciling", "error"}
    BY Frame DEF Creates, CreateJob, Stage
  <2>2. QED
    BY <1>1, <2>1 DEF Early
<1>5. ~Starts(r) /\ ~Leaves(r) /\ ~Claimed(r)
  <2>1. ASSUME NEW p \in Replica, StartJob(p, r), job' = [job EXCEPT ![r] = "running"] PROVE FALSE
    BY <1>3, <2>1 DEF StartJob, SetJob, Suspended, Typed, TypeOK
  <2>2. QED
    BY <1>3, <2>1 DEF Starts, Land, Suspended, Leaves, Claimed
<1>6. QED
  BY <1>3, <1>4, <1>5, JobMoves DEF Creates, Starts, Leaves, Claimed, Typed, TypeOK

\* A Job that is neither missing nor queued never is again.
LEMMA NoReturn ==
    ASSUME Typed, Fresh, [Next]_vars, NEW r \in Request, job[r] \notin {"none", "suspended"}
    PROVE  job'[r] \notin {"none", "suspended"}
<1>1. ~Creates(r)
  BY DEF Creates, Fresh
<1>2. QED
  BY <1>1, JobMoves DEF Creates, Starts, Leaves, Claimed, Typed, TypeOK

LEMMA SeenKeeps == ASSUME Typed, Within, Fresh, Seen, [Next]_vars PROVE Seen'
<1>0. /\ started \in [Request -> SUBSET Request] /\ answer \in [Request -> Request \cup {None}]
      /\ \A r \in Request : started[r] \subseteq Request
  BY DEF Typed, TypeOK
<1>1. \A t \in Request : stage'[t] \in Early \cup {"creating"} => stage[t] \in Early \cup {"creating"}
  BY StagesMove DEF Early, ListOwn
<1>2. CASE UNCHANGED <<started, answer>>
  BY <1>0, <1>1, <1>2, NoReturn DEF Seen
<1>3. ASSUME NEW r \in Request, NEW p \in Replica, Receive(r, p) PROVE Seen'
  <2>1. /\ answer' = answer /\ job' = job
        /\ \A t \in Request \ {r} : started'[t] = started[t]
        /\ started'[r] = {s \in Request : r \in Mention /\ job[s] \notin {"none", "suspended"}}
    BY <1>0, <1>3 DEF Receive
  <2>2. answer[r] = None
    BY <1>3 DEF Seen, Receive, Early
  <2>3. QED
    BY <1>1, <2>1, <2>2 DEF Seen
<1>4. ASSUME NEW r \in Request, NEW s \in Request, started' = started,
             answer' = [answer EXCEPT ![r] = s], r \in Mention => s \notin started[r],
             stage'[r] \notin Early \cup {"creating"}
      PROVE  Seen'
  <2>1. /\ \A t \in Request \ {r} : answer'[t] = answer[t]
        /\ answer'[r] = s
    BY <1>0, <1>4
  <2>2. \A t \in Request : \A u \in started'[t] : job'[u] \notin {"none", "suspended"}
    BY <1>0, <1>4, NoReturn DEF Seen
  <2>3. QED
    BY <1>1, <1>4, <2>1, <2>2 DEF Seen
<1>5. ASSUME NEW r \in Request, ListOwn(r) PROVE Seen'
  <2>1. started' = started
    BY <1>5 DEF ListOwn
  <2>2. CASE answer' = answer
    BY <1>2, <2>1, <2>2
  <2>3. ASSUME NEW s \in Request, duplicates(r, s), answer' = [answer EXCEPT ![r] = s],
               SetStage(r, "duplicate")
        PROVE  Seen'
    <3>1. stage'[r] = "duplicate"
      BY <2>3, Frame DEF Stage
    <3>2. r \in Mention => s \notin started[r]
      BY <2>3 DEF duplicates, Suspended, Seen
    <3>3. QED
      BY <1>4, <2>1, <2>3, <3>1, <3>2 DEF Early
  <2>4. QED
    BY <1>5, <2>2, <2>3 DEF ListOwn
<1>6. ASSUME NEW r \in Request, CreateJob(r) PROVE Seen'
  <2>1. started' = started
    BY <1>6 DEF CreateJob
  <2>2. CASE answer' = answer
    BY <1>2, <2>1, <2>2
  <2>3. CASE answer' = [answer EXCEPT ![r] = r] /\ SetStage(r, "reconciling")
    <3>1. stage'[r] = "reconciling"
      BY <2>3, Frame DEF Stage
    <3>2. r \notin started[r]
      BY <1>6 DEF CreateJob, Fresh, Seen
    <3>3. QED
      BY <1>4, <2>1, <2>3, <3>1, <3>2 DEF Early
  <2>4. QED
    BY <1>6, <2>2, <2>3 DEF CreateJob
<1>7. ASSUME NEW r \in Request, lockOrProceed(r) \/ QueuePosition(r) \/ RunJob(r)
      PROVE  UNCHANGED <<started, answer>>
  BY <1>7 DEF lockOrProceed, QueuePosition, RunJob, StartReview, FinishReview, Die, enqueueVars
<1>8. ASSUME NEW p \in Replica, \/ reportFailures(p) \/ startQueued(p) \/ Crash(p)
                                \/ \E by \in Request \cup {Poll} : TryLock(p, by)
      PROVE  UNCHANGED <<started, answer>>
  BY <1>8 DEF reportFailures, Claim, Check, Report, BudgetOut, startQueued, List, StartJob, EndPass,
              Crash, TryLock, enqueueVars
<1>9. LockLapses \/ (\E l \in Request : Land(l)) \/ (\E x \in PR : EnqLockLapses(x) \/ Close(x)) \/ UNCHANGED vars => UNCHANGED <<started, answer>>
  BY DEF LockLapses, Land, EnqLockLapses, Close, vars, enqueueVars
<1>10. QED
  BY <1>2, <1>3, <1>5, <1>6, <1>7, <1>8, <1>9 DEF Next, Enqueue

-----------------------------------------------------------------------------
(* The stamps: the order of the queue.                                     *)

\* A stamp is added at the end, for a request that has none.
LEMMA Stamping ==
    ASSUME Typed, Stamped, NEW r \in Request, ~InOrder(r), order' = Append(order, r)
    PROVE  /\ \A i, j \in 1..Len(order') : order'[i] = order'[j] => i = j
           /\ \A s \in Request : InOrder(s)' <=> InOrder(s) \/ s = r
           /\ \A s, t \in Request : InOrder(s) /\ InOrder(t) => (Older(s, t)' <=> Older(s, t))
           /\ \A s \in Request : InOrder(s) => Older(s, r)'
<1>1. order \in Seq(Request)
  BY DEF Typed, TypeOK
<1>2. /\ Len(order) \in Nat /\ Len(order') = Len(order) + 1
      /\ \A i \in 1..Len(order) : order'[i] = order[i]
      /\ order'[Len(order) + 1] = r
  BY <1>1, AppendProperties
<1>3. \A i \in 1..Len(order) : order[i] # r
  BY DEF InOrder
<1>4. \A i, j \in 1..Len(order') : order'[i] = order'[j] => i = j
  BY <1>2, <1>3 DEF Stamped
<1>5. \A s \in Request : InOrder(s)' <=> InOrder(s) \/ s = r
  BY <1>2 DEF InOrder
<1>6. ASSUME NEW s \in Request, InOrder(s)
      PROVE  IndexOf(s)' = IndexOf(s) /\ IndexOf(s) \in 1..Len(order)
  <2>1. PICK i \in 1..Len(order) : order[i] = s
    BY <1>6 DEF InOrder
  <2>2. IndexOf(s) = i
    BY <2>1 DEF IndexOf, Stamped
  <2>3. i \in 1..Len(order') /\ order'[i] = s
    BY <1>2, <2>1
  <2>4. IndexOf(s)' = i
    BY <1>4, <2>3 DEF IndexOf
  <2>5. QED
    BY <2>1, <2>2, <2>4
<1>7. IndexOf(r)' = Len(order) + 1
  <2>1. Len(order) + 1 \in 1..Len(order') /\ order'[Len(order) + 1] = r
    BY <1>2
  <2>2. QED
    BY <1>4, <2>1 DEF IndexOf
<1>8. QED
  BY <1>2, <1>4, <1>5, <1>6, <1>7 DEF Older

LEMMA OrderStands ==
    ASSUME order' = order
    PROVE  /\ \A s \in Request : InOrder(s)' <=> InOrder(s)
           /\ \A s, t \in Request : Older(s, t)' <=> Older(s, t)
  BY DEF InOrder, Older, IndexOf

\* Only a request that lists its Jobs gets a stamp.
LEMMA OrderMoves ==
    ASSUME [Next]_vars
    PROVE  \/ order' = order
           \/ \E r \in Request : /\ ListOwn(r) /\ SetStage(r, "creating") /\ order' = Append(order, r)
                                 /\ \A s \in Request : ~duplicates(r, s)
                                 /\ enqLock' = enqLock
<1>1. ASSUME NEW r \in Request, Enqueue(r) \/ RunJob(r) \/ \E p \in Replica : Receive(r, p)
      PROVE  \/ order' = order
             \/ /\ ListOwn(r) /\ SetStage(r, "creating") /\ order' = Append(order, r)
                /\ \A s \in Request : ~duplicates(r, s)
                /\ enqLock' = enqLock
  BY <1>1 DEF Enqueue, lockOrProceed, ListOwn, CreateJob, QueuePosition, RunJob, StartReview, FinishReview, Die, Receive, enqueueVars
<1>2. ASSUME NEW p \in Replica, \/ reportFailures(p) \/ startQueued(p) \/ Crash(p)
                                \/ \E by \in Request \cup {Poll} : TryLock(p, by)
      PROVE  order' = order
  BY <1>2 DEF reportFailures, Claim, Check, Report, BudgetOut, startQueued, List, StartJob, EndPass,
              Crash, TryLock, enqueueVars
<1>3. LockLapses \/ (\E l \in Request : Land(l)) \/ (\E x \in PR : EnqLockLapses(x) \/ Close(x)) \/ UNCHANGED vars => order' = order
  BY DEF LockLapses, Land, EnqLockLapses, Close, vars, enqueueVars
<1>4. QED
  BY <1>1, <1>2, <1>3 DEF Next

LEMMA StampedKeeps == ASSUME Typed, Within, Fresh, Stamped, [Next]_vars PROVE Stamped'
<1>1. ASSUME NEW r \in Request, job'[r] # "none" \/ stage'[r] = "creating", ~ListOwn(r)
      PROVE  InOrder(r)
  <2>1. job'[r] # "none" => job[r] # "none" \/ stage[r] = "creating"
    BY JobMoves DEF Creates, Starts, Land, StartJob, Suspended, SetJob, Leaves, Claimed, Typed, TypeOK
  <2>2. stage'[r] = "creating" => stage[r] = "creating"
    BY <1>1, StagesMove
  <2>3. QED
    BY <1>1, <2>1, <2>2 DEF Stamped
<1>2. CASE order' = order
  <2>1. ASSUME NEW r \in Request, ListOwn(r) PROVE stage'[r] # "creating" /\ job' = job
    BY <1>2, <2>1, Frame DEF ListOwn, Stage, Typed, TypeOK
  <2>2. ASSUME NEW r \in Request, job'[r] # "none" \/ stage'[r] = "creating" PROVE InOrder(r)
    <3>1. CASE ListOwn(r)
      <4>1. job[r] # "none" /\ stage[r] \in Early
        BY <2>1, <2>2, <3>1 DEF ListOwn, Early
      <4>2. QED
        BY <4>1 DEF Fresh
    <3>2. QED
      BY <1>1, <2>2, <3>1
  <2>3. ASSUME NEW r \in Request, stage'[r] \in Early PROVE ~InOrder(r)
    BY <2>3, StagesMove DEF Stamped
  <2>4. QED
    BY <1>2, <2>2, <2>3, OrderStands DEF Stamped
<1>3. ASSUME NEW r \in Request, ListOwn(r), SetStage(r, "creating"), order' = Append(order, r)
      PROVE  Stamped'
  <2>1. ~InOrder(r) /\ job' = job
    BY <1>3 DEF ListOwn, Stamped, Early
  <2>2. /\ \A i, j \in 1..Len(order') : order'[i] = order'[j] => i = j
        /\ \A s \in Request : InOrder(s)' <=> InOrder(s) \/ s = r
    BY <1>3, <2>1, Stamping
  <2>3. stage'[r] = "creating" /\ \A t \in Request \ {r} : stage'[t] = stage[t]
    BY <1>3, Frame DEF Stage
  <2>4. QED
    BY <2>1, <2>2, <2>3 DEF Stamped, Early
<1>4. QED
  BY <1>2, <1>3, OrderMoves

-----------------------------------------------------------------------------
(* While every enqueue has its lock.                                       *)

\* The locks of the pull requests, in a step with no trouble before or after.
LEMMA LockKeeps ==
    ASSUME Typed, Within, LockTrue, AllLocked, AllLocked', [Next]_vars
    PROVE  LockTrue'
<1>0. /\ enqLock \in [PR -> Request \cup {None, Dead}] /\ prOf \in [Request -> PR]
      /\ Left = {None} /\ ~troubled /\ None # Dead /\ Dead \notin Request
  BY JobsAssumption DEF Typed, TypeOK, AllLocked, Left
<1>1. \A r, s \in Request : /\ stage[r] \in {"listing", "creating"} /\ stage[s] \in {"listing", "creating"}
                            /\ prOf[r] = prOf[s]
                            => r = s
  BY DEF LockTrue
<1>2. ASSUME NEW r \in Request, lockOrProceed(r) PROVE LockTrue'
  <2>1. enqLock[prOf[r]] = None /\ enqLock' = [enqLock EXCEPT ![prOf[r]] = r]
    BY <1>0, <1>2 DEF lockOrProceed, LockTrue
  <2>2. stage'[r] = "listing" /\ \A t \in Request \ {r} : stage'[t] = stage[t]
    BY <1>2, Frame DEF lockOrProceed, Stage
  <2>3. \A t \in Request : stage[t] \in {"listing", "creating"} => prOf[t] # prOf[r]
    BY <1>0, <2>1, JobsAssumption DEF LockTrue
  <2>4. QED
    BY <1>0, <2>1, <2>2, <2>3 DEF LockTrue
<1>3. ASSUME NEW r \in Request, stage[r] \in {"listing", "creating"}, enqLock' \in Unlocked(r),
             stage'[r] \notin {"listing", "creating"},
             \A t \in Request \ {r} : stage'[t] = stage[t]
      PROVE  LockTrue'
  <2>1. enqLock' = [enqLock EXCEPT ![prOf[r]] = None]
    BY <1>0, <1>3 DEF Unlocked, LockTrue
  <2>2. QED
    BY <1>0, <1>1, <1>3, <2>1 DEF LockTrue
<1>4. ASSUME enqLock' = enqLock,
             \A t \in Request : stage'[t] \in {"listing", "creating"} => stage[t] \in {"listing", "creating"}
      PROVE  LockTrue'
  BY <1>4 DEF LockTrue
<1>5. ASSUME NEW r \in Request, ListOwn(r) PROVE LockTrue'
  <2>1. stage[r] = "listing" /\ \A t \in Request \ {r} : stage'[t] = stage[t]
    BY <1>5, Frame DEF ListOwn, Stage
  <2>2. CASE SetStage(r, "duplicate") /\ enqLock' \in Unlocked(r)
    <3>1. stage'[r] = "duplicate"
      BY <2>2, Frame DEF Stage
    <3>2. QED
      BY <1>3, <2>1, <2>2, <3>1
  <2>3. CASE enqLock' = enqLock
    BY <1>4, <2>1, <2>3
  <2>4. QED
    BY <1>0, <1>5, <2>2, <2>3 DEF ListOwn
<1>6. ASSUME NEW r \in Request, CreateJob(r) PROVE LockTrue'
  <2>1. /\ stage'[r] \in {"reconciling", "error"}
        /\ \A t \in Request \ {r} : stage'[t] = stage[t]
    BY <1>6, Frame DEF CreateJob, Stage
  <2>2. QED
    BY <1>3, <1>6, <2>1 DEF CreateJob
<1>7. ASSUME NEW x \in PR, EnqLockLapses(x) \/ Close(x) PROVE LockTrue'
  BY <1>7 DEF EnqLockLapses, Close, enqueueVars, LockTrue
<1>8. ASSUME NEW p \in Replica, Crash(p) PROVE LockTrue'
  <2>1. crashes' = crashes + 1 /\ crashes = 0 /\ crashes' = 0
    BY <1>8 DEF Crash, AllLocked
  <2>2. QED
    BY <2>1
<1>9. ASSUME NEW r \in Request, QueuePosition(r) \/ RunJob(r) \/ \E p \in Replica : Receive(r, p)
      PROVE  enqLock' = enqLock
  BY <1>9 DEF QueuePosition, RunJob, StartReview, FinishReview, Die, Receive, enqueueVars
<1>10. ASSUME NEW p \in Replica, \/ reportFailures(p) \/ startQueued(p)
                                 \/ \E by \in Request \cup {Poll} : TryLock(p, by)
       PROVE  enqLock' = enqLock
  BY <1>10 DEF reportFailures, Claim, Check, Report, BudgetOut, startQueued, List, StartJob, EndPass,
               TryLock, enqueueVars
<1>11. LockLapses \/ (\E l \in Request : Land(l)) \/ UNCHANGED vars => enqLock' = enqLock
  BY DEF LockLapses, Land, vars, enqueueVars
<1>12. CASE \E r \in Request : lockOrProceed(r) \/ ListOwn(r)
  BY <1>2, <1>5, <1>12
<1>13. CASE ~\E r \in Request : lockOrProceed(r) \/ ListOwn(r)
  <2>1. \A t \in Request : stage'[t] \in {"listing", "creating"} => stage[t] \in {"listing", "creating"}
    BY <1>13, StagesMove
  <2>2. QED
    BY <1>4, <1>6, <1>7, <1>8, <1>9, <1>10, <1>11, <1>13, <2>1 DEF Next, Enqueue
<1>14. QED
  BY <1>12, <1>13

\* In such a step a Job that changes is created by a request that settled that
\* it duplicates none, or started by the one pass, or ends.
LEMMA Creating ==
    ASSUME Typed, NEW r \in Request, Creates(r)
    PROVE  job'[r] = "suspended" /\ \A s \in Request \ {r} : job'[s] = job[s]
  BY DEF Creates, Typed, TypeOK

\* A Job that is unfinished, or suspended, was so unless it was just created.
LEMMA Unfinished ==
    ASSUME Typed, [Next]_vars, NEW s \in Request, ~Creates(s)
    PROVE  /\ job'[s] = "none" <=> job[s] = "none"
           /\ Finished(s) => Finished(s)'
           /\ Suspended(s)' => Suspended(s)
<1>1. ASSUME NEW r \in Request, Starts(r) PROVE job[r] = "suspended" \/ job' = job
  BY <1>1 DEF Starts, Land, StartJob, Suspended, SetJob
<1>2. CASE job' = job
  BY <1>2 DEF Finished, Suspended
<1>3. ASSUME NEW r \in Request, Creates(r) PROVE job'[s] = job[s]
  BY <1>3, Creating
<1>4. ASSUME NEW r \in Request, Starts(r) \/ Leaves(r) \/ Claimed(r), job' # job
      PROVE  \/ job'[s] = job[s]
             \/ job[s] = "suspended" /\ job'[s] = "running"
             \/ job[s] = "running" /\ job'[s] \in {"complete", "failed"}
             \/ job[s] = "failed" /\ job'[s] = "reported"
  BY <1>1, <1>4 DEF Starts, Leaves, Claimed, Typed, TypeOK
<1>5. QED
  BY <1>2, <1>3, <1>4, JobMoves DEF Finished, Suspended

LEMMA DuplicateStays ==
    ASSUME Typed, [Next]_vars, NEW r \in Request, NEW s \in Request, ~Creates(s), duplicates(r, s)'
    PROVE  duplicates(r, s)
  BY Unfinished DEF duplicates

LEMMA SettlingKeeps ==
    ASSUME Typed, Within, Fresh, Stamped, LockTrue, LockTrue', Settling, [Next]_vars
    PROVE  Settling'
<1>1. SUFFICES ASSUME NEW r \in Request, stage'[r] = "creating", NEW s \in Request
               PROVE  /\ ~duplicates(r, s)'
                      /\ prOf[s] = prOf[r] /\ job'[s] # "none" => Older(s, r)'
  BY DEF Settling
<1>2. CASE prOf[s] # prOf[r]
  BY <1>2 DEF duplicates
<1>3. CASE prOf[s] = prOf[r] /\ Creates(s)
  <2>1. stage[s] = "creating" /\ stage'[s] # "creating"
    BY <1>3, Frame DEF Creates, CreateJob, Stage
  <2>2. r # s /\ (stage[r] = "creating" \/ ListOwn(r))
    BY <1>1, <2>1, StagesMove
  <2>3. stage[r] \in {"listing", "creating"}
    BY <2>2 DEF ListOwn
  <2>4. QED
    BY <1>3, <2>1, <2>2, <2>3 DEF LockTrue
<1>4. CASE prOf[s] = prOf[r] /\ ~Creates(s) /\ stage[r] = "creating"
  <2>1. ~duplicates(r, s)'
    BY <1>4, DuplicateStays DEF Settling
  <2>2. ASSUME job'[s] # "none" PROVE Older(s, r)'
    <3>1. job[s] # "none" /\ Older(s, r) /\ InOrder(s) /\ InOrder(r)
      BY <1>4, <2>2, Unfinished DEF Settling, Stamped
    <3>2. CASE order' = order
      BY <3>1, <3>2, OrderStands
    <3>3. ASSUME NEW t \in Request, ListOwn(t), order' = Append(order, t) PROVE Older(s, r)'
      <4>1. ~InOrder(t)
        BY <3>3 DEF ListOwn, Stamped, Early
      <4>2. QED
        BY <3>1, <3>3, <4>1, Stamping
    <3>4. QED
      BY <3>2, <3>3, OrderMoves
  <2>3. QED
    BY <2>1, <2>2
<1>5. CASE prOf[s] = prOf[r] /\ ~Creates(s) /\ stage[r] # "creating"
  <2>1. ListOwn(r) /\ stage[r] = "listing"
    BY <1>1, <1>5, StagesMove DEF ListOwn
  <2>2. SetStage(r, "creating") /\ order' = Append(order, r) /\ \A t \in Request : ~duplicates(r, t)
    <3>1. ~SetStage(r, "duplicate") /\ ~SetStage(r, "error")
      BY <1>1, Frame DEF Stage
    <3>2. QED
      BY <2>1, <3>1 DEF ListOwn
  <2>3. ~duplicates(r, s)'
    BY <1>5, <2>2, DuplicateStays
  <2>4. ~InOrder(r)
    BY <2>1 DEF Stamped, Early
  <2>5. job'[s] # "none" => InOrder(s)
    BY <1>5, Unfinished DEF Stamped
  <2>6. QED
    BY <2>2, <2>3, <2>4, <2>5, Stamping
<1>6. QED
  BY <1>2, <1>3, <1>4, <1>5

\* What Older says of two requests in the queue does not change.
LEMMA OlderStays ==
    ASSUME Typed, Stamped, [Next]_vars, NEW s \in Request, NEW t \in Request,
           InOrder(s), InOrder(t), Older(s, t)
    PROVE  Older(s, t)'
<1>1. CASE order' = order
  BY <1>1, OrderStands
<1>2. ASSUME NEW r \in Request, ListOwn(r), order' = Append(order, r) PROVE Older(s, t)'
  <2>1. ~InOrder(r)
    BY <1>2 DEF ListOwn, Stamped, Early
  <2>2. QED
    BY <1>2, <2>1, Stamping
<1>3. QED
  BY <1>1, <1>2, OrderMoves

LEMMA NoDuplicatesKeep ==
    ASSUME Typed, Settling, NoDuplicateJobs, AllLocked, [Next]_vars
    PROVE  NoDuplicateJobs'
<1>1. SUFFICES ASSUME NEW r \in Request, NEW s \in Request, r # s, prOf[r] = prOf[s],
                      job'[r] # "none", ~Finished(r)', job'[s] # "none", ~Finished(s)'
               PROVE  /\ r \in Mention \/ s \in Mention
                      /\ ~(r \in Mention /\ s \in Mention /\ Suspended(r)' /\ Suspended(s)')
  BY DEF NoDuplicateJobs
<1>2. CASE ~Creates(r) /\ ~Creates(s)
  BY <1>1, <1>2, Unfinished DEF NoDuplicateJobs
<1>3. ASSUME NEW t \in Request, NEW u \in Request, Creates(t), t # u, prOf[t] = prOf[u],
             job'[u] # "none", ~Finished(u)'
      PROVE  /\ t \in Mention
             /\ ~(u \in Mention /\ Suspended(u)')
  <2>1. stage[t] = "creating" /\ job'[u] = job[u]
    BY <1>3, Creating DEF Creates
  <2>2. ~duplicates(t, u)
    BY <2>1 DEF Settling
  <2>3. QED
    BY <1>3, <2>1, <2>2 DEF duplicates, Finished, Suspended
<1>4. QED
  BY <1>1, <1>2, <1>3

LEMMA PlanOrderKeeps ==
    ASSUME Typed, OnePass, Within, Fresh, Stamped, Settling, PlanOrder, AllLocked, [Next]_vars
    PROVE  PlanOrder'
<1>0. /\ pass \in [Replica -> Pass] /\ ~troubled
      /\ \A p \in Replica : pass[p].left \subseteq Request
  BY DEF Typed, TypeOK, Pass, AllLocked
<1>1. ASSUME NEW r \in Request, job[r] # "none" PROVE job'[r] # "none"
  <2>1. CASE Creates(r)
    BY <2>1, Creating
  <2>2. QED
    BY <1>1, <2>1, Unfinished
<1>2. ASSUME NEW p \in Replica, pass'[p].listed, pass[p].listed,
             pass'[p].left \subseteq pass[p].left,
             pass[p].closed \subseteq pass'[p].closed,
             \A r \in pass[p].left \ pass'[p].left : prOf[r] \in pass'[p].closed
      PROVE  /\ \A r \in pass'[p].left : job'[r] # "none"
             /\ \A r \in pass'[p].left, s \in Request :
                    /\ s \notin pass'[p].left /\ Suspended(s)'
                    /\ prOf[r] = prOf[s] /\ prOf[s] \notin pass'[p].closed
                    => Older(r, s)'
  <2>1. \A r \in pass'[p].left : job[r] # "none" /\ r \in Request
    BY <1>0, <1>2 DEF PlanOrder
  <2>2. ASSUME NEW r \in pass'[p].left, NEW s \in Request, s \notin pass'[p].left, Suspended(s)',
               prOf[r] = prOf[s], prOf[s] \notin pass'[p].closed
        PROVE  Older(r, s)'
    <3>1. s \notin pass[p].left /\ prOf[s] \notin pass[p].closed /\ r \in pass[p].left
      BY <1>2, <2>2
    <3>2. InOrder(r) /\ job[r] # "none" /\ r \in Request
      BY <2>1, <2>2 DEF Stamped
    <3>3. CASE Creates(s)
      <4>1. Older(r, s) /\ InOrder(s)
        BY <2>2, <3>2, <3>3 DEF Creates, Settling, Stamped
      <4>2. QED
        BY <3>2, <4>1, OlderStays
    <3>4. CASE ~Creates(s)
      <4>1. Suspended(s)
        BY <2>2, <3>4, Unfinished
      <4>2. Older(r, s) /\ InOrder(s)
        BY <1>2, <2>2, <3>1, <4>1 DEF PlanOrder, Stamped, Suspended
      <4>3. QED
        BY <3>2, <4>2, OlderStays
    <3>5. QED
      BY <3>3, <3>4
  <2>3. QED
    BY <1>1, <2>1, <2>2
<1>3. ASSUME NEW p \in Replica, List(p) PROVE PlanOrder'
  <2>1. /\ \A q \in Replica \ {p} : pass'[q] = pass[q]
        /\ pass'[p].left = {r \in Request : Suspended(r)}
        /\ job' = job
    BY <1>0, <1>3 DEF List, planReconcile
  <2>2. /\ \A r \in pass'[p].left : job'[r] # "none"
        /\ \A s \in Request : ~(s \notin pass'[p].left /\ Suspended(s)')
    BY <2>1 DEF Suspended
  <2>3. QED
    BY <1>2, <2>1, <2>2 DEF PlanOrder
<1>4. ASSUME NEW p \in Replica, NEW r \in Request, StartJob(p, r) PROVE PlanOrder'
  <2>1. /\ \A q \in Replica \ {p} : pass'[q] = pass[q]
        /\ pass'[p].left = pass[p].left \ {r}
        /\ pass'[p].closed = pass[p].closed \cup {prOf[r]}
        /\ pass[p].listed
    BY <1>0, <1>4, StartSpends DEF StartJob
  <2>2. QED
    BY <1>2, <2>1 DEF PlanOrder
<1>5. ASSUME \A p \in Replica : pass'[p] = pass[p] \/ ~pass'[p].listed
      PROVE  PlanOrder'
  BY <1>2, <1>5 DEF PlanOrder
<1>6. QED
  BY <1>3, <1>4, <1>5, PassesMove

LEMMA StartsKeep ==
    ASSUME Typed, Fits, Fresh, Stamped, Settling, PlanOrder, StartsInOrder, AllLocked, [Next]_vars
    PROVE  StartsInOrder'
<1>1. SUFFICES ASSUME NEW r \in Request, NEW s \in Request, prOf[r] = prOf[s],
                      Suspended(s)', job'[r] \notin {"none", "suspended"}
               PROVE  Older(r, s)'
  BY DEF StartsInOrder
<1>2. r # s /\ ~Creates(r)
  BY <1>1, Creating DEF Suspended
<1>3. job[r] # "none" /\ InOrder(r)
  BY <1>1, <1>2, Unfinished DEF Stamped
<1>4. CASE Creates(s)
  <2>1. Older(r, s) /\ InOrder(s)
    BY <1>1, <1>3, <1>4 DEF Creates, Settling, Stamped
  <2>2. QED
    BY <1>3, <2>1, OlderStays
<1>5. CASE ~Creates(s) /\ job[r] # "suspended"
  <2>1. Suspended(s) /\ InOrder(s)
    BY <1>1, <1>5, Unfinished DEF Stamped, Suspended
  <2>2. QED
    BY <1>1, <1>3, <1>5, <2>1, OlderStays DEF StartsInOrder
<1>6. CASE ~Creates(s) /\ job[r] = "suspended"
  <2>1. Suspended(s) /\ InOrder(s)
    BY <1>1, <1>6, Unfinished DEF Stamped, Suspended
  <2>2. Starts(r)
    BY <1>1, <1>2, <1>6, JobMoves DEF Creates, Starts, Leaves, Claimed, Typed, TypeOK
  <2>3. PICK p \in Replica : StartJob(p, r)
    <3>1. ~Land(r)
      BY DEF Land, Fits, AllLocked
    <3>2. QED
      BY <2>2, <3>1 DEF Starts
  <2>4. r \in pass[p].left /\ prOf[r] \notin pass[p].closed /\ pass[p].listed
    BY <2>3 DEF StartJob, nextInLine, eligible
  <2>5. Older(r, s)
    <3>1. CASE s \in pass[p].left
      BY <1>1, <1>2, <2>3, <3>1 DEF StartJob, nextInLine, eligible
    <3>2. CASE s \notin pass[p].left
      BY <1>1, <2>1, <2>4, <3>2 DEF PlanOrder
    <3>3. QED
      BY <3>1, <3>2
  <2>6. QED
    BY <1>3, <2>1, <2>5, OlderStays
<1>7. QED
  BY <1>4, <1>5, <1>6

-----------------------------------------------------------------------------
(* The invariant, and what follows from it.                                *)

LEMMA Initially == Init => IInv
<1>1. SUFFICES ASSUME Init PROVE IInv
  OBVIOUS
<1>2. TypeOK
  <2>1. /\ pass \in [Replica -> Pass] /\ claim \in [Replica -> Claims]
        /\ order \in Seq(Request) /\ flying \subseteq Request
    <3>1. pass \in [Replica -> Pass]
      BY <1>1, EmptyPass DEF Init
    <3>2. claim \in [Replica -> Claims]
      BY <1>1, ClaimTypes DEF Init
    <3>3. order \in Seq(Request) /\ flying \subseteq Request
      BY <1>1 DEF Init
    <3>4. QED
      BY <3>1, <3>2, <3>3
  <2>2. job \in [Request -> JobState] /\ stage \in [Request -> Stage] /\ crashes \in 0..MaxCrashes[troubled]
    BY <1>1, JobsAssumption DEF Init, JobState, Stage
  <2>3. QED
    BY <1>1, <2>1, <2>2 DEF Init, TypeOK
<1>3. Taken = {} /\ flying = {}
  BY <1>1 DEF Init, Running, Taken
<1>4. Typed /\ Fits
  BY <1>2, <1>3, FS_EmptySet, JobsAssumption DEF Typed, Fits
<1>5. \A p \in Replica : pass[p].by = None /\ ~pass[p].listed
  BY <1>1 DEF Init, NoPass
<1>6. OnePass /\ Within /\ PlanHolds /\ PlanOrder
  BY <1>5, JobsAssumption DEF OnePass, Within, PlanHolds, PlanOrder
<1>7. Fresh /\ Seen /\ Stamped
  BY <1>1 DEF Init, Fresh, Seen, Stamped, InOrder
<1>8. LockTrue /\ Settling
  BY <1>1, JobsAssumption DEF Init, LockTrue, Settling
<1>9. NoDuplicateJobs /\ StartsInOrder
  BY <1>1 DEF Init, NoDuplicateJobs, StartsInOrder, Suspended
<1>10. QED
  BY <1>4, <1>6, <1>7, <1>8, <1>9 DEF IInv, Ordered

\* Trouble and crashes are never undone.
LEMMA LockedBefore == ASSUME Typed, [Next]_vars, AllLocked' PROVE AllLocked
<1>1. crashes \in Nat
  BY JobsAssumption DEF Typed, TypeOK
<1>2. ASSUME NEW p \in Replica, Crash(p) PROVE FALSE
  BY <1>1, <1>2 DEF Crash, AllLocked
<1>3. QED
  BY <1>2, TroubleStays DEF AllLocked

LEMMA IInvKeeps == IInv /\ [Next]_vars => IInv'
<1>1. SUFFICES ASSUME IInv, [Next]_vars PROVE IInv'
  OBVIOUS
<1>2. Typed' /\ Fits' /\ OnePass' /\ Within' /\ PlanHolds' /\ Fresh' /\ Seen' /\ Stamped'
  BY <1>1, TypedKeeps, FitsKeeps, OnePassKeeps, WithinKeeps, PlanKeeps, FreshKeeps, SeenKeeps, StampedKeeps DEF IInv
<1>3. ASSUME AllLocked' PROVE Ordered'
  <2>1. AllLocked
    BY <1>1, <1>3, LockedBefore DEF IInv
  <2>2. LockTrue'
    BY <1>1, <1>3, <2>1, LockKeeps DEF IInv, Ordered
  <2>3. Settling'
    BY <1>1, <2>1, <2>2, SettlingKeeps DEF IInv, Ordered
  <2>4. PlanOrder' /\ NoDuplicateJobs' /\ StartsInOrder'
    BY <1>1, <2>1, PlanOrderKeeps, NoDuplicatesKeep, StartsKeep DEF IInv, Ordered
  <2>5. QED
    BY <2>2, <2>3, <2>4 DEF Ordered
<1>4. QED
  BY <1>2, <1>3 DEF IInv

THEOREM Invariance == Spec => []IInv
  BY Initially, IInvKeeps, PTL DEF Spec

\* Every reachable state of the executor has the types of the model.
THEOREM Types == Spec => []TypeOK
<1>1. IInv => TypeOK
  BY DEF IInv, Typed
<1>2. QED
  BY <1>1, Invariance, PTL

\* The Job that answers a mention starts after the mention came in.
THEOREM Newest == Spec => []MentionReadsNewest
<1>1. IInv => MentionReadsNewest
  BY JobsAssumption DEF IInv, Seen, MentionReadsNewest
<1>2. QED
  BY <1>1, Invariance, PTL

\* No two Jobs answer the same request, while every enqueue has its lock.
THEOREM OneJobEach == Spec => []NoDuplicateJobs
<1>1. IInv => NoDuplicateJobs
  BY DEF IInv, Ordered, NoDuplicateJobs
<1>2. QED
  BY <1>1, Invariance, PTL

\* Jobs of a pull request start in the order their requests were stamped,
\* while every enqueue has its lock.
THEOREM InLine == Spec => []StartsInOrder
<1>1. IInv => StartsInOrder
  BY DEF IInv, Ordered, StartsInOrder
<1>2. QED
  BY <1>1, Invariance, PTL

\* Nothing is told of a Job before its pod ends; a replica tells only of one that
\* it marked as reported, alone, and that was still untold when it looked.
Quiet ==
    /\ \A r \in Request : job[r] \in {"none", "suspended", "running"} => posts[r] = 0
    /\ \A p \in Replica : claim[p].job \in Request => job[claim[p].job] = "reported"
    /\ \A p, q \in Replica : p # q /\ claim[p].job \in Request => claim[p].job # claim[q].job
    /\ \A p \in Replica : claim[p].next = "post" => claim[p].job \in Request /\ posts[claim[p].job] = 0

\* A Job that ended never runs again, and one that is reported stays so.
LEMMA Ended ==
    ASSUME IInv, [Next]_vars, NEW r \in Request, job[r] \notin {"none", "suspended", "running"}
    PROVE  /\ job'[r] \notin {"none", "suspended", "running"}
           /\ job[r] = "reported" => job'[r] = "reported"
<1>1. Typed /\ Fresh /\ job \in [Request -> JobState]
  BY DEF IInv, Typed, TypeOK
<1>2. ~Creates(r)
  BY <1>1 DEF Creates, Fresh
<1>3. ~Starts(r)
  <2>1. ASSUME NEW p \in Replica, StartJob(p, r), job' = [job EXCEPT ![r] = "running"] PROVE FALSE
    BY <1>1, <2>1 DEF StartJob, Suspended
  <2>2. QED
    BY <2>1 DEF Starts, Land, Suspended
<1>4. QED
  BY <1>1, <1>2, <1>3, JobMoves DEF Creates, Starts, Leaves, Claimed

\* Notices come from a pod that ends, and from the report of a claimed Job that
\* has none.
LEMMA PostsMove ==
    ASSUME IInv, Quiet, [Next]_vars
    PROVE  \/ posts' = posts
           \/ \E r \in Request : /\ posts' = [posts EXCEPT ![r] = @ + 1]
                                 /\ \/ job[r] = "running" /\ job' \in {[job EXCEPT ![r] = "complete"], [job EXCEPT ![r] = "failed"]}
                                    \/ posts[r] = 0 /\ \E p \in Replica : claim[p].job = r /\ claim'[p].next = "check"
<1>1. ASSUME NEW r \in Request, RunJob(r)
      PROVE  \/ posts' = posts
             \/ /\ posts' = [posts EXCEPT ![r] = @ + 1]
                /\ job[r] = "running" /\ job' \in {[job EXCEPT ![r] = "complete"], [job EXCEPT ![r] = "failed"]}
  BY <1>1 DEF RunJob, StartReview, FinishReview, Noticed, Die, SetJob, reportVars
<1>2. ASSUME NEW p \in Replica, Report(p)
      PROVE  \/ posts' = posts
             \/ \E r \in Request : /\ posts[r] = 0 /\ claim[p].job = r /\ claim'[p].next = "check"
                                   /\ posts' = [posts EXCEPT ![r] = @ + 1]
  <2>1. claim[p].job \in Request /\ posts[claim[p].job] = 0
    BY <1>2 DEF Report, Quiet
  <2>2. claim'[p].next = "check"
    <3>1. claim \in [Replica -> Claims] /\ claim[p] \in Claims
      BY ClaimTypes DEF IInv, Typed, TypeOK
    <3>2. \/ claim' = [claim EXCEPT ![p] = NoClaim]
          \/ claim' = [claim EXCEPT ![p] = [@ EXCEPT !.tries = 1, !.next = "check"]]
      BY <1>2 DEF Report, Retry
    <3>3. claim'[p] \in {NoClaim, [claim[p] EXCEPT !.tries = 1, !.next = "check"]}
      BY <3>1, <3>2
    <3>4. QED
      BY <3>1, <3>3, ClaimTypes
  <2>3. QED
    BY <1>2, <2>1, <2>2 DEF Report
<1>3. ASSUME NEW p \in Replica, reportFailures(p), ~Report(p) PROVE posts' = posts
  BY <1>3 DEF reportFailures, Claim, Check, BudgetOut
<1>4. ASSUME NEW s \in Request, Enqueue(s) \/ \E p \in Replica : Receive(s, p) PROVE posts' = posts
  BY <1>4 DEF Enqueue, lockOrProceed, ListOwn, CreateJob, QueuePosition, Receive, reportVars
<1>5. ASSUME NEW p \in Replica, \/ startQueued(p) \/ Crash(p)
                                \/ \E by \in Request \cup {Poll} : TryLock(p, by)
      PROVE  posts' = posts
  BY <1>5 DEF startQueued, List, StartJob, EndPass, Crash, TryLock, reportVars
<1>6. LockLapses \/ (\E l \in Request : Land(l)) \/ (\E x \in PR : EnqLockLapses(x) \/ Close(x)) \/ UNCHANGED vars => posts' = posts
  BY DEF LockLapses, Land, EnqLockLapses, Close, vars, reportVars
<1>7. QED
  BY <1>1, <1>2, <1>3, <1>4, <1>5, <1>6 DEF Next

\* A replica turns to a Job by marking it, and looks before it tells.
LEMMA ClaimsMove ==
    ASSUME IInv, [Next]_vars, NEW p \in Replica
    PROVE  \/ claim'[p].job = claim[p].job /\ (claim'[p].next = "post" => claim[p].next = "post")
           \/ claim'[p].job = None /\ claim'[p].next = "check"
           \/ /\ claim'[p].job = claim[p].job /\ claim[p].job \in Request
              /\ posts' = posts /\ posts[claim[p].job] = 0
           \/ \E r \in Request : /\ claim'[p].job = r /\ claim'[p].next = "check"
                                 /\ job[r] = "failed" /\ job'[r] = "reported"
                                 /\ \A q \in Replica \ {p} : claim'[q] = claim[q]
<1>1. /\ claim \in [Replica -> Claims]
      /\ job \in [Request -> JobState] /\ NoClaim.job = None /\ NoClaim.next = "check"
  BY DEF IInv, Typed, TypeOK, NoClaim
<1>2. CASE claim' = claim
  BY <1>2
<1>3. ASSUME NEW q \in Replica, Retry(q)
      PROVE  \/ claim'[p].job = claim[p].job /\ (claim'[p].next = "post" => claim[p].next = "post")
             \/ claim'[p].job = None /\ claim'[p].next = "check"
  BY <1>1, <1>3 DEF Retry
<1>4. ASSUME NEW q \in Replica, claim' = [claim EXCEPT ![q] = NoClaim]
      PROVE  \/ claim'[p].job = claim[p].job /\ (claim'[p].next = "post" => claim[p].next = "post")
             \/ claim'[p].job = None /\ claim'[p].next = "check"
  BY <1>1, <1>4
<1>5. ASSUME NEW q \in Replica, Check(q), untold(claim[q].job), posts' = posts,
             claim' = [claim EXCEPT ![q] = [@ EXCEPT !.next = "post"]]
      PROVE  \/ claim'[p] = claim[p]
             \/ /\ claim'[p].job = claim[p].job /\ claim[p].job \in Request
                /\ posts' = posts /\ posts[claim[p].job] = 0
  <2>1. claim[q].job \in Request
    BY <1>1, <1>5, ClaimTypes DEF Check
  <2>2. claim'[q].job = claim[q].job /\ \A u \in Replica \ {q} : claim'[u] = claim[u]
    BY <1>1, <1>5, ClaimTypes
  <2>3. QED
    BY <1>5, <2>1, <2>2 DEF untold
<1>6. ASSUME NEW q \in Replica, NEW r \in Request, job[r] = "failed", job' = [job EXCEPT ![r] = "reported"],
             claim' = [claim EXCEPT ![q] = [NoClaim EXCEPT !.job = r]]
      PROVE  \/ claim'[p] = claim[p]
             \/ /\ claim'[p].job = r /\ claim'[p].next = "check"
                /\ job[r] = "failed" /\ job'[r] = "reported"
                /\ \A u \in Replica \ {p} : claim'[u] = claim[u]
  <2>1. [NoClaim EXCEPT !.job = r].job = r /\ [NoClaim EXCEPT !.job = r].next = "check"
    BY DEF NoClaim
  <2>2. job'[r] = "reported"
    BY <1>1, <1>6
  <2>3. CASE p = q
    BY <1>1, <1>6, <2>1, <2>2, <2>3
  <2>4. CASE p # q
    BY <1>1, <1>6, <2>4
  <2>5. QED
    BY <2>3, <2>4
<1>7. ASSUME NEW q \in Replica, reportFailures(q)
      PROVE  \/ claim' = claim \/ Retry(q) \/ claim' = [claim EXCEPT ![q] = NoClaim]
             \/ /\ Check(q) /\ untold(claim[q].job) /\ posts' = posts
                /\ claim' = [claim EXCEPT ![q] = [@ EXCEPT !.next = "post"]]
             \/ \E r \in Request : /\ job[r] = "failed" /\ job' = [job EXCEPT ![r] = "reported"]
                                   /\ claim' = [claim EXCEPT ![q] = [NoClaim EXCEPT !.job = r]]
  <2>1. Report(q) => Retry(q) \/ claim' = [claim EXCEPT ![q] = NoClaim]
    BY DEF Report
  <2>2. BudgetOut(q) => claim' = claim
    BY DEF BudgetOut
  <2>3. ASSUME NEW r \in Request, Claim(q, r)
        PROVE  \/ claim' = claim
               \/ /\ job[r] = "failed" /\ job' = [job EXCEPT ![r] = "reported"]
                  /\ claim' = [claim EXCEPT ![q] = [NoClaim EXCEPT !.job = r]]
    BY <2>3 DEF Claim, claimable, SetJob
  <2>4. ASSUME Check(q)
        PROVE  \/ Retry(q) \/ claim' = [claim EXCEPT ![q] = NoClaim]
               \/ /\ untold(claim[q].job) /\ posts' = posts
                  /\ claim' = [claim EXCEPT ![q] = [@ EXCEPT !.next = "post"]]
    <3>1. CASE untold(claim[q].job) /\ open[prOf[claim[q].job]]
      BY <2>4, <3>1 DEF Check
    <3>2. CASE ~(untold(claim[q].job) /\ open[prOf[claim[q].job]])
      BY <2>4, <3>2 DEF Check
    <3>3. QED
      BY <3>1, <3>2
  <2>5. QED
    BY <1>7, <2>1, <2>2, <2>3, <2>4 DEF reportFailures
<1>8. ASSUME NEW q \in Replica, reportFailures(q)
      PROVE  \/ claim'[p].job = claim[p].job /\ (claim'[p].next = "post" => claim[p].next = "post")
             \/ claim'[p].job = None /\ claim'[p].next = "check"
             \/ /\ claim'[p].job = claim[p].job /\ claim[p].job \in Request
                /\ posts' = posts /\ posts[claim[p].job] = 0
             \/ \E r \in Request : /\ claim'[p].job = r /\ claim'[p].next = "check"
                                   /\ job[r] = "failed" /\ job'[r] = "reported"
                                   /\ \A u \in Replica \ {p} : claim'[u] = claim[u]
  <2>1. CASE \E r \in Request : /\ job[r] = "failed" /\ job' = [job EXCEPT ![r] = "reported"]
                                /\ claim' = [claim EXCEPT ![q] = [NoClaim EXCEPT !.job = r]]
    BY <1>6, <2>1
  <2>2. CASE /\ Check(q) /\ untold(claim[q].job) /\ posts' = posts
             /\ claim' = [claim EXCEPT ![q] = [@ EXCEPT !.next = "post"]]
    BY <1>5, <2>2
  <2>3. CASE claim' = claim \/ Retry(q) \/ claim' = [claim EXCEPT ![q] = NoClaim]
    BY <1>2, <1>3, <1>4, <2>3
  <2>4. QED
    BY <1>7, <1>8, <2>1, <2>2, <2>3
<1>9. ASSUME NEW q \in Replica, Crash(q) PROVE claim' = [claim EXCEPT ![q] = NoClaim]
  BY <1>9 DEF Crash
<1>10. ASSUME NEW q \in Replica, startQueued(q) \/ \E by \in Request \cup {Poll} : TryLock(q, by)
      PROVE  claim' = claim
  BY <1>10 DEF startQueued, List, StartJob, EndPass, TryLock, reportVars
<1>11. ASSUME NEW r \in Request, Enqueue(r) \/ RunJob(r) \/ Land(r) \/ \E q \in Replica : Receive(r, q)
      PROVE  claim' = claim
  BY <1>11 DEF Enqueue, lockOrProceed, ListOwn, CreateJob, QueuePosition, RunJob, StartReview,
               FinishReview, Die, Land, Receive, reportVars
<1>12. LockLapses \/ (\E x \in PR : EnqLockLapses(x) \/ Close(x)) \/ UNCHANGED vars => claim' = claim
  BY DEF LockLapses, EnqLockLapses, Close, vars, reportVars
<1>13. QED
  BY <1>2, <1>4, <1>8, <1>9, <1>10, <1>11, <1>12 DEF Next

LEMMA QuietKeeps == ASSUME IInv, Quiet, [Next]_vars PROVE Quiet'
<1>1. /\ posts \in [Request -> Nat] /\ job \in [Request -> JobState] /\ None \notin Request
      /\ \A p \in Replica : claim[p].job \in Request \cup {None}
  BY JobsAssumption, ClaimTypes DEF IInv, Typed, TypeOK
<1>2. ASSUME NEW r \in Request, job'[r] \in {"none", "suspended", "running"} PROVE posts'[r] = 0
  <2>1. job[r] \in {"none", "suspended", "running"}
    BY <1>2, Ended
  <2>2. posts[r] = 0 /\ \A p \in Replica : claim[p].job # r
    BY <2>1 DEF Quiet
  <2>3. ASSUME NEW s \in Request, posts' = [posts EXCEPT ![s] = @ + 1],
               \/ job[s] = "running" /\ job' \in {[job EXCEPT ![s] = "complete"], [job EXCEPT ![s] = "failed"]}
               \/ \E p \in Replica : claim[p].job = s
        PROVE  s # r
    BY <1>1, <1>2, <2>2, <2>3
  <2>4. QED
    BY <1>1, <2>2, <2>3, PostsMove
<1>3. ASSUME NEW p \in Replica, claim'[p].job \in Request PROVE job'[claim'[p].job] = "reported"
  <2>1. CASE claim'[p].job = claim[p].job
    BY <1>3, <2>1, Ended DEF Quiet
  <2>2. QED
    BY <1>1, <1>3, <2>1, ClaimsMove
\* A replica marks a Job that failed; the ones others tell of are marked.
<1>4. ASSUME NEW p \in Replica, NEW q \in Replica, p # q,
             claim'[p].job \in Request, claim'[p].job = claim'[q].job
      PROVE  FALSE
  <2>1. ASSUME NEW u \in Replica, NEW v \in Replica, u # v, NEW r \in Request, job[r] = "failed",
               claim'[v].job = r, claim'[v] = claim[v]
        PROVE  FALSE
    BY <2>1 DEF Quiet
  <2>2. claim'[p].job = claim[p].job
    BY <1>1, <1>4, <2>1, ClaimsMove
  <2>3. claim'[q].job = claim[q].job
    BY <1>1, <1>4, <2>1, ClaimsMove
  <2>4. QED
    BY <1>4, <2>2, <2>3 DEF Quiet
<1>5. ASSUME NEW p \in Replica, claim'[p].next = "post"
      PROVE  claim'[p].job \in Request /\ posts'[claim'[p].job] = 0
  <2>1. CASE /\ claim'[p].job = claim[p].job /\ claim[p].job \in Request
             /\ posts' = posts /\ posts[claim[p].job] = 0
    BY <2>1
  <2>2. CASE claim'[p].job = claim[p].job /\ claim[p].next = "post"
    <3>1. claim[p].job \in Request /\ posts[claim[p].job] = 0 /\ job[claim[p].job] = "reported"
      BY <2>2 DEF Quiet
    <3>2. ASSUME NEW r \in Request, NEW q \in Replica, claim[q].job = r, claim'[q].next = "check"
          PROVE  r # claim[p].job
      BY <1>5, <3>1, <3>2 DEF Quiet
    <3>3. posts'[claim[p].job] = 0
      BY <1>1, <3>1, <3>2, PostsMove
    <3>4. QED
      BY <2>2, <3>1, <3>3
  <2>3. QED
    BY <1>5, <2>1, <2>2, ClaimsMove
<1>6. QED
  BY <1>2, <1>3, <1>4, <1>5 DEF Quiet

\* A pull request is told the outcome of a Job at most once.
THEOREM Once == Spec => []ToldOnce
<1>1. IInv /\ Quiet /\ ToldOnce /\ [Next]_vars => ToldOnce'
  <2>1. SUFFICES ASSUME IInv, Quiet, ToldOnce, [Next]_vars, NEW r \in Request PROVE posts'[r] <= 1
    BY DEF ToldOnce
  <2>2. posts \in [Request -> Nat] /\ posts[r] <= 1
    BY <2>1 DEF IInv, Typed, TypeOK, ToldOnce
  <2>3. posts' = posts \/ \E s \in Request : posts[s] = 0 /\ posts' = [posts EXCEPT ![s] = @ + 1]
    BY <2>1, PostsMove DEF Quiet
  <2>4. CASE \E s \in Request : posts[s] = 0 /\ posts' = [posts EXCEPT ![s] = @ + 1]
    <3>1. PICK s \in Request : posts[s] = 0 /\ posts' = [posts EXCEPT ![s] = @ + 1]
      BY <2>4
    <3>2. posts' = [posts EXCEPT ![s] = 1]
      BY <2>2, <3>1
    <3>3. QED
      BY <2>2, <3>2
  <2>5. QED
    BY <2>2, <2>3, <2>4
<1>2. Init => ToldOnce /\ Quiet
  BY JobsAssumption DEF Init, ToldOnce, Quiet, NoClaim
<1>3. IInv /\ Quiet /\ [Next]_vars => Quiet'
  BY QuietKeeps
<1>4. QED
  BY <1>1, <1>2, <1>3, Invariance, PTL DEF Spec

-----------------------------------------------------------------------------
(* The refinement.                                                         *)

LEMMA SlotStep ==
    ASSUME IInv, [Next]_vars
    PROVE  [Slots!Next]_(Slots!vars)
<1>1. Typed /\ job \in [Request -> JobState]
  BY DEF IInv, Typed, TypeOK
<1>2. ASSUME NEW r \in Request, Creates(r) PROVE Slots!Queue(r)
  <2>1. job[r] = "none" /\ job' = [job EXCEPT ![r] = "suspended"]
    BY <1>2 DEF Creates, IInv, Fresh
  <2>2. QED
    BY <1>1, <2>1 DEF Slots!Queue, Suspended, Running
<1>3. ASSUME NEW r \in Request, Starts(r), job' # job PROVE Slots!Start(r)
  <2>1. Land(r) \/ \E p \in Replica : StartJob(p, r)
    BY <1>3 DEF Starts
  <2>2. Suspended(r) /\ job' = [job EXCEPT ![r] = "running"]
    BY <1>3, <2>1 DEF StartJob, Land, Starts
  <2>3. Cardinality(Running) < MaxConcurrent /\ \A s \in Running : prOf[s] # prOf[r]
    <3>1. /\ Cardinality(Running) \in Nat /\ Cardinality(Taken) \in Nat /\ IsFiniteSet(Running)
          /\ Cardinality(Running) <= Cardinality(Taken) /\ MaxConcurrent \in Nat
      BY <1>1, RunningFits, JobsAssumption
    <3>2. ASSUME NEW p \in Replica, StartJob(p, r)
          PROVE  Cardinality(Taken) < MaxConcurrent /\ \A s \in Taken : prOf[s] # prOf[r]
      BY <3>2, StartFinds DEF IInv
    <3>3. CASE Land(r)
      <4>1. r \in Taken /\ r \notin Running /\ Running \cup {r} \subseteq Taken
        BY <2>2, <3>3 DEF Land, Taken, Running, Suspended
      <4>2. Cardinality(Running \cup {r}) = Cardinality(Running) + 1
        BY <3>1, <4>1, FS_AddElement
      <4>3. Cardinality(Running \cup {r}) <= Cardinality(Taken)
        BY <1>1, <4>1, FS_Subset DEF Typed
      <4>4. \A s \in Running : s \in Taken /\ s # r
        BY <4>1
      <4>5. QED
        BY <3>1, <4>1, <4>2, <4>3, <4>4 DEF IInv, Fits
    <3>4. QED
      BY <2>1, <3>1, <3>2, <3>3 DEF Taken
  <2>4. Running' = Running \cup {r} /\ {s \in Request : Suspended(s)}' = {s \in Request : Suspended(s)} \ {r}
    BY <1>1, <2>2 DEF Suspended, Running
  <2>5. r \in {s \in Request : Suspended(s)}
    BY <2>2
  <2>6. Slots!Cardinality(Running) = Cardinality(Running)
    BY DEF Slots!Cardinality, Cardinality
  <2>7. QED
    BY <2>3, <2>4, <2>5, <2>6 DEF Slots!Start
<1>4. ASSUME NEW r \in Request, Leaves(r) PROVE Slots!End(r)
  BY <1>1, <1>4 DEF Leaves, Slots!End, Suspended, Running
<1>5. ASSUME NEW r \in Request, Claimed(r) PROVE UNCHANGED Slots!vars
  BY <1>1, <1>5 DEF Claimed, Slots!vars, Suspended, Running
<1>6. job' = job => UNCHANGED Slots!vars
  BY DEF Slots!vars, Suspended, Running
<1>7. QED
  BY <1>2, <1>3, <1>4, <1>5, <1>6, JobMoves DEF Slots!Next

\* The executor implements the slots, and no Job enters the queue again.
THEOREM Refinement == Spec => Implements
<1>1. Init => Slots!Init
  BY DEF Init, Slots!Init, Suspended, Running
<1>2. IInv /\ [Next]_vars
      => [\A r \in Request : job'[r] \in {"none", "suspended"} => job[r] \in {"none", "suspended"}]_vars
  BY NoReturn DEF IInv
<1>3. IInv /\ [Next]_vars => [Slots!Next]_(Slots!vars)
  BY SlotStep
<1>4. QED
  BY <1>1, <1>2, <1>3, Invariance, PTL DEF Spec, Implements, Slots!Spec
=============================================================================
