--------------------------- MODULE DedupLeaseProof ---------------------------
(***************************************************************************)
(* What DedupLease guarantees for every set of deliveries and every choice *)
(* of the durations.                                                       *)
(***************************************************************************)
EXTENDS DedupLease, TLAPS

\* The stages before SeenRecently has answered.
Asking == {"new", "get", "takeover", "retry"}

\* The ticks after which a job that missed m renewals is due for another.
Due(m) == MaxWait + Interval * m

LEMMA DueStep ==
    ASSUME NEW m \in Nat
    PROVE  Due(m) \in Nat /\ Due(m + 1) = Due(m) + Interval
BY LeaseAssumption DEF Due

\* A job that missed no more than MaxMissed renewals is still in time.
LEMMA DueInTime ==
    ASSUME Timing, NEW m \in 0..MaxMissed
    PROVE  Due(m) + Interval < Duration
<1>1. m \in Nat /\ m <= MaxMissed /\ MaxMissed \in Nat
  BY LeaseAssumption
<1>2. Interval * m <= Interval * MaxMissed
  BY <1>1, LeaseAssumption
<1>3. Interval * (MaxMissed + 1) = Interval * MaxMissed + Interval
  BY <1>1, LeaseAssumption
<1>4. Interval * m \in Nat /\ Interval * MaxMissed \in Nat
  BY <1>1, LeaseAssumption
<1>. QED
  BY <1>2, <1>3, <1>4, LeaseAssumption DEF Timing, Due

-----------------------------------------------------------------------------
(* Types.                                                                  *)

LEMMA StageSets ==
    /\ Holding \subseteq Stage
    /\ Releasing \subseteq Stage
    /\ Ended \subseteq Stage
    /\ Asking \subseteq Stage
BY DEF Holding, Waiting, Releasing, Ended, Asking, Stage

LEMMA TypeInit == Init => TypeOK
BY LeaseAssumption DEF Init, TypeOK, Stage

LEMMA TypeNext == TypeOK /\ [Next]_vars => TypeOK'
<1> SUFFICES ASSUME TypeOK, [Next]_vars PROVE TypeOK'
  OBVIOUS
<1> USE LeaseAssumption DEF TypeOK, Stage, Holding, Waiting, Releasing, Ended,
        Lease, Goto, buildLease
<1>1. ASSUME NEW d \in Delivery, SeenRecently(d) PROVE TypeOK'
  <2>1. CASE Create(d) BY <2>1 DEF Create
  <2>2. CASE Get(d) BY <2>2 DEF Get
  <2>3. CASE TakeOver(d) BY <2>3 DEF TakeOver
  <2>4. CASE CreateAgain(d) BY <2>4 DEF CreateAgain
  <2>. QED BY <1>1, <2>1, <2>2, <2>3, <2>4 DEF SeenRecently
<1>2. ASSUME NEW d \in Delivery, Job(d) PROVE TypeOK'
  <2>1. CASE Submit(d) BY <2>1 DEF Submit
  <2>2. CASE Start(d) BY <2>2 DEF Start
  <2>3. CASE Finish(d) BY <2>3 DEF Finish
  <2>4. CASE Forget(d) BY <2>4 DEF Forget
  <2>. QED BY <1>2, <2>1, <2>2, <2>3, <2>4 DEF Job
<1>3. ASSUME NEW d \in Delivery, RenewGet(d) PROVE TypeOK'
  <2>1. missed' \in [Delivery -> 0..MaxMissed]
    BY <1>3 DEF RenewGet
  <2>2. copy' \in [Delivery -> Delivery \cup {None, Stale}]
    BY <1>3 DEF RenewGet
  <2>3. timer' \in [Delivery -> 0..(MaxWait + Interval)]
    BY <1>3 DEF RenewGet
  <2>. QED BY <1>3, <2>1, <2>2, <2>3 DEF RenewGet
<1>4. ASSUME NEW d \in Delivery, RenewUpdate(d) PROVE TypeOK'
  <2>1. missed' \in [Delivery -> 0..MaxMissed]
    BY <1>4 DEF RenewUpdate
  <2>2. copy' \in [Delivery -> Delivery \cup {None, Stale}]
    BY <1>4 DEF RenewUpdate
  <2>3. lease' \in Lease \cup {None}
    BY <1>4 DEF RenewUpdate
  <2>. QED BY <1>4, <2>1, <2>2, <2>3 DEF RenewUpdate
<1>5. ASSUME NEW d \in Delivery, Crash(d) PROVE TypeOK'
  BY <1>5 DEF Crash
<1>6. CASE Tick
  <2>1. lease' \in Lease \cup {None}
    BY <1>6 DEF Tick, aged, leaseExpired
  <2>2. ASSUME NEW d \in Delivery, pc[d] \in Holding
        PROVE timer[d] + 1 \in 0..(MaxWait + Interval)
    BY <1>6, <2>2 DEF Tick, Punctual
  <2>3. timer' \in [Delivery -> 0..(MaxWait + Interval)]
    BY <1>6, <2>2 DEF Tick
  <2>. QED BY <1>6, <2>1, <2>3 DEF Tick
<1>7. CASE UNCHANGED vars
  BY <1>7 DEF vars
<1>. QED
  BY <1>1, <1>2, <1>3, <1>4, <1>5, <1>6, <1>7 DEF Next, Renew

\* Type correctness.
THEOREM TypeCorrect == Spec => []TypeOK
BY TypeInit, TypeNext, PTL DEF Spec

-----------------------------------------------------------------------------
(* No orphan: unconditionally, failures and late renewals included.        *)

\* A lease stands only for a job that still has to delete it, a crashed pod
\* or a failed call.
THEOREM NoOrphan == Spec => []NoOrphanLease
<1>1. Init => NoOrphanLease
  BY DEF Init, NoOrphanLease
<1>2. TypeOK /\ NoOrphanLease /\ [Next]_vars => NoOrphanLease'
  <2> SUFFICES ASSUME TypeOK, NoOrphanLease, [Next]_vars
               PROVE NoOrphanLease'
    OBVIOUS
  <2> USE DEF TypeOK, NoOrphanLease, Holding, Waiting, Releasing, Ended,
          Lease, Goto, buildLease
  <2>1. ASSUME NEW d \in Delivery, SeenRecently(d) PROVE NoOrphanLease'
    BY <2>1 DEF SeenRecently, Create, Get, TakeOver, CreateAgain
  <2>2. ASSUME NEW d \in Delivery, Job(d) PROVE NoOrphanLease'
    <3>1. CASE Submit(d) BY <3>1 DEF Submit
    <3>2. CASE Start(d) BY <3>2 DEF Start
    <3>3. CASE Finish(d) BY <3>3 DEF Finish
    <3>4. CASE Forget(d) BY <3>4 DEF Forget
    <3>. QED BY <2>2, <3>1, <3>2, <3>3, <3>4 DEF Job
  <2>3. ASSUME NEW d \in Delivery, Renew(d) PROVE NoOrphanLease'
    BY <2>3 DEF Renew, RenewGet, RenewUpdate
  <2>4. ASSUME NEW d \in Delivery, Crash(d) PROVE NoOrphanLease'
    BY <2>4 DEF Crash
  <2>5. CASE Tick BY <2>5 DEF Tick, aged
  <2>6. CASE UNCHANGED vars BY <2>6 DEF vars
  <2>. QED BY <2>1, <2>2, <2>3, <2>4, <2>5, <2>6 DEF Next
<1>. QED
  BY <1>1, <1>2, TypeCorrect, PTL DEF Spec
-----------------------------------------------------------------------------
(* Exclusion, under Timing.                                                *)

\* The inductive invariant, one part per idea.

\* A delivery that has not been admitted has no history.
AskingIsBlank ==
    \A d \in Delivery : pc[d] \in Asking =>
        timer[d] = 0 /\ missed[d] = 0 /\ copy[d] = None

\* A pending Update is always for the delivery's own lease.
CopyIsOwn == \A d \in Delivery : copy[d] \in {None, d}

\* Who reviews, or still has to delete its lease, owns the lease.
HolderOwns ==
    \A d \in Delivery : pc[d] \in Holding \cup Releasing =>
        lease # None /\ lease.uid = d

\* The owner's lease is never older than what its renewals allow.
HolderInTime ==
    \A d \in Delivery :
        /\ pc[d] \in Waiting => lease.age <= timer[d] /\ timer[d] <= MaxWait /\ missed[d] = 0 /\ copy[d] = None
        /\ pc[d] = "running" =>
            /\ timer[d] <= Interval
            /\ copy[d] = None => lease.age <= Due(missed[d]) + timer[d]
            /\ copy[d] # None => lease.age <= Due(missed[d]) + Interval
        /\ pc[d] \in Releasing => lease.age < Duration

\* A takeover only ever targets the lease of a delivery that is over.
TargetIsOver ==
    \A d \in Delivery : pc[d] = "takeover" =>
        seen[d] \in Delivery /\ pc[seen[d]] \in Ended

\* The lease's maker got past its Create.
MakerAsked == lease # None => pc[lease.uid] \notin Asking

IInv ==
    /\ TypeOK
    /\ AskingIsBlank
    /\ CopyIsOwn
    /\ HolderOwns
    /\ HolderInTime
    /\ TargetIsOver
    /\ MakerAsked

LEMMA IInvInit == Init => IInv
BY TypeInit DEF Init, IInv, AskingIsBlank, CopyIsOwn, HolderOwns, HolderInTime,
    TargetIsOver, MakerAsked, Asking, Holding, Waiting, Releasing, Ended

\* The holder's lease is never stale.
LEMMA HolderFresh ==
    ASSUME Timing, IInv, NEW d \in Delivery, pc[d] \in Holding \cup Releasing
    PROVE  lease \in Lease /\ lease.uid = d /\ lease.age < Duration
<1>1. lease \in Lease /\ lease.uid = d
  BY DEF IInv, TypeOK, HolderOwns
<1>2. CASE pc[d] \in Waiting
  <2>1. lease.age <= MaxWait
    BY <1>1, <1>2, LeaseAssumption DEF IInv, TypeOK, HolderInTime, Lease
  <2>2. Due(0) + Interval < Duration /\ Due(0) = MaxWait
    BY DueInTime, LeaseAssumption DEF Due
  <2>. QED BY <1>1, <2>1, <2>2, LeaseAssumption DEF Lease
<1>3. CASE pc[d] = "running"
  <2>1. missed[d] \in 0..MaxMissed /\ timer[d] \in Nat
    BY LeaseAssumption DEF IInv, TypeOK
  <2>2. Due(missed[d]) + Interval < Duration /\ Due(missed[d]) \in Nat
    BY <2>1, DueInTime, DueStep
  <2>3. lease.age <= Due(missed[d]) + Interval
    BY <1>1, <1>3, <2>1, <2>2, LeaseAssumption DEF IInv, HolderInTime, Lease
  <2>. QED BY <1>1, <2>2, <2>3, LeaseAssumption DEF Lease
<1>4. CASE pc[d] \in Releasing
  BY <1>1, <1>4 DEF IInv, HolderInTime
<1>. QED BY <1>1, <1>2, <1>3, <1>4 DEF Holding

\* A Create that succeeds makes d the only holder.
LEMMA AdmitStep ==
    ASSUME IInv, TypeOK', NEW d \in Delivery, pc[d] \in Asking,
           lease = None, lease' = buildLease(d), Goto(d, "admitted"),
           UNCHANGED <<seen, timer, missed, copy>>
    PROVE  IInv'
<1> USE LeaseAssumption DEF IInv, TypeOK, Goto, Asking, Holding, Waiting, Releasing, Ended
<1>1. \A e \in Delivery : e # d => pc[e] \notin Holding \cup Releasing /\ pc'[e] = pc[e]
  BY DEF HolderOwns
<1>2. pc'[d] = "admitted" /\ lease' # None /\ lease'.uid = d /\ lease'.age = 0
  BY DEF buildLease
<1>3. timer[d] = 0 /\ missed[d] = 0 /\ copy[d] = None
  BY DEF AskingIsBlank
<1>4. HolderOwns' /\ MakerAsked' /\ AskingIsBlank' /\ CopyIsOwn'
  BY <1>1, <1>2, <1>3 DEF HolderOwns, MakerAsked, AskingIsBlank, CopyIsOwn
<1>5. HolderInTime'
  BY <1>1, <1>2, <1>3 DEF HolderInTime
<1>6. TargetIsOver'
  BY <1>1, <1>2 DEF TargetIsOver
<1>. QED BY <1>4, <1>5, <1>6

\* An answer that leaves the lease alone and admits nobody.
LEMMA AskStep ==
    ASSUME IInv, TypeOK', NEW d \in Delivery, pc[d] \in Asking,
           NEW s \in {"get", "retry", "dropped"}, Goto(d, s),
           UNCHANGED <<lease, timer, missed, copy>>,
           \A e \in Delivery : e # d => seen'[e] = seen[e]
    PROVE  IInv'
<1> USE LeaseAssumption DEF IInv, TypeOK, Goto, Asking, Holding, Waiting, Releasing, Ended
<1>1. HolderOwns' /\ AskingIsBlank' /\ CopyIsOwn'
  BY DEF HolderOwns, AskingIsBlank, CopyIsOwn
<1>2. HolderInTime'
  BY DEF HolderInTime
<1>3. TargetIsOver'
  BY DEF TargetIsOver
<1>4. MakerAsked'
  BY DEF MakerAsked, Lease
<1>. QED BY <1>1, <1>2, <1>3, <1>4

LEMMA AskingStep ==
    ASSUME Timing, faulty = {}, IInv, NEW d \in Delivery, SeenRecently(d), TypeOK'
    PROVE  IInv'
<1> USE LeaseAssumption DEF IInv, TypeOK, Goto, Asking, Holding, Waiting, Releasing, Ended
<1>1. CASE Create(d)
  BY <1>1, AdmitStep, AskStep DEF Create
<1>2. CASE Get(d)
  <2>1. ASSUME lease # None, leaseExpired(lease) PROVE pc[lease.uid] \in Ended
    <3>1. lease.uid \in Delivery /\ lease.age \in Nat
      BY <2>1 DEF Lease
    <3>2. pc[lease.uid] \notin Holding \cup Releasing
      BY <2>1, <3>1, HolderFresh DEF leaseExpired
    <3>3. pc[lease.uid] \notin Asking /\ pc[lease.uid] \in Stage
      BY <2>1, <3>1 DEF MakerAsked
    <3>. QED BY <3>2, <3>3 DEF Stage
  <2>2. lease # None => lease.uid \in Delivery
    BY DEF Lease
  <2>. QED
    BY <1>2, <2>1, <2>2 DEF Get, AskingIsBlank, CopyIsOwn, HolderOwns, HolderInTime,
        TargetIsOver, MakerAsked
<1>3. CASE TakeOver(d)
  <2>1. seen[d] \in Delivery /\ pc[seen[d]] \in Ended
    BY <1>3 DEF TakeOver, TargetIsOver
  <2>2. CASE takeoverMatches(d) /\ lease' = None /\ Goto(d, "retry")
    <3>1. \A e \in Delivery : pc[e] \notin Holding \cup Releasing
      BY <2>1, <2>2 DEF takeoverMatches, HolderOwns
    <3>2. \A e \in Delivery : pc'[e] \notin Holding \cup Releasing
      BY <2>2, <3>1
    <3>3. AskingIsBlank' /\ CopyIsOwn'
      BY <1>3, <2>2 DEF TakeOver, AskingIsBlank, CopyIsOwn
    <3>4. TargetIsOver'
      BY <1>3, <2>2 DEF TakeOver, TargetIsOver
    <3>. QED BY <2>2, <3>2, <3>3, <3>4 DEF HolderOwns, HolderInTime, MakerAsked
  <2>3. CASE UNCHANGED lease
    BY <1>3, <2>3, AskStep DEF TakeOver
  <2>. QED BY <1>3, <2>2, <2>3 DEF TakeOver
<1>4. CASE CreateAgain(d)
  BY <1>4, AdmitStep, AskStep DEF CreateAgain
<1>. QED BY <1>1, <1>2, <1>3, <1>4 DEF SeenRecently

LEMMA JobStep ==
    ASSUME Timing, faulty = {}, IInv, NEW d \in Delivery, Job(d), TypeOK'
    PROVE  IInv'
<1> USE LeaseAssumption DEF IInv, TypeOK, Goto, Asking, Holding, Waiting, Releasing, Ended
<1>0. pc[d] \in Holding \cup Releasing
  BY DEF Job, Submit, Start, Finish, Forget
<1>1. lease \in Lease /\ lease.uid = d /\ lease.age < Duration /\ lease.age \in Nat
  BY <1>0, HolderFresh DEF Lease
<1>2. CASE Submit(d)
  BY <1>1, <1>2 DEF Submit, AskingIsBlank, CopyIsOwn, HolderOwns, HolderInTime,
      TargetIsOver, MakerAsked
<1>3. CASE Start(d)
  <2>1. missed[d] = 0 /\ copy[d] = None /\ lease.age <= MaxWait
    BY <1>1, <1>3 DEF Start, HolderInTime
  <2>2. Due(0) = MaxWait
    BY DEF Due
  <2>. QED
    BY <1>1, <1>3, <2>1, <2>2 DEF Start, AskingIsBlank, CopyIsOwn, HolderOwns,
        HolderInTime, TargetIsOver, MakerAsked
<1>4. CASE Finish(d)
  BY <1>1, <1>4 DEF Finish, AskingIsBlank, CopyIsOwn, HolderOwns, HolderInTime,
      TargetIsOver, MakerAsked
<1>5. CASE Forget(d)
  BY <1>1, <1>5 DEF Forget, AskingIsBlank, CopyIsOwn, HolderOwns, HolderInTime,
      TargetIsOver, MakerAsked
<1>. QED BY <1>2, <1>3, <1>4, <1>5 DEF Job

LEMMA RenewStep ==
    ASSUME Timing, IInv, NEW d \in Delivery, Renew(d), TypeOK'
    PROVE  IInv'
<1> USE LeaseAssumption DEF IInv, TypeOK, Asking, Holding, Waiting, Releasing, Ended
<1>0. missed[d] \in Nat /\ Due(missed[d]) \in Nat
        /\ Due(missed[d] + 1) = Due(missed[d]) + Interval
  BY DueStep
<1>1. CASE RenewGet(d)
  <2>1. lease \in Lease /\ lease.uid = d /\ lease.age \in Nat
    BY <1>1, HolderFresh DEF RenewGet, Lease
  <2>2. lease.age <= Due(missed[d]) + Interval
    BY <1>1 DEF RenewGet, HolderInTime
  <2>3. \A e \in Delivery : pc[e] \in Holding \cup Releasing => e = d
    BY <2>1 DEF HolderOwns
  <2>4. pc[d] = "running" /\ timer'[d] = 0 /\ pc' = pc /\ lease' = lease
    BY <1>1 DEF RenewGet
  <2>5. /\ copy'[d] = None => lease.age <= Due(missed'[d])
        /\ copy'[d] # None => missed'[d] = missed[d]
    <3>1. CASE missed' = [missed EXCEPT ![d] = @ + 1]
      BY <1>0, <1>1, <2>2, <3>1 DEF RenewGet
    <3>2. CASE copy' = [copy EXCEPT ![d] = lease.uid] /\ UNCHANGED missed
      BY <2>1, <3>2
    <3>3. lease # None
      BY <1>1 DEF RenewGet, HolderOwns
    <3>. QED BY <1>1, <3>1, <3>2, <3>3 DEF RenewGet
  <2>6. missed'[d] \in Nat /\ Due(missed'[d]) \in Nat
    BY DueStep
  <2>7. HolderInTime'
    BY <1>0, <2>1, <2>2, <2>3, <2>4, <2>5, <2>6 DEF HolderInTime
  <2>. QED
    BY <1>1, <2>1, <2>7 DEF RenewGet, AskingIsBlank, CopyIsOwn, HolderOwns,
        TargetIsOver, MakerAsked
<1>2. CASE RenewUpdate(d)
  <2>1. copy[d] = d /\ pc[d] \notin Asking
    BY <1>2 DEF RenewUpdate, CopyIsOwn, AskingIsBlank
  <2>2. CopyIsOwn'
    BY <1>2 DEF RenewUpdate, CopyIsOwn
  <2>3. HolderInTime'
    <3>1. \A e \in Delivery : e # d => copy'[e] = copy[e] /\ missed'[e] = missed[e]
      BY <1>2, <2>1 DEF RenewUpdate, CopyIsOwn
    <3>2. copy'[d] = None
      BY <1>2 DEF RenewUpdate
    <3>3. pc' = pc /\ timer' = timer
      BY <1>2 DEF RenewUpdate
    <3>4. \A e \in Delivery : pc[e] \in Holding \cup Releasing /\ e # d =>
              lease' = lease \/ lease'.age = 0
      BY <1>2 DEF RenewUpdate
    <3>5. ASSUME NEW e \in Delivery, e # d, pc[e] \in Holding \cup Releasing
          PROVE lease' = lease
      BY <1>2, <2>1, <3>5 DEF RenewUpdate, HolderOwns
    <3>6. pc[d] \in Waiting => FALSE
      BY <2>1 DEF HolderInTime
    <3>7. pc[d] = "running" => timer'[d] <= Interval /\ lease'.age <= Due(missed'[d]) + timer'[d]
      <4> HAVE pc[d] = "running"
      <4>1. lease # None /\ lease.uid = d /\ lease.age <= Due(missed[d]) + Interval /\ lease.age \in Nat
        BY <2>1 DEF HolderOwns, HolderInTime, Lease
      <4>2. CASE lease' = lease /\ missed' = [missed EXCEPT ![d] = @ + 1]
        <5>1. missed'[d] = missed[d] + 1
          BY <4>2
        <5>. QED BY <1>0, <3>3, <4>1, <4>2, <5>1 DEF HolderInTime
      <4>3. CASE lease' = [uid |-> lease.uid, age |-> 0]
        <5>1. missed'[d] \in Nat /\ Due(missed'[d]) \in Nat
          BY DueStep
        <5>. QED BY <3>3, <4>3, <5>1 DEF HolderInTime
      <4>. QED BY <1>2, <2>1, <4>1, <4>2, <4>3 DEF RenewUpdate
    <3>8. pc[d] \in Releasing => lease'.age < Duration
      BY <1>2 DEF RenewUpdate, HolderInTime
    <3>9. ASSUME NEW e \in Delivery PROVE
              /\ pc[e] \in Waiting => lease'.age <= timer[e] /\ timer[e] <= MaxWait /\ missed'[e] = 0 /\ copy'[e] = None
              /\ pc[e] = "running" =>
                  /\ timer[e] <= Interval
                  /\ copy'[e] = None => lease'.age <= Due(missed'[e]) + timer[e]
                  /\ copy'[e] # None => lease'.age <= Due(missed'[e]) + Interval
              /\ pc[e] \in Releasing => lease'.age < Duration
      <4>1. CASE e = d
        BY <3>2, <3>3, <3>6, <3>7, <3>8, <4>1
      <4>2. CASE e # d /\ pc[e] \in Holding \cup Releasing
        BY <3>1, <3>5, <4>2 DEF HolderInTime
      <4>. QED BY <4>1, <4>2
    <3>. QED BY <3>3, <3>9 DEF HolderInTime
  <2>4. HolderOwns'
    BY <1>2 DEF RenewUpdate, HolderOwns
  <2>5. MakerAsked'
    BY <1>2 DEF RenewUpdate, MakerAsked
  <2>6. AskingIsBlank'
    BY <1>2, <2>1 DEF RenewUpdate, AskingIsBlank, CopyIsOwn
  <2>7. TargetIsOver'
    BY <1>2 DEF RenewUpdate, TargetIsOver
  <2>. QED BY <2>2, <2>3, <2>4, <2>5, <2>6, <2>7
<1>. QED BY <1>1, <1>2 DEF Renew

LEMMA WorldStep ==
    ASSUME Timing, IInv, Tick \/ (\E d \in Delivery : Crash(d)), TypeOK'
    PROVE  IInv'
<1> USE LeaseAssumption DEF IInv, TypeOK, Asking, Holding, Waiting, Releasing, Ended
<1>1. ASSUME NEW d \in Delivery, Crash(d) PROVE IInv'
  BY <1>1 DEF Crash, Goto, AskingIsBlank, CopyIsOwn, HolderOwns, HolderInTime,
      TargetIsOver, MakerAsked
<1>2. CASE Tick
  <2>1. lease # None => lease' # None /\ lease'.uid = lease.uid
                          /\ lease'.age <= lease.age + 1
    BY <1>2 DEF Tick, aged, Lease
  <2>2. HolderInTime'
    <3> SUFFICES ASSUME NEW d \in Delivery, pc[d] \in Holding
                 PROVE  /\ timer'[d] = timer[d] + 1
                        /\ copy[d] = None
                        /\ timer[d] < (IF pc[d] \in Waiting THEN MaxWait ELSE Interval)
                        /\ lease.age \in Nat /\ lease'.age \in Nat /\ lease'.age <= lease.age + 1
                        /\ timer[d] \in Nat /\ missed[d] \in Nat /\ Due(missed[d]) \in Nat
      BY <1>2 DEF Tick, Punctual, HolderInTime
    <3>1. lease # None /\ lease \in Lease /\ lease' \in Lease
      BY <1>2, <2>1 DEF HolderOwns
    <3>2. missed[d] \in Nat /\ Due(missed[d]) \in Nat
      BY DueStep
    <3>3. timer'[d] = timer[d] + 1 /\ timer[d] < (IF pc[d] \in Waiting THEN MaxWait ELSE Interval)
      BY <1>2 DEF Tick, Punctual
    <3>4. copy[d] = None
      BY <1>2 DEF Tick, Punctual, HolderInTime
    <3>. QED BY <2>1, <3>1, <3>2, <3>3, <3>4 DEF Lease
  <2>3. AskingIsBlank' /\ CopyIsOwn' /\ TargetIsOver'
    BY <1>2 DEF Tick, AskingIsBlank, CopyIsOwn, TargetIsOver
  <2>4. HolderOwns' /\ MakerAsked'
    BY <1>2, <2>1 DEF Tick, HolderOwns, MakerAsked
  <2>. QED BY <2>2, <2>3, <2>4
<1>. QED BY <1>1, <1>2

\* Calls that may fail void it: only the types remain.
ExactInv == TypeOK /\ (faulty = {} => IInv)

LEMMA FaultyStays == [Next]_vars => faulty' = faulty
BY DEF Next, SeenRecently, Create, Get, TakeOver, CreateAgain, Job, Submit, Start,
    Finish, Forget, Renew, RenewGet, RenewUpdate, Crash, Tick, vars

LEMMA IInvNext == ASSUME Timing, faulty = {} PROVE IInv /\ [Next]_vars => IInv'
<1> SUFFICES ASSUME IInv, [Next]_vars PROVE IInv'
  OBVIOUS
<1>1. TypeOK'
  BY TypeNext DEF IInv
<1>2. CASE UNCHANGED vars
  BY <1>2 DEF vars, IInv, TypeOK, AskingIsBlank, CopyIsOwn, HolderOwns, HolderInTime,
      TargetIsOver, MakerAsked
<1>3. CASE Next
  BY <1>1, <1>3, AskingStep, JobStep, RenewStep, WorldStep DEF Next
<1>. QED BY <1>2, <1>3

LEMMA ExactInvInit == Init => ExactInv
BY IInvInit DEF IInv, ExactInv

LEMMA ExactInvNext == ASSUME Timing PROVE ExactInv /\ [Next]_vars => ExactInv'
BY TypeNext, FaultyStays, IInvNext DEF ExactInv

\* The exclusion dedup_lease.go is for, whenever the durations leave room for
\* the wait in the queue and for the renewals that may be missed.
THEOREM Exclusion == ASSUME Timing PROVE Spec => []OneReviewAtATime
<1>1. ExactInv => OneReviewAtATime
  BY DEF ExactInv, IInv, HolderOwns, OneReviewAtATime
<1>. QED
  BY <1>1, ExactInvInit, ExactInvNext, PTL DEF Spec

-----------------------------------------------------------------------------
(* Refinement, under Timing.                                               *)

LEMMA StepImplements ==
    ASSUME Timing, faulty = {}, faulty' = {}, IInv, IInv', [Next]_vars
    PROVE  [Slot!Next]_Slot!vars
<1> DEFINE slot == IF lease = None THEN None ELSE lease.uid
<1> USE LeaseAssumption
<1>1. \A e \in At(Holding) : lease # None /\ At(Holding) = {e} /\ lease.uid = e
  BY DEF At, IInv, HolderOwns
<1>2. ASSUME NEW d \in Delivery, lease = None, lease' = buildLease(d),
             Goto(d, "admitted")
      PROVE Slot!Admit(d)
  <2>1. At(Holding) = {}
    BY <1>1, <1>2
  <2>2. At(Holding)' = {d}
    BY <1>2, <2>1 DEF At, Goto, Holding, Waiting, IInv, TypeOK
  <2>3. slot' = d
    BY <1>2 DEF buildLease
  <2>. QED BY <1>2, <2>1, <2>2, <2>3 DEF Slot!Admit
<1>3. ASSUME NEW d \in Delivery, SeenRecently(d)
      PROVE [Slot!Next]_Slot!vars
  <2>1. CASE Create(d) \/ CreateAgain(d)
    <3>1. CASE UNCHANGED lease
      <4>1. Goto(d, "get") \/ Goto(d, "dropped")
        BY <2>1, <3>1 DEF Create, CreateAgain, buildLease
      <4>2. pc[d] \notin Holding
        BY <2>1 DEF Create, CreateAgain, Holding, Waiting
      <4>. QED BY <3>1, <4>1, <4>2 DEF Goto, At, Holding, Waiting, Slot!vars, IInv, TypeOK
    <3>. QED
      BY <1>2, <2>1, <3>1 DEF Create, CreateAgain, Slot!Next
  <2>2. CASE Get(d)
    BY <2>2 DEF Get, Goto, At, Holding, Waiting, Slot!vars, IInv, TypeOK
  <2>3. CASE TakeOver(d)
    <3>1. At(Holding)' = At(Holding)
      BY <2>3 DEF TakeOver, Goto, At, Holding, Waiting, IInv, TypeOK
    <3>2. CASE takeoverMatches(d) /\ lease' = None
      <4>1. pc[lease.uid] \in Ended /\ lease # None /\ lease.uid \in Delivery
        BY <2>3, <3>2 DEF TakeOver, takeoverMatches, IInv, TargetIsOver
      <4>2. At(Holding) = {}
        BY <1>1, <4>1 DEF At, Holding, Waiting, Ended
      <4>. QED
        BY <3>1, <3>2, <4>1, <4>2 DEF Slot!Next, Slot!Free
    <3>3. CASE UNCHANGED lease
      BY <3>1, <3>3 DEF Slot!vars
    <3>. QED
      BY <2>3, <3>2, <3>3 DEF TakeOver
  <2>. QED BY <1>3, <2>1, <2>2, <2>3 DEF SeenRecently
<1>4. ASSUME NEW d \in Delivery, pc[d] \in Holding, pc'[d] \in Stage \ Holding,
             pc' = [pc EXCEPT ![d] = pc'[d]], UNCHANGED lease
      PROVE [Slot!Next]_Slot!vars
  <2>1. d \in At(Holding) /\ At(Holding)' = At(Holding) \ {d}
    BY <1>4 DEF At, IInv, TypeOK
  <2>. QED BY <1>4, <2>1 DEF Slot!Next, Slot!End
<1>5. ASSUME UNCHANGED <<pc, lease>> PROVE [Slot!Next]_Slot!vars
  BY <1>5 DEF At, Slot!vars
<1>6. ASSUME NEW d \in Delivery, Job(d)
      PROVE [Slot!Next]_Slot!vars
  <2>1. CASE Submit(d)
    <3>1. CASE Goto(d, "queued")
      BY <2>1, <3>1 DEF Submit, Goto, At, Holding, Waiting, Slot!vars, IInv, TypeOK
    <3>2. CASE Goto(d, "rollback")
      BY <1>4, <2>1, <3>2 DEF Submit, Goto, Holding, Waiting, Releasing, Stage, IInv, TypeOK
    <3>. QED BY <2>1, <3>1, <3>2 DEF Submit
  <2>2. CASE Start(d)
    BY <2>2 DEF Start, Goto, At, Holding, Waiting, Slot!vars, IInv, TypeOK
  <2>3. CASE Finish(d)
    BY <1>4, <2>3 DEF Finish, Goto, Holding, Waiting, Releasing, Stage, IInv, TypeOK
  <2>4. CASE Forget(d)
    <3>1. lease # None /\ lease.uid = d /\ lease' = None
      BY <2>4 DEF Forget, IInv, HolderOwns
    <3>2. At(Holding) = {}
      BY <1>1, <2>4, <3>1 DEF Forget, At, Holding, Waiting, Releasing
    <3>3. At(Holding)' = {}
      BY <2>4, <3>2 DEF Forget, Goto, At, Holding, Waiting, IInv, TypeOK
    <3>. QED BY <3>1, <3>2, <3>3 DEF Slot!Next, Slot!Free
  <2>. QED BY <1>6, <2>1, <2>2, <2>3, <2>4 DEF Job
<1>7. ASSUME NEW d \in Delivery, Renew(d)
      PROVE [Slot!Next]_Slot!vars
  <2>1. UNCHANGED pc
    BY <1>7 DEF Renew, RenewGet, RenewUpdate
  <2>2. (lease = None <=> lease' = None) /\ (lease # None => lease'.uid = lease.uid)
    BY <1>7 DEF Renew, RenewGet, RenewUpdate, IInv, TypeOK, Lease
  <2>3. UNCHANGED At(Holding)
    BY <2>1 DEF At
  <2>4. CASE lease = None
    BY <2>2, <2>3, <2>4 DEF Slot!vars
  <2>5. CASE lease # None
    <3>1. lease' # None /\ lease'.uid = lease.uid
      BY <2>2, <2>5
    <3>. QED BY <2>3, <2>5, <3>1 DEF Slot!vars
  <2>. QED BY <2>4, <2>5
<1>8. ASSUME NEW d \in Delivery, Crash(d)
      PROVE [Slot!Next]_Slot!vars
  <2>1. CASE pc[d] \in Holding
    <3>1. pc' = [pc EXCEPT ![d] = "crashed"] /\ UNCHANGED lease
      BY <1>8 DEF Crash, Goto
    <3>2. pc'[d] = "crashed" /\ pc' = [pc EXCEPT ![d] = pc'[d]]
      BY <3>1 DEF IInv, TypeOK
    <3>3. "crashed" \in Stage \ Holding
      BY DEF Stage, Holding, Waiting, Ended
    <3>. QED BY <1>4, <2>1, <3>1, <3>2, <3>3
  <2>2. CASE pc[d] \notin Holding
    BY <1>8, <2>2 DEF Crash, Goto, At, Holding, Waiting, Slot!vars, IInv, TypeOK
  <2>. QED BY <2>1, <2>2
<1>9. CASE Tick
  <2>1. UNCHANGED pc
    BY <1>9 DEF Tick
  <2>2. (lease = None <=> lease' = None) /\ (lease # None => lease'.uid = lease.uid)
    BY <1>9 DEF Tick, aged, IInv, TypeOK, Lease
  <2>. QED BY <2>1, <2>2 DEF At, Slot!vars
<1>10. CASE UNCHANGED vars
  BY <1>5, <1>10 DEF vars
<1>. QED
  BY <1>3, <1>6, <1>7, <1>8, <1>9, <1>10 DEF Next

\* The lease dedup implements the slot: admissions one at a time, and a
\* record that only goes when nobody reviews, so that a Forget or a takeover
\* never removes a live record, its lack of a precondition notwithstanding.
THEOREM Refinement == ASSUME Timing PROVE Spec => Implements
<1>1. Init => Slot!Init
  BY DEF Init, Slot!Init, At, Holding, Waiting
<1>2. ExactInv /\ ExactInv' /\ [Next]_vars => [Slot!Next]_Slot!vars
  <2> SUFFICES ASSUME ExactInv, ExactInv', [Next]_vars
               PROVE  [Slot!Next]_Slot!vars
    OBVIOUS
  <2>1. CASE faulty = {}
    BY <2>1, FaultyStays, StepImplements DEF ExactInv
  <2>2. CASE faulty # {}
    BY <2>2, FaultyStays DEF Slot!vars
  <2>. QED BY <2>1, <2>2
<1>. QED
  BY <1>1, <1>2, ExactInvInit, ExactInvNext, PTL DEF Spec, Implements, Slot!Spec
=============================================================================
