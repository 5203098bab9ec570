-------------------------- MODULE WebhookIntakeProof --------------------------
(***************************************************************************)
(* What WebhookIntake claims of mentions, for any requests, pull requests  *)
(* and limits: the bot's own notices come to nothing, and a person's       *)
(* mention is turned down only for another mention that is in flight; the  *)
(* queue and the workers never hold more than they are given.  Liveness    *)
(* stays with TLC.                                                         *)
(***************************************************************************)
EXTENDS WebhookIntake, FiniteSetTheorems, TLAPS

Typed ==
    /\ pc \in [Delivery -> Stage]
    /\ record \subseteq {"push", "mention"} \X PR
    /\ faults \in Nat

\* A push, or a mention that the bot did not write.
Counts(d) == IsPush(d) \/ (kindOf[d] \in {"text", "picked"} /\ ~IsBotAuthor(d))

\* What has come past its handler counts, and what asks for a record is a
\* push or a mention on GitHub.
Passed == {"token", "dedup", "failed"} \cup InFlight \cup {"duplicate", "done"}
Legitimate ==
    \A d \in Delivery : pc[d] \in Passed =>
        /\ Counts(d)
        /\ pc[d] \in {"token", "dedup"} => Deduped(d)

\* Only comments with an identity, and only skinny pushes, wait for a call
\* of their own.
Waits ==
    \A d \in Delivery :
        /\ pc[d] = "identity" => kindOf[d] \in Identity
        /\ pc[d] = "hydrate" => kindOf[d] = "skinny"

\* A record never outlives every request under its key.
RecordHeld ==
    \A k \in record :
        \E e \in Delivery : Deduped(e) /\ dedupKey(e) = k /\ pc[e] \in InFlight

IInv == Typed /\ Legitimate /\ Waits /\ RecordHeld
-----------------------------------------------------------------------------
(* Two kinds of step: a request moves on, or it gives up its record.       *)

\* A request that moves to where it may be, and keeps what it holds, keeps
\* the invariant.
LEMMA MovesOn ==
    ASSUME IInv, NEW d \in Delivery, NEW s \in Stage, Goto(d, s),
           UNCHANGED record, faults' \in Nat,
           pc[d] \in InFlight => s \in InFlight,
           s \in Passed => Counts(d),
           s \in {"token", "dedup"} => Deduped(d),
           s = "identity" => kindOf[d] \in Identity,
           s = "hydrate" => kindOf[d] = "skinny"
    PROVE  IInv'
<1>1. /\ pc' \in [Delivery -> Stage]
      /\ pc'[d] = s
      /\ \A e \in Delivery \ {d} : pc'[e] = pc[e]
  BY DEF IInv, Typed, Goto
<1>2. Typed'
  BY <1>1 DEF IInv, Typed
<1>3. Legitimate'
  BY <1>1 DEF IInv, Legitimate, Counts, IsPush, IsBotAuthor, Deduped
<1>4. Waits'
  BY <1>1 DEF IInv, Waits
<1>5. RecordHeld'
  BY <1>1 DEF IInv, RecordHeld, Deduped, dedupKey, IsPush
<1>6. QED
  BY <1>2, <1>3, <1>4, <1>5 DEF IInv

\* A request that gives up its record keeps it too: whoever holds another
\* record is another request.
LEMMA GivesUp ==
    ASSUME IInv, NEW d \in Delivery, NEW s \in {"failed", "done"}, Goto(d, s),
           record' = Forgotten(d), UNCHANGED faults, pc[d] \in InFlight
    PROVE  IInv'
<1>1. /\ pc' \in [Delivery -> Stage]
      /\ pc'[d] = s
      /\ \A e \in Delivery \ {d} : pc'[e] = pc[e]
  BY DEF IInv, Typed, Goto, Stage, Ended, InFlight
<1>2. Typed'
  BY <1>1 DEF IInv, Typed, Forgotten
<1>3. Legitimate'
  BY <1>1 DEF IInv, Legitimate, Passed, Counts, IsPush, IsBotAuthor, Deduped
<1>4. Waits'
  BY <1>1 DEF IInv, Waits
<1>5. RecordHeld'
  <2> SUFFICES ASSUME NEW k \in record'
               PROVE  \E e \in Delivery :
                        Deduped(e) /\ dedupKey(e) = k /\ pc'[e] \in InFlight
    BY DEF RecordHeld, Deduped, dedupKey, IsPush
  <2>1. k \in record /\ (Deduped(d) => k # dedupKey(d))
    BY DEF Forgotten
  <2>2. PICK e \in Delivery : Deduped(e) /\ dedupKey(e) = k /\ pc[e] \in InFlight
    BY <2>1 DEF IInv, RecordHeld
  <2>3. e # d
    BY <2>1, <2>2
  <2>4. QED
    BY <1>1, <2>2, <2>3
<1>6. QED
  BY <1>2, <1>3, <1>4, <1>5 DEF IInv

-----------------------------------------------------------------------------
(* The invariant.                                                          *)

LEMMA Initial == Init => IInv
<1>1. SUFFICES ASSUME Init PROVE IInv
  OBVIOUS
<1>2. PICK D \in Traffic :
        pc = [d \in Delivery |-> IF d \in D THEN "sent" ELSE "absent"]
  BY <1>1 DEF Init
<1>3. pc \in [Delivery -> {"sent", "absent"}] /\ record = {} /\ faults = 0
  BY <1>1, <1>2 DEF Init
<1>4. QED
  BY <1>3 DEF IInv, Typed, Legitimate, Waits, RecordHeld, Stage, Passed, InFlight,
              Accepted, Ended

\* Requests of the handlers are nobody's jobs yet.
LEMMA Early ==
    {"absent", "sent", "identity", "hydrate", "token", "dedup", "failed",
     "rejected", "ignored", "forbidden", "duplicate"} \cap InFlight = {}
  BY DEF InFlight, Accepted

LEMMA Turned ==
    ASSUME NEW s \in {"rejected", "ignored", "forbidden"}
    PROVE  s \in Stage /\ s \notin Passed
  BY DEF Stage, Ended, Passed, InFlight, Accepted

\* Answered where it stands: refused, ignored or forbidden.
LEMMA TurnsDown ==
    ASSUME IInv, NEW d \in Delivery, NEW s \in {"rejected", "ignored", "forbidden"},
           Goto(d, s), UNCHANGED record, faults' \in Nat, pc[d] \notin InFlight
    PROVE  IInv'
<1>1. s \in Stage /\ s \notin Passed
  BY Turned
<1>2. QED
  BY <1>1, MovesOn

\* Past the handler, if it counts, or turned down.
LEMMA GoesPast ==
    ASSUME IInv, NEW d \in Delivery, NEW s \in {"token", "dedup", "submit"},
           IfAllowed(d, s), UNCHANGED record, faults' \in Nat, pc[d] \notin InFlight,
           Counts(d), s \in {"token", "dedup"} => Deduped(d)
    PROVE  IInv'
<1>1. CASE Goto(d, s)
  <2>1. s \in Stage
    BY DEF Stage, InFlight
  <2>2. QED
    BY <1>1, <2>1, MovesOn
<1>2. CASE Goto(d, "forbidden")
  BY <1>2, TurnsDown
<1>3. QED
  BY <1>1, <1>2 DEF IfAllowed

LEMMA GoesPastAsPerson ==
    ASSUME IInv, NEW d \in Delivery, NEW s \in {"token", "dedup", "submit"},
           IfPerson(d, s), UNCHANGED record, faults' \in Nat, pc[d] \notin InFlight,
           kindOf[d] \in {"text", "picked"}, s \in {"token", "dedup"} => Deduped(d)
    PROVE  IInv'
<1>1. CASE IsBotAuthor(d)
  BY <1>1, TurnsDown DEF IfPerson
<1>2. CASE ~IsBotAuthor(d)
  BY <1>2, GoesPast DEF IfPerson, Counts
<1>3. QED
  BY <1>1, <1>2

LEMMA HandlerStep ==
    ASSUME IInv, NEW d \in Delivery, Handler(d)
    PROVE  IInv'
<1>0. faults \in Nat /\ pc[d] \in Stage
  BY DEF IInv, Typed
<1>1. CASE HandleGitHub(d)
  <2>1. UNCHANGED record /\ faults' \in Nat /\ pc[d] \notin InFlight
    BY <1>0, <1>1, Early DEF HandleGitHub
  <2>2. CASE IsPush(d) /\ IfAllowed(d, WithToken(d))
    <3>1. WithToken(d) \in {"token", "dedup"} /\ Counts(d) /\ Deduped(d)
      BY <2>2 DEF WithToken, Counts, Deduped
    <3>2. QED
      BY <2>1, <2>2, <3>1, GoesPast
  <2>3. CASE Goto(d, "ignored")
    BY <2>1, <2>3, TurnsDown
  <2>4. QED
    BY <1>1, <2>2, <2>3 DEF HandleGitHub
<1>2. CASE handleGitHubComment(d)
  <2>1. UNCHANGED record /\ faults' \in Nat /\ pc[d] \notin InFlight /\ prOf[d] \in GitHub
    BY <1>0, <1>2, Early DEF handleGitHubComment
  <2>2. CASE HasMention(d) /\ IfPerson(d, WithToken(d))
    <3>1. WithToken(d) \in {"token", "dedup"} /\ Deduped(d) /\ kindOf[d] = "text"
      BY <2>1, <2>2 DEF WithToken, Deduped, HasMention
    <3>2. QED
      BY <2>1, <2>2, <3>1, GoesPastAsPerson
  <2>3. CASE Goto(d, "ignored")
    BY <2>1, <2>3, TurnsDown
  <2>4. QED
    BY <1>2, <2>2, <2>3 DEF handleGitHubComment
<1>3. CASE HandleAzureDevOps(d)
  <2>1. UNCHANGED record /\ faults' \in Nat /\ pc[d] \notin InFlight
    BY <1>0, <1>3, Early DEF HandleAzureDevOps
  <2>2. CASE kindOf[d] = "push" /\ IfAllowed(d, "dedup")
    BY <2>1, <2>2, GoesPast DEF Counts, IsPush, Lifecycle, Deduped
  <2>3. CASE kindOf[d] = "skinny" /\ Goto(d, "hydrate")
    <3>1. "hydrate" \in Stage /\ "hydrate" \notin Passed
      BY DEF Stage, Passed, InFlight, Accepted
    <3>2. QED
      BY <2>1, <2>3, <3>1, MovesOn
  <2>4. CASE Goto(d, "ignored")
    BY <2>1, <2>4, TurnsDown
  <2>5. QED
    BY <1>3, <2>2, <2>3, <2>4 DEF HandleAzureDevOps
<1>4. CASE handleADOComment(d)
  <2>1. UNCHANGED record /\ faults' \in Nat /\ pc[d] \notin InFlight
    BY <1>0, <1>4, Early DEF handleADOComment
  <2>2. CASE HasMention(d) /\ IfPerson(d, "submit")
    BY <2>1, <2>2, GoesPastAsPerson DEF HasMention
  <2>3. CASE Goto(d, "ignored")
    BY <2>1, <2>3, TurnsDown
  <2>4. CASE kindOf[d] \in Identity /\ Goto(d, "identity")
    <3>1. "identity" \in Stage /\ "identity" \notin Passed
      BY DEF Stage, Passed, InFlight, Accepted
    <3>2. QED
      BY <2>1, <2>4, <3>1, MovesOn
  <2>5. CASE Compare(d)
    BY <2>1, <2>3, <2>5, GoesPastAsPerson DEF Compare
  <2>6. QED
    BY <1>4, <2>2, <2>3, <2>4, <2>5 DEF handleADOComment
<1>5. CASE ResolveSelfID(d)
  <2>1. UNCHANGED record /\ faults' \in Nat /\ pc[d] \notin InFlight
    BY <1>0, <1>5, Early DEF ResolveSelfID, CallFails
  <2>2. CASE Goto(d, "ignored")
    BY <2>1, <2>2, TurnsDown
  <2>3. CASE Compare(d)
    BY <2>1, <2>2, <2>3, GoesPastAsPerson DEF Compare
  <2>4. QED
    BY <1>5, <2>2, <2>3 DEF ResolveSelfID
<1>6. CASE Hydrate(d)
  <2>1. UNCHANGED record /\ faults' \in Nat /\ pc[d] \notin InFlight
    BY <1>0, <1>6, Early DEF Hydrate, CallFails
  <2>2. IsPush(d)
    BY <1>6 DEF Hydrate, IInv, Waits, IsPush, Lifecycle
  <2>3. CASE Goto(d, "ignored")
    BY <2>1, <2>3, TurnsDown
  <2>4. CASE IfAllowed(d, "dedup")
    BY <2>1, <2>2, <2>4, GoesPast DEF Counts, Deduped
  <2>5. CASE Goto(d, "failed")
    BY <2>1, <2>2, <2>5, MovesOn DEF Stage, Counts
  <2>6. QED
    BY <1>6, <2>3, <2>4, <2>5 DEF Hydrate
<1>7. CASE InstallationToken(d)
  <2>1. UNCHANGED record /\ faults' \in Nat /\ pc[d] = "token" /\ pc[d] \notin InFlight
    BY <1>0, <1>7, Early DEF InstallationToken, CallFails
  <2>2. Counts(d) /\ Deduped(d)
    BY <2>1 DEF IInv, Legitimate, Passed
  <2>3. CASE Goto(d, "dedup")
    BY <2>1, <2>2, <2>3, MovesOn DEF Stage
  <2>4. CASE Goto(d, "failed")
    BY <2>1, <2>2, <2>4, MovesOn DEF Stage
  <2>5. QED
    BY <1>7, <2>3, <2>4 DEF InstallationToken
<1>8. CASE dedupSeen(d)
  <2>1. faults' \in Nat /\ pc[d] = "dedup" /\ pc[d] \notin InFlight
    BY <1>0, <1>8, Early DEF dedupSeen
  <2>2. Counts(d) /\ Deduped(d)
    BY <2>1 DEF IInv, Legitimate, Passed
  <2>3. CASE Goto(d, "duplicate") /\ UNCHANGED record
    BY <2>1, <2>2, <2>3, MovesOn DEF Stage, Ended
  <2>4. CASE Goto(d, "submit") /\ record' = record \cup {dedupKey(d)}
    <3>1. /\ pc' \in [Delivery -> Stage]
          /\ pc'[d] = "submit"
          /\ \A e \in Delivery \ {d} : pc'[e] = pc[e]
      BY <2>4 DEF IInv, Typed, Goto, Stage, InFlight
    <3>2. dedupKey(d) \in {"push", "mention"} \X PR
      BY IntakeAssumption DEF dedupKey
    <3>3. Typed'
      BY <2>1, <2>4, <3>1, <3>2 DEF IInv, Typed
    <3>4. Legitimate'
      BY <2>2, <3>1 DEF IInv, Legitimate, Counts, IsPush, IsBotAuthor, Deduped
    <3>5. Waits'
      BY <3>1 DEF IInv, Waits
    <3>6. RecordHeld'
      BY <2>1, <2>2, <2>4, <3>1 DEF IInv, RecordHeld, Deduped, dedupKey, IsPush, InFlight
    <3>7. QED
      BY <3>3, <3>4, <3>5, <3>6 DEF IInv
  <2>5. QED
    BY <1>8, <2>3, <2>4 DEF dedupSeen
<1>9. CASE Submit(d)
  <2>1. UNCHANGED record /\ faults' \in Nat /\ pc[d] = "submit"
    BY <1>0, <1>9 DEF Submit
  <2>2. Counts(d)
    BY <2>1 DEF IInv, Legitimate, Passed, InFlight
  <2>3. ASSUME NEW s \in {"queued", "rolling"}, Goto(d, s)
        PROVE  IInv'
    BY <2>1, <2>2, <2>3, MovesOn DEF Stage, InFlight, Accepted
  <2>4. QED
    BY <1>9, <2>3 DEF Submit
<1>10. CASE RollBack(d)
  BY <1>10, GivesUp DEF RollBack, InFlight
<1>11. QED
  BY <1>1, <1>2, <1>3, <1>4, <1>5, <1>6, <1>7, <1>8, <1>9, <1>10 DEF Handler

LEMMA JobStep ==
    ASSUME IInv, NEW d \in Delivery, Job(d)
    PROVE  IInv'
<1>0. faults \in Nat
  BY DEF IInv, Typed
<1>1. CASE Start(d)
  <2>1. Counts(d)
    BY <1>1 DEF Start, IInv, Legitimate, Passed, InFlight, Accepted
  <2>2. QED
    BY <1>0, <1>1, <2>1, MovesOn DEF Start, Stage, InFlight, Accepted
<1>2. CASE HandlePR(d)
  <2>1. Counts(d) /\ pc[d] = "running" /\ UNCHANGED <<record, faults>>
    BY <1>2 DEF HandlePR, IInv, Legitimate, Passed, InFlight, Accepted
  <2>2. CASE Goto(d, "reviewed")
    BY <1>0, <2>1, <2>2, MovesOn DEF Stage, InFlight, Accepted
  <2>3. ASSUME NEW n \in Notice, pc[n] = "absent",
               pc' = [pc EXCEPT ![d] = "reviewed", ![n] = "sent"]
        PROVE  IInv'
    <3>1. n \in Delivery /\ n # d
      BY <2>1, <2>3, IntakeAssumption
    <3>2. /\ pc' \in [Delivery -> Stage]
          /\ pc'[d] = "reviewed" /\ pc'[n] = "sent"
          /\ \A e \in Delivery \ {d, n} : pc'[e] = pc[e]
      BY <2>3, <3>1 DEF IInv, Typed, Stage, InFlight, Accepted
    <3>3. Typed'
      BY <2>1, <3>2 DEF IInv, Typed
    <3>4. Legitimate'
      BY <2>1, <3>2 DEF IInv, Legitimate, Passed, InFlight, Accepted,
                        Counts, IsPush, IsBotAuthor, Deduped
    <3>5. Waits'
      BY <3>2 DEF IInv, Waits
    <3>6. RecordHeld'
      BY <2>1, <2>3, <3>2 DEF IInv, RecordHeld, Deduped, dedupKey, IsPush, InFlight, Accepted
    <3>7. QED
      BY <3>3, <3>4, <3>5, <3>6 DEF IInv
  <2>4. QED
    BY <1>2, <2>2, <2>3 DEF HandlePR
<1>3. CASE ReleaseDedup(d)
  BY <1>3, GivesUp DEF ReleaseDedup, InFlight, Accepted
<1>4. QED
  BY <1>1, <1>2, <1>3 DEF Job

\* Every step keeps what mentions rest on.
LEMMA Preserved == IInv /\ [Next]_vars => IInv'
<1> SUFFICES ASSUME IInv, [Next]_vars PROVE IInv'
  OBVIOUS
<1>0. faults \in Nat
  BY DEF IInv, Typed
<1>1. ASSUME NEW d \in Delivery, Reject(d) PROVE IInv'
  BY <1>0, <1>1, TurnsDown, Early DEF Reject
<1>2. ASSUME NEW d \in Delivery, Redeliver(d) PROVE IInv'
  <2>1. "sent" \in Stage /\ "sent" \notin Passed
    BY DEF Stage, Passed, InFlight, Accepted
  <2>2. QED
    BY <1>0, <1>2, <2>1, MovesOn, Early DEF Redeliver
<1>3. ASSUME UNCHANGED <<pc, faults>>, record' \subseteq record PROVE IInv'
  BY <1>3 DEF IInv, Typed, Legitimate, Waits, RecordHeld, Counts, IsPush, IsBotAuthor,
              Deduped, dedupKey
<1>4. CASE \E k \in record : Lapse(k)
  BY <1>3, <1>4 DEF Lapse
<1>5. CASE \E p \in PR : TokenExpires(p) \/ Close(p)
  BY <1>3, <1>5 DEF TokenExpires, Close
<1>6. CASE UNCHANGED vars
  BY <1>3, <1>6 DEF vars
<1>7. QED
  BY <1>1, <1>2, <1>4, <1>5, <1>6, HandlerStep, JobStep DEF Next

LEMMA Invariance == Spec => []IInv
<1>1. Init => IInv
  BY Initial
<1>2. IInv /\ [Next]_vars => IInv'
  BY Preserved
<1>3. QED
  BY <1>1, <1>2, PTL DEF Spec

-----------------------------------------------------------------------------
(* What the steps do to one request.                                       *)

\* A step of one request moves no other, but that a notice may begin to come.
LEMMA OneMoves ==
    ASSUME IInv, NEW d \in Delivery, NEW e \in Delivery \ {d},
           Reject(d) \/ Handler(d) \/ Job(d) \/ Redeliver(d)
    PROVE  pc'[e] = pc[e] \/ (pc[e] = "absent" /\ pc'[e] = "sent")
<1>1. pc \in [Delivery -> Stage]
  BY DEF IInv, Typed
<1>2. ASSUME NEW s, Goto(d, s) PROVE pc'[e] = pc[e]
  BY <1>1, <1>2 DEF Goto
<1>3. CASE Reject(d) \/ Redeliver(d)
  BY <1>2, <1>3 DEF Reject, Redeliver
<1>4. ASSUME NEW s, IfAllowed(d, s) \/ IfPerson(d, s) \/ Compare(d) PROVE pc'[e] = pc[e]
  BY <1>2, <1>4 DEF IfAllowed, IfPerson, Compare
<1>5. CASE HandleGitHub(d) \/ handleGitHubComment(d)
  BY <1>2, <1>4, <1>5 DEF HandleGitHub, handleGitHubComment
<1>6. CASE HandleAzureDevOps(d) \/ handleADOComment(d)
  BY <1>2, <1>4, <1>6 DEF HandleAzureDevOps, handleADOComment
<1>7. CASE ResolveSelfID(d) \/ Hydrate(d) \/ InstallationToken(d)
  BY <1>2, <1>4, <1>7 DEF ResolveSelfID, Hydrate, InstallationToken
<1>8. CASE dedupSeen(d) \/ Submit(d) \/ RollBack(d)
  BY <1>2, <1>8 DEF dedupSeen, Submit, RollBack
<1>9. CASE Start(d) \/ ReleaseDedup(d)
  BY <1>2, <1>9 DEF Start, ReleaseDedup
<1>10. CASE HandlePR(d)
  BY <1>1, <1>2, <1>10 DEF HandlePR
<1>11. QED
  BY <1>3, <1>5, <1>6, <1>7, <1>8, <1>9, <1>10 DEF Handler, Job

\* So a request that has come and moves does so by a step of its own.
LEMMA OwnStep ==
    ASSUME IInv, [Next]_vars, NEW d \in Delivery, pc'[d] # pc[d],
           pc[d] # "absent" \/ pc'[d] # "sent"
    PROVE  Reject(d) \/ Handler(d) \/ Job(d) \/ Redeliver(d)
<1>1. UNCHANGED pc => pc'[d] = pc[d]
  OBVIOUS
<1>2. PICK e \in Delivery : Reject(e) \/ Handler(e) \/ Job(e) \/ Redeliver(e)
  BY <1>1 DEF Next, vars, Lapse, TokenExpires, Close
<1>3. e = d
  BY <1>2, OneMoves
<1>4. QED
  BY <1>2, <1>3

-----------------------------------------------------------------------------
(* The limits of the pool.                                                 *)

Queued  == At({"queued"})
Working == At({"running", "reviewed"})
Limits ==
    /\ IsFiniteSet(Queued) /\ Cardinality(Queued) <= QueueSize
    /\ IsFiniteSet(Working) /\ Cardinality(Working) <= Workers

\* A set that takes one element where it has room stays within its limit.
LEMMA HasRoom ==
    ASSUME NEW S, IsFiniteSet(S), NEW n \in Nat, Cardinality(S) <= n,
           NEW T, NEW d, T \subseteq S \cup {d},
           T \subseteq S \/ Cardinality(S) < n
    PROVE  IsFiniteSet(T) /\ Cardinality(T) <= n
<1>1. Cardinality(S) \in Nat
  BY FS_CardinalityType
<1>2. CASE T \subseteq S
  <2>1. IsFiniteSet(T) /\ Cardinality(T) <= Cardinality(S) /\ Cardinality(T) \in Nat
    BY <1>2, FS_Subset, FS_CardinalityType
  <2>2. QED
    BY <1>1, <2>1
<1>3. CASE Cardinality(S) < n
  <2>1. /\ IsFiniteSet(S \cup {d})
        /\ Cardinality(S \cup {d}) \in {Cardinality(S), Cardinality(S) + 1}
    BY ONLY IsFiniteSet(S), FS_AddElement
  <2>2. IsFiniteSet(T) /\ Cardinality(T) <= Cardinality(S \cup {d}) /\ Cardinality(T) \in Nat
    BY ONLY <2>1, T \subseteq S \cup {d}, FS_Subset, FS_CardinalityType
  <2>3. QED
    BY <1>1, <1>3, <2>1, <2>2
<1>4. QED
  BY <1>2, <1>3

\* Requests that move nowhere into the pool leave it as it is, or emptier.
LEMMA NobodyEnters ==
    ASSUME Limits, Queued' \subseteq Queued, Working' \subseteq Working
    PROVE  Limits'
<1>1. QueueSize \in Nat /\ Workers \in Nat
  BY IntakeAssumption
<1>2. IsFiniteSet(Queued') /\ Cardinality(Queued') <= QueueSize
  BY <1>1, HasRoom DEF Limits
<1>3. IsFiniteSet(Working') /\ Cardinality(Working') <= Workers
  BY <1>1, HasRoom DEF Limits
<1>4. QED
  BY <1>2, <1>3 DEF Limits

LEMMA StaysOut ==
    ASSUME IInv, Limits, NEW d \in Delivery, NEW s, Goto(d, s),
           s \notin {"queued", "running", "reviewed"}
    PROVE  Limits'
<1>1. \A e \in Delivery : pc'[e] = pc[e] \/ pc'[e] = s
  BY DEF IInv, Typed, Goto
<1>2. Queued' \subseteq Queued /\ Working' \subseteq Working
  BY <1>1 DEF Queued, Working, At
<1>3. QED
  BY <1>2, NobodyEnters

LEMMA SubmitLimits == ASSUME IInv, Limits, NEW d \in Delivery, Submit(d) PROVE Limits'
<1>1. CASE Goto(d, "rolling")
  BY <1>1, StaysOut
<1>2. CASE Cardinality(Queued) < QueueSize /\ Goto(d, "queued")
  <2>1. \A e \in Delivery \ {d} : pc'[e] = pc[e]
    BY <1>2 DEF IInv, Typed, Goto
  <2>2. Queued' \subseteq Queued \cup {d}
    BY <2>1 DEF Queued, At
  <2>3. pc'[d] = "queued"
    BY <1>2 DEF IInv, Typed, Goto
  <2>4. Working' \subseteq Working
    BY <2>1, <2>3 DEF Working, At
  <2>5. QueueSize \in Nat /\ Workers \in Nat
    BY IntakeAssumption
  <2>6. IsFiniteSet(Queued') /\ Cardinality(Queued') <= QueueSize
    BY <1>2, <2>2, <2>5, HasRoom DEF Limits
  <2>7. IsFiniteSet(Working') /\ Cardinality(Working') <= Workers
    BY <2>4, <2>5, HasRoom DEF Limits
  <2>8. QED
    BY <2>6, <2>7 DEF Limits
<1>3. QED
  BY <1>1, <1>2 DEF Submit, Queued

LEMMA StartLimits == ASSUME IInv, Limits, NEW d \in Delivery, Start(d) PROVE Limits'
<1>1. Cardinality(Working) < Workers /\ Goto(d, "running")
  BY DEF Start, Working
<1>2. pc'[d] = "running" /\ \A e \in Delivery \ {d} : pc'[e] = pc[e]
  BY <1>1 DEF IInv, Typed, Goto
<1>3. Working' \subseteq Working \cup {d}
  BY <1>2 DEF Working, At
<1>4. Queued' \subseteq Queued
  BY <1>2 DEF Queued, At
<1>5. QED
  BY <1>1, <1>3, <1>4, IntakeAssumption, HasRoom DEF Limits

LEMMA HandlePRLimits == ASSUME IInv, Limits, NEW d \in Delivery, HandlePR(d) PROVE Limits'
<1>1. \A e \in Delivery : \/ pc'[e] = pc[e] \/ pc'[e] = "sent"
                          \/ pc[e] = "running" /\ pc'[e] = "reviewed"
  BY DEF HandlePR, IInv, Typed, Goto
<1>2. Queued' \subseteq Queued /\ Working' \subseteq Working
  BY <1>1 DEF Queued, Working, At
<1>3. QED
  BY <1>2, NobodyEnters

LEMMA HandlerLimits ==
    ASSUME IInv, Limits, NEW d \in Delivery,
           Reject(d) \/ Handler(d) \/ Job(d) \/ Redeliver(d)
    PROVE  Limits'
<1>1. ASSUME NEW s, s \notin {"queued", "running", "reviewed"},
             IfAllowed(d, s) \/ IfPerson(d, s)
      PROVE  Limits'
  BY <1>1, StaysOut DEF IfAllowed, IfPerson
<1>2. CASE Reject(d) \/ Redeliver(d)
  BY <1>2, StaysOut DEF Reject, Redeliver
<1>3. CASE HandleGitHub(d) \/ handleGitHubComment(d)
  BY <1>1, <1>3, StaysOut DEF HandleGitHub, handleGitHubComment, WithToken
<1>4. Compare(d) => Limits'
  BY <1>1, StaysOut DEF Compare
<1>5. CASE HandleAzureDevOps(d) \/ handleADOComment(d)
  BY <1>1, <1>4, <1>5, StaysOut DEF HandleAzureDevOps, handleADOComment
<1>6. CASE ResolveSelfID(d) \/ Hydrate(d) \/ InstallationToken(d)
  BY <1>1, <1>4, <1>6, StaysOut DEF ResolveSelfID, Hydrate, InstallationToken
<1>7. CASE dedupSeen(d) \/ RollBack(d) \/ ReleaseDedup(d)
  BY <1>7, StaysOut DEF dedupSeen, RollBack, ReleaseDedup
<1>8. QED
  BY <1>2, <1>3, <1>5, <1>6, <1>7, SubmitLimits, StartLimits, HandlePRLimits DEF Handler, Job

LEMMA LimitsKept == IInv /\ Limits /\ [Next]_vars => Limits'
<1> SUFFICES ASSUME IInv, Limits, [Next]_vars PROVE Limits'
  OBVIOUS
<1>1. CASE UNCHANGED pc
  <2>1. UNCHANGED <<Queued, Working>>
    BY <1>1 DEF Queued, Working, At
  <2>2. QED
    BY <2>1, NobodyEnters
<1>2. QED
  BY <1>1, HandlerLimits DEF Next, vars, Lapse, TokenExpires, Close

\* What the calls fill and empty.
Counted ==
    /\ closed \subseteq PR /\ self \subseteq PR /\ token \subseteq PR
    /\ faults \in 0..MaxFaults

LEMMA CountedKept == Counted /\ [Next]_vars => Counted'
<1> SUFFICES ASSUME Counted, [Next]_vars PROVE Counted'
  OBVIOUS
<1> USE IntakeAssumption
<1>1. CallFails => faults' \in 0..MaxFaults
  BY DEF Counted, CallFails
<1>2. ASSUME NEW d \in Delivery, Handler(d) PROVE Counted'
  <2>1. CASE ResolveSelfID(d) \/ Hydrate(d) \/ InstallationToken(d)
    <3>1. prOf[d] \in PR
      OBVIOUS
    <3>2. UNCHANGED closed /\ (UNCHANGED faults \/ CallFails)
      BY <2>1 DEF ResolveSelfID, Hydrate, InstallationToken
    <3>3. /\ self' \in {self, self \cup {prOf[d]}}
          /\ token' \in {token, token \cup {prOf[d]}}
      BY <2>1 DEF ResolveSelfID, Hydrate, InstallationToken, caches
    <3>4. QED
      BY <1>1, <3>1, <3>2, <3>3 DEF Counted
  <2>2. CASE ~(ResolveSelfID(d) \/ Hydrate(d) \/ InstallationToken(d))
    <3>1. UNCHANGED <<closed, caches, faults>>
      BY <1>2, <2>2 DEF Handler, HandleGitHub, handleGitHubComment, HandleAzureDevOps,
                        handleADOComment, dedupSeen, Submit, RollBack
    <3>2. QED
      BY <3>1 DEF Counted, caches
  <2>3. QED
    BY <2>1, <2>2
<1>3. ASSUME NEW d \in Delivery, Reject(d) \/ Job(d) \/ Redeliver(d) PROVE Counted'
  BY <1>3 DEF Reject, Job, Start, HandlePR, ReleaseDedup, Redeliver, Counted, caches
<1>4. CASE \E k \in record : Lapse(k)
  BY <1>4 DEF Lapse, Counted, caches
<1>5. CASE \E p \in PR : TokenExpires(p) \/ Close(p)
  BY <1>5 DEF TokenExpires, Close, Counted, caches
<1>6. CASE UNCHANGED vars
  BY <1>6 DEF vars, Counted
<1>7. QED
  BY <1>2, <1>3, <1>4, <1>5, <1>6 DEF Next

LEMMA PoolStarts == Init => Limits /\ Counted
<1> SUFFICES ASSUME Init PROVE Limits /\ Counted
  OBVIOUS
<1>1. PICK D \in Traffic :
        pc = [d \in Delivery |-> IF d \in D THEN "sent" ELSE "absent"]
  BY DEF Init
<1>2. Queued = {} /\ Working = {}
  BY <1>1 DEF Queued, Working, At
<1>3. QED
  BY <1>2, IntakeAssumption, FS_EmptySet DEF Limits, Counted, Init

-----------------------------------------------------------------------------
(* The theorems.                                                           *)

\* Every request is somewhere, every record is under a key, and neither the
\* queue nor the workers hold more than they are given (worker.go): a full
\* queue is refused, and a job starts where a worker is free.
THEOREM WithinLimits == Spec => []TypeOK
<1>1. Init => IInv /\ Limits /\ Counted
  BY Initial, PoolStarts
<1>2. IInv /\ Limits /\ Counted /\ [Next]_vars => (IInv /\ Limits /\ Counted)'
  BY Preserved, LimitsKept, CountedKept
<1>3. IInv /\ Limits /\ Counted => TypeOK
  BY DEF IInv, Typed, Limits, Counted, Queued, Working, TypeOK
<1>4. QED
  BY <1>1, <1>2, <1>3, PTL DEF Spec

\* The bot's own notice, where its account is known, comes to nothing: the
\* guard on the author stands before every call, record and job.
THEOREM NoticesAreInert == Spec => OwnNoticeIsInert
<1>1. ASSUME IInv, [Next]_vars, NEW n \in Notice, prOf[n] \in Recognised,
             pc[n] # pc'[n], pc[n] # "absent"
      PROVE  pc'[n] \in Ended \ {"done"} /\ UNCHANGED <<record, caches, faults>>
  <2>1. n \in Delivery /\ kindOf[n] = "text" /\ ~IsPush(n) /\ IsBotAuthor(n) /\ ~Counts(n)
    BY <1>1, IntakeAssumption DEF IsPush, IsBotAuthor, Counts, Lifecycle
  <2>2. pc \in [Delivery -> Stage] /\ pc[n] \notin Passed
    BY <1>1, <2>1 DEF IInv, Typed, Legitimate
  <2>3. pc[n] # "identity" /\ pc[n] # "hydrate"
    BY <1>1, <2>1 DEF IInv, Waits, Identity
  <2>4. Handler(n)
    BY <1>1, <2>1, <2>2, OwnStep
       DEF Reject, Genuine, Redeliver, Job, Start, HandlePR, ReleaseDedup, Passed,
           InFlight, Accepted
  <2>5. handleGitHubComment(n) \/ handleADOComment(n)
    BY <2>1, <2>2, <2>3, <2>4
       DEF Handler, HandleGitHub, HandleAzureDevOps, ResolveSelfID, Hydrate,
           InstallationToken, dedupSeen, Submit, RollBack, Passed, InFlight
  <2>6. Goto(n, "ignored") /\ UNCHANGED <<record, caches, faults>>
    BY <2>1, <2>5 DEF handleGitHubComment, handleADOComment, IfPerson, Identity, caches
  <2>7. pc'[n] = "ignored"
    BY <2>1, <2>2, <2>6 DEF Goto
  <2>8. QED
    BY <2>6, <2>7 DEF Ended
<1>2. IInv /\ [Next]_vars =>
        [\A n \in Notice :
            prOf[n] \in Recognised /\ pc[n] # pc'[n] =>
                \/ pc[n] = "absent"
                \/ pc'[n] \in Ended \ {"done"} /\ UNCHANGED <<record, caches, faults>>]_vars
  BY <1>1
<1>3. QED
  BY <1>2, Invariance, PTL DEF Spec, OwnNoticeIsInert

\* A person's mention is turned down only as the duplicate of another one in
\* flight, and overlooked only when its own identity lookup has failed.
THEOREM MentionsAreHeard == Spec => MentionIsHeard
<1>1. ASSUME IInv, [Next]_vars, NEW d \in Delivery, Asks(d),
             pc[d] # pc'[d], pc'[d] \in Ended \ {"done"}
      PROVE  \/ pc'[d] = "duplicate" /\ prOf[d] \in GitHub /\ Covered(d)
             \/ pc'[d] = "ignored" /\ pc[d] = "identity" /\ faults' > faults
  <2>1. /\ kindOf[d] \in {"text", "picked"} /\ ~IsPush(d) /\ ~IsBotAuthor(d)
        /\ prOf[d] \in Allowed
    BY <1>1 DEF Asks, IsPush, IsBotAuthor, Lifecycle
  <2>2. pc \in [Delivery -> Stage] /\ faults \in Nat
    BY <1>1 DEF IInv, Typed
  <2>3. ASSUME NEW s, Goto(d, s) PROVE pc'[d] = s
    BY <2>2, <2>3 DEF Goto
  <2>4. ASSUME NEW s, IfPerson(d, s) PROVE pc'[d] = s
    BY <2>1, <2>3, <2>4 DEF IfPerson, IfAllowed
  <2>5. pc'[d] \notin {"submit", "token", "dedup", "identity", "hydrate", "failed", "sent",
                       "queued", "rolling", "running", "reviewed", "done"}
    BY <1>1 DEF Ended
  <2>7. Reject(d) \/ Handler(d) \/ Job(d) \/ Redeliver(d)
    BY <1>1, <2>5, OwnStep
  <2>8. ~Reject(d) /\ ~Redeliver(d)
    BY <2>1, <2>3, <2>5 DEF Reject, Genuine, Redeliver
  <2>9. ~Job(d)
    <3>1. ~Start(d) /\ ~ReleaseDedup(d)
      BY <2>3, <2>5 DEF Start, ReleaseDedup
    <3>2. ~HandlePR(d)
      BY <2>2, <2>3, <2>5 DEF HandlePR
    <3>3. QED
      BY <3>1, <3>2 DEF Job
  <2>10. ~HandleGitHub(d) /\ ~HandleAzureDevOps(d)
    BY <2>1, <1>1 DEF HandleGitHub, HandleAzureDevOps, IsPush, Lifecycle
  <2>11. ~handleGitHubComment(d)
    BY <2>1, <2>4, <2>5 DEF handleGitHubComment, WithToken
  <2>12. kindOf[d] = "picked" => ~Compare(d)
    BY <2>1, <2>4, <2>5 DEF Compare
  <2>13. ~handleADOComment(d)
    BY <2>1, <2>3, <2>4, <2>5, <2>12 DEF handleADOComment, HasMention, Identity
  <2>14. ~InstallationToken(d) /\ ~Submit(d) /\ ~RollBack(d)
    BY <2>3, <2>5 DEF InstallationToken, Submit, RollBack
  <2>15. ~Hydrate(d)
    BY <1>1, <2>1 DEF Hydrate, IInv, Waits
  <2>16. CASE ResolveSelfID(d)
    <3>1. CallFails /\ Goto(d, "ignored") /\ pc[d] = "identity"
      BY <1>1, <2>1, <2>12, <2>16 DEF ResolveSelfID, IInv, Waits, Identity
    <3>2. QED
      BY <2>2, <2>3, <3>1 DEF CallFails
  <2>17. CASE dedupSeen(d)
    <3>1. pc[d] = "dedup" /\ pc'[d] = "duplicate" /\ dedupKey(d) \in record
      BY <2>3, <2>5, <2>17 DEF dedupSeen
    <3>2. Deduped(d)
      BY <1>1, <3>1 DEF IInv, Legitimate, Passed
    <3>3. PICK e \in Delivery : Deduped(e) /\ dedupKey(e) = dedupKey(d) /\ pc[e] \in InFlight
      BY <1>1, <3>1 DEF IInv, RecordHeld
    <3>4. e # d /\ ~IsPush(e) /\ prOf[e] = prOf[d]
      BY <2>1, <3>1, <3>3, Early DEF dedupKey
    <3>5. ~IsBotAuthor(e)
      BY <1>1, <3>3, <3>4 DEF IInv, Legitimate, Passed, Counts
    <3>6. QED
      BY <2>1, <3>1, <3>2, <3>3, <3>4, <3>5 DEF Covered, Deduped
  <2>18. QED
    BY <2>7, <2>8, <2>9, <2>10, <2>11, <2>13, <2>14, <2>15, <2>16, <2>17 DEF Handler
<1>2. IInv /\ [Next]_vars =>
        [\A d \in Delivery : Asks(d) /\ pc[d] # pc'[d] /\ pc'[d] \in Ended \ {"done"} =>
            \/ pc'[d] = "duplicate" /\ prOf[d] \in GitHub /\ Covered(d)
            \/ pc'[d] = "ignored" /\ pc[d] = "identity" /\ faults' > faults]_vars
  BY <1>1
<1>3. QED
  BY <1>2, Invariance, PTL DEF Spec, MentionIsHeard
=============================================================================
