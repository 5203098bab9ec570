---------------------------- MODULE BatchReviewProof ----------------------------
(***************************************************************************)
(* Theorems about BatchReview, for any number of files, weights, threads   *)
(* and settings: what the merged review claims to have read, what it       *)
(* decides, which threads it settles, and that no slice is sent twice.     *)
(***************************************************************************)
EXTENDS BatchReview, FiniteSetTheorems, TLAPS

-----------------------------------------------------------------------------
(* The numbering of threads in a prompt.                                   *)

\* A prompt's numbers run from one to the number of threads, in order.
LEMMA PromptIDs ==
    ASSUME NEW S \in SUBSET Thread
    PROVE  /\ \A t \in S : promptID(S, t) \in 1..Cardinality(Thread)
           /\ \A t, u \in S : t < u => promptID(S, t) < promptID(S, u)
           /\ Cardinality(Thread) \in Nat
<1>1. IsFiniteSet(Thread) /\ Thread \subseteq Nat
    BY BatchAssumption
<1> DEFINE upToThis(t) == {u \in S : u <= t}
<1>2. \A t \in S : /\ IsFiniteSet(upToThis(t))
                   /\ Cardinality(upToThis(t)) \in Nat
                   /\ Cardinality(upToThis(t)) <= Cardinality(Thread)
    <2> TAKE t \in S
    <2>1. upToThis(t) \subseteq Thread
        OBVIOUS
    <2> HIDE DEF upToThis
    <2> QED BY <1>1, <2>1, FS_Subset, FS_CardinalityType
<1>3. \A t \in S : Cardinality(upToThis(t)) # 0
    <2> TAKE t \in S
    <2>1. t \in upToThis(t)
        BY <1>1
    <2>2. upToThis(t) # {}
        BY <2>1
    <2> HIDE DEF upToThis
    <2> QED BY <1>2, <2>2, FS_EmptySet
<1>4. ASSUME NEW t \in S, NEW u \in S, t < u
      PROVE  Cardinality(upToThis(t)) < Cardinality(upToThis(u))
    <2>0. S \subseteq Nat
        BY <1>1
    <2>1. \A v \in S : v <= t => v <= u
        BY <1>4, <2>0
    <2>1a. upToThis(t) \subseteq upToThis(u)
        BY <2>1
    <2>2. u \in upToThis(u) /\ u \notin upToThis(t)
        BY <1>1, <1>4
    <2>3. upToThis(t) # upToThis(u)
        BY <2>2
    <2> HIDE DEF upToThis
    <2> QED BY <1>2, <2>1a, <2>3, FS_Subset
<1>5. Cardinality(Thread) \in Nat
    BY <1>1, FS_CardinalityType
<1>6. \A t \in S : promptID(S, t) = Cardinality(upToThis(t))
    BY DEF promptID
<1> HIDE DEF upToThis
<1>7. \A t \in S : promptID(S, t) \in 1..Cardinality(Thread)
    BY <1>2, <1>3, <1>5, <1>6
<1>8. \A t, u \in S : t < u => promptID(S, t) < promptID(S, u)
    BY <1>4, <1>6
<1> QED BY <1>5, <1>7, <1>8

\* Read back, the numbers of some of the threads a prompt shows, and any that
\* it did not give out, are those threads.
LEMMA RemapIsExact ==
    ASSUME NEW S \in SUBSET Thread, NEW T \in SUBSET S,
           NEW U \in SUBSET {0, Cardinality(Thread) + 1}
    PROVE  remapBatchThreadResolutions({promptID(S, t) : t \in T} \cup U, S) = T
<1> DEFINE ids == {promptID(S, t) : t \in T} \cup U
<1>1. Thread \subseteq Nat
    BY BatchAssumption
<1>2. \A t, u \in S : promptID(S, t) = promptID(S, u) => t = u
    <2> TAKE t, u \in S
    <2>1. t \in Nat /\ u \in Nat
        BY <1>1
    <2>2. promptID(S, t) \in Nat /\ promptID(S, u) \in Nat
        <3>1. /\ Cardinality(Thread) \in Nat
              /\ promptID(S, t) \in 1..Cardinality(Thread)
              /\ promptID(S, u) \in 1..Cardinality(Thread)
            BY PromptIDs
        <3> HIDE DEF promptID
        <3> QED BY <3>1
    <2>3. t < u => promptID(S, t) < promptID(S, u)
        BY PromptIDs
    <2>4. u < t => promptID(S, u) < promptID(S, t)
        BY PromptIDs
    <2> QED BY <2>1, <2>2, <2>3, <2>4
<1>3. \A t \in S : promptID(S, t) \notin U
    <2> TAKE t \in S
    <2>1. promptID(S, t) \in 1..Cardinality(Thread) /\ Cardinality(Thread) \in Nat
        BY PromptIDs
    <2> QED BY <2>1
<1>4. \A t \in S : promptID(S, t) \in ids <=> t \in T
    BY <1>2, <1>3
<1> QED BY <1>4 DEF remapBatchThreadResolutions

-----------------------------------------------------------------------------
(* Weights and budgets.                                                    *)

LEMMA Weights ==
    /\ \A i \in 0..MaxFiles : upTo[i] \in Nat
    /\ \A i, j \in 0..MaxFiles : i <= j => upTo[i] <= upTo[j]
    /\ \A i, j \in 0..MaxFiles : i < j => upTo[i] < upTo[j]
    /\ MaxFiles \in Nat
BY BatchAssumption

\* A slice of several files weighs more than its half, and than one.
LEMMA HalfIsLess ==
    ASSUME NEW i \in 0..MaxFiles, NEW j \in 0..MaxFiles, j - i > 1
    PROVE  /\ weight(i, j) \in Nat
           /\ atLeast(half(weight(i, j)), 1) \in Nat
           /\ atLeast(half(weight(i, j)), 1) < weight(i, j)
<1>1. i + 1 \in 0..MaxFiles /\ i < i + 1 /\ i + 1 < j
    BY Weights
<1>2. upTo[i] < upTo[i + 1] /\ upTo[i + 1] < upTo[j]
    BY <1>1, Weights
<1>3. upTo[i] \in Nat /\ upTo[i + 1] \in Nat /\ upTo[j] \in Nat
    BY <1>1, Weights
<1>4. upTo[j] - upTo[i] \in Nat /\ upTo[j] - upTo[i] >= 2
    BY <1>2, <1>3
<1>5. \A w \in Nat : w >= 2 => w \div 2 \in Nat /\ w \div 2 < w
    OBVIOUS
<1> QED BY <1>4, <1>5 DEF weight, half, atLeast

\* The first budget is a weight, and less than the whole's if it may be.
LEMMA FirstBudget ==
    ASSUME NEW m \in 1..MaxFiles, NEW b \in Nat \ {0}, NEW scaled \in Scaled \cup {None}
    PROVE  /\ initialBatchBudget(m, b, scaled) \in Nat
           /\ m > 1 /\ b > 1 => initialBatchBudget(m, b, scaled) < weight(0, m)
<1>1. upTo[m] \in Nat /\ upTo[0] = 0 /\ upTo[0] < upTo[m]
    BY Weights, BatchAssumption
<1> DEFINE total == upTo[m]
           hint == IF scaled = None \/ scaled >= total THEN half(total) ELSE scaled
<1>2. total \div 2 \in Nat /\ total \div 2 < total
    BY <1>1
<1>3. hint \in Nat /\ hint < total
    BY <1>1, <1>2, BatchAssumption DEF half
<1>4. total \div b \in Nat
    BY <1>1
<1>5. b > 1 => total \div b < total
    BY <1>1
<1>6. m > 1 => 1 < total
    <2> SUFFICES ASSUME m > 1 PROVE 1 < total
        OBVIOUS
    <2>1. upTo[0] < upTo[1] /\ upTo[1] < upTo[m] /\ upTo[1] \in Nat
        BY Weights
    <2> QED BY <1>1, <2>1
<1>7. initialBatchBudget(m, b, scaled) = atLeast(atLeast(hint, total \div b), 1)
    BY DEF initialBatchBudget
<1>8. weight(0, m) = total
    BY <1>1 DEF weight
<1> HIDE DEF hint, total
<1> QED BY <1>3, <1>4, <1>5, <1>6, <1>7, <1>8 DEF atLeast

-----------------------------------------------------------------------------
(* The inductive invariant.                                                *)

\* Each consumed file has been answered for or recorded, and none twice.
Consumed ==
    /\ read \cup unreviewed = 1..next
    /\ read \cap unreviewed = {}
    /\ pc = "done" => next = n

\* A slice that is out starts where the consumed files end.
SliceIsNext ==
    /\ pc = "asking" => next < end /\ completed + failures < maxBatches
    /\ pc \in {"loop", "asking"} => n > 1

\* The merged verdict is as severe as the slices' verdicts.
VerdictCovers ==
    /\ verdict = "none" => said \subseteq {"none"}
    /\ verdict = "approve" => said \subseteq {"none", "approve"}
    /\ "request_changes" \in said => verdict = "request_changes"

\* Threads are asked with their files, the others before any slice is consumed.
AskedSoFar ==
    \A t \in Thread :
        /\ fileOf[t] \in File => asked[t] = IF fileOf[t] \in read THEN 1 ELSE 0
        /\ fileOf[t] \notin File => asked[t] <= 1
        /\ completed + failures = 0 => asked[t] = 0

\* What overflowed from the first pending file is over the budget.
TooMuch ==
    /\ pc \in {"start", "loop"} /\ maxBatches > 1 /\ n > 1 /\ tried <= n =>
            next + 1 < tried /\ budget < weight(next, tried)
    /\ pc = "asking" /\ maxBatches > 1 => end < tried

IInv == /\ TypeOK /\ Consumed /\ SliceIsNext /\ VerdictCovers /\ resolved = meant
        /\ AskedSoFar /\ TooMuch

LEMMA InitInv == Init => IInv
<1> SUFFICES ASSUME Init PROVE IInv
    OBVIOUS
<1>0. n \in 1..MaxFiles /\ n \in Nat /\ n > 0 /\ maxBatches \in 1..MaxBatches /\ maxBatches \in Nat \ {0}
    BY BatchAssumption DEF Init
<1>1. budget \in Nat /\ (n > 1 /\ maxBatches > 1 => budget < weight(0, n))
    BY <1>0, FirstBudget DEF Init
<1>2. TypeOK
    <2>1. asked \in [Thread -> Nat]
        BY DEF Init
    <2>2. calls \in 0..(maxBatches + MaxShrinks) /\ completed + failures <= maxBatches
        BY <1>0, BatchAssumption DEF Init
    <2>3. next \in 0..n /\ end \in 0..n /\ tried \in 1..(n + 1)
        BY <1>0 DEF Init
    <2>4. pc \in Stage /\ verdict \in Verdict /\ cancelled \in BOOLEAN
        BY DEF Init, Stage, Verdict
    <2>5. /\ resolved \subseteq Thread /\ unreviewed \subseteq File
          /\ read \subseteq File /\ said \subseteq Verdict /\ meant \subseteq Thread
          /\ completed \in Nat /\ failures \in Nat
        BY DEF Init
    <2> QED BY <1>0, <1>1, <2>1, <2>2, <2>3, <2>4, <2>5 DEF TypeOK
<1>3. Consumed /\ SliceIsNext /\ VerdictCovers /\ resolved = meant
    BY <1>0 DEF Init, Consumed, SliceIsNext, VerdictCovers
<1>4. AskedSoFar
    BY <1>0 DEF Init, AskedSoFar
<1>5. TooMuch
    BY <1>0, <1>1 DEF Init, TooMuch
<1> QED BY <1>2, <1>3, <1>4, <1>5 DEF IInv

LEMMA AskInv == IInv /\ Ask => IInv'
<1> SUFFICES ASSUME IInv, Ask PROVE IInv'
    OBVIOUS
<1>0. /\ n \in 1..MaxFiles /\ n \in Nat /\ next \in 0..n /\ tried \in 1..(n + 1)
      /\ maxBatches \in Nat /\ MaxFiles \in Nat /\ calls \in Nat /\ MaxShrinks \in Nat
      /\ budget \in Nat
    BY BatchAssumption DEF IInv, TypeOK
<1>1. /\ end' \in next + 1..n
      /\ end' = next + 1 \/ weight(next, end') <= budget
    BY DEF Ask, takeBatch, fits
<1>2. TypeOK'
    BY <1>0, <1>1 DEF IInv, TypeOK, Ask, goesOn, settings, merged, history, Stage, File
<1>3. Consumed'
    BY DEF IInv, Consumed, Ask, settings, merged, history
<1>4. SliceIsNext'
    BY <1>0, <1>1 DEF IInv, SliceIsNext, Ask, goesOn, settings
<1>5. (VerdictCovers /\ resolved = meant)'
    BY DEF IInv, VerdictCovers, Ask, merged, history
<1>6. AskedSoFar'
    BY DEF IInv, AskedSoFar, Ask, settings, history, File
<1>7. TooMuch'
    <2> SUFFICES ASSUME maxBatches > 1 PROVE end' < tried
        BY DEF TooMuch, Ask, settings
    <2>1. CASE tried = n + 1
        BY <2>1, <1>0, <1>1
    <2>2. CASE tried <= n
        <3>1. next + 1 < tried /\ budget < weight(next, tried)
            BY <2>2 DEF IInv, TooMuch, SliceIsNext, Ask
        <3> SUFFICES ASSUME end' >= tried PROVE FALSE
            BY <1>0, <1>1
        <3>2. weight(next, end') <= budget
            BY <1>0, <1>1, <3>1
        <3>3. upTo[tried] <= upTo[end'] /\ upTo[tried] \in Nat /\ upTo[end'] \in Nat /\ upTo[next] \in Nat
            BY <1>0, <1>1, <2>2, Weights
        <3> QED BY <1>0, <3>1, <3>2, <3>3 DEF weight
    <2> QED BY <1>0, <2>1, <2>2
<1> QED BY <1>2, <1>3, <1>4, <1>5, <1>6, <1>7 DEF IInv

LEMMA AbsorbInv == IInv /\ absorb => IInv'
<1> SUFFICES ASSUME IInv, absorb PROVE IInv'
    OBVIOUS
<1> DEFINE S == conversationFor
<1>0. /\ n \in 1..MaxFiles /\ n \in Nat /\ next \in 0..n /\ end \in 0..n /\ next < end
      /\ maxBatches \in Nat /\ completed \in Nat /\ failures \in Nat
      /\ completed + failures < maxBatches
    BY BatchAssumption DEF IInv, TypeOK, SliceIsNext, absorb
<1>1. PICK v \in Verdict, T \in SUBSET S, U \in SUBSET {0, Cardinality(Thread) + 1} :
        /\ verdict' = mergeBatchVerdicts(verdict, v)
        /\ resolved' = resolved \cup remapBatchThreadResolutions({promptID(S, t) : t \in T} \cup U, S)
        /\ said' = said \cup {v}
        /\ meant' = meant \cup T
    BY DEF absorb
<1>2. S \subseteq Thread
    BY DEF conversationFor
<1>3. remapBatchThreadResolutions({promptID(S, t) : t \in T} \cup U, S) = T
    BY <1>1, <1>2, RemapIsExact
<1>4. resolved' = meant' /\ meant' \subseteq Thread
    BY <1>1, <1>2, <1>3 DEF IInv, TypeOK
<1>5. verdict \in Verdict /\ verdict' \in Verdict /\ said' \subseteq Verdict /\ VerdictCovers'
    BY <1>1 DEF IInv, TypeOK, Verdict, VerdictCovers, mergeBatchVerdicts, batchVerdictSeverityRank
<1>6. asked' \in [Thread -> Nat] /\ AskedSoFar'
    <2>1. asked \in [Thread -> Nat]
        BY DEF IInv, TypeOK
    <2>2. asked' = [t \in Thread |-> IF t \in S THEN asked[t] + 1 ELSE asked[t]]
        BY DEF absorb
    <2>3. read' = read \cup next + 1..end /\ read \subseteq 1..next /\ n' = n
        BY DEF absorb, IInv, Consumed, settings
    <2>4. completed' = completed + 1 /\ failures' = failures
        BY DEF absorb
    <2> SUFFICES ASSUME NEW t \in Thread
                 PROVE  /\ fileOf[t] \in File => asked'[t] = IF fileOf[t] \in read' THEN 1 ELSE 0
                        /\ fileOf[t] \notin File => asked'[t] <= 1
        BY <1>0, <2>1, <2>2, <2>3, <2>4 DEF AskedSoFar, File
    <2>5. fileOf[t] \in Nat
        BY BatchAssumption
    <2>6. /\ fileOf[t] \in File => asked[t] = IF fileOf[t] \in read THEN 1 ELSE 0
          /\ fileOf[t] \notin File => asked[t] <= 1
          /\ completed + failures = 0 => asked[t] = 0
        BY DEF IInv, AskedSoFar
    <2>7. t \in S <=> fileOf[t] \in next + 1..end \/ (completed + failures = 0 /\ fileOf[t] \notin File)
        BY DEF conversationFor
    <2>8. next + 1..end \subseteq File
        BY <1>0 DEF File
    <2>9. CASE fileOf[t] \in File
        <3>1. CASE fileOf[t] \in next + 1..end
            <4>1. fileOf[t] \notin read
                BY <1>0, <2>3, <3>1
            <4> HIDE DEF S
            <4> QED BY <2>1, <2>2, <2>3, <2>6, <2>7, <2>9, <3>1, <4>1
        <3>2. CASE fileOf[t] \notin next + 1..end
            <4> HIDE DEF S
            <4> QED BY <2>1, <2>2, <2>3, <2>6, <2>7, <2>9, <3>2
        <3> QED BY <3>1, <3>2
    <2>10. CASE fileOf[t] \notin File
        <3>1. fileOf[t] \notin next + 1..end
            BY <2>8, <2>10
        <3> HIDE DEF S
        <3> QED BY <2>1, <2>2, <2>6, <2>7, <2>10, <3>1
    <2> QED BY <2>9, <2>10
<1>7. Consumed'
    <2>1. read' = read \cup next + 1..end /\ next' = end /\ unreviewed' = unreviewed /\ pc' = "loop"
        BY DEF absorb
    <2>2. read \cup unreviewed = 1..next /\ read \cap unreviewed = {}
        BY DEF IInv, Consumed
    <2>3. (1..next) \cup next + 1..end = 1..end /\ (1..next) \cap (next + 1..end) = {}
        BY <1>0
    <2> QED BY <2>1, <2>2, <2>3 DEF Consumed
<1>8. TypeOK'
    <2>1. read' \subseteq File' /\ unreviewed' \subseteq File'
        BY <1>0 DEF absorb, IInv, TypeOK, File, settings
    <2> QED BY <1>0, <1>4, <1>5, <1>6, <2>1 DEF IInv, TypeOK, absorb, settings, Stage
<1>9. SliceIsNext' /\ TooMuch'
    BY <1>0 DEF IInv, SliceIsNext, TooMuch, absorb, settings
<1> QED BY <1>4, <1>5, <1>6, <1>7, <1>8, <1>9 DEF IInv

LEMMA ShrinkInv == IInv /\ Shrink => IInv'
<1> SUFFICES ASSUME IInv, Shrink PROVE IInv'
    OBVIOUS
<1>0. /\ n \in 1..MaxFiles /\ n \in Nat /\ next \in 0..n /\ end \in 0..n /\ end - next > 1
      /\ MaxFiles \in Nat
    BY BatchAssumption DEF IInv, TypeOK, Shrink
<1>1. budget' \in Nat /\ budget' < weight(next, end)
    <2>1. next \in 0..MaxFiles /\ end \in 0..MaxFiles
        BY <1>0
    <2> QED BY <1>0, <2>1, HalfIsLess DEF Shrink, shrunk
<1>2. TypeOK'
    BY <1>0, <1>1 DEF IInv, TypeOK, Shrink, settings, merged, history, Stage, File
<1>3. Consumed' /\ SliceIsNext' /\ VerdictCovers' /\ (resolved = meant)'
    BY DEF IInv, Consumed, SliceIsNext, VerdictCovers, Shrink, settings, merged, history
<1>4. AskedSoFar'
    BY DEF IInv, AskedSoFar, Shrink, settings, history, File
<1>5. TooMuch'
    BY <1>0, <1>1 DEF TooMuch, Shrink, settings, weight
<1> QED BY <1>2, <1>3, <1>4, <1>5 DEF IInv

LEMMA RecordFailureInv == IInv /\ recordFailure => IInv'
<1> SUFFICES ASSUME IInv, recordFailure PROVE IInv'
    OBVIOUS
<1>0. /\ n \in 1..MaxFiles /\ n \in Nat /\ next \in 0..n /\ end \in 0..n /\ next < end
      /\ maxBatches \in Nat /\ completed \in Nat /\ failures \in Nat
      /\ completed + failures < maxBatches
    BY BatchAssumption DEF IInv, TypeOK, SliceIsNext, recordFailure
<1>1. Consumed'
    <2>1. unreviewed' = unreviewed \cup next + 1..end /\ next' = end /\ read' = read /\ pc' = "loop"
        BY DEF recordFailure, history
    <2>2. read \cup unreviewed = 1..next /\ read \cap unreviewed = {}
        BY DEF IInv, Consumed
    <2>3. (1..next) \cup next + 1..end = 1..end /\ (1..next) \cap (next + 1..end) = {}
        BY <1>0
    <2> QED BY <2>1, <2>2, <2>3 DEF Consumed
<1>2. TypeOK'
    <2>1. unreviewed' \subseteq File'
        BY <1>0 DEF recordFailure, IInv, TypeOK, File, settings
    <2> QED BY <1>0, <2>1 DEF IInv, TypeOK, recordFailure, settings, history, Stage, File
<1>3. SliceIsNext' /\ VerdictCovers' /\ (resolved = meant)' /\ TooMuch'
    BY <1>0 DEF IInv, SliceIsNext, VerdictCovers, TooMuch, recordFailure, settings, history
<1>4. AskedSoFar'
    BY <1>0 DEF IInv, AskedSoFar, recordFailure, settings, history, File
<1> QED BY <1>1, <1>2, <1>3, <1>4 DEF IInv

LEMMA FinishInv == IInv /\ Finish => IInv'
<1> SUFFICES ASSUME IInv, Finish PROVE IInv'
    OBVIOUS
<1>0. n \in 1..MaxFiles /\ n \in Nat /\ next \in 0..n
    BY BatchAssumption DEF IInv, TypeOK
<1>1. Consumed'
    <2>1. unreviewed' = unreviewed \cup next + 1..n /\ next' = n /\ read' = read /\ n' = n
        BY DEF Finish, history, settings
    <2>2. read \cup unreviewed = 1..next /\ read \cap unreviewed = {}
        BY DEF IInv, Consumed
    <2>3. (1..next) \cup next + 1..n = 1..n /\ (1..next) \cap (next + 1..n) = {}
        BY <1>0
    <2> QED BY <2>1, <2>2, <2>3 DEF Consumed
<1>2. TypeOK'
    <2>1. unreviewed' \subseteq File'
        BY <1>0 DEF Finish, IInv, TypeOK, File, settings
    <2> QED BY <1>0, <2>1 DEF IInv, TypeOK, Finish, settings, history, Stage, Ended, File
<1>3. SliceIsNext' /\ VerdictCovers' /\ (resolved = meant)' /\ TooMuch'
    BY <1>0 DEF IInv, SliceIsNext, VerdictCovers, TooMuch, Finish, settings, history
<1>4. AskedSoFar'
    BY DEF IInv, AskedSoFar, Finish, settings, history, File
<1> QED BY <1>1, <1>2, <1>3, <1>4 DEF IInv

\* Beginning, giving up and being cancelled change nothing but where the run is.
LEMMA OtherInv == IInv /\ (Begin \/ Abandon \/ Cancel \/ UNCHANGED vars) => IInv'
<1> SUFFICES ASSUME IInv, Begin \/ Abandon \/ Cancel \/ UNCHANGED vars PROVE IInv'
    OBVIOUS
<1>0. n \in Nat
    BY BatchAssumption DEF IInv, TypeOK
<1>1. TypeOK'
    BY DEF IInv, TypeOK, Begin, Abandon, Cancel, vars, settings, merged, history, Stage, Ended, File
<1>2. Consumed' /\ VerdictCovers' /\ (resolved = meant)'
    BY DEF IInv, Consumed, VerdictCovers, Begin, Abandon, Cancel, vars, settings, merged, history
<1>3. SliceIsNext'
    BY <1>0 DEF IInv, SliceIsNext, Begin, Abandon, Cancel, vars, settings
<1>4. AskedSoFar'
    BY DEF IInv, AskedSoFar, Begin, Abandon, Cancel, vars, settings, history, File
<1>5. TooMuch'
    BY DEF IInv, TooMuch, Begin, Abandon, Cancel, vars, settings, weight
<1> QED BY <1>1, <1>2, <1>3, <1>4, <1>5 DEF IInv

LEMMA Inductive == Spec => []IInv
<1>1. IInv /\ [Next]_vars => IInv'
    BY AskInv, AbsorbInv, ShrinkInv, RecordFailureInv, FinishInv, OtherInv DEF Next
<1> QED BY <1>1, InitInv, PTL DEF Spec

-----------------------------------------------------------------------------
(* The theorems.                                                           *)

\* Every state of a batched run is well typed: in particular the calls never
\* exceed the operator's cap by more than the shrinks.
THEOREM TypeCorrect == Spec => []TypeOK
<1>1. IInv => TypeOK
    BY DEF IInv
<1> QED BY <1>1, Inductive, PTL

\* A review that is handed on accounts for each file exactly once.
THEOREM Accounting == Spec => []EveryFileAccounted
<1>1. IInv => EveryFileAccounted
    BY DEF IInv, Consumed, EveryFileAccounted, File
<1> QED BY <1>1, Inductive, PTL

\* A merged approval means that every file was answered for, without objection.
THEOREM Approval == Spec => []ApprovalIsEarned
<1>1. IInv => ApprovalIsEarned
    BY DEF IInv, Consumed, VerdictCovers, ApprovalIsEarned, mergedVerdict, File
<1> QED BY <1>1, Inductive, PTL

\* A request for changes on any slice is the verdict of the whole review.
THEOREM Blocking == Spec => []BlockingSurvives
<1>1. IInv => BlockingSurvives
    BY DEF IInv, VerdictCovers, BlockingSurvives, mergedVerdict
<1> QED BY <1>1, Inductive, PTL

\* The threads the merged review settles are the ones the answers meant.
THEOREM Resolution == Spec => []ResolvedAsMeant
<1>1. IInv => ResolvedAsMeant
    BY DEF IInv, ResolvedAsMeant
<1> QED BY <1>1, Inductive, PTL

\* A thread is put to the model with its file, and never twice.
THEOREM NoQuestionTwice == Spec => []AskedOnce
<1>1. IInv => AskedOnce
    <2> SUFFICES ASSUME IInv, NEW t \in Thread
                 PROVE  /\ asked[t] <= 1
                        /\ fileOf[t] \in File => (asked[t] = 1 <=> fileOf[t] \in read)
        BY DEF AskedOnce
    <2>1. /\ fileOf[t] \in File => asked[t] = IF fileOf[t] \in read THEN 1 ELSE 0
          /\ fileOf[t] \notin File => asked[t] <= 1
        BY DEF IInv, AskedSoFar
    <2> QED BY <2>1
<1> QED BY <1>1, Inductive, PTL

\* A slice that overflowed is never sent again as it was, nor a longer one.
THEOREM NoResend == Spec => []NeverResent
<1>1. IInv => NeverResent
    BY DEF IInv, TooMuch, NeverResent
<1> QED BY <1>1, Inductive, PTL
=============================================================================
