---------------------------- MODULE ReviewRunsProof ----------------------------
(***************************************************************************)
(* What ReviewRuns claims of a pull request, for any runs, comments and    *)
(* worlds.  IInv: it is reviewed once for its pushes, and what no AI looked*)
(* at is settled by the class of an enabled adapter.  PInv: no finding is  *)
(* on it twice and no verdict repeats, but for runs that overlapped.       *)
(* SInv: a thread the AI settled is closed.  TInv: the types, and that no  *)
(* finding is posted oftener than there are runs to post it.               *)
(***************************************************************************)
EXTENDS ReviewRuns, FiniteSetTheorems, TLAPS

-----------------------------------------------------------------------------
(* The detectors.                                                          *)

\* A change to nothing but changelogs is one that isChangelogOnly declines.
LEMMA ChangelogsAreDeclined ==
    ASSUME NEW F, ChangelogOnly(F)
    PROVE  isChangelogOnly(F)
BY DEF ChangelogOnly, isChangelogOnly, Folded

\* What an adapter approves is in its class, and only a bump adapter approves
\* a changelog by itself.
LEMMA ApprovalIsInClass ==
    ASSUME NEW a \in Adapter, NEW F, NEW autobump, NEW unread,
           Opinion(a, F, IF a \in unread THEN {} ELSE autobump) = "approve"
    PROVE  InClass(a, F, autobump) /\ (ChangelogOnly(F) => a \in Bumps)
<1>1. CASE a \in Bumps
  <2>1. a \notin DOMAIN updateAllowed /\ a # "docs_only"
    BY <1>1 DEF Bumps, languageKey, updateAllowed
  <2>2. PICK config : /\ config = {} \/ config = autobump
                      /\ detectBump(a, F, config) = "approve"
    BY <1>1 DEF Opinion
  <2>3. \A f \in F : bumpDefault(a, f) \/ f \in UNION loadAutobumpRequired(a, config)
    BY <2>2 DEF detectBump
  <2>4. \A f \in F : bumpDefault(a, f) \/ \E cfg \in autobump : f \in cfg[languageKey[a]]
    <3> SUFFICES ASSUME NEW f \in F, f \in UNION loadAutobumpRequired(a, config),
                        f # changelogFile
                 PROVE  \E cfg \in autobump : f \in cfg[languageKey[a]]
      BY <2>3 DEF bumpDefault, changelogFile, Root
    <3>1. PICK cfg \in config : f \in {changelogFile} \cup cfg[languageKey[a]]
      BY DEF loadAutobumpRequired
    <3>2. QED
      BY <2>2, <3>1
  <2>5. QED
    BY <1>1, <2>1, <2>4 DEF InClass
<1>2. CASE a \notin Bumps
  <2>1. \/ a = "docs_only" /\ DocsOnly(F)
        \/ a \in DOMAIN updateAllowed /\ Updates(a, F)
    BY <1>2 DEF Opinion
  <2>2. ~isChangelogOnly(F)
    BY <2>1 DEF DocsOnly, Updates
  <2>3. InClass(a, F, autobump)
    <3>1. CASE a = "docs_only" /\ DocsOnly(F)
      <4>1. a \notin DOMAIN updateAllowed
        BY <3>1 DEF updateAllowed
      <4>2. QED
        BY <3>1, <4>1, <1>2 DEF InClass, DocsOnly
    <3>2. CASE a \in DOMAIN updateAllowed /\ Updates(a, F)
      <4>1. a # "docs_only"
        BY <3>2 DEF updateAllowed
      <4>2. QED
        BY <3>2, <4>1, <1>2 DEF InClass, Updates
    <3>3. QED
      BY <2>1, <3>1, <3>2
  <2>4. QED
    BY <2>2, <2>3, ChangelogsAreDeclined
<1>3. QED
  BY <1>1, <1>2

\* What an adapter rejects lacks a file that the configuration requires.
LEMMA RejectionIsIncomplete ==
    ASSUME NEW a \in Adapter, NEW F, NEW autobump, NEW unread,
           Opinion(a, F, IF a \in unread THEN {} ELSE autobump) = "reject"
    PROVE  Incomplete(a, F, autobump)
<1>1. a \in Bumps
  BY DEF Opinion
<1>2. PICK config : /\ config = {} \/ config = autobump
                    /\ detectBump(a, F, config) = "reject"
  BY <1>1 DEF Opinion
<1>3. PICK files_ \in loadAutobumpRequired(a, config) : ~(files_ \subseteq F)
  BY <1>2 DEF detectBump
<1>4. files_ \in loadAutobumpRequired(a, autobump)
  BY <1>2, <1>3 DEF loadAutobumpRequired
<1>5. QED
  BY <1>1, <1>3, <1>4 DEF Incomplete

\* A verdict on the files F that an enabled adapter may give.
Justified(verdict, F) ==
    \/ /\ verdict = "approve"
       /\ \E i \in DOMAIN W.adapters :
            /\ InClass(W.adapters[i], F, W.autobump)
            /\ ChangelogOnly(F) => W.adapters[i] \in Bumps
    \/ /\ verdict = "reject"
       /\ \E i \in DOMAIN W.adapters : Incomplete(W.adapters[i], F, W.autobump)

LEMMA DetectIsJustified ==
    ASSUME world \in DOMAIN Worlds, NEW F, NEW unread, NEW verdict \in {"approve", "reject"},
           Detect(W.adapters, F, W.autobump, unread, verdict)
    PROVE  Justified(verdict, F)
<1>1. W.adapters \in Seq(Adapter)
  BY RunsAssumption DEF W, World
<1>2. PICK i \in DOMAIN W.adapters :
        Opinion(W.adapters[i], F, IF W.adapters[i] \in unread THEN {} ELSE W.autobump) = verdict
  BY DEF Detect
<1>3. W.adapters[i] \in Adapter
  BY <1>1, <1>2
<1>4. QED
  BY <1>2, <1>3, ApprovalIsInClass, RejectionIsIncomplete DEF Justified
-----------------------------------------------------------------------------
(* The invariant.                                                          *)

Past   == Stage \ (Ended \cup {"new", "gate"})
Active == Past \cup {"gate"}
Notice == {"none", "complete", "failed"}

Typed ==
    /\ world \in DOMAIN Worlds
    /\ pc \in [Run -> Stage]
    /\ outcome \in [Run -> Notice]
    /\ DOMAIN read = Run /\ DOMAIN ruling = Run

\* Of the runs of one key only one is at work.
Apart ==
    \A r, s \in Run : r # s /\ W.key[r] = W.key[s] => pc[r] \notin Active \/ pc[s] \notin Active

\* Who has told an outcome has nothing more to tell.
Told == \A r \in Run : outcome[r] # "none" => pc[r] \in Ended \cup {"merging"}

\* A push that got past the gate is the first of its key to tell one.
First ==
    \A r \in Push \ W.flaky, s \in Push :
        r # s /\ pc[r] \in Past /\ W.key[r] = W.key[s] => outcome[s] = "none"

Ruled == \A r \in Run : pc[r] = "verdict" => Justified(ruling[r], read[r])

IInv == Typed /\ Apart /\ Told /\ First /\ ReviewedOnce /\ Ruled

-----------------------------------------------------------------------------
(* What a step of a run is, as far as the invariant can tell.              *)

\* Run r goes to s and tells o.
Moves(r, s, o) ==
    /\ world' = world
    /\ pc' = [pc EXCEPT ![r] = s]
    /\ outcome' = [outcome EXCEPT ![r] = o]
    /\ DOMAIN read' = Run /\ DOMAIN ruling' = Run
    /\ \A q \in Run \ {r} : read'[q] = read[q] /\ ruling'[q] = ruling[q]
    /\ s = "verdict" => Justified(ruling'[r], read'[r])
    /\ \/ /\ pc[r] = "new" /\ s = "gate" /\ o = outcome[r]
          /\ \A q \in Run \ {r} : W.key[q] = W.key[r] => pc[q] \notin Active
       \/ /\ pc[r] = "gate" /\ s = "files" /\ o = outcome[r]
          /\ r \in Push \ W.flaky => \A q \in Run : outcome[q] = "none"
       \/ /\ pc[r] \in Active /\ s \in Ended /\ o = outcome[r]
       \/ /\ pc[r] \in Past \ {"merging"} /\ s \in Past /\ o = outcome[r]
       \/ /\ pc[r] \in Past \ {"merging"} /\ s \in Ended \cup {"merging"} /\ o \in Notice

LEMMA Initial == Init => IInv
<1>1. SUFFICES ASSUME Init PROVE IInv
  OBVIOUS
<1>2. Typed
  BY <1>1 DEF Init, Typed, Stage, Notice
<1>3. \A r \in Run : pc[r] = "new" /\ outcome[r] = "none"
  BY <1>1 DEF Init
<1>4. \A r \in Run : pc[r] \notin Active
  BY <1>3 DEF Active, Past
<1>5. Apart /\ Told /\ First /\ ReviewedOnce /\ Ruled
  BY <1>3, <1>4 DEF Apart, Told, First, ReviewedOnce, Ruled, Active, Run
<1>6. QED
  BY <1>2, <1>5 DEF IInv

\* A step of a run keeps the invariant.
LEMMA MovesKeep ==
    ASSUME IInv, NEW r \in Run, NEW s, NEW o, Moves(r, s, o)
    PROVE  IInv'
<1>1. /\ pc'[r] = s /\ \A q \in Run \ {r} : pc'[q] = pc[q]
      /\ outcome'[r] = o /\ \A q \in Run \ {r} : outcome'[q] = outcome[q]
      /\ W' = W
  BY DEF IInv, Typed, Moves, W
<1>2. s \in Stage /\ o \in Notice /\ outcome[r] \in Notice
  BY DEF IInv, Typed, Moves, Past, Active, Stage
<1>3. Typed'
  BY <1>2 DEF IInv, Typed, Moves
<1>4. s \in Active => pc[r] \in Active \/ \A q \in Run \ {r} : W.key[q] = W.key[r] => pc[q] \notin Active
  BY DEF Moves, Active, Past, Ended
<1>5. Apart'
  BY <1>1, <1>4 DEF IInv, Apart
<1>6. outcome'[r] # "none" => pc'[r] \in Ended \cup {"merging"}
  BY <1>1 DEF IInv, Told, Moves, Active, Past, Ended
<1>7. Told'
  BY <1>1, <1>6 DEF IInv, Told
<1>8. s \in Past => pc[r] \in Past \/ (r \in Push \ W.flaky => \A q \in Run : outcome[q] = "none")
  BY DEF Moves, Active, Past, Ended
<1>9. o # outcome[r] => pc[r] \in Past
  BY DEF Moves
<1>10. First'
  <2> SUFFICES ASSUME NEW p \in Push \ W.flaky, NEW q \in Push, p # q,
                      pc'[p] \in Past, W.key[p] = W.key[q]
               PROVE  outcome'[q] = "none"
    BY <1>1 DEF First
  <2>1. p \in Run /\ q \in Run /\ Past \subseteq Active
    BY DEF Run, Active
  <2>2. CASE p = r
    <3>1. pc[r] \in Past \/ \A t \in Run : outcome[t] = "none"
      BY <1>1, <1>8, <2>2
    <3>2. QED
      BY <1>1, <2>1, <2>2, <3>1 DEF IInv, First
  <2>3. CASE p # r
    <3>1. pc[p] \in Past /\ outcome[q] = "none"
      BY <1>1, <2>1, <2>3 DEF IInv, First
    <3>2. q = r => o = outcome[r]
      BY <1>9, <2>1, <2>3, <3>1 DEF IInv, Apart
    <3>3. QED
      BY <1>1, <2>1, <3>1, <3>2
  <2>4. QED
    BY <2>2, <2>3
<1>11. ReviewedOnce'
  <2> SUFFICES ASSUME NEW p \in Push \ W.flaky, NEW q \in Push \ W.flaky,
                      W.key[p] = W.key[q], outcome'[p] # "none", outcome'[q] # "none", p # q
               PROVE  FALSE
    BY <1>1 DEF ReviewedOnce
  <2>1. p \in Run /\ q \in Run
    BY DEF Run
  <2>2. o # outcome[r] => r # p /\ r # q
    BY <1>1, <1>9, <2>1 DEF IInv, First
  <2>3. outcome'[p] = outcome[p] /\ outcome'[q] = outcome[q]
    BY <1>1, <2>1, <2>2
  <2>4. QED
    BY <2>3 DEF IInv, ReviewedOnce
<1>12. Ruled'
  <2> SUFFICES ASSUME NEW q \in Run, pc'[q] = "verdict" PROVE Justified(ruling'[q], read'[q])
    BY <1>1 DEF Ruled, Justified
  <2>1. CASE q = r
    BY <1>1, <2>1 DEF Moves
  <2>2. CASE q # r
    BY <1>1, <2>2 DEF IInv, Ruled, Moves
  <2>3. QED
    BY <2>1, <2>2
<1>13. QED
  BY <1>3, <1>5, <1>7, <1>10, <1>11, <1>12 DEF IInv

\* So does a step that changes nothing it speaks of.
LEMMA Stays ==
    ASSUME IInv, UNCHANGED <<world, pc, outcome, read, ruling>>
    PROVE  IInv'
<1>1. W' = W
  BY DEF W
<1>2. Typed' /\ Apart' /\ Told' /\ First' /\ ReviewedOnce'
  BY <1>1 DEF IInv, Typed, Apart, Told, First, ReviewedOnce
<1>3. Ruled'
  BY <1>1 DEF IInv, Ruled, Justified
<1>4. QED
  BY <1>2, <1>3 DEF IInv

-----------------------------------------------------------------------------
(* Every step of a run is one of those moves.                              *)

\* A run that is over, or goes on with what it has read.
LEMMA Frame ==
    ASSUME IInv, NEW r \in Run
    PROVE  /\ Forgets(r) => /\ DOMAIN read' = Run /\ DOMAIN ruling' = Run
                            /\ \A q \in Run \ {r} : read'[q] = read[q] /\ ruling'[q] = ruling[q]
           /\ pc = [pc EXCEPT ![r] = pc[r]] /\ outcome = [outcome EXCEPT ![r] = outcome[r]]
BY DEF IInv, Typed, Forgets, Blank

\* The gates.
LEMMA TriageMoves ==
    ASSUME IInv, NEW r \in Run, triage(r)
    PROVE  \E s \in Stage, o \in Notice : Moves(r, s, o)
<1>0. DOMAIN read = Run /\ DOMAIN ruling = Run /\ outcome[r] \in Notice
  BY DEF IInv, Typed
<1>1. CASE Start(r)
  <2>1. \A q \in Run \ {r} : W.key[q] = W.key[r] => pc[q] \notin Active
    BY <1>1 DEF Start, Active, Past, Ended
  <2>2. Moves(r, "gate", outcome[r])
    BY <1>0, <1>1, <2>1, Frame DEF Start, Moves, Goto, headVars, runVars
  <2>3. QED
    BY <1>0, <2>2 DEF Stage
<1>2. CASE Gate(r)
  <2>1. CASE Ends(r, "skipped")
    <3>1. Moves(r, "skipped", outcome[r])
      BY <1>2, <2>1, Frame DEF Gate, Moves, Ends, Goto, headVars, Ended, Active
    <3>2. QED
      BY <1>0, <3>1 DEF Stage, Ended
  <2>2. CASE Goto(r, "files") /\ UNCHANGED runVars
            /\ (r \in Mention \/ ~HasCompletedReviewMarker \/ MayMiss(r))
    <3>1. r \in Push \ W.flaky => \A q \in Run : outcome[q] = "none"
      BY <2>2, RunsAssumption DEF HasCompletedReviewMarker, MayMiss
    <3>2. Moves(r, "files", outcome[r])
      BY <1>0, <1>2, <2>2, <3>1, Frame DEF Gate, Moves, Goto, headVars, runVars
    <3>3. QED
      BY <1>0, <3>2 DEF Stage
  <2>3. QED
    BY <1>2, <2>1, <2>2 DEF Gate
<1>3. CASE Triage(r)
  <2>1. ASSUME NEW s \in {"skipped", "silent", "handed"}, Ends(r, s)
        PROVE  \E t \in Stage, o \in Notice : Moves(r, t, o)
    <3>1. Moves(r, s, outcome[r])
      BY <1>3, <2>1, Frame DEF Triage, Moves, Ends, Goto, headVars, Ended, Active, Past, Stage
    <3>2. QED
      BY <1>0, <3>1 DEF Stage, Ended
  <2>2. ASSUME NEW verdict \in Ruling, NEW unread,
               Detect(W.adapters, files, W.autobump, unread, verdict),
               read' = [read EXCEPT ![r] = files],
               ruling' = [ruling EXCEPT ![r] = verdict],
               Goto(r, IF verdict = "none" THEN "marking" ELSE "verdict")
        PROVE  \E s \in Stage, o \in Notice : Moves(r, s, o)
    <3> DEFINE s == IF verdict = "none" THEN "marking" ELSE "verdict"
    <3>1. /\ read'[r] = files /\ ruling'[r] = verdict
          /\ DOMAIN read' = Run /\ DOMAIN ruling' = Run
          /\ \A q \in Run \ {r} : read'[q] = read[q] /\ ruling'[q] = ruling[q]
      BY <1>0, <2>2
    <3>2. world' = world /\ W' = W
      BY <1>3 DEF Triage, headVars, W
    <3>3. verdict # "none" => Justified(ruling'[r], read'[r])
      BY <2>2, <3>1, DetectIsJustified DEF Ruling, IInv, Typed
    <3>4. pc[r] = "files" /\ pc' = [pc EXCEPT ![r] = s] /\ outcome' = outcome
      BY <1>3, <2>2 DEF Triage, Goto
    <3>5. s \in Past /\ "files" \in Past \ {"merging"}
      BY DEF Past, Stage, Ended
    <3>6. s = "verdict" => verdict # "none"
      OBVIOUS
    <3> HIDE DEF s
    <3>7. Moves(r, s, outcome[r])
      BY <3>1, <3>2, <3>3, <3>4, <3>5, <3>6, Frame DEF Moves
    <3>8. QED
      BY <1>0, <3>5, <3>7 DEF Past
  <2>3. QED
    BY <1>3, <2>1, <2>2 DEF Triage
<1>4. CASE PostVerdict(r)
  <2>1. PICK s \in {"merging", "done"}, o \in Notice :
          /\ pc' = [pc EXCEPT ![r] = s] /\ outcome' = [outcome EXCEPT ![r] = o]
          /\ DOMAIN read' = Run /\ DOMAIN ruling' = Run
          /\ \A q \in Run \ {r} : read'[q] = read[q] /\ ruling'[q] = ruling[q]
    <3>1. PICK o \in Notice : outcome' = [outcome EXCEPT ![r] = o]
      BY <1>0, <1>4, Frame DEF PostVerdict, Notice
    <3>2. CASE Goto(r, "merging") /\ UNCHANGED runVars
      BY <1>0, <3>1, <3>2 DEF Goto, runVars
    <3>3. CASE Ends(r, "done")
      BY <3>1, <3>3, Frame DEF Goto, Ends
    <3>4. QED
      BY <1>4, <3>2, <3>3 DEF PostVerdict
  <2>2. Moves(r, s, o)
    BY <1>4, <2>1 DEF PostVerdict, Moves, headVars, Past, Stage, Ended
  <2>3. QED
    BY <2>2 DEF Stage, Ended
<1>5. CASE autoMergeTrivial(r)
  <2>1. Moves(r, "done", outcome[r])
    BY <1>5, Frame DEF autoMergeTrivial, Moves, Ends, Goto, Active, Past, Stage, Ended
  <2>2. QED
    BY <1>0, <2>1 DEF Stage, Ended
<1>6. QED
  BY <1>1, <1>2, <1>3, <1>4, <1>5 DEF triage

\* A run that ends from any stage, telling nothing.
LEMMA EndMoves ==
    ASSUME IInv, NEW r \in Run, NEW s \in Ended, Ends(r, s), pc[r] \in Active,
           UNCHANGED <<world, outcome>>
    PROVE  \E t \in Stage, o \in Notice : Moves(r, t, o)
<1>1. Moves(r, s, outcome[r])
  BY Frame DEF Moves, Ends, Goto, Ended
<1>2. QED
  BY <1>1 DEF Stage, IInv, Typed

\* A run that goes on to another stage of the review, or does more in its own.
LEMMA GoesOn ==
    ASSUME IInv, NEW r \in Run, NEW s \in Past \ {"verdict"}, pc' = [pc EXCEPT ![r] = s],
           pc[r] \in Past \ {"merging"}, UNCHANGED <<world, outcome, ruling>>,
           DOMAIN read' = Run, \A q \in Run \ {r} : read'[q] = read[q]
    PROVE  \E t \in Stage, o \in Notice : Moves(r, t, o)
<1>1. Moves(r, s, outcome[r])
  BY Frame DEF Moves, IInv, Typed
<1>2. QED
  BY <1>1 DEF Past, IInv, Typed

\* A run that ends with a notice.
LEMMA TellMoves ==
    ASSUME IInv, NEW r \in Run, NEW s \in Ended, Ends(r, s), pc[r] \in Past \ {"merging"},
           NEW o \in Notice, outcome' = [outcome EXCEPT ![r] = o] \/ outcome' = outcome,
           world' = world
    PROVE  \E t \in Stage, n \in Notice : Moves(r, t, n)
<1>1. PICK n \in Notice : outcome' = [outcome EXCEPT ![r] = n]
  BY Frame DEF IInv, Typed
<1>2. Moves(r, s, n)
  BY <1>1, Frame DEF Moves, Ends, Goto, Ended
<1>3. QED
  BY <1>2 DEF Stage

\* The review.
LEMMA ReviewMoves ==
    ASSUME IInv, NEW r \in Run, review(r)
    PROVE  \E s \in Stage, o \in Notice : Moves(r, s, o)
<1>0. DOMAIN read = Run /\ outcome[r] \in Notice
  BY DEF IInv, Typed
<1>1. CASE postReviewingMarker(r)
  BY <1>0, <1>1, GoesOn DEF postReviewingMarker, Goto, headVars, runVars, Past, Stage, Ended
<1>2. CASE Prepare(r)
  <2>1. CASE Ends(r, "silent")
    BY <1>2, <2>1, EndMoves DEF Prepare, headVars, Active, Past, Stage, Ended
  <2>2. CASE \/ Goto(r, "reading") /\ UNCHANGED runVars
             \/ Goto(r, "failed") /\ UNCHANGED runVars
    BY <1>0, <1>2, <2>2, GoesOn DEF Prepare, Goto, headVars, runVars, Past, Stage, Ended
  <2>3. QED
    BY <1>2, <2>1, <2>2 DEF Prepare
<1>3. CASE buildConversation(r)
  BY <1>0, <1>3, GoesOn DEF buildConversation, Goto, headVars, Past, Stage, Ended
<1>4. CASE ReviewDiff(r)
  <2>1. CASE Goto(r, "failed") /\ UNCHANGED runVars
    BY <1>0, <1>4, <2>1, GoesOn DEF ReviewDiff, Goto, headVars, runVars, Past, Stage, Ended
  <2>2. CASE Goto(r, "checking") /\ read' = Blank(read, r) /\ ruling' = ruling
    BY <1>0, <1>4, <2>2, GoesOn DEF ReviewDiff, Goto, headVars, Blank, Past, Stage, Ended
  <2>3. QED
    BY <1>4, <2>1, <2>2 DEF ReviewDiff
<1>5. CASE CheckOpen(r)
  <2>1. CASE Ends(r, "silent")
    BY <1>5, <2>1, EndMoves DEF CheckOpen, headVars, Active, Past, Stage, Ended
  <2>2. CASE Goto(r, IF pc[r] = "failed" THEN "announcing" ELSE "answering") /\ UNCHANGED runVars
    BY <1>0, <1>5, <2>2, GoesOn DEF CheckOpen, Goto, headVars, runVars, Past, Stage, Ended
  <2>3. QED
    BY <1>5, <2>1, <2>2 DEF CheckOpen
<1>6. CASE postReviewFailedAnnotation(r)
  BY <1>6, TellMoves DEF postReviewFailedAnnotation, headVars, Notice, Past, Stage, Ended
<1>7. QED
  BY <1>1, <1>2, <1>3, <1>4, <1>5, <1>6 DEF review

\* Its verdicts on threads.
LEMMA ResolutionMoves ==
    ASSUME IInv, NEW r \in Run, applyThreadResolutions(r)
    PROVE  \E s \in Stage, o \in Notice : Moves(r, s, o)
<1>0. DOMAIN read = Run /\ pc = [pc EXCEPT ![r] = pc[r]]
  BY Frame DEF IInv, Typed
<1>1. ASSUME NEW c \in Comment, Reply(r, c) \/ closeResolvedThread(r, c)
      PROVE  \E s \in Stage, o \in Notice : Moves(r, s, o)
  BY <1>0, <1>1, GoesOn DEF Reply, closeResolvedThread, headVars, Past, Stage, Ended
<1>2. CASE Answered(r)
  BY <1>0, <1>2, GoesOn DEF Answered, Goto, headVars, runVars, Past, Stage, Ended
<1>3. QED
  BY <1>1, <1>2 DEF applyThreadResolutions

\* Its comments.
LEMMA CommentMoves ==
    ASSUME IInv, NEW r \in Run, postComments(r)
    PROVE  \E s \in Stage, o \in Notice : Moves(r, s, o)
<1>0. DOMAIN read = Run /\ pc = [pc EXCEPT ![r] = pc[r]]
  BY Frame DEF IInv, Typed
<1>1. CASE dropStaleComments(r)
  BY <1>0, <1>1, GoesOn DEF dropStaleComments, Goto, headVars, Past, Stage, Ended
<1>2. CASE dropDuplicateComments(r)
  BY <1>0, <1>2, GoesOn DEF dropDuplicateComments, Goto, headVars, Past, Stage, Ended
<1>3. ASSUME NEW c \in Comment, Post(r, c)
      PROVE  \E s \in Stage, o \in Notice : Moves(r, s, o)
  BY <1>0, <1>3, GoesOn DEF Post, headVars, Past, Stage, Ended
<1>4. CASE postReviewCompleteAnnotation(r)
  BY <1>4, TellMoves DEF postReviewCompleteAnnotation, headVars, Notice, Past, Stage, Ended
<1>5. QED
  BY <1>1, <1>2, <1>3, <1>4 DEF postComments

LEMMA Step == ASSUME IInv, [Next]_vars PROVE IInv'
<1>1. ASSUME NEW r \in Run, Execute(r) PROVE IInv'
  BY <1>1, TriageMoves, ReviewMoves, ResolutionMoves, CommentMoves, MovesKeep DEF Execute
<1>2. ASSUME NEW r \in Run, Die(r) PROVE IInv'
  <2>1. pc[r] \in Active
    BY <1>2 DEF Die, IInv, Typed, Active, Past
  <2>2. \E s \in Stage, o \in Notice : Moves(r, s, o)
    BY <1>2, <2>1, EndMoves DEF Die, headVars, Ended
  <2>3. QED
    BY <2>2, MovesKeep
<1>3. CASE (\E c \in Comment : Answer(c)) \/ Edit \/ Close \/ UNCHANGED vars
  <2>1. UNCHANGED <<world, pc, outcome, read, ruling>>
    BY <1>3 DEF Answer, Edit, Close, vars, headVars, runVars
  <2>2. QED
    BY <2>1, Stays
<1>4. QED
  BY <1>1, <1>2, <1>3 DEF Next

LEMMA Inductive == Spec => []IInv
BY Initial, Step, PTL DEF Spec

-----------------------------------------------------------------------------
(* What is on the pull request: findings and verdicts.  Nothing of this    *)
(* depends on the world, on keys or on which calls fail.                   *)

Early   == {"new", "gate", "files", "verdict", "merging", "marking", "preparing", "reading"}
Reading == {"reviewing", "checking", "answering"}
State   == {"none", "active", "fixed", "closed"}
Thread  == [copies : Nat, msgs : Seq(Message), state : State]

PostsTyped ==
    /\ thread \in [Comment -> Thread]
    /\ pc \in [Run -> Stage]
    /\ DOMAIN keep = Run /\ DOMAIN seen = Run
    /\ DOMAIN answers = Run /\ DOMAIN todo = Run

\* A thread begins with its finding.
Begun ==
    \A c \in Comment : Exists(c) => Len(thread[c].msgs) > 0 /\ thread[c].msgs[1] = "finding"

\* Only a mention that has read them knows threads; its verdicts are on them.
Knows(r) ==
    /\ DOMAIN seen[r] # {} => r \in Mention /\ pc[r] \notin Early
    /\ \A c \in DOMAIN seen[r] : c \in Comment /\ Exists(c)
    /\ DOMAIN answers[r] \subseteq DOMAIN seen[r]
    /\ \A c \in DOMAIN answers[r] : answers[r][c] \in Verdict
    /\ todo[r] \subseteq DOMAIN answers[r]

\* What r read of thread c is all there is, or a person has answered since.
Fresh(r, c) ==
    \/ thread[c].msgs = seen[r][c]
    \/ Len(thread[c].msgs) > 0 /\ thread[c].msgs[Len(thread[c].msgs)] = "person"

\* Unless mentions overlapped, one run at a time has verdicts to give, and it
\* has an up to date view of the threads it has not answered yet.
ReadsAlone ==
    "conversation" \notin blind =>
        /\ \A r, s \in Run :
              /\ pc[r] \in Reading /\ DOMAIN seen[r] # {}
              /\ pc[s] \in Reading /\ DOMAIN seen[s] # {}
              => r = s
        /\ \A r \in Run : \A c \in DOMAIN seen[r] :
              /\ pc[r] \in Reading
              /\ pc[r] = "answering" => c \in todo[r]
              => Fresh(r, c)

\* Unless they overlapped, one run at a time posts, and none of what it keeps
\* is there yet.
PostsAlone ==
    "posting" \notin blind =>
        /\ \A r, s \in Run : pc[r] = "posting" /\ pc[s] = "posting" => r = s
        /\ \A r \in Run : pc[r] = "posting" => \A c \in Comment : c \in keep[r] => ~Exists(c)

PInv ==
    /\ PostsTyped /\ Begun /\ (\A r \in Run : Knows(r))
    /\ ReadsAlone /\ PostsAlone /\ TwinsOnlyFromOverlap /\ NoRepeatedVerdict

LEMMA PostsInitial == Init => PInv
<1> SUFFICES ASSUME Init PROVE PInv
  OBVIOUS
<1>1. PostsTyped
  <2>1. NoThread \in Thread
    <3>1. <<>> \in Seq(Message)
      OBVIOUS
    <3>2. QED
      BY <3>1 DEF Thread, NoThread, State
  <2>2. "new" \in Stage
    BY DEF Stage
  <2>3. QED
    BY <2>1, <2>2 DEF Init, PostsTyped
<1>2. \A r \in Run : pc[r] = "new" /\ DOMAIN seen[r] = {} /\ DOMAIN answers[r] = {} /\ todo[r] = {}
  BY DEF Init
<1>3. \A c \in Comment : thread[c] = NoThread /\ ~Exists(c)
  BY DEF Init, Exists, NoThread
<1>4. Begun /\ TwinsOnlyFromOverlap
  BY <1>3 DEF Begun, TwinsOnlyFromOverlap, NoThread
<1>5. NoRepeatedVerdict
  BY <1>3 DEF NoRepeatedVerdict, NoThread
<1>6. \A r \in Run : Knows(r)
  BY <1>2 DEF Knows
<1>7. ReadsAlone /\ PostsAlone
  BY <1>2 DEF ReadsAlone, PostsAlone, Reading
<1>8. QED
  BY <1>1, <1>4, <1>5, <1>6, <1>7 DEF PInv

\* A run goes to stage s and posts nothing; or ends, and forgets.
Walks(r, s) ==
    /\ pc' = [pc EXCEPT ![r] = s]
    /\ UNCHANGED <<thread, blind>>
    /\ \/ /\ UNCHANGED <<seen, answers, todo>>
          /\ DOMAIN keep' = Run /\ \A q \in Run \ {r} : keep'[q] = keep[q]
          /\ \/ pc[r] \in Early /\ s \in (Early \cup {"reviewing", "failed"})
             \/ <<pc[r], s>> = <<"checking", "answering">>
             \/ /\ pc[r] \in {"reviewing", "failed", "answering", "filtering"}
                /\ s \in {"failed", "announcing", "filtering", "deduping"}
       \/ s \in Ended /\ Forgets(r)

LEMMA WalksKeep == ASSUME PInv, NEW r \in Run, NEW s, Walks(r, s) PROVE PInv'
<1>1. /\ pc'[r] = s /\ \A q \in Run \ {r} : pc'[q] = pc[q] /\ keep'[q] = keep[q]
      /\ \A c : Exists(c)' = Exists(c)
      /\ \A q \in Run \ {r} : seen'[q] = seen[q] /\ answers'[q] = answers[q] /\ todo'[q] = todo[q]
      /\ thread' = thread /\ blind' = blind
  BY DEF PInv, PostsTyped, Walks, Forgets, Blank, Exists
<1>0. \/ UNCHANGED <<seen, answers, todo>>
      \/ s \in Ended /\ seen'[r] = <<>> /\ answers'[r] = <<>> /\ todo'[r] = {}
  BY DEF PInv, PostsTyped, Walks, Forgets, Blank
<1>2. s \in Stage \ {"posting"}
  BY DEF Walks, Early, Ended, Stage
<1>3. DOMAIN keep' = Run
  BY DEF PInv, PostsTyped, Walks, Forgets, Blank
<1>4. PostsTyped'
  BY <1>1, <1>2, <1>3 DEF PInv, PostsTyped, Walks, Forgets, Blank
<1>5. Begun' /\ TwinsOnlyFromOverlap' /\ NoRepeatedVerdict'
  BY <1>1 DEF PInv, Begun, TwinsOnlyFromOverlap, NoRepeatedVerdict
<1>6. PostsAlone'
  BY <1>1, <1>2 DEF PInv, PostsAlone
<1>7. \A q \in Run : Knows(q)'
  <2>1. \A q \in Run \ {r} : Knows(q)'
    BY <1>1 DEF PInv, Knows
  <2>2. CASE UNCHANGED <<seen, answers, todo>>
    <3>1. s \in Early => DOMAIN seen[r] = {}
      BY <2>2 DEF PInv, Knows, Walks, Early, Ended
    <3>2. Knows(r)'
      BY <1>1, <2>2, <3>1 DEF PInv, Knows
    <3>3. QED
      BY <2>1, <3>2
  <2>3. CASE s \in Ended /\ seen'[r] = <<>> /\ answers'[r] = <<>> /\ todo'[r] = {}
    <3>1. Knows(r)'
      BY <1>1, <2>3 DEF Knows
    <3>2. QED
      BY <2>1, <3>1
  <2>4. QED
    BY <1>0, <2>2, <2>3
<1>8. s \in Reading /\ DOMAIN seen'[r] # {} => pc[r] = "checking" /\ s = "answering" /\ UNCHANGED <<seen, todo>>
  BY <1>0, <1>1 DEF PInv, Knows, Walks, Reading, Early, Ended
<1>9. ReadsAlone'
  BY <1>1, <1>8 DEF PInv, ReadsAlone, Fresh, Reading, Knows
<1>10. QED
  BY <1>4, <1>5, <1>6, <1>7, <1>9 DEF PInv

\* A step that does nothing but strike work off, or set the state of a thread.
LEMMA SameMessages ==
    ASSUME PInv, thread' \in [Comment -> Thread],
           \A c \in Comment : thread'[c].msgs = thread[c].msgs /\ thread'[c].copies = thread[c].copies,
           UNCHANGED <<pc, seen, answers, blind>>,
           DOMAIN todo' = Run, \A q \in Run : todo'[q] \subseteq todo[q],
           DOMAIN keep' = Run, \A q \in Run : keep'[q] \subseteq keep[q]
    PROVE  PInv'
<1>1. \A c \in Comment : Exists(c)' = Exists(c)
  BY DEF Exists
<1>2. PostsTyped' /\ Begun' /\ TwinsOnlyFromOverlap'
  BY <1>1 DEF PInv, PostsTyped, Begun, TwinsOnlyFromOverlap
<1>3. PostsAlone'
  BY <1>1 DEF PInv, PostsTyped, PostsAlone
<1>4. NoRepeatedVerdict'
  BY DEF PInv, NoRepeatedVerdict
<1>5. \A r \in Run : Knows(r)'
  BY <1>1 DEF PInv, Knows
<1>6. ReadsAlone'
  BY <1>5 DEF PInv, ReadsAlone, Fresh, Knows
<1>7. QED
  BY <1>2, <1>3, <1>4, <1>5, <1>6 DEF PInv

\* A message m is added to thread c.  It is a person's, or a verdict that is
\* not the newest message already, of a run that is done with the thread.
LEMMA Appends ==
    ASSUME PInv, NEW c \in Comment, Exists(c), NEW m \in Message,
           thread' = [thread EXCEPT ![c].msgs = Append(@, m)],
           UNCHANGED <<pc, seen, answers, blind, keep>>,
           DOMAIN todo' = Run, \A q \in Run : todo'[q] \subseteq todo[q],
           "conversation" \notin blind =>
              /\ m \in Verdict => m # thread[c].msgs[Len(thread[c].msgs)]
              /\ m # "person" =>
                   \A q \in Run : pc[q] \in Reading /\ c \in DOMAIN seen[q] =>
                                  pc[q] = "answering" /\ c \notin todo'[q]
    PROVE  PInv'
<1> DEFINE old == thread[c].msgs
<1>1. /\ thread \in [Comment -> Thread] /\ old \in Seq(Message)
      /\ Len(old) \in Nat /\ Len(old) > 0 /\ old[1] = "finding"
  BY DEF PInv, PostsTyped, Begun, Thread
<1>2. /\ thread'[c].msgs = Append(old, m)
      /\ \A d \in Comment \ {c} : thread'[d] = thread[d]
      /\ \A d \in Comment : thread'[d].copies = thread[d].copies
  BY <1>1 DEF Thread
<1>3. /\ Append(old, m) \in Seq(Message) /\ Len(Append(old, m)) = Len(old) + 1
      /\ Append(old, m)[Len(old) + 1] = m
      /\ \A i \in 1..Len(old) : Append(old, m)[i] = old[i]
  BY <1>1
<1>4. thread' \in [Comment -> Thread]
  <2>1. [thread[c] EXCEPT !.msgs = Append(old, m)] \in Thread
    <3>1. thread[c] \in Thread
      BY <1>1
    <3>2. Append(old, m) \in Seq(Message)
      BY <1>3
    <3> HIDE DEF old
    <3>3. QED
      BY <3>1, <3>2 DEF Thread
  <2>2. thread' = [thread EXCEPT ![c] = [thread[c] EXCEPT !.msgs = Append(old, m)]]
    OBVIOUS
  <2> HIDE DEF old
  <2>3. QED
    BY <1>1, <2>1, <2>2
<1>5. \A d \in Comment : Exists(d)' = Exists(d)
  BY <1>2 DEF Exists
<1>6. PostsTyped'
  BY <1>4 DEF PInv, PostsTyped
<1>7. Begun'
  BY <1>1, <1>2, <1>3, <1>5 DEF PInv, Begun
<1>8. TwinsOnlyFromOverlap' /\ PostsAlone'
  <2>1. TwinsOnlyFromOverlap'
    BY <1>2 DEF PInv, TwinsOnlyFromOverlap
  <2>2. PostsAlone'
    BY <1>5 DEF PInv, PostsTyped, PostsAlone
  <2>3. QED
    BY <2>1, <2>2
<1>9. \A q \in Run : Knows(q)'
  BY <1>5 DEF PInv, Knows
<1>10. NoRepeatedVerdict'
  <2> SUFFICES ASSUME "conversation" \notin blind, NEW d \in Comment,
                      NEW i \in 1..Len(thread'[d].msgs) - 1, thread'[d].msgs[i] \in Verdict
               PROVE  thread'[d].msgs[i + 1] # thread'[d].msgs[i]
    BY DEF NoRepeatedVerdict
  <2>1. CASE d # c
    BY <1>2, <2>1 DEF PInv, NoRepeatedVerdict
  <2>2. CASE d = c /\ i = Len(old)
    BY <1>1, <1>2, <1>3, <2>2
  <2>3. CASE d = c /\ i # Len(old)
    <3>1. i \in 1..Len(old) - 1 /\ i \in 1..Len(old) /\ i + 1 \in 1..Len(old)
      BY <1>1, <1>2, <1>3, <2>3
    <3>2. thread'[d].msgs[i] = old[i] /\ thread'[d].msgs[i + 1] = old[i + 1]
      BY <1>2, <1>3, <2>3, <3>1
    <3>3. QED
      BY <3>1, <3>2 DEF PInv, NoRepeatedVerdict
  <2>4. QED
    BY <2>1, <2>2, <2>3
<1>11. ReadsAlone'
  <2> SUFFICES ASSUME "conversation" \notin blind PROVE ReadsAlone'
    BY DEF ReadsAlone
  <2>1. ASSUME NEW q \in Run, NEW d \in DOMAIN seen[q], pc[q] \in Reading,
               pc[q] = "answering" => d \in todo'[q]
        PROVE  Fresh(q, d)'
    <3>1. d \in Comment /\ Fresh(q, d)
      BY <2>1 DEF PInv, ReadsAlone, Knows
    <3>2. CASE d # c
      BY <1>2, <3>1, <3>2 DEF Fresh
    <3>3. CASE d = c
      <4>1. m = "person"
        BY <2>1, <3>3
      <4>2. QED
        BY <1>1, <1>2, <1>3, <3>3, <4>1 DEF Fresh
    <3>4. QED
      BY <3>2, <3>3
  <2>2. QED
    BY <2>1 DEF PInv, ReadsAlone
<1>12. QED
  BY <1>6, <1>7, <1>8, <1>9, <1>10, <1>11 DEF PInv

\* A mention reads the threads; a second one at the same time is blind.
LEMMA BuildKeeps == ASSUME PInv, NEW r \in Run, buildConversation(r) PROVE PInv'
<1>1. /\ pc[r] = "reading" /\ pc' = [pc EXCEPT ![r] = "reviewing"]
      /\ UNCHANGED <<thread, keep, answers, todo>>
      /\ \A c \in Comment : Exists(c)' = Exists(c)
  BY DEF buildConversation, Goto, Exists
<1>2. DOMAIN seen[r] = {} /\ DOMAIN answers[r] = {} /\ todo[r] = {}
  BY <1>1 DEF PInv, Knows, Early
<1>3. CASE UNCHANGED <<seen, blind>>
  <2>1. Walks(r, "reviewing")
    BY <1>1, <1>3 DEF PInv, PostsTyped, Walks, Early
  <2>2. QED
    BY <2>1, WalksKeep
<1>4. CASE /\ r \in Mention
           /\ seen' = [seen EXCEPT ![r] = [c \in Threads |-> thread[c].msgs]]
           /\ blind' = blind \cup
                {"conversation" : s \in {m \in Mention \ {r} :
                                        pc[m] \in {"reviewing", "checking", "answering"}}}
  <2>1. /\ pc'[r] = "reviewing" /\ \A q \in Run \ {r} : pc'[q] = pc[q] /\ seen'[q] = seen[q]
        /\ seen'[r] = [c \in Threads |-> thread[c].msgs] /\ DOMAIN seen' = Run
    BY <1>1, <1>4 DEF PInv, PostsTyped
  <2>2. blind \subseteq blind' /\ ("posting" \in blind' <=> "posting" \in blind)
    BY <1>4
  <2>3. PostsTyped'
    <3>1. "reviewing" \in Stage
      BY DEF Stage
    <3>2. QED
      BY <1>1, <2>1, <3>1 DEF PInv, PostsTyped
  <2>4. Begun' /\ TwinsOnlyFromOverlap' /\ NoRepeatedVerdict'
    BY <1>1, <2>2 DEF PInv, Begun, TwinsOnlyFromOverlap, NoRepeatedVerdict
  <2>5. PostsAlone'
    BY <1>1, <2>1, <2>2 DEF PInv, PostsAlone
  <2>6. \A q \in Run : Knows(q)'
    <3>1. Knows(r)'
      BY <1>1, <1>2, <1>4, <2>1 DEF Knows, Threads, Early
    <3>2. \A q \in Run \ {r} : Knows(q)'
      BY <1>1, <2>1 DEF PInv, Knows
    <3>3. QED
      BY <3>1, <3>2
  <2>7. ReadsAlone'
    <3> SUFFICES ASSUME "conversation" \notin blind' PROVE ReadsAlone'
      BY DEF ReadsAlone
    <3>1. \A q \in Run \ {r} : ~(pc[q] \in Reading /\ DOMAIN seen[q] # {})
      BY <1>4 DEF PInv, Knows, Reading
    <3>2. \A c \in DOMAIN seen'[r] : Fresh(r, c)'
      BY <1>1, <2>1 DEF Fresh
    <3>3. QED
      BY <2>1, <2>2, <3>1, <3>2 DEF PInv, ReadsAlone
  <2>8. QED
    BY <2>3, <2>4, <2>5, <2>6, <2>7 DEF PInv
<1>5. QED
  BY <1>3, <1>4 DEF buildConversation

\* The AI's verdicts are on threads of the conversation.
LEMMA DiffKeeps == ASSUME PInv, NEW r \in Run, ReviewDiff(r) PROVE PInv'
<1>1. pc[r] = "reviewing" /\ UNCHANGED <<thread, blind>>
  BY DEF ReviewDiff
<1>2. CASE Goto(r, "failed") /\ UNCHANGED runVars
  <2>1. Walks(r, "failed")
    BY <1>1, <1>2 DEF PInv, PostsTyped, Walks, Goto, runVars, Early
  <2>2. QED
    BY <2>1, WalksKeep
<1>3. CASE /\ keep' \in {[keep EXCEPT ![r] = C] : C \in SUBSET {c \in W.remarks : fileOf[c] \in read[r]}}
           /\ \E T \in SUBSET matchResolutionThread(r) :
                /\ answers' \in {[answers EXCEPT ![r] = v] : v \in [T -> Verdict]}
                /\ todo' = [todo EXCEPT ![r] = T]
           /\ Goto(r, "checking")
           /\ UNCHANGED seen
  <2>1. PICK C \in SUBSET {c \in W.remarks : fileOf[c] \in read[r]} : keep' = [keep EXCEPT ![r] = C]
    BY <1>3
  <2>2. PICK T \in SUBSET (DOMAIN seen[r]) : \E u \in [T -> Verdict] :
          answers' = [answers EXCEPT ![r] = u] /\ todo' = [todo EXCEPT ![r] = T]
    BY <1>3 DEF matchResolutionThread
  <2>0. PICK v \in [T -> Verdict] :
          answers' = [answers EXCEPT ![r] = v] /\ todo' = [todo EXCEPT ![r] = T]
    BY <2>2
  <2>3. /\ pc' = [pc EXCEPT ![r] = "checking"] /\ pc'[r] = "checking"
        /\ \A q \in Run \ {r} : pc'[q] = pc[q] /\ answers'[q] = answers[q] /\ todo'[q] = todo[q]
        /\ answers'[r] = v /\ todo'[r] = T /\ seen' = seen
        /\ \A c \in Comment : Exists(c)' = Exists(c)
    BY <1>1, <1>3, <2>0 DEF PInv, PostsTyped, Goto, Exists
  <2>4. PostsTyped'
    <3>1. "checking" \in Stage
      BY DEF Stage
    <3>2. QED
      BY <1>1, <2>0, <2>1, <2>3, <3>1 DEF PInv, PostsTyped
  <2>5. Begun' /\ TwinsOnlyFromOverlap' /\ NoRepeatedVerdict'
    BY <1>1, <2>3 DEF PInv, Begun, TwinsOnlyFromOverlap, NoRepeatedVerdict
  <2>6. PostsAlone'
    <3>1. \A q \in Run : pc'[q] = "posting" => pc[q] = "posting" /\ keep'[q] = keep[q]
      BY <2>1, <2>3 DEF PInv, PostsTyped
    <3>2. QED
      BY <1>1, <2>3, <3>1 DEF PInv, PostsAlone
  <2>7. \A q \in Run : Knows(q)'
    <3>1. Knows(r)'
      BY <1>1, <2>3 DEF PInv, Knows, Early
    <3>2. \A q \in Run \ {r} : Knows(q)'
      BY <2>3 DEF PInv, Knows
    <3>3. QED
      BY <3>1, <3>2
  <2>8. ReadsAlone'
    BY <1>1, <2>3 DEF PInv, ReadsAlone, Fresh, Reading
  <2>9. QED
    BY <2>4, <2>5, <2>6, <2>7, <2>8 DEF PInv
<1>4. QED
  BY <1>2, <1>3 DEF ReviewDiff

\* Verdicts are replied once, by the one run that has them to give.
LEMMA AnswersKeep ==
    ASSUME PInv, NEW r \in Run, NEW c \in Comment, Reply(r, c) \/ closeResolvedThread(r, c)
    PROVE  PInv'
<1>1. /\ thread \in [Comment -> Thread] /\ pc[r] = "answering"
      /\ UNCHANGED <<pc, seen, answers, blind, keep>>
      /\ DOMAIN todo' = Run /\ \A q \in Run : todo'[q] \subseteq todo[q]
  BY DEF PInv, PostsTyped, Reply, closeResolvedThread
<1>2. CASE closeResolvedThread(r, c)
  <2>1. thread' \in [Comment -> Thread]
    BY <1>1, <1>2 DEF closeResolvedThread, Thread, State
  <2>2. \A d \in Comment : thread'[d].msgs = thread[d].msgs /\ thread'[d].copies = thread[d].copies
    BY <1>1, <1>2 DEF closeResolvedThread, Thread
  <2>3. QED
    BY <1>1, <2>1, <2>2, SameMessages DEF PInv, PostsTyped
<1>3. CASE Reply(r, c) /\ thread' = thread
  BY <1>1, <1>3, SameMessages DEF PInv, PostsTyped
<1>4. CASE Reply(r, c) /\ ~alreadyAnswered(r, c)
           /\ thread' = [thread EXCEPT ![c].msgs = Append(@, answers[r][c])]
  <2>1. /\ c \in todo[r] /\ c \notin todo'[r]
        /\ c \in DOMAIN answers[r] /\ c \in DOMAIN seen[r]
        /\ Exists(c) /\ answers[r][c] \in Verdict
    BY <1>4 DEF PInv, PostsTyped, Knows, Reply
  <2>2. "conversation" \notin blind =>
          /\ answers[r][c] # thread[c].msgs[Len(thread[c].msgs)]
          /\ \A q \in Run : pc[q] \in Reading /\ c \in DOMAIN seen[q] => q = r
    <3> SUFFICES ASSUME "conversation" \notin blind
                 PROVE  /\ answers[r][c] # thread[c].msgs[Len(thread[c].msgs)]
                        /\ \A q \in Run : pc[q] \in Reading /\ c \in DOMAIN seen[q] => q = r
      OBVIOUS
    <3>1. Fresh(r, c) /\ \A q \in Run : pc[q] \in Reading /\ c \in DOMAIN seen[q] => q = r
      BY <1>1, <2>1 DEF PInv, ReadsAlone, Reading
    <3>2. CASE thread[c].msgs = seen[r][c]
      <4>1. Len(thread[c].msgs) \in Nat /\ Len(thread[c].msgs) > 0 /\ thread[c].msgs[1] = "finding"
        BY <1>1, <2>1 DEF PInv, Begun, Thread
      <4>2. Len(thread[c].msgs) > 1 => answers[r][c] # thread[c].msgs[Len(thread[c].msgs)]
        BY <1>4, <3>2 DEF alreadyAnswered, Last
      <4>3. Len(thread[c].msgs) = 1 => answers[r][c] # thread[c].msgs[Len(thread[c].msgs)]
        BY <2>1, <4>1 DEF Verdict
      <4>4. \A n \in Nat : n > 0 => n = 1 \/ n > 1
        OBVIOUS
      <4>5. Len(thread[c].msgs) = 1 \/ Len(thread[c].msgs) > 1
        BY <4>1, <4>4
      <4>6. QED
        BY <3>1, <4>2, <4>3, <4>5
    <3>3. CASE thread[c].msgs[Len(thread[c].msgs)] = "person"
      BY <2>1, <3>1, <3>3 DEF Verdict
    <3>4. QED
      BY <3>1, <3>2, <3>3 DEF Fresh
  <2>3. answers[r][c] \in Message
    BY <2>1 DEF Message
  <2>4. QED
    BY <1>1, <1>4, <2>1, <2>2, <2>3, Appends
<1>5. QED
  BY <1>2, <1>3, <1>4 DEF Reply

\* What is left after the listing is not on the pull request; who could not
\* list it, or lists beside a run that posts, is blind.
LEMMA DropKeeps == ASSUME PInv, NEW r \in Run, dropDuplicateComments(r) PROVE PInv'
<1>1. /\ pc[r] = "deduping" /\ pc' = [pc EXCEPT ![r] = "posting"]
      /\ pc'[r] = "posting" /\ \A q \in Run \ {r} : pc'[q] = pc[q] /\ keep'[q] = keep[q]
      /\ UNCHANGED <<thread, seen, answers, todo>> /\ DOMAIN keep' = Run
      /\ \A c \in Comment : Exists(c)' = Exists(c)
  BY DEF PInv, PostsTyped, dropDuplicateComments, Goto, Exists
<1>2. blind \subseteq blind' /\ ("conversation" \in blind' <=> "conversation" \in blind)
  BY DEF dropDuplicateComments
<1>3. PostsTyped'
  <2>1. "posting" \in Stage
    BY DEF Stage
  <2>2. QED
    BY <1>1, <2>1 DEF PInv, PostsTyped
<1>4. Begun' /\ TwinsOnlyFromOverlap' /\ NoRepeatedVerdict'
  BY <1>1, <1>2 DEF PInv, Begun, TwinsOnlyFromOverlap, NoRepeatedVerdict
<1>5. \A q \in Run : Knows(q)'
  <2>1. Knows(r)'
    BY <1>1 DEF PInv, Knows, Early
  <2>2. \A q \in Run \ {r} : Knows(q)'
    BY <1>1 DEF PInv, Knows
  <2>3. QED
    BY <2>1, <2>2
<1>6. ReadsAlone'
  BY <1>1, <1>2 DEF PInv, ReadsAlone, Fresh, Reading
<1>7. PostsAlone'
  <2> SUFFICES ASSUME "posting" \notin blind' PROVE PostsAlone'
    BY DEF PostsAlone
  <2>1. /\ \A q \in Run \ {r} : pc[q] # "posting"
        /\ \A c \in keep'[r] : ~Exists(c)
    BY DEF PInv, PostsTyped, dropDuplicateComments, isDuplicate
  <2>2. QED
    BY <1>1, <2>1 DEF PostsAlone, Exists
<1>8. QED
  BY <1>3, <1>4, <1>5, <1>6, <1>7 DEF PInv


\* A finding is posted: by the one run that posts, where there is none yet.
LEMMA PostKeeps == ASSUME PInv, NEW r \in Run, NEW c \in Comment, Post(r, c) PROVE PInv'
<1>1. /\ pc[r] = "posting" /\ c \in keep[r] /\ c \notin keep'[r]
      /\ UNCHANGED <<pc, seen, answers, todo, blind>>
      /\ DOMAIN keep' = Run /\ \A q \in Run : keep'[q] \subseteq keep[q]
      /\ thread \in [Comment -> Thread]
  BY DEF PInv, PostsTyped, Post
<1>2. CASE thread' = thread
  BY <1>1, <1>2, SameMessages DEF PInv, PostsTyped
<1>3. CASE thread' = [thread EXCEPT ![c] = Opened(c)]
  <2>1. /\ thread'[c] = Opened(c)
        /\ \A d \in Comment \ {c} : thread'[d] = thread[d]
    BY <1>1, <1>3
  <2>2. /\ Opened(c) \in Thread /\ Opened(c).copies > 0
        /\ Exists(c) => Opened(c).msgs = thread[c].msgs
        /\ ~Exists(c) => Opened(c).msgs = <<"finding">> /\ Opened(c).copies = 1
    <3>1. CASE Exists(c)
      BY <1>1, <3>1 DEF Opened, Thread, Exists
    <3>2. CASE ~Exists(c)
      <4>1. <<"finding">> \in Seq(Message)
        BY DEF Message
      <4>2. QED
        BY <3>2, <4>1 DEF Opened, Thread, State
    <3>3. QED
      BY <3>1, <3>2
  <2>3. thread' \in [Comment -> Thread]
    BY <1>1, <1>3, <2>2
  <2>4. /\ Exists(c)' /\ \A d \in Comment \ {c} : Exists(d)' = Exists(d)
        /\ \A d \in Comment : Exists(d) => Exists(d)'
    BY <2>1, <2>2 DEF Exists
  <2>5. PostsTyped'
    BY <1>1, <2>3 DEF PInv, PostsTyped
  <2>6. Begun'
    BY <2>1, <2>2, <2>4 DEF PInv, Begun
  <2>7. "posting" \notin blind => ~Exists(c) /\ \A q \in Run \ {r} : pc[q] # "posting"
    BY <1>1 DEF PInv, PostsAlone
  <2>8. TwinsOnlyFromOverlap'
    <3>1. thread'[c].copies > 1 => "posting" \in blind
      BY <2>1, <2>2, <2>7
    <3>2. QED
      BY <1>1, <2>1, <3>1 DEF PInv, TwinsOnlyFromOverlap
  <2>9. PostsAlone'
    BY <1>1, <2>4, <2>7 DEF PInv, PostsAlone
  <2>10. NoRepeatedVerdict'
    <3>1. Len(<<"finding">>) = 1
      OBVIOUS
    <3>2. "conversation" \notin blind => \A i \in 1..Len(thread'[c].msgs) - 1 :
            thread'[c].msgs[i] \in Verdict => thread'[c].msgs[i + 1] # thread'[c].msgs[i]
      <4>1. CASE Exists(c)
        <5>1. thread'[c].msgs = thread[c].msgs
          BY <2>1, <2>2, <4>1
        <5>2. QED
          BY <5>1 DEF PInv, NoRepeatedVerdict
      <4>2. CASE ~Exists(c)
        <5>1. thread'[c].msgs = <<"finding">>
          BY <2>1, <2>2, <4>2
        <5>2. Len(thread'[c].msgs) = 1
          BY <3>1, <5>1
        <5>3. 1..(1 - 1) = {}
          OBVIOUS
        <5>4. 1..(Len(thread'[c].msgs) - 1) = {}
          BY <5>2, <5>3
        <5>5. QED
          BY <5>4
      <4>3. QED
        BY <4>1, <4>2
    <3>3. QED
      BY <1>1, <2>1, <3>2 DEF PInv, NoRepeatedVerdict
  <2>11. \A q \in Run : Knows(q)'
    BY <1>1, <2>4 DEF PInv, Knows
  <2>12. ReadsAlone'
    <3>1. ASSUME NEW q \in Run, NEW d \in DOMAIN seen[q], Fresh(q, d) PROVE Fresh(q, d)'
      <4>1. d \in Comment /\ Exists(d)
        BY DEF PInv, Knows
      <4>2. thread'[d].msgs = thread[d].msgs
        BY <2>1, <2>2, <4>1
      <4>3. QED
        BY <1>1, <3>1, <4>2 DEF Fresh
    <3>2. QED
      BY <1>1, <3>1 DEF PInv, ReadsAlone
  <2>13. QED
    BY <2>5, <2>6, <2>8, <2>9, <2>10, <2>11, <2>12 DEF PInv
<1>4. QED
  BY <1>1, <1>2, <1>3 DEF Post

\* Every other step of a run walks.
LEMMA OthersWalk ==
    ASSUME PInv, NEW r \in Run,
           \/ triage(r) \/ postReviewingMarker(r) \/ Prepare(r) \/ CheckOpen(r)
           \/ postReviewFailedAnnotation(r) \/ Answered(r) \/ dropStaleComments(r)
           \/ postReviewCompleteAnnotation(r) \/ Die(r)
    PROVE  \E s : Walks(r, s)
<1>1. UNCHANGED <<thread, blind>>
  BY DEF triage, Start, Gate, Triage, PostVerdict, autoMergeTrivial, postReviewingMarker,
         Prepare, CheckOpen, postReviewFailedAnnotation, Answered, dropStaleComments,
         postReviewCompleteAnnotation, Die
<1>2. ASSUME NEW s \in Ended, Ends(r, s) PROVE \E t : Walks(r, t)
  BY <1>1, <1>2 DEF Walks, Ends, Goto
<1>3. ASSUME NEW s, Goto(r, s), UNCHANGED <<seen, answers, todo>>,
             DOMAIN keep' = Run /\ \A q \in Run \ {r} : keep'[q] = keep[q],
             \/ pc[r] \in Early /\ s \in (Early \cup {"reviewing", "failed"})
             \/ <<pc[r], s>> = <<"checking", "answering">>
             \/ /\ pc[r] \in {"reviewing", "failed", "answering", "filtering"}
                /\ s \in {"failed", "announcing", "filtering", "deduping"}
      PROVE  \E t : Walks(r, t)
  BY <1>1, <1>3 DEF Walks, Goto
<1>4. UNCHANGED keep => DOMAIN keep' = Run /\ \A q \in Run \ {r} : keep'[q] = keep[q]
  BY DEF PInv, PostsTyped
<1>5. CASE triage(r)
  <2>1. CASE Start(r)
    BY <1>3, <1>4, <2>1 DEF Start, runVars, Early
  <2>2. CASE Gate(r)
    BY <1>2, <1>3, <1>4, <2>2 DEF Gate, runVars, Early, Ended
  <2>3. CASE Triage(r)
    BY <1>2, <1>3, <1>4, <2>3 DEF Triage, Early, Ended
  <2>4. CASE PostVerdict(r)
    BY <1>2, <1>3, <1>4, <2>4 DEF PostVerdict, runVars, Early, Ended
  <2>5. CASE autoMergeTrivial(r)
    BY <1>2, <2>5 DEF autoMergeTrivial, Ended
  <2>6. QED
    BY <1>5, <2>1, <2>2, <2>3, <2>4, <2>5 DEF triage
<1>6. CASE postReviewingMarker(r)
  BY <1>3, <1>4, <1>6 DEF postReviewingMarker, runVars, Early
<1>7. CASE Prepare(r)
  <2>1. CASE Goto(r, "reading") /\ UNCHANGED runVars
    BY <1>3, <1>4, <1>7, <2>1 DEF Prepare, runVars, Early
  <2>2. CASE Goto(r, "failed") /\ UNCHANGED runVars
    BY <1>3, <1>4, <1>7, <2>2 DEF Prepare, runVars, Early
  <2>3. QED
    BY <1>2, <1>7, <2>1, <2>2 DEF Prepare, Ended
<1>8. CASE CheckOpen(r)
  BY <1>2, <1>3, <1>4, <1>8 DEF CheckOpen, runVars, Early, Ended
<1>9. CASE postReviewFailedAnnotation(r)
  BY <1>2, <1>9 DEF postReviewFailedAnnotation, Ended
<1>10. CASE Answered(r)
  BY <1>3, <1>4, <1>10 DEF Answered, runVars, Early
<1>11. CASE dropStaleComments(r)
  BY <1>3, <1>11 DEF PInv, PostsTyped, dropStaleComments, Early
<1>12. CASE postReviewCompleteAnnotation(r)
  BY <1>2, <1>12 DEF postReviewCompleteAnnotation, Ended
<1>13. CASE Die(r)
  BY <1>2, <1>13 DEF Die, Ended
<1>14. QED
  BY <1>5, <1>6, <1>7, <1>8, <1>9, <1>10, <1>11, <1>12, <1>13

LEMMA PostsStep == ASSUME PInv, [Next]_vars PROVE PInv'
<1>1. ASSUME NEW r \in Run, Execute(r) \/ Die(r) PROVE PInv'
  BY <1>1, OthersWalk, WalksKeep, BuildKeeps, DiffKeeps, AnswersKeep, DropKeeps, PostKeeps
     DEF Execute, review, applyThreadResolutions, postComments
<1>2. ASSUME NEW c \in Comment, Answer(c) PROVE PInv'
  <2>1. "person" \in Message /\ "person" \notin Verdict
    BY DEF Message, Verdict
  <2>2. QED
    BY <1>2, <2>1, Appends DEF Answer, runVars, PInv, PostsTyped
<1>3. CASE Edit \/ Close \/ UNCHANGED vars
  <2>1. UNCHANGED <<thread, blind, pc, seen, answers, todo, keep>>
    BY <1>3 DEF Edit, Close, vars, headVars, runVars
  <2>2. QED
    BY <2>1, SameMessages DEF PInv, PostsTyped
<1>4. QED
  BY <1>1, <1>2, <1>3 DEF Next

LEMMA PostsInductive == Spec => []PInv
BY PostsInitial, PostsStep, PTL DEF Spec

-----------------------------------------------------------------------------
(* What a re-review settles.                                               *)

Closed == {"fixed", "closed"}

\* A verdict is to be replied, to be closed, or through; what is through and
\* closes its thread has closed it, if no call could fail.
Settles(r) ==
    /\ closing[r] \subseteq DOMAIN answers[r] /\ \A c, d \in closing[r] : c = d
    /\ pc[r] # "answering" => closing[r] = {}
    /\ pc[r] \in {"filtering", "deduping", "posting"} => todo[r] = {}
    /\ r \notin W.flaky =>
         \A c \in DOMAIN answers[r] \ (todo[r] \cup closing[r]) :
            shouldClose(answers[r][c]) => thread[c].state \in Closed

SInv == DOMAIN closing = Run /\ \A r \in Run : Settles(r)

LEMMA SettlesInitial == Init => SInv
<1> SUFFICES ASSUME Init PROVE SInv
  OBVIOUS
<1>1. \A r \in Run : pc[r] = "new" /\ DOMAIN answers[r] = {} /\ closing[r] = {}
  BY DEF Init
<1>2. QED
  BY <1>1 DEF Init, SInv, Settles

\* No step takes a closed thread, or one that is there, back.
LEMMA StaysClosed ==
    ASSUME PInv, [Next]_vars, NEW c \in Comment, Exists(c), thread[c].state \in Closed
    PROVE  thread'[c].state \in Closed
<1>1. thread \in [Comment -> Thread]
  BY DEF PInv, PostsTyped
<1>2. CASE thread' = thread
  BY <1>2
<1>3. ASSUME NEW d \in Comment, NEW m, thread' = [thread EXCEPT ![d].msgs = m]
      PROVE  thread'[c].state \in Closed
  BY <1>1, <1>3 DEF Thread
<1>4. ASSUME NEW d \in Comment, NEW s \in Closed, thread' = [thread EXCEPT ![d].state = s]
      PROVE  thread'[c].state \in Closed
  BY <1>1, <1>4 DEF Thread
<1>5. ASSUME NEW d \in Comment, thread' = [thread EXCEPT ![d] = Opened(d)]
      PROVE  thread'[c].state \in Closed
  BY <1>1, <1>5 DEF Thread, Opened
<1>6. ASSUME NEW r \in Run, Execute(r) \/ Die(r) PROVE thread'[c].state \in Closed
  <2>1. CASE (\E s : Walks(r, s)) \/ buildConversation(r) \/ ReviewDiff(r) \/ dropDuplicateComments(r)
    BY <1>2, <2>1 DEF Walks, buildConversation, ReviewDiff, dropDuplicateComments
  <2>2. ASSUME NEW d \in Comment, Reply(r, d) PROVE thread'[c].state \in Closed
    BY <1>2, <1>3, <2>2 DEF Reply
  <2>3. ASSUME NEW d \in Comment, closeResolvedThread(r, d) PROVE thread'[c].state \in Closed
    BY <1>2, <1>4, <2>3 DEF closeResolvedThread, Closed
  <2>4. ASSUME NEW d \in Comment, Post(r, d) PROVE thread'[c].state \in Closed
    BY <1>2, <1>5, <2>4 DEF Post
  <2>5. QED
    BY <1>6, <2>1, <2>2, <2>3, <2>4, OthersWalk
       DEF Execute, review, applyThreadResolutions, postComments
<1>7. ASSUME NEW d \in Comment, Answer(d) PROVE thread'[c].state \in Closed
  BY <1>3, <1>7 DEF Answer
<1>8. QED
  BY <1>2, <1>6, <1>7 DEF Next, Edit, Close, vars

\* Work is struck off or done, or the run has gone on to other things.
LEMMA SettlesOn ==
    ASSUME PInv, SInv, [Next]_vars, NEW q \in Run, world' = world,
           answers'[q] = answers[q], todo'[q] = todo[q], closing'[q] = closing[q],
           pc'[q] # "answering" => pc[q] # "answering" \/ closing[q] = {},
           pc'[q] \in {"filtering", "deduping", "posting"} =>
              pc[q] \in {"filtering", "deduping", "posting"} \/ todo[q] = {}
    PROVE  Settles(q)'
<1>1. \A c \in DOMAIN answers[q] : c \in Comment /\ Exists(c)
  BY DEF PInv, Knows
<1>2. W' = W
  BY DEF W
<1>3. \A c \in DOMAIN answers[q] : thread[c].state \in Closed => thread'[c].state \in Closed
  BY <1>1, StaysClosed
<1>4. /\ closing'[q] \subseteq DOMAIN answers'[q] /\ \A c, d \in closing'[q] : c = d
      /\ pc'[q] # "answering" => closing'[q] = {}
      /\ pc'[q] \in {"filtering", "deduping", "posting"} => todo'[q] = {}
  BY DEF SInv, Settles
<1>5. ASSUME q \notin W'.flaky, NEW c \in DOMAIN answers'[q] \ (todo'[q] \cup closing'[q]),
             shouldClose(answers'[q][c])
      PROVE  thread'[c].state \in Closed
  <2>1. c \in DOMAIN answers[q] \ (todo[q] \cup closing[q]) /\ shouldClose(answers[q][c])
    BY <1>5
  <2>2. thread[c].state \in Closed
    BY <1>2, <1>5, <2>1 DEF SInv, Settles
  <2>3. QED
    BY <1>3, <2>1, <2>2
<1>6. QED
  BY <1>4, <1>5 DEF Settles

LEMMA SameWorld == ASSUME [Next]_vars PROVE world' = world
<1>1. ASSUME NEW r \in Run, triage(r) PROVE world' = world
  BY <1>1 DEF triage, Start, Gate, Triage, PostVerdict, autoMergeTrivial, headVars
<1>2. ASSUME NEW r \in Run, review(r) PROVE world' = world
  BY <1>2 DEF review, postReviewingMarker, Prepare, buildConversation, ReviewDiff, CheckOpen,
              postReviewFailedAnnotation, headVars
<1>3. ASSUME NEW r \in Run, applyThreadResolutions(r) PROVE world' = world
  BY <1>3 DEF applyThreadResolutions, Reply, closeResolvedThread, Answered, headVars
<1>4. ASSUME NEW r \in Run, postComments(r) PROVE world' = world
  BY <1>4 DEF postComments, dropStaleComments, dropDuplicateComments, Post,
              postReviewCompleteAnnotation, headVars
<1>5. ASSUME NEW r \in Run, Die(r) PROVE world' = world
  BY <1>5 DEF Die, headVars
<1>6. ASSUME NEW c \in Comment, Answer(c) PROVE world' = world
  BY <1>6 DEF Answer, headVars
<1>7. ASSUME Edit \/ Close PROVE world' = world
  BY <1>7 DEF Edit, Close, headVars
<1>8. QED
  BY <1>1, <1>2, <1>3, <1>4, <1>5, <1>6, <1>7 DEF Next, Execute, headVars, vars

LEMMA SettlesStep == ASSUME PInv, SInv, [Next]_vars PROVE SInv'
<1>1. world' = world /\ W' = W
  BY SameWorld DEF W
<1>2. DOMAIN closing = Run /\ DOMAIN todo = Run /\ DOMAIN answers = Run /\ pc \in [Run -> Stage]
  BY DEF SInv, PInv, PostsTyped
<1>3. CASE UNCHANGED <<answers, todo, closing, pc>>
  <2>1. \A q \in Run : Settles(q)'
    BY <1>1, <1>3, SettlesOn DEF SInv, Settles
  <2>2. QED
    BY <1>3, <2>1 DEF SInv
<1>4. ASSUME NEW r \in Run, Execute(r) \/ Die(r) PROVE SInv'
  <2> DEFINE others == \A q \in Run \ {r} : /\ answers'[q] = answers[q] /\ todo'[q] = todo[q]
                                            /\ closing'[q] = closing[q] /\ pc'[q] = pc[q]
  <2>1. DOMAIN closing' = Run /\ others /\ Settles(r)' => SInv'
    BY <1>1, SettlesOn DEF SInv
  <2>2. ASSUME NEW s, Goto(r, s), UNCHANGED <<answers, todo, closing>>,
               pc[r] # "answering",
               s \notin {"filtering", "deduping", "posting"} \/ pc[r] \in {"filtering", "deduping"}
        PROVE  SInv'
    <3>1. others /\ pc'[r] = s /\ DOMAIN closing' = Run
      BY <1>2, <2>2 DEF Goto
    <3>2. Settles(r)'
      BY <1>1, <2>2, <3>1, SettlesOn
    <3>3. QED
      BY <2>1, <3>1, <3>2
  <2>3. ASSUME NEW s, Ends(r, s) PROVE SInv'
    <3>1. /\ others /\ pc'[r] \in Ended /\ DOMAIN closing' = Run
          /\ DOMAIN answers'[r] = {} /\ todo'[r] = {} /\ closing'[r] = {}
      BY <1>2, <2>3 DEF Ends, Goto, Forgets, Blank
    <3>2. Settles(r)'
      BY <3>1 DEF Settles, Ended
    <3>3. QED
      BY <2>1, <3>1, <3>2
  <2>4. CASE triage(r)
    BY <2>2, <2>3, <2>4 DEF triage, Start, Gate, Triage, PostVerdict, autoMergeTrivial, runVars
  <2>5. CASE postReviewingMarker(r) \/ Prepare(r) \/ buildConversation(r) \/ CheckOpen(r)
             \/ postReviewFailedAnnotation(r)
    BY <2>2, <2>3, <2>5 DEF postReviewingMarker, Prepare, buildConversation, CheckOpen,
       postReviewFailedAnnotation, runVars
  <2>6. CASE ReviewDiff(r)
    <3>1. CASE Goto(r, "failed") /\ UNCHANGED runVars
      BY <2>2, <2>6, <3>1 DEF ReviewDiff, runVars
    <3>2. ASSUME NEW T, NEW v \in [T -> Verdict], answers' = [answers EXCEPT ![r] = v],
                 todo' = [todo EXCEPT ![r] = T], Goto(r, "checking"), UNCHANGED closing
          PROVE  SInv'
      <4>1. /\ others /\ pc'[r] = "checking" /\ DOMAIN closing' = Run
            /\ DOMAIN answers'[r] = T /\ todo'[r] = T /\ closing'[r] = closing[r]
        BY <1>2, <3>2 DEF Goto
      <4>2. closing[r] = {}
        BY <2>6 DEF ReviewDiff, SInv, Settles
      <4>3. Settles(r)'
        BY <4>1, <4>2 DEF Settles
      <4>4. QED
        BY <2>1, <4>1, <4>3
    <3>3. QED
      BY <2>6, <3>1, <3>2 DEF ReviewDiff
  <2>7. ASSUME NEW c \in Comment, Reply(r, c) PROVE SInv'
    <3>1. /\ others /\ pc' = pc /\ pc[r] = "answering" /\ DOMAIN closing' = Run
          /\ answers' = answers /\ closing[r] = {} /\ todo'[r] = todo[r] \ {c}
          /\ c \in todo[r]
      BY <1>2, <2>7 DEF Reply
    <3>2. c \in DOMAIN answers[r] /\ \A d \in DOMAIN answers[r] : d \in Comment /\ Exists(d)
      BY <3>1 DEF PInv, Knows
    <3>3. \A d \in DOMAIN answers[r] : thread[d].state \in Closed => thread'[d].state \in Closed
      BY <3>2, StaysClosed
    <3>4. closing'[r] = {c} \/ (r \in W.flaky /\ closing'[r] = {})
      BY <1>2, <2>7, <3>1 DEF Reply, MayMiss
    <3>5. Settles(r)'
      BY <1>1, <3>1, <3>2, <3>3, <3>4 DEF SInv, Settles
    <3>6. QED
      BY <2>1, <3>1, <3>5
  <2>8. ASSUME NEW c \in Comment, closeResolvedThread(r, c) PROVE SInv'
    <3>1. /\ others /\ pc' = pc /\ pc[r] = "answering" /\ DOMAIN closing' = Run
          /\ answers' = answers /\ todo' = todo /\ closing'[r] = {} /\ c \in closing[r]
      BY <1>2, <2>8 DEF closeResolvedThread, Blank
    <3>2. closing[r] = {c} /\ \A d \in DOMAIN answers[r] : d \in Comment /\ Exists(d)
      BY <3>1 DEF SInv, Settles, PInv, Knows
    <3>3. \A d \in DOMAIN answers[r] : thread[d].state \in Closed => thread'[d].state \in Closed
      BY <3>2, StaysClosed
    <3>4. r \notin W.flaky /\ shouldClose(answers[r][c]) => thread'[c].state \in Closed
      BY <2>8 DEF closeResolvedThread, MayMiss, Closed, PInv, PostsTyped, Thread
    <3>5. Settles(r)'
      BY <1>1, <3>1, <3>2, <3>3, <3>4 DEF SInv, Settles
    <3>6. QED
      BY <2>1, <3>1, <3>5
  <2>9. CASE Answered(r)
    <3>1. /\ others /\ pc'[r] = "filtering" /\ DOMAIN closing' = Run
          /\ UNCHANGED <<answers, todo, closing>> /\ todo[r] = {} /\ closing[r] = {}
      BY <1>2, <2>9 DEF Answered, Goto, runVars
    <3>2. Settles(r)'
      BY <1>1, <3>1, SettlesOn
    <3>3. QED
      BY <2>1, <3>1, <3>2
  <2>10. CASE postComments(r) \/ Die(r)
    <3>1. ASSUME NEW c \in Comment, Post(r, c) PROVE SInv'
      BY <1>3, <3>1 DEF Post
    <3>2. QED
      BY <2>2, <2>3, <2>10, <3>1 DEF postComments, dropStaleComments, dropDuplicateComments,
         postReviewCompleteAnnotation, Die
  <2>11. QED
    BY <1>4, <2>4, <2>5, <2>6, <2>7, <2>8, <2>9, <2>10 DEF Execute, review, applyThreadResolutions
<1>5. QED
  BY <1>3, <1>4 DEF Next, Answer, Edit, Close, vars, runVars

LEMMA SettlesInductive == Spec => [](PInv /\ SInv)
BY PostsInitial, PostsStep, SettlesInitial, SettlesStep, PTL DEF Spec

-----------------------------------------------------------------------------
(* The types, and how often a finding can be on the pull request.          *)

PlainTyped ==
    /\ open \in BOOLEAN /\ files \subseteq W.paths
    /\ marker \in [Run -> BOOLEAN]
    /\ blind \subseteq {"conversation", "posting"}
    /\ edits \in 0..W.edits /\ replies \in 0..W.replies
    /\ read \in [Run -> SUBSET W.paths]
    /\ ruling \in [Run -> Ruling]
    /\ keep \in [Run -> SUBSET Comment]

Absent == \A c \in Comment : ~Exists(c) => thread[c] = NoThread

\* The runs that may still post finding c.
MayPost(c) == {r \in Run : pc[r] \notin Ended /\ (pc[r] = "posting" => c \in keep[r])}

\* A run posts a finding at most once.
Bounded ==
    \A c \in Comment : thread[c].copies + Cardinality(MayPost(c)) <= Cardinality(Run)

TInv == PlainTyped /\ Absent /\ Bounded

LEMMA TypesInitial == Init => TInv
<1> SUFFICES ASSUME Init PROVE TInv
  OBVIOUS
<1>1. W.edits \in Nat /\ W.replies \in Nat
  BY RunsAssumption DEF Init, W, World
<1>2. PlainTyped
  BY <1>1 DEF Init, PlainTyped, Ruling
<1>3. Absent
  BY DEF Init, Absent
<1>4. Bounded
  <2> SUFFICES ASSUME NEW c \in Comment
               PROVE  thread[c].copies + Cardinality(MayPost(c)) <= Cardinality(Run)
    BY DEF Bounded
  <2>1. thread[c].copies = 0
    BY DEF Init, NoThread
  <2>2. /\ Cardinality(MayPost(c)) <= Cardinality(Run)
        /\ Cardinality(MayPost(c)) \in Nat /\ Cardinality(Run) \in Nat
    BY RunsAssumption, FS_Subset, FS_CardinalityType DEF MayPost
  <2>3. QED
    BY <2>1, <2>2
<1>5. QED
  BY <1>2, <1>3, <1>4 DEF TInv

\* What a step of a run does to the plain variables.
LEMMA PlainStep == ASSUME IInv, PInv, PlainTyped, [Next]_vars PROVE PlainTyped'
<1>1. world' = world /\ W' = W /\ world \in DOMAIN Worlds /\ W \in World
  BY SameWorld, RunsAssumption DEF IInv, Typed, W
<1>2. UNCHANGED <<open, files, marker, blind, edits, replies, read, ruling, keep>> => PlainTyped'
  BY <1>1 DEF PlainTyped
<1>3. ASSUME NEW r \in Run,
             open' \in BOOLEAN, UNCHANGED <<files, edits, replies>>,
             marker' = marker \/ marker' = [marker EXCEPT ![r] = TRUE],
             blind' \subseteq {"conversation", "posting"},
             \/ UNCHANGED <<read, ruling>> \/ Forgets(r)
             \/ \E v \in Ruling : /\ read' = [read EXCEPT ![r] = files]
                                  /\ ruling' = [ruling EXCEPT ![r] = v]
             \/ read' = Blank(read, r) /\ UNCHANGED ruling,
             \/ UNCHANGED keep \/ Forgets(r)
             \/ \E K \in SUBSET Comment : keep' = [keep EXCEPT ![r] = K]
      PROVE  PlainTyped'
  <2>1. "none" \in Ruling
    BY DEF Ruling
  <2>2. read' \in [Run -> SUBSET W.paths] /\ ruling' \in [Run -> Ruling]
    BY <1>3, <2>1 DEF PlainTyped, Forgets, Blank
  <2>3. keep' \in [Run -> SUBSET Comment]
    BY <1>3 DEF PlainTyped, Forgets, Blank
  <2>4. QED
    BY <1>1, <1>3, <2>2, <2>3 DEF PlainTyped
<1>4. open \in BOOLEAN /\ blind \subseteq {"conversation", "posting"} /\ keep \in [Run -> SUBSET Comment]
  BY DEF PlainTyped
<1>5. ASSUME NEW r \in Run, triage(r) PROVE PlainTyped'
  <2>1. CASE Start(r) \/ Gate(r)
    BY <1>3, <1>4, <2>1 DEF Start, Gate, Ends, headVars, runVars
  <2>2. CASE Triage(r)
    BY <1>3, <1>4, <2>2 DEF Triage, Ends, headVars
  <2>3. CASE PostVerdict(r) \/ autoMergeTrivial(r)
    BY <1>3, <1>4, <2>3 DEF PostVerdict, autoMergeTrivial, Ends, headVars, runVars
  <2>4. QED
    BY <1>5, <2>1, <2>2, <2>3 DEF triage
<1>6. ASSUME NEW r \in Run, review(r) PROVE PlainTyped'
  <2>1. CASE postReviewingMarker(r)
    BY <1>3, <1>4, <2>1 DEF postReviewingMarker, headVars, runVars
  <2>2. CASE Prepare(r) \/ CheckOpen(r) \/ postReviewFailedAnnotation(r)
    BY <1>3, <1>4, <2>2 DEF Prepare, CheckOpen, postReviewFailedAnnotation, Ends, headVars, runVars
  <2>3. CASE buildConversation(r)
    BY <1>3, <1>4, <2>3 DEF buildConversation, headVars
  <2>4. CASE ReviewDiff(r)
    <3>1. W.remarks \subseteq Comment
      BY <1>1 DEF World
    <3>2. QED
      BY <1>3, <1>4, <2>4, <3>1 DEF ReviewDiff, headVars, runVars
  <2>5. QED
    BY <1>6, <2>1, <2>2, <2>3, <2>4 DEF review
<1>7. ASSUME NEW r \in Run, applyThreadResolutions(r) PROVE PlainTyped'
  BY <1>2, <1>7 DEF applyThreadResolutions, Reply, closeResolvedThread, Answered, headVars, runVars
<1>8. ASSUME NEW r \in Run, postComments(r) PROVE PlainTyped'
  <2>1. CASE dropStaleComments(r)
    <3>1. PICK live : keep' = [keep EXCEPT ![r] = {c \in @ : fileOf[c] \in live /\ lineOf[c] \notin handledAnchors(r)}]
      BY <2>1 DEF dropStaleComments
    <3>2. \E K \in SUBSET Comment : keep' = [keep EXCEPT ![r] = K]
      BY <1>4, <3>1
    <3>3. QED
      BY <1>3, <1>4, <2>1, <3>2 DEF dropStaleComments, headVars
  <2>2. CASE dropDuplicateComments(r)
    <3>1. UNCHANGED keep \/ \E K \in SUBSET Comment : keep' = [keep EXCEPT ![r] = K]
      BY <1>4, <2>2 DEF dropDuplicateComments
    <3>2. QED
      BY <1>3, <1>4, <2>2, <3>1 DEF dropDuplicateComments, headVars
  <2>3. ASSUME NEW c \in Comment, Post(r, c) PROVE PlainTyped'
    <3>1. \E K \in SUBSET Comment : keep' = [keep EXCEPT ![r] = K]
      BY <1>4, <2>3 DEF Post
    <3>2. QED
      BY <1>3, <1>4, <2>3, <3>1 DEF Post, headVars
  <2>4. CASE postReviewCompleteAnnotation(r)
    BY <1>3, <1>4, <2>4 DEF postReviewCompleteAnnotation, Ends, headVars
  <2>5. QED
    BY <1>8, <2>1, <2>2, <2>3, <2>4 DEF postComments
<1>9. ASSUME NEW r \in Run, Die(r) PROVE PlainTyped'
  BY <1>3, <1>4, <1>9 DEF Die, Ends, headVars
<1>10. CASE Edit \/ Close \/ \E c \in Comment : Answer(c)
  <2>1. W.edits \in Nat /\ W.replies \in Nat
    BY <1>1 DEF World
  <2>2. /\ edits' \in 0..W.edits /\ replies' \in 0..W.replies
        /\ files' \subseteq W.paths
    BY <1>10, <2>1 DEF Edit, Close, Answer, PlainTyped, headVars
  <2>3. open' \in BOOLEAN /\ UNCHANGED <<marker, blind, read, ruling, keep>>
    BY <1>4, <1>10 DEF Edit, Close, Answer, headVars, runVars
  <2>4. QED
    BY <1>1, <2>2, <2>3 DEF PlainTyped
<1>11. CASE UNCHANGED vars
  BY <1>2, <1>11 DEF vars, headVars, runVars
<1>12. QED
  BY <1>5, <1>6, <1>7, <1>8, <1>9, <1>10, <1>11 DEF Next, Execute

\* A step that posts nothing leaves no more runs to post.
LEMMA NoMorePosters ==
    ASSUME PInv, Bounded, NEW c \in Comment, thread'[c].copies = thread[c].copies,
           MayPost(c)' \subseteq MayPost(c)
    PROVE  thread'[c].copies + Cardinality(MayPost(c)') <= Cardinality(Run)
<1>1. /\ Cardinality(MayPost(c)') <= Cardinality(MayPost(c))
      /\ Cardinality(MayPost(c)') \in Nat /\ Cardinality(MayPost(c)) \in Nat
      /\ Cardinality(Run) \in Nat
  <2>1. IsFiniteSet(Run) /\ IsFiniteSet(MayPost(c))
    BY RunsAssumption, FS_Subset DEF MayPost
  <2>2. QED
    BY <2>1, FS_Subset, FS_CardinalityType
<1>2. thread[c].copies \in Nat
  BY DEF PInv, PostsTyped, Thread
<1>3. QED
  BY <1>1, <1>2 DEF Bounded

LEMMA BoundedStep == ASSUME PInv, SInv, Absent, Bounded, [Next]_vars PROVE Bounded' /\ Absent'
<1>1. thread \in [Comment -> Thread] /\ pc \in [Run -> Stage] /\ DOMAIN keep = Run
  BY DEF PInv, PostsTyped
<1>2. ASSUME \A c \in Comment : /\ thread'[c].copies = thread[c].copies
                                /\ Exists(c) \/ thread'[c] = thread[c],
             \A c \in Comment : MayPost(c)' \subseteq MayPost(c)
      PROVE  Bounded' /\ Absent'
  <2>1. Absent'
    BY <1>2 DEF Absent, Exists
  <2>2. Bounded'
    BY <1>2, NoMorePosters DEF Bounded
  <2>3. QED
    BY <2>1, <2>2
<1>3. UNCHANGED <<pc, keep>> => \A c \in Comment : MayPost(c)' = MayPost(c)
  BY DEF MayPost
<1>4. ASSUME NEW r \in Run, NEW s, pc[r] \notin Ended, pc[r] # "posting",
             pc' = [pc EXCEPT ![r] = s], \A q \in Run \ {r} : keep'[q] = keep[q]
      PROVE  \A c \in Comment : MayPost(c)' \subseteq MayPost(c)
  BY <1>1, <1>4 DEF MayPost
<1>5. ASSUME NEW r \in Run, NEW s \in Ended, pc' = [pc EXCEPT ![r] = s],
             \A q \in Run \ {r} : keep'[q] = keep[q]
      PROVE  \A c \in Comment : MayPost(c)' \subseteq MayPost(c)
  BY <1>1, <1>5 DEF MayPost
<1>6. CASE UNCHANGED vars \/ Edit \/ Close
  BY <1>2, <1>3, <1>6 DEF vars, runVars, Edit, Close
<1>7. ASSUME NEW d \in Comment, NEW m, thread' = [thread EXCEPT ![d].msgs = m], Exists(d),
             UNCHANGED <<pc, keep>>
      PROVE  Bounded' /\ Absent'
  BY <1>1, <1>2, <1>3, <1>7 DEF Thread
<1>8. ASSUME NEW r \in Run, Execute(r) \/ Die(r) PROVE Bounded' /\ Absent'
  <2>1. ASSUME NEW d \in Comment, Reply(r, d) PROVE Bounded' /\ Absent'
    <3>1. Exists(d) /\ UNCHANGED <<pc, keep>>
      BY <2>1 DEF Reply, PInv, Knows
    <3>2. QED
      BY <1>2, <1>3, <1>7, <2>1, <3>1 DEF Reply
  <2>2. ASSUME NEW d \in Comment, closeResolvedThread(r, d) PROVE Bounded' /\ Absent'
    <3>1. UNCHANGED <<pc, keep>>
      BY <2>2 DEF closeResolvedThread
    <3>2. Exists(d)
      BY <2>2 DEF closeResolvedThread, SInv, Settles, PInv, Knows
    <3>3. QED
      BY <1>1, <1>2, <1>3, <2>2, <3>1, <3>2 DEF closeResolvedThread, Thread
  <2>3. ASSUME NEW d \in Comment, Post(r, d) PROVE Bounded' /\ Absent'
    <3>1. /\ pc[r] = "posting" /\ d \in keep[r] /\ pc' = pc
          /\ keep'[r] = keep[r] \ {d} /\ \A q \in Run \ {r} : keep'[q] = keep[q]
      BY <1>1, <2>3 DEF Post
    <3>2. \A c \in Comment : MayPost(c)' \subseteq MayPost(c)
      BY <3>1 DEF MayPost
    <3>3. CASE thread' = thread
      BY <1>2, <3>2, <3>3
    <3>4. CASE thread' = [thread EXCEPT ![d] = Opened(d)]
      <4>1. /\ thread'[d].copies = thread[d].copies + 1 /\ thread[d].copies \in Nat
            /\ \A c \in Comment \ {d} : thread'[c] = thread[c]
        BY <1>1, <3>4 DEF Opened, Thread, Exists
      <4>2. r \in MayPost(d) /\ MayPost(d)' \subseteq MayPost(d) \ {r}
        BY <3>1, <3>2 DEF MayPost, Ended
      <4>3. IsFiniteSet(MayPost(d)) /\ IsFiniteSet(MayPost(d) \ {r})
        BY RunsAssumption, FS_Subset DEF MayPost
      <4>4. Cardinality(MayPost(d) \ {r}) = Cardinality(MayPost(d)) - 1
        BY <4>2, <4>3, FS_RemoveElement
      <4>5. /\ Cardinality(MayPost(d)') <= Cardinality(MayPost(d) \ {r})
            /\ Cardinality(MayPost(d)') \in Nat /\ Cardinality(MayPost(d)) \in Nat
            /\ Cardinality(Run) \in Nat
        BY <4>2, <4>3, RunsAssumption, FS_Subset, FS_CardinalityType
      <4>6. thread'[d].copies + Cardinality(MayPost(d)') <= Cardinality(Run)
        BY <4>1, <4>4, <4>5 DEF Bounded
      <4>7. Bounded'
        BY <3>2, <4>1, <4>6, NoMorePosters DEF Bounded
      <4>8. Absent'
        BY <4>1 DEF Absent, Exists
      <4>9. QED
        BY <4>7, <4>8
    <3>5. QED
      BY <2>3, <3>3, <3>4 DEF Post
  <2>4. ASSUME NEW s, Walks(r, s) PROVE Bounded' /\ Absent'
    <3>1. \A q \in Run \ {r} : keep'[q] = keep[q]
      BY <1>1, <2>4 DEF Walks, Forgets, Blank
    <3>2. s \in Ended \/ (pc[r] \notin Ended /\ pc[r] # "posting")
      BY <2>4 DEF Walks, Early, Ended
    <3>3. QED
      BY <1>2, <1>4, <1>5, <2>4, <3>1, <3>2 DEF Walks
  <2>5. CASE buildConversation(r)
    BY <1>2, <1>4, <2>5 DEF buildConversation, Goto, Ended
  <2>6. CASE dropDuplicateComments(r)
    <3>1. /\ pc[r] = "deduping" /\ pc' = [pc EXCEPT ![r] = "posting"]
          /\ UNCHANGED thread /\ \A q \in Run \ {r} : keep'[q] = keep[q]
      BY <1>1, <2>6 DEF dropDuplicateComments, Goto
    <3>2. QED
      BY <1>2, <1>4, <3>1 DEF Ended
  <2>7. CASE ReviewDiff(r)
    <3>1. PICK s : pc' = [pc EXCEPT ![r] = s]
      BY <2>7 DEF ReviewDiff, Goto
    <3>2. pc[r] = "reviewing" /\ UNCHANGED thread /\ \A q \in Run \ {r} : keep'[q] = keep[q]
      BY <1>1, <2>7 DEF ReviewDiff, runVars
    <3>3. QED
      BY <1>2, <1>4, <3>1, <3>2 DEF Ended
  <2>8. QED
    BY <1>8, <2>1, <2>2, <2>3, <2>4, <2>5, <2>6, <2>7, OthersWalk
       DEF Execute, review, applyThreadResolutions, postComments
<1>9. ASSUME NEW c \in Comment, Answer(c) PROVE Bounded' /\ Absent'
  BY <1>7, <1>9 DEF Answer, runVars
<1>10. QED
  BY <1>6, <1>8, <1>9 DEF Next

LEMMA TypesInductive == Spec => [](IInv /\ PInv /\ SInv /\ TInv)
<1>1. IInv /\ PInv /\ SInv /\ TInv /\ [Next]_vars => TInv'
  BY PlainStep, BoundedStep DEF TInv
<1>2. QED
  BY <1>1, Initial, Step, PostsInitial, PostsStep, SettlesInitial, SettlesStep, TypesInitial, PTL DEF Spec

-----------------------------------------------------------------------------
(* The theorems.                                                           *)

\* Of the reviews that pushes trigger under one key, at most one tells an
\* outcome, however they are interleaved with mentions, deaths and failures of
\* other runs.
THEOREM OnceReviewed == Spec => []ReviewedOnce
<1>1. IInv => ReviewedOnce
  BY DEF IInv
<1>2. QED
  BY <1>1, Inductive, PTL

\* No finding is posted twice, whatever dies, fails or is answered in between,
\* unless a run posted beside another or could not list what was there.
THEOREM NoTwins == Spec => []TwinsOnlyFromOverlap
<1>1. PInv => TwinsOnlyFromOverlap
  BY DEF PInv
<1>2. QED
  BY <1>1, PostsInductive, PTL

\* Any number of re-reviews, whose replies may be lost, give no thread the same
\* verdict twice in a row, unless two of them were answered at the same time.
THEOREM NoRepeats == Spec => []NoRepeatedVerdict
<1>1. PInv => NoRepeatedVerdict
  BY DEF PInv
<1>2. QED
  BY <1>1, PostsInductive, PTL

\* Whatever is approved or rejected without an AI is so by the class of an
\* enabled adapter, and a changelog by itself only by a bump adapter, whichever
\* reads of the configuration fail.
THEOREM Settlement == Spec => SettledByItsClass
<1>1. IInv /\ [Next]_vars =>
        [\A r \in Run : PostVerdict(r) =>
            \/ /\ ruling[r] = "approve"
               /\ \E i \in DOMAIN W.adapters :
                    /\ InClass(W.adapters[i], read[r], W.autobump)
                    /\ ChangelogOnly(read[r]) => W.adapters[i] \in Bumps
            \/ /\ ruling[r] = "reject"
               /\ \E i \in DOMAIN W.adapters : Incomplete(W.adapters[i], read[r], W.autobump)]_vars
  BY DEF IInv, Ruled, PostVerdict, Justified
<1>2. QED
  BY <1>1, Inductive, PTL DEF Spec, SettledByItsClass

\* A re-review whose calls succeed leaves closed every thread that its verdicts
\* settle: whatever earlier runs did to them before they failed, and whatever
\* other runs, authors and reviewers do meanwhile.
THEOREM Settled == Spec => SettledIsClosed
<1>1. PInv /\ SInv /\ [Next]_vars =>
        [\A r \in Run : postReviewCompleteAnnotation(r) /\ ~MayMiss(r) =>
            \A c \in DOMAIN answers[r] :
                shouldClose(answers[r][c]) => thread[c].state \in {"fixed", "closed"}]_vars
  <2>1. ASSUME PInv, SInv, NEW r \in Run, postReviewCompleteAnnotation(r), ~MayMiss(r),
               NEW c \in DOMAIN answers[r], shouldClose(answers[r][c])
        PROVE  thread[c].state \in {"fixed", "closed"}
    <3>1. todo[r] = {} /\ closing[r] = {}
      BY <2>1 DEF postReviewCompleteAnnotation, SInv, Settles
    <3>2. QED
      BY <2>1, <3>1 DEF MayMiss, SInv, Settles, Closed
  <2>2. QED
    BY <2>1
<1>2. QED
  BY <1>1, SettlesInductive, PTL DEF Spec, SettledIsClosed

\* The types: above all that a thread is there when some run has posted its
\* finding, that no run posts one twice, and that verdicts are on threads of
\* the conversation that the run has read.
THEOREM Types == Spec => []TypeOK
<1>1. IInv /\ PInv /\ SInv /\ TInv => TypeOK
  <2> SUFFICES ASSUME IInv, PInv, SInv, TInv PROVE TypeOK
    OBVIOUS
  <2>1. ASSUME NEW c \in Comment
        PROVE  /\ thread[c].copies \in 0..Cardinality(Run)
               /\ thread[c].msgs \in Seq(Message)
               /\ thread[c].state \in {"none", "active", "fixed", "closed"}
               /\ (thread[c].copies = 0) <=> (thread[c] = NoThread)
    <3>1. thread[c] \in Thread
      BY DEF PInv, PostsTyped
    <3>2. Cardinality(MayPost(c)) \in Nat /\ Cardinality(Run) \in Nat
      BY RunsAssumption, FS_Subset, FS_CardinalityType DEF MayPost
    <3>3. thread[c].copies + Cardinality(MayPost(c)) <= Cardinality(Run)
      BY DEF TInv, Bounded
    <3>4. thread[c].copies \in 0..Cardinality(Run)
      BY <3>1, <3>2, <3>3 DEF Thread
    <3>5. (thread[c].copies = 0) <=> (thread[c] = NoThread)
      BY <3>1 DEF TInv, Absent, Exists, Thread, NoThread
    <3>6. QED
      BY <3>1, <3>4, <3>5 DEF Thread, State
  <2>2. ASSUME NEW r \in Run
        PROVE  /\ DOMAIN seen[r] \subseteq Comment
               /\ DOMAIN answers[r] \subseteq DOMAIN seen[r]
               /\ todo[r] \subseteq DOMAIN answers[r] /\ closing[r] \subseteq DOMAIN answers[r]
               /\ Cardinality(closing[r]) <= 1
    <3>1. Settles(r) /\ Knows(r)
      BY DEF SInv, PInv
    <3>2. closing[r] = {} \/ \E c : closing[r] = {c}
      BY <3>1 DEF Settles
    <3>3. Cardinality(closing[r]) <= 1
      <4>1. Cardinality({}) = 0 /\ \A c : Cardinality({c}) = 1
        BY FS_EmptySet, FS_Singleton
      <4>2. Cardinality(closing[r]) \in {0, 1}
        BY <3>2, <4>1
      <4>3. QED
        BY <4>2
    <3>4. QED
      BY <3>1, <3>3 DEF Settles, Knows
  <2>3. QED
    BY <2>1, <2>2 DEF IInv, Typed, TInv, PlainTyped, Notice, TypeOK
<1>2. QED
  BY <1>1, TypesInductive, PTL
=============================================================================
