--------------------------- MODULE PullRequestSlot ---------------------------
(***************************************************************************)
(* What the webhook dedup promises for ONE pull request, whatever backend  *)
(* keeps the record: deliveries are admitted one at a time, a delivery is  *)
(* dropped as a duplicate only while the record of an admitted one stands, *)
(* and that record is removed only when no review is in progress.          *)
(* `DedupLease` is shown to implement this module.                         *)
(***************************************************************************)
CONSTANTS Delivery, None

VARIABLES active,   \* the deliveries whose review is waiting or in progress
          slot      \* the delivery whose dedup record stands, or None

vars == <<active, slot>>

Init == active = {} /\ slot = None

\* A delivery is admitted: nobody is active, and the record is now its own.
Admit(d) == /\ active = {}
            /\ slot = None
            /\ active' = {d}
            /\ slot' = d

\* The review ends or its pod dies; the record is still there.
End(d) == /\ d \in active
          /\ active' = active \ {d}
          /\ UNCHANGED slot

\* The record goes: released by its owner, or taken over once it went stale.
Free == /\ slot # None
        /\ active = {}
        /\ slot' = None
        /\ UNCHANGED active

Next == \/ Free
        \/ \E d \in Delivery : Admit(d) \/ End(d)

Spec == Init /\ [][Next]_vars
=============================================================================
