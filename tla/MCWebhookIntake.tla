--------------------------- MODULE MCWebhookIntake ---------------------------
(* An instance of WebhookIntake for TLC: g is on GitHub, under an account    *)
(* the bot knows as its own; a is on Azure DevOps, under one it does not; x  *)
(* is off the allowlist.                                                     *)
EXTENDS WebhookIntake, TLC, FiniteSetsExt

CONSTANTS g, a, x,
          gp, gm1, gm2, gc, go, gf, gn,
          ap, as, ac, ah, ak, ad, an,
          xk, xp

MCKind ==
    gp :> "push" @@ gm1 :> "text" @@ gm2 :> "text" @@
    gc :> "chat" @@ go :> "other" @@ gf :> "forged" @@ gn :> "text" @@
    ap :> "push" @@ as :> "skinny" @@ ac :> "closing" @@ ah :> "chat" @@
    ak :> "picked" @@ ad :> "named" @@ an :> "text" @@ xk :> "picked" @@ xp :> "push"

MCPR == [d \in Delivery |->
            IF d \in {gp, gm1, gm2, gc, go, gf, gn} THEN g ELSE IF d \in {xk, xp} THEN x ELSE a]
\* Each request that is answered at once; every two of the others; and the
\* triples that compete for a record, for the queue or for both.
MCTraffic ==
    LET late == {gp, gm1, gm2, ap, as, ak}
    IN  {{d} : d \in Delivery \ (Notice \cup late)} \cup kSubset(2, late)
            \cup {{gp, gm1, gm2}, {ap, as, gp}, {ap, as, ak}}
=============================================================================
