----------------------------- MODULE MCServePod -----------------------------
(* Instances of ServePod for TLC; the .cfg files choose the constants.     *)
EXTENDS ServePod, TLC

CONSTANTS d1, d2, d3, k1, k2

\* Two deliveries for one pull request, one for another.
MCKeyOf == d1 :> k1 @@ d2 :> k1 @@ d3 :> k2

\* Two deliveries for one pull request.
MCSameKey == d1 :> k1 @@ d2 :> k1
=============================================================================
