------------------------------ MODULE RunContext ------------------------------
(* The context of one review run (Go's ctx), which every stage of it shares. *)

VARIABLE cancelled  \* the pod drains, or the caller has given up
=============================================================================
