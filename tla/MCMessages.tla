----------------------------- MODULE MCMessages -----------------------------
(* TLC instance of MessageQueue: the clock wraps in the middle of the run. *)
EXTENDS MessageQueue
=============================================================================
