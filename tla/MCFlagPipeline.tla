--------------------------- MODULE MCFlagPipeline ---------------------------
(* MCFlagStore has no client: two transactions of two hits and two racing  *)
(* corrections compete for the table.  MCFlagStream has two clients and    *)
(* one correction beside the consumer: two tasks broadcast at once to      *)
(* clients that come and go.                                               *)
EXTENDS FlagPipeline

MCCaster == Operator \union {Consumer}
=============================================================================
