--------------------------- MODULE MCOutboxCopies ---------------------------
(* Three rows and a batch of two, so that two writers hold different rows  *)
(* at once and one of them can take over what the other has dropped.  The  *)
(* row whose history is kept is the middle one: it is the first or the     *)
(* second of a batch, or alone in one.                                     *)
EXTENDS OutboxCopies
=============================================================================
