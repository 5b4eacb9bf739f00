----------------------------- MODULE AuditTrail -----------------------------
(***************************************************************************)
(* What the Arweave outbox promises to an auditor, without saying how: a   *)
(* flag is recorded, a signed copy of it is published, and only then a     *)
(* receipt (arweave_tx_id) is attached to it.  Copies and receipts are     *)
(* permanent.  Several receipts may be attached in one database            *)
(* transaction.                                                            *)
(***************************************************************************)
CONSTANT Flag

VARIABLES
  recorded,    \* the flags in the table
  published,   \* the flags of which a copy is on Arweave
  receipts     \* the flags with an arweave_tx_id

trail == <<recorded, published, receipts>>

Init ==
  /\ recorded = {}
  /\ published = {}
  /\ receipts = {}

Record(S) ==
  /\ recorded' = recorded \union S
  /\ UNCHANGED <<published, receipts>>

Publish(f) ==
  /\ f \in recorded
  /\ published' = published \union {f}
  /\ UNCHANGED <<recorded, receipts>>

Confirm(S) ==
  /\ S \subseteq published \ receipts
  /\ receipts' = receipts \union S
  /\ UNCHANGED <<recorded, published>>

Next ==
  \/ \E S \in SUBSET Flag : Record(S) \/ Confirm(S)
  \/ \E f \in Flag : Publish(f)

Spec == Init /\ [][Next]_trail
=============================================================================
