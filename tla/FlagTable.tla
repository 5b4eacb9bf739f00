----------------------------- MODULE FlagTable -----------------------------
(***************************************************************************)
(* What the table of flags promises to those who read it, without saying   *)
(* who writes it and how: ids are drawn in order, rows become visible in   *)
(* any order, or never, and what is visible stays as it is.  A correction  *)
(* names a visible flag of its transaction.                                *)
(*                                                                         *)
(* FlagPipeline implements this; FlagQueries reads it.                     *)
(***************************************************************************)
EXTENDS Naturals, FiniteSets

CONSTANTS
  Tx,      \* transactions that may be flagged
  Rule,    \* rules that may flag them
  MaxId    \* bound on the ids that are drawn

FlagId == 1 .. MaxId
Correction == 0    \* any rule id in the namespace "corr."
Row == [tx : Tx, rule : Rule \union {Correction}, supersedes : FlagId \union {0}]
NoRow == [tx |-> "no row"]

VARIABLES
  table,     \* every row ever flushed
  nextId,    \* the sequence of flags.id
  open,      \* the ids flushed by transactions that are still open
  visible    \* the ids of the committed rows

ftVars == <<table, nextId, open, visible>>

Init ==
  /\ table = [i \in FlagId |-> NoRow]
  /\ nextId = 1
  /\ open = {}
  /\ visible = {}

(* A fresh flag comes from a rule, a correction from an operator. *)
MayFollow(row) ==
  IF row.supersedes = 0
    THEN row.rule \in Rule
    ELSE /\ row.rule = Correction
         /\ row.supersedes \in visible
         /\ table[row.supersedes].tx = row.tx

Draw(row) ==
  /\ nextId <= MaxId
  /\ MayFollow(row)
  /\ table' = [table EXCEPT ![nextId] = row]
  /\ nextId' = nextId + 1
  /\ open' = open \union {nextId}
  /\ UNCHANGED visible

Commit(S) ==
  /\ S \subseteq open
  /\ visible' = visible \union S
  /\ open' = open \ S
  /\ UNCHANGED <<table, nextId>>

(* Mutant of Abandon: the ids are given back. *)
AbandonAndReturn(S) ==
  /\ S \subseteq open
  /\ open' = open \ S
  /\ nextId' = nextId - Cardinality(S)
  /\ UNCHANGED <<table, visible>>

(* Rolled back, or lost with the process; the ids are not given back. *)
Abandon(S) ==
  /\ S \subseteq open
  /\ open' = open \ S
  /\ UNCHANGED <<table, nextId, visible>>

Next ==
  \/ \E row \in Row : Draw(row)
  \/ \E S \in SUBSET FlagId : Commit(S) \/ Abandon(S)

Spec == Init /\ [][Next]_ftVars
=============================================================================
