---------------------------- MODULE FlagPipeline ----------------------------
(***************************************************************************)
(* From a screened transaction to a stored and streamed flag.              *)
(*                                                                         *)
(* The screening consumer (aegis-monitor/src/aegis_monitor/main.py) takes  *)
(* a transaction, runs the rules, writes all hits in one database          *)
(* transaction and streams them after its COMMIT.  The correction handler  *)
(* (api/flags.py) reads a flag, checks that nothing supersedes it, writes  *)
(* one row that does, and streams it.  Both call insert_attestation        *)
(* (attestation/repo.py), whose flush draws an id from the sequence long   *)
(* before the row is visible, and both hand the ids to the broadcaster.    *)
(*                                                                         *)
(* PostgreSQL runs at READ COMMITTED: a statement sees the rows that are   *)
(* committed when it runs, and nothing else.                               *)
(***************************************************************************)
EXTENDS FlagBroadcaster, FiniteSets

CONSTANTS
  Tx,         \* transactions; each is delivered by the queue at most once
  Rule,       \* the registered rules, numbered in registration order
  Operator,   \* correction requests that may be in progress at once
  Consumer    \* the task "screen-consumer"

ASSUME PipelineAssumption ==
  /\ MaxId \in Nat \ {0}
  /\ IsFiniteSet(Rule) /\ Rule \subseteq Nat \ {0}
  /\ IsFiniteSet(Operator) /\ Consumer \notin Operator
  /\ Caster = Operator \union {Consumer}

Correction == 0    \* any rule id in the namespace "corr.", which no rule has
Row == [tx : Tx, rule : Rule \union {Correction}, supersedes : FlagId \union {0}]
NoRow == [tx |-> "no row"]

VARIABLES
  queue,      \* the transactions not yet taken
  pc,         \* where the consumer and each request await
  tx,         \* the transaction each of them is about
  hits,       \* the consumer's hits that are still to be inserted
  target,     \* the flag each request corrects
  table,      \* every row of flags ever written, visible or not
  visible,    \* the ids of the committed rows
  staged,     \* the ids each of them has flushed and not committed
  nextId,     \* the sequence of flags.id
  verdict     \* history: the hits of each transaction that went to the table

flVars == <<queue, pc, tx, hits, target, table, visible, staged, nextId, verdict>>
vars == <<flVars, bcVars>>

FLTypeOK ==
  /\ queue \in SUBSET Tx
  /\ pc \in [Caster -> {"ready", "screen", "insert", "stream"}]
  /\ tx \in [Caster -> Tx]
  /\ hits \in SUBSET Rule
  /\ target \in [Operator -> FlagId]
  /\ table \in [FlagId -> Row \union {NoRow}]
  /\ visible \in SUBSET FlagId
  /\ staged \in [Caster -> SUBSET FlagId]
  /\ nextId \in 1 .. MaxId + 1
  /\ verdict \in [Tx -> SUBSET Rule]

TypeOK == FLTypeOK /\ BCTypeOK

Init ==
  /\ queue = Tx
  /\ pc = [w \in Caster |-> "ready"]
  /\ tx \in {f \in [Caster -> Tx] : \A w, v \in Caster : f[w] = f[v]}
  /\ hits = {}
  /\ target = [o \in Operator |-> 1]
  /\ table = [i \in FlagId |-> NoRow]
  /\ visible = {}
  /\ staged = [w \in Caster |-> {}]
  /\ nextId = 1
  /\ verdict = [t \in Tx |-> {}]
  /\ BCInit

-----------------------------------------------------------------------------
(* insert_attestation: add the row and flush, which draws its id. *)
Insert(w, row) ==
  /\ nextId <= MaxId
  /\ table' = [table EXCEPT ![nextId] = row]
  /\ staged' = [staged EXCEPT ![w] = @ \union {nextId}]
  /\ nextId' = nextId + 1

(* session_scope() commits; what was flushed becomes visible at once, and  *)
(* the caller goes on to stream it.                                        *)
Commit(w) ==
  /\ visible' = visible \union staged[w]
  /\ todo' = [todo EXCEPT ![w] = staged[w]]
  /\ staged' = [staged EXCEPT ![w] = {}]
  /\ pc' = [pc EXCEPT ![w] = "stream"]
  /\ UNCHANGED <<handler, peer, clients, flag, copy, at, dead, received, stayed>>

(* Any statement or the COMMIT fails: roll back, log or answer 500.  The   *)
(* ids that were drawn are not given back.                                 *)
TxnFails(w) ==
  /\ pc[w] = "insert"
  /\ staged' = [staged EXCEPT ![w] = {}]
  /\ pc' = [pc EXCEPT ![w] = "ready"]
  /\ hits' = IF w = Consumer THEN {} ELSE hits
  /\ verdict' = IF w = Consumer THEN [verdict EXCEPT ![tx[w]] = {}] ELSE verdict
  /\ UNCHANGED <<queue, tx, target, table, visible, nextId, bcVars>>

(* The COMMIT is applied but answered with an error: same exception, and   *)
(* nothing is streamed.                                                    *)
CommitAnswerLost(w) ==
  /\ pc[w] = "insert"
  /\ staged[w] # {}
  /\ w = Consumer => hits = {}
  /\ visible' = visible \union staged[w]
  /\ staged' = [staged EXCEPT ![w] = {}]
  /\ pc' = [pc EXCEPT ![w] = "ready"]
  /\ UNCHANGED <<queue, tx, hits, target, table, nextId, verdict, bcVars>>

(* Mutants of StreamEnds: the task ends with it; it waits for the clients  *)
(* to go away.                                                             *)
StreamEndsForGood(w) ==
  /\ pc[w] = "stream"
  /\ todo[w] = {}
  /\ pc' = [pc EXCEPT ![w] = "ended"]
  /\ UNCHANGED <<queue, tx, hits, target, table, visible, staged, nextId, verdict, bcVars>>

StreamEndsWhenAlone(w) ==
  /\ pc[w] = "stream"
  /\ todo[w] = {} /\ clients = {}
  /\ pc' = [pc EXCEPT ![w] = "ready"]
  /\ UNCHANGED <<queue, tx, hits, target, table, visible, staged, nextId, verdict, bcVars>>

(* The last broadcast of w has returned. *)
StreamEnds(w) ==
  /\ pc[w] = "stream"
  /\ todo[w] = {}
  /\ pc' = [pc EXCEPT ![w] = "ready"]
  /\ UNCHANGED <<queue, tx, hits, target, table, visible, staged, nextId, verdict, bcVars>>

-----------------------------------------------------------------------------
(* _screen_tx_consumer: queue.get() *)
Get(t) ==
  /\ pc[Consumer] = "ready"
  /\ t \in queue
  /\ queue' = queue \ {t}
  /\ tx' = [tx EXCEPT ![Consumer] = t]
  /\ pc' = [pc EXCEPT ![Consumer] = "screen"]
  /\ UNCHANGED <<hits, target, table, visible, staged, nextId, verdict, bcVars>>

(* run_all() returns the hits of the rules that neither passed nor         *)
(* crashed: any set of them, since they depend on the chain.               *)
ScreenHits(h) ==
  /\ pc[Consumer] = "screen"
  /\ h # {}
  /\ hits' = h
  /\ verdict' = [verdict EXCEPT ![tx[Consumer]] = h]
  /\ pc' = [pc EXCEPT ![Consumer] = "insert"]
  /\ UNCHANGED <<queue, tx, target, table, visible, staged, nextId, bcVars>>

(* No hit, or the sender is no longer monitored: next transaction.  The    *)
(* watch set is that of AddressManager; here its answer is arbitrary.      *)
ScreenNothing ==
  /\ pc[Consumer] = "screen"
  /\ pc' = [pc EXCEPT ![Consumer] = "ready"]
  /\ UNCHANGED <<queue, tx, hits, target, table, visible, staged, nextId, verdict, bcVars>>

(* Mutants of InsertHit: stream before the COMMIT; one transaction per hit. *)
InsertHitAndStream(r) ==
  /\ pc[Consumer] = "insert"
  /\ r \in hits /\ \A q \in hits : r <= q
  /\ Insert(Consumer, [tx |-> tx[Consumer], rule |-> r, supersedes |-> 0])
  /\ hits' = hits \ {r}
  /\ todo' = [todo EXCEPT ![Consumer] = @ \union {nextId}]
  /\ UNCHANGED <<queue, pc, tx, target, visible, verdict,
                 handler, peer, clients, flag, copy, at, dead, received, stayed>>

InsertHitAlone(r) ==
  /\ pc[Consumer] = "insert"
  /\ r \in hits /\ \A q \in hits : r <= q
  /\ Insert(Consumer, [tx |-> tx[Consumer], rule |-> r, supersedes |-> 0])
  /\ hits' = hits \ {r}
  /\ visible' = visible \union {nextId}
  /\ UNCHANGED <<queue, pc, tx, target, verdict, bcVars>>

(* _handle_hits: sign and insert the next hit, in registration order. *)
InsertHit(r) ==
  /\ pc[Consumer] = "insert"
  /\ r \in hits /\ \A q \in hits : r <= q
  /\ Insert(Consumer, [tx |-> tx[Consumer], rule |-> r, supersedes |-> 0])
  /\ hits' = hits \ {r}
  /\ UNCHANGED <<queue, pc, tx, target, visible, verdict, bcVars>>

CommitHits ==
  /\ pc[Consumer] = "insert"
  /\ hits = {}
  /\ Commit(Consumer)
  /\ UNCHANGED <<queue, tx, hits, target, table, nextId, verdict>>

-----------------------------------------------------------------------------
(* Mutant of Superseded: rows that were never committed count. *)
SupersededDirty(i) == \E j \in FlagId : j < nextId /\ table[j].supersedes = i

Superseded(i) == \E j \in visible : table[j].supersedes = i

(* Mutant of CheckHead: a flag that is not committed can be corrected. *)
CheckHeadDirty(o, i) ==
  /\ pc[o] = "ready"
  /\ i < nextId
  /\ ~Superseded(i)
  /\ target' = [target EXCEPT ![o] = i]
  /\ tx' = [tx EXCEPT ![o] = table[i].tx]
  /\ pc' = [pc EXCEPT ![o] = "insert"]
  /\ UNCHANGED <<queue, hits, table, visible, staged, nextId, verdict, bcVars>>

(* Mutant of CheckHead: a correction is not looked for. *)
CheckHeadAlways(o, i) ==
  /\ pc[o] = "ready"
  /\ i \in visible
  /\ target' = [target EXCEPT ![o] = i]
  /\ tx' = [tx EXCEPT ![o] = table[i].tx]
  /\ pc' = [pc EXCEPT ![o] = "insert"]
  /\ UNCHANGED <<queue, hits, table, visible, staged, nextId, verdict, bcVars>>

(* correct_flag: the flag is there and nothing supersedes it.  (404 and    *)
(* 409 change nothing.)                                                    *)
CheckHead(o, i) ==
  /\ pc[o] = "ready"
  /\ i \in visible
  /\ ~Superseded(i)
  /\ target' = [target EXCEPT ![o] = i]
  /\ tx' = [tx EXCEPT ![o] = table[i].tx]
  /\ pc' = [pc EXCEPT ![o] = "insert"]
  /\ UNCHANGED <<queue, hits, table, visible, staged, nextId, verdict, bcVars>>

(* Sign the correction and insert it. *)
InsertCorrection(o) ==
  /\ pc[o] = "insert"
  /\ staged[o] = {}
  /\ Insert(o, [tx |-> tx[o], rule |-> Correction, supersedes |-> target[o]])
  /\ UNCHANGED <<queue, pc, tx, hits, target, visible, verdict, bcVars>>

(* Mutant of CommitCorrection: the corrected row is deleted. *)
CommitReplacement(o) ==
  /\ pc[o] = "insert"
  /\ staged[o] # {}
  /\ visible' = (visible \union staged[o]) \ {target[o]}
  /\ todo' = [todo EXCEPT ![o] = staged[o]]
  /\ staged' = [staged EXCEPT ![o] = {}]
  /\ pc' = [pc EXCEPT ![o] = "stream"]
  /\ UNCHANGED <<queue, tx, hits, target, table, nextId, verdict,
                 handler, peer, clients, flag, copy, at, dead, received, stayed>>

CommitCorrection(o) ==
  /\ pc[o] = "insert"
  /\ staged[o] # {}
  /\ Commit(o)
  /\ UNCHANGED <<queue, tx, hits, target, table, nextId, verdict>>

-----------------------------------------------------------------------------
(* The process dies: the queue, every open transaction and every           *)
(* connection are lost.  The next one starts with an empty queue.          *)
Crash ==
  /\ queue' = {}
  /\ pc' = [w \in Caster |-> "ready"]
  /\ hits' = {}
  /\ staged' = [w \in Caster |-> {}]
  /\ verdict' = [t \in Tx |-> IF pc[Consumer] = "insert" /\ tx[Consumer] = t
                                THEN {} ELSE verdict[t]]
  /\ UNCHANGED <<tx, target, table, visible, nextId>>
  /\ BCCrash

ConsumerStep ==
  \/ \E t \in Tx : Get(t)
  \/ \E h \in SUBSET Rule : ScreenHits(h)
  \/ ScreenNothing
  \/ \E r \in Rule : InsertHit(r)
  \/ CommitHits

OperatorStep(o) ==
  \/ \E i \in FlagId : CheckHead(o, i)
  \/ InsertCorrection(o)
  \/ CommitCorrection(o)

Next ==
  \/ ConsumerStep
  \/ \E o \in Operator : OperatorStep(o)
  \/ \E w \in Caster : TxnFails(w) \/ CommitAnswerLost(w) \/ StreamEnds(w)
  \/ BCNext /\ UNCHANGED flVars
  \/ Crash

(* A task that is not waiting for anybody runs on; a database transaction  *)
(* ends somehow; and a send ends, because the server pings its clients     *)
(* and closes a connection that has stopped answering.                     *)
CasterFairness(w) ==
  /\ WF_vars(TxnFails(w) \/ CommitAnswerLost(w) \/ StreamEnds(w))
  /\ WF_vars(CastStep(w) /\ UNCHANGED flVars)

Fairness ==
  /\ WF_vars((\E h \in SUBSET Rule : ScreenHits(h)) \/ ScreenNothing)
  /\ \A w \in Caster : CasterFairness(w)

Spec == Init /\ [][Next]_vars /\ Fairness

-----------------------------------------------------------------------------
(* "We never stream a flag that isn't queryable": whatever a client has    *)
(* received, or a caster is about to send, is a committed row, also after  *)
(* a failed COMMIT and across restarts.                                    *)
StreamedIsQueryable ==
  /\ \A c \in Client : \A k \in 1 .. Len(received[c]) : received[c][k] \in visible
  /\ \A w \in Caster : todo[w] \union ({flag[w]} \ {NoFlag}) \subseteq visible

(* One connection gets each flag once, although several broadcasts run at  *)
(* a time, each on its own copy of the clients.                            *)
NobodyHearsTwice ==
  \A c \in Client : \A j, k \in 1 .. Len(received[c]) :
    received[c][j] = received[c][k] => j = k

(* "Clients that error on send are dropped", and nobody else misses a flag: *)
(* when a broadcast ends it has reached every client that was registered   *)
(* at its start and still listens, whoever came, went or failed meanwhile. *)
EveryClientIsServed ==
  \A w \in Caster :
    flag[w] # NoFlag /\ at[w] = NoClient /\ copy[w] = {} =>
      \A c \in stayed[w] : \E k \in 1 .. Len(received[c]) : received[c][k] = flag[w]

FlagsOf(t) == {i \in visible : table[i].tx = t /\ table[i].rule # Correction}

(* The hits of one transaction are stored together or not at all, once,    *)
(* whichever insert fails and wherever the process dies.                   *)
AllHitsOrNone ==
  \A t \in Tx :
    /\ FlagsOf(t) # {} => {table[i].rule : i \in FlagsOf(t)} = verdict[t]
    /\ \A i, j \in FlagsOf(t) : table[i].rule = table[j].rule => i = j

(* A correction points back to an earlier, committed flag of the same      *)
(* transaction: chains are auditable and never loop, although ids are      *)
(* drawn long before the rows are visible.                                 *)
CorrectionsPointBack ==
  \A i \in visible :
    table[i].rule = Correction =>
      /\ table[i].supersedes \in visible
      /\ table[i].supersedes < i
      /\ table[table[i].supersedes].tx = table[i].tx

(* However flags are corrected, GET /flags (which hides superseded rows)   *)
(* still shows something for every transaction that was ever flagged.      *)
FlaggedStaysVisible ==
  \A i \in visible :
    \E j \in visible : table[j].tx = table[i].tx /\ ~Superseded(j)

SupersedersOf(i) == {j \in visible : table[j].supersedes = i}

(* What the check of correct_flag is worth without a lock: a flag that is  *)
(* superseded takes no further request, so that only those that had passed *)
(* the check before can add to its successors.                             *)
SupersededPerRequest ==
  \A i \in FlagId : Cardinality(SupersedersOf(i)) <= Cardinality(Operator)

(* Committed rows are append-only: none is changed or withdrawn. *)
AppendOnly ==
  [][\A i \in visible : i \in visible' /\ table'[i] = table[i]]_vars

(* To its readers the table is a FlagTable: the consumer, the corrections, *)
(* every failure and every crash only draw ids, and commit or abandon      *)
(* them; no correction names what a reader could not have seen.            *)
FT == INSTANCE FlagTable WITH open <- UNION {staged[w] : w \in Caster}

KeepsFlagTable == FT!Spec

(* The consumer gets back to its queue after every transaction, whatever   *)
(* happens to the database, to the clients and in the corrections.         *)
ConsumerKeepsGoing == (pc[Consumer] # "ready") ~> (pc[Consumer] = "ready")

(* "We allow correcting a correction, but not double-superseding": no flag *)
(* is superseded by two rows.                                              *)
SupersededOnce ==
  \A i, j \in visible :
    (table[i].supersedes = table[j].supersedes /\ table[i].supersedes # 0) => i = j

(* "UIs can swap the row in place": a client that receives a correction    *)
(* does not receive the flag it corrects afterwards.                       *)
CorrectionsComeAfter ==
  \A c \in Client : \A j, k \in 1 .. Len(received[c]) :
    table[received[c][j]].supersedes = received[c][k] => k < j
=============================================================================
