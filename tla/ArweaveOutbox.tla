---------------------------- MODULE ArweaveOutbox ----------------------------
(***************************************************************************)
(* The outbox that publishes flags on Arweave                              *)
(* (aegis-monitor/src/aegis_monitor/arweave/writer.py).                    *)
(*                                                                         *)
(* The rows of flags whose arweave_tx_id is NULL are the queue.  A writer  *)
(* opens a transaction, locks the oldest of them (FOR UPDATE SKIP LOCKED), *)
(* uploads one after the other, notes each receipt with an UPDATE, and     *)
(* commits the whole batch.  Any exception rolls all of it back, but an    *)
(* upload cannot be taken back.  Two writers run during a rolling deploy,  *)
(* or with a sidecar.                                                      *)
(*                                                                         *)
(* The database drops a transaction, with its locks, as soon as the        *)
(* connection breaks; the writer only notices at its next statement, and   *)
(* the upload it has under way goes on meanwhile (severed).                *)
(***************************************************************************)
EXTENDS Integers, FiniteSets

CONSTANTS
  Row,          \* ids of flags
  Writer,       \* ArweaveWriter tasks
  BatchSize,    \* batch_size
  MaxBackoff,   \* max_backoff_s, in units of poll_interval_s
  Poison        \* external: rows the uploader refuses, whatever one does

ASSUME OutboxAssumption ==
  /\ Row \subseteq Nat
  /\ BatchSize \in Nat \ {0}
  /\ MaxBackoff \in Nat \ {0}
  /\ Poison \subseteq Row

NoWriter == "no writer"
ASSUME NoWriterAssumption == NoWriter \notin Writer

VARIABLES
  status,    \* per row: not in the table, receipt NULL, or receipt set
  lock,      \* the transaction that holds the row lock
  wpc,       \* where each writer is
  batch,     \* the selected rows it has not uploaded yet
  current,   \* the rows it has uploaded and not UPDATEd yet: none or one
  noted,     \* the rows it has UPDATEd, not yet committed
  severed,   \* the writers whose transaction the database has dropped
  backoff,   \* the next pause after a failure
  copies     \* external: copies of each row on Arweave, 2 standing for many

vars == <<status, lock, wpc, batch, current, noted, severed, backoff, copies>>
txnVars == <<lock, batch, current, noted, severed>>

TypeOK ==
  /\ status \in [Row -> {"absent", "pending", "archived"}]
  /\ lock \in [Row -> Writer \union {NoWriter}]
  /\ wpc \in [Writer -> {"select", "upload", "poll", "pause", "down"}]
  /\ batch \in [Writer -> SUBSET Row]
  /\ current \in [Writer -> SUBSET Row]
  /\ noted \in [Writer -> SUBSET Row]
  /\ severed \in SUBSET Writer
  /\ backoff \in [Writer -> 1 .. MaxBackoff]
  /\ copies \in [Row -> 0 .. 2]

Init ==
  /\ status = [r \in Row |-> "absent"]
  /\ lock = [r \in Row |-> NoWriter]
  /\ wpc = [w \in Writer |-> "select"]
  /\ batch = [w \in Writer |-> {}]
  /\ current = [w \in Writer |-> {}]
  /\ noted = [w \in Writer |-> {}]
  /\ severed = {}
  /\ backoff = [w \in Writer |-> 1]
  /\ copies = [r \in Row |-> 0]

(* The rows a writer still means to upload or to confirm. *)
InHand(w) == batch[w] \union current[w] \union noted[w]

-----------------------------------------------------------------------------
(* A COMMIT of the screening consumer or of a correction: new rows, in any *)
(* order of their ids, with a NULL receipt.                                *)
Commits(S) ==
  /\ S # {} /\ \A r \in S : status[r] = "absent"
  /\ status' = [r \in Row |-> IF r \in S THEN "pending" ELSE status[r]]
  /\ UNCHANGED <<txnVars, wpc, backoff, copies>>

(* Mutants of Selectable: no SKIP LOCKED; no WHERE arweave_tx_id IS NULL. *)
SelectableLocked == {r \in Row : status[r] = "pending"}
SelectableAgain == {r \in Row : status[r] # "absent" /\ lock[r] = NoWriter}

Selectable == {r \in Row : status[r] = "pending" /\ lock[r] = NoWriter}

(* ORDER BY id LIMIT batch_size *)
Oldest(S) == {r \in S : Cardinality({q \in S : q < r}) < BatchSize}

(* _drain_once: SELECT ... FOR UPDATE SKIP LOCKED *)
Select(w) ==
  /\ wpc[w] = "select"
  /\ Selectable # {}
  /\ batch' = [batch EXCEPT ![w] = Oldest(Selectable)]
  /\ lock' = [r \in Row |-> IF r \in Oldest(Selectable) THEN w ELSE lock[r]]
  /\ wpc' = [wpc EXCEPT ![w] = "upload"]
  /\ UNCHANGED <<status, current, noted, severed, backoff, copies>>

(* ... finds nothing: reset the backoff and sleep poll_interval_s. *)
SelectNothing(w) ==
  /\ wpc[w] = "select"
  /\ Selectable = {}
  /\ wpc' = [wpc EXCEPT ![w] = "poll"]
  /\ backoff' = [backoff EXCEPT ![w] = 1]
  /\ UNCHANGED <<status, txnVars, copies>>

(* Mutant of Upload: the upload is started and not awaited. *)
UploadNotAwaited(w, r) ==
  /\ wpc[w] = "upload"
  /\ current[w] = {}
  /\ r \in batch[w] /\ \A q \in batch[w] : r <= q
  /\ r \notin Poison
  /\ batch' = [batch EXCEPT ![w] = @ \ {r}]
  /\ current' = [current EXCEPT ![w] = {r}]
  /\ UNCHANGED <<status, lock, wpc, noted, severed, backoff, copies>>

(* _upload_one of the next row of the batch: it is on Arweave for good. *)
Upload(w, r) ==
  /\ wpc[w] = "upload"
  /\ current[w] = {}
  /\ r \in batch[w] /\ \A q \in batch[w] : r <= q
  /\ r \notin Poison
  /\ copies' = [copies EXCEPT ![r] = IF @ < 2 THEN @ + 1 ELSE 2]
  /\ batch' = [batch EXCEPT ![w] = @ \ {r}]
  /\ current' = [current EXCEPT ![w] = {r}]
  /\ UNCHANGED <<status, lock, wpc, noted, severed, backoff>>

(* UPDATE flags SET arweave_tx_id *)
Update(w, r) ==
  /\ w \notin severed
  /\ r \in current[w]
  /\ noted' = [noted EXCEPT ![w] = @ \union {r}]
  /\ current' = [current EXCEPT ![w] = @ \ {r}]
  /\ UNCHANGED <<status, lock, wpc, batch, severed, backoff, copies>>

(* Mutant of TxnOver: the session is not closed, its locks stay. *)
TxnOverLocked(w) ==
  /\ batch' = [batch EXCEPT ![w] = {}]
  /\ current' = [current EXCEPT ![w] = {}]
  /\ noted' = [noted EXCEPT ![w] = {}]
  /\ severed' = severed \ {w}
  /\ UNCHANGED lock

(* The transaction of w is over: its locks are free, its locals gone. *)
TxnOver(w) ==
  /\ lock' = [r \in Row |-> IF lock[r] = w THEN NoWriter ELSE lock[r]]
  /\ batch' = [batch EXCEPT ![w] = {}]
  /\ current' = [current EXCEPT ![w] = {}]
  /\ noted' = [noted EXCEPT ![w] = {}]
  /\ severed' = severed \ {w}

ReceiptsOf(w) ==
  status' = [r \in Row |-> IF r \in noted[w] THEN "archived" ELSE status[r]]

BatchDone(w) ==
  /\ wpc[w] = "upload"
  /\ w \notin severed
  /\ batch[w] = {} /\ current[w] = {}

(* The COMMIT of session.begin(): next batch at once, backoff reset. *)
Commit(w) ==
  /\ BatchDone(w)
  /\ ReceiptsOf(w)
  /\ TxnOver(w)
  /\ wpc' = [wpc EXCEPT ![w] = "select"]
  /\ backoff' = [backoff EXCEPT ![w] = 1]
  /\ UNCHANGED copies

(* Mutant of BackOff: no cap. *)
BackOffUncapped(w) ==
  /\ wpc' = [wpc EXCEPT ![w] = "pause"]
  /\ backoff' = [backoff EXCEPT ![w] = 2 * @]

(* run() logs the exception, sleeps backoff and doubles it. *)
BackOff(w) ==
  /\ wpc' = [wpc EXCEPT ![w] = "pause"]
  /\ backoff' = [backoff EXCEPT ![w] = IF 2 * @ < MaxBackoff THEN 2 * @ ELSE MaxBackoff]

(* Any step of the transaction raises: the SELECT, an upload, an UPDATE,   *)
(* the COMMIT.  The whole batch is rolled back.                            *)
Fails(w) ==
  /\ wpc[w] \in {"select", "upload"}
  /\ TxnOver(w)
  /\ BackOff(w)
  /\ UNCHANGED <<status, copies>>

(* The COMMIT is applied and answered with an error. *)
CommitAnswerLost(w) ==
  /\ BatchDone(w)
  /\ ReceiptsOf(w)
  /\ TxnOver(w)
  /\ BackOff(w)
  /\ UNCHANGED copies

(* asyncio.sleep is over. *)
Wake(w) ==
  /\ wpc[w] \in {"poll", "pause"}
  /\ wpc' = [wpc EXCEPT ![w] = "select"]
  /\ UNCHANGED <<status, txnVars, backoff, copies>>

(* External: the connection breaks, and the database rolls back. *)
Sever(w) ==
  /\ wpc[w] = "upload"
  /\ severed' = severed \union {w}
  /\ lock' = [r \in Row |-> IF lock[r] = w THEN NoWriter ELSE lock[r]]
  /\ UNCHANGED <<status, wpc, batch, current, noted, backoff, copies>>

(* The process dies, or is cancelled, and another takes its place. *)
Crash(w) ==
  /\ wpc[w] # "down"
  /\ TxnOver(w)
  /\ wpc' = [wpc EXCEPT ![w] = "down"]
  /\ UNCHANGED <<status, backoff, copies>>

(* Mutant of Restart: a new process starts the archive over. *)
RestartFromScratch(w) ==
  /\ wpc[w] = "down"
  /\ status' = [r \in Row |-> IF status[r] = "archived" THEN "pending" ELSE status[r]]
  /\ wpc' = [wpc EXCEPT ![w] = "select"]
  /\ backoff' = [backoff EXCEPT ![w] = 1]
  /\ UNCHANGED <<txnVars, copies>>

Restart(w) ==
  /\ wpc[w] = "down"
  /\ wpc' = [wpc EXCEPT ![w] = "select"]
  /\ backoff' = [backoff EXCEPT ![w] = 1]
  /\ UNCHANGED <<status, txnVars, copies>>

WriterStep(w) ==
  \/ Select(w)
  \/ SelectNothing(w)
  \/ \E r \in Row : Upload(w, r)
  \/ \E r \in Row : Update(w, r)
  \/ Commit(w)
  \/ Fails(w)
  \/ CommitAnswerLost(w)
  \/ Wake(w)
  \/ Sever(w)
  \/ Crash(w)
  \/ Restart(w)

Next ==
  \/ \E S \in SUBSET Row : Commits(S)
  \/ \E w \in Writer : WriterStep(w)

(* The next upload of w is one the uploader refuses. *)
Stuck(w) ==
  /\ wpc[w] = "upload" /\ current[w] = {}
  /\ \E r \in batch[w] \cap Poison : \A q \in batch[w] : r <= q

(* What happens to w by itself, when nothing else goes wrong: it fails     *)
(* only on a refused upload or on a transaction that is already dropped.   *)
Progress(w) ==
  \/ Select(w)
  \/ SelectNothing(w)
  \/ \E r \in Row : Upload(w, r) \/ Update(w, r)
  \/ Commit(w)
  \/ (Stuck(w) \/ w \in severed) /\ Fails(w)
  \/ Wake(w)
  \/ Restart(w)

(* What the surroundings may do to it at any time. *)
Mishap(w) ==
  \/ ~Stuck(w) /\ w \notin severed /\ Fails(w)
  \/ CommitAnswerLost(w)
  \/ Sever(w)
  \/ Crash(w)

(* The writer is one asyncio task: it runs on whenever it can. *)
Spec == Init /\ [][Next]_vars /\ \A w \in Writer : WF_vars(Progress(w))

-----------------------------------------------------------------------------
(* SKIP LOCKED: a row is in the hands of at most one writer, apart from a  *)
(* writer whose transaction the database has already dropped, and that     *)
(* writer holds the lock of the row.  No lock is left behind: a row that   *)
(* is locked is in the hands of a transaction that stands.                 *)
LocksCoverBatches ==
  \A w \in Writer : \A r \in Row :
    lock[r] = w <=> (w \notin severed /\ r \in InHand(w))

(* "SKIP LOCKED ensures multiple writer instances won't double-upload":    *)
(* as long as its transaction stands, what a writer is uploading has no    *)
(* receipt, and nobody else can give it one meanwhile.                     *)
NoUploadOfArchived ==
  \A w \in Writer : \A r \in InHand(w) : w \notin severed => status[r] = "pending"

(* A receipt is the proof of a copy: no row has an arweave_tx_id without a *)
(* copy on Arweave, whatever fails between the upload and the COMMIT.      *)
ReceiptMeansPublished ==
  \A r \in Row : status[r] = "archived" => copies[r] > 0

(* Same for a receipt that is still to be committed. *)
NotedMeansPublished ==
  \A w \in Writer : \A r \in current[w] \union noted[w] : copies[r] > 0

MishapsEnd == <>[][\A w \in Writer : ~Mishap(w)]_vars

(* Once failures, crashes and broken connections come to an end, however   *)
(* many there were, every flag the uploader takes is published and gets    *)
(* its receipt: nothing is forgotten in the outbox, and no lock is left    *)
(* behind.  ("Exp. backoff retry, bounded, then alert + park": a flag it   *)
(* does not take is set aside and holds nobody up.)                        *)
HealthyFlagsAreArchived ==
  MishapsEnd => \A r \in Row \ Poison : status[r] = "pending" ~> status[r] = "archived"

(* What an auditor sees of all this. *)
Trail == INSTANCE AuditTrail WITH
  Flag <- Row,
  recorded <- {r \in Row : status[r] # "absent"},
  published <- {r \in Row : copies[r] > 0},
  receipts <- {r \in Row : status[r] = "archived"}

KeepsAuditTrail == Trail!Spec
=============================================================================
