------------------------- MODULE ArweaveOutboxProofs -------------------------
(***************************************************************************)
(* Proofs about the outbox, for any rows, any number of writers, any batch *)
(* size and any poisoned rows.                                             *)
(*                                                                         *)
(* The inductive invariant ties three things together: which rows a writer *)
(* has in hand, which row locks its transaction holds, and the receipts.   *)
(* A writer whose transaction stands holds the lock of every row in its    *)
(* hands, so that nobody else can commit a receipt for one of them; and a  *)
(* row is noted only after its upload has returned.  From it follows that  *)
(* the outbox implements the audit trail.                                  *)
(***************************************************************************)
EXTENDS OutboxCopies, TLAPS

HandsRecorded == \A w \in Writer : \A r \in InHand(w) : status[r] # "absent"

(* Outside of a transaction a writer has nothing in hand. *)
HandsEmpty == \A w \in Writer : wpc[w] # "upload" => InHand(w) = {} /\ w \notin severed

OutboxInv ==
  /\ TypeOK
  /\ HandsEmpty
  /\ HandsRecorded
  /\ LocksCoverBatches
  /\ NoUploadOfArchived
  /\ NotedMeansPublished
  /\ ReceiptMeansPublished

(* The batch is a part of what can be selected. *)
LEMMA OldestIsSubset == ASSUME NEW S PROVE Oldest(S) \subseteq S
  BY DEF Oldest

(* An empty outbox and idle writers. *)
LEMMA OutboxInit == Init => OutboxInv
  BY OutboxAssumption, NoWriterAssumption
     DEF Init, OutboxInv, TypeOK, HandsEmpty, HandsRecorded, InHand, LocksCoverBatches,
         NoUploadOfArchived, NotedMeansPublished, ReceiptMeansPublished

-----------------------------------------------------------------------------
(* Type correctness, one action at a time. *)
LEMMA BackOffType ==
  ASSUME TypeOK, NEW w \in Writer, BackOff(w)
  PROVE  /\ backoff' \in [Writer -> 1 .. MaxBackoff]
         /\ wpc' \in [Writer -> {"select", "upload", "poll", "pause", "down"}]
  <1>1. (IF 2 * backoff[w] < MaxBackoff THEN 2 * backoff[w] ELSE MaxBackoff) \in 1 .. MaxBackoff
      BY OutboxAssumption DEF TypeOK
  <1> QED BY <1>1 DEF TypeOK, BackOff

(* The end of a transaction leaves well-typed locals and locks. *)
LEMMA TxnOverType ==
  ASSUME TypeOK, NEW w \in Writer, TxnOver(w)
  PROVE  /\ lock' \in [Row -> Writer \union {NoWriter}]
         /\ batch' \in [Writer -> SUBSET Row]
         /\ current' \in [Writer -> SUBSET Row]
         /\ noted' \in [Writer -> SUBSET Row]
         /\ severed' \in SUBSET Writer
  BY DEF TypeOK, TxnOver

(* A COMMIT turns noted rows, and only those, into archived ones. *)
LEMMA ReceiptsType ==
  ASSUME TypeOK, NEW w \in Writer, ReceiptsOf(w)
  PROVE  status' \in [Row -> {"absent", "pending", "archived"}]
  BY DEF TypeOK, ReceiptsOf

(* Every step of a writer keeps the types. *)
LEMMA WriterKeepsType ==
  ASSUME TypeOK, NEW w \in Writer, WriterStep(w)
  PROVE  TypeOK'
  <1>1. CASE Select(w)
      BY <1>1, OldestIsSubset DEF Select, Selectable, TypeOK
  <1>2. CASE SelectNothing(w) \/ Restart(w)
      BY <1>2, OutboxAssumption DEF SelectNothing, Restart, TypeOK, txnVars
  <1>3. ASSUME NEW r \in Row, Upload(w, r) PROVE TypeOK'
    <2>1. (IF copies[r] < 2 THEN copies[r] + 1 ELSE 2) \in 0 .. 2
        BY DEF TypeOK
    <2>2. copies' \in [Row -> 0 .. 2]
        BY <1>3, <2>1 DEF Upload, TypeOK
    <2> QED BY <1>3, <2>2 DEF Upload, TypeOK
  <1>4. ASSUME NEW r \in Row, Update(w, r) PROVE TypeOK'
      BY <1>4 DEF Update, TypeOK
  <1>5. CASE Commit(w)
      BY <1>5, TxnOverType, ReceiptsType, OutboxAssumption DEF Commit, TypeOK
  <1>6. CASE Fails(w)
      BY <1>6, TxnOverType, BackOffType DEF Fails, TypeOK
  <1>7. CASE CommitAnswerLost(w)
      BY <1>7, TxnOverType, BackOffType, ReceiptsType DEF CommitAnswerLost, TypeOK
  <1>8. CASE Wake(w)
      BY <1>8 DEF Wake, TypeOK, txnVars
  <1>9. CASE Sever(w)
      BY <1>9 DEF Sever, TypeOK
  <1>10. CASE Crash(w)
      BY <1>10, TxnOverType DEF Crash, TypeOK
  <1> QED BY <1>1, <1>2, <1>3, <1>4, <1>5, <1>6, <1>7, <1>8, <1>9, <1>10 DEF WriterStep

-----------------------------------------------------------------------------
(* What the end of a transaction leaves: w has nothing in hand and no lock, *)
(* and the others are where they were.                                      *)
LEMMA TxnOverFacts ==
  ASSUME TypeOK, NEW w \in Writer, TxnOver(w)
  PROVE  /\ InHand(w)' = {}
         /\ \A r \in Row : lock'[r] # w
         /\ w \notin severed'
         /\ \A v \in Writer \ {w} :
              /\ InHand(v)' = InHand(v)
              /\ current'[v] = current[v] /\ noted'[v] = noted[v]
              /\ v \in severed' <=> v \in severed
              /\ \A r \in Row : lock'[r] = v <=> lock[r] = v
  BY NoWriterAssumption DEF TypeOK, TxnOver, InHand

(* A transaction that ends without a receipt: rollback, crash. *)
LEMMA RollbackKeepsInv ==
  ASSUME OutboxInv, TypeOK', NEW w \in Writer, TxnOver(w), UNCHANGED <<status, copies>>,
         \A v \in Writer \ {w} : wpc'[v] = wpc[v]
  PROVE  OutboxInv'
  <1> USE DEF OutboxInv, TypeOK
  <1>1. HandsEmpty'
      BY TxnOverFacts DEF HandsEmpty
  <1>2. HandsRecorded'
      BY TxnOverFacts DEF HandsRecorded
  <1>3. LocksCoverBatches'
      BY TxnOverFacts DEF LocksCoverBatches
  <1>4. NoUploadOfArchived'
      BY TxnOverFacts DEF NoUploadOfArchived
  <1>5. NotedMeansPublished'
      BY TxnOverFacts DEF NotedMeansPublished, InHand
  <1>6. ReceiptMeansPublished'
      BY DEF ReceiptMeansPublished
  <1> QED BY <1>1, <1>2, <1>3, <1>4, <1>5, <1>6

(* A COMMIT: the receipts of w become visible.  No other writer whose      *)
(* transaction stands has one of these rows, because w holds their locks.  *)
LEMMA CommitKeepsInv ==
  ASSUME OutboxInv, TypeOK', NEW w \in Writer, BatchDone(w), ReceiptsOf(w), TxnOver(w),
         UNCHANGED copies, \A v \in Writer \ {w} : wpc'[v] = wpc[v]
  PROVE  OutboxInv'
  <1> USE DEF OutboxInv, TypeOK
  <1>1. HandsEmpty'
      BY TxnOverFacts DEF HandsEmpty
  <1>2. HandsRecorded'
      BY TxnOverFacts DEF HandsRecorded, ReceiptsOf, InHand
  <1>3. LocksCoverBatches'
      BY TxnOverFacts DEF LocksCoverBatches
  <1>4. NoUploadOfArchived'
    <2> SUFFICES ASSUME NEW v \in Writer, NEW r \in InHand(v)', v \notin severed'
                 PROVE  status'[r] = "pending"
        BY DEF NoUploadOfArchived
    <2>1. v # w /\ r \in InHand(v) /\ v \notin severed
        BY TxnOverFacts
    <2>2. r \in Row /\ lock[r] = v /\ status[r] = "pending"
        BY <2>1 DEF LocksCoverBatches, NoUploadOfArchived, InHand
    <2>3. r \notin noted[w]
        BY <2>1, <2>2 DEF BatchDone, LocksCoverBatches, InHand
    <2> QED BY <2>2, <2>3 DEF ReceiptsOf
  <1>5. NotedMeansPublished'
      BY TxnOverFacts DEF NotedMeansPublished, InHand
  <1>6. ReceiptMeansPublished'
      BY DEF ReceiptMeansPublished, ReceiptsOf, NotedMeansPublished
  <1> QED BY <1>1, <1>2, <1>3, <1>4, <1>5, <1>6

(* SKIP LOCKED: the rows a writer selects are in nobody else's hands. *)
LEMMA SelectKeepsInv ==
  ASSUME OutboxInv, TypeOK', NEW w \in Writer, Select(w)
  PROVE  OutboxInv'
  <1> USE DEF OutboxInv, TypeOK
  <1>1. InHand(w)' = Oldest(Selectable) /\ \A v \in Writer \ {w} : InHand(v)' = InHand(v)
      BY DEF Select, InHand, HandsEmpty
  <1>2. \A r \in Oldest(Selectable) : r \in Row /\ status[r] = "pending" /\ lock[r] = NoWriter
      BY OldestIsSubset DEF Selectable
  <1>3. HandsEmpty'
      BY <1>1 DEF Select, HandsEmpty
  <1>4. HandsRecorded'
      BY <1>1, <1>2 DEF Select, HandsRecorded
  <1>5. LocksCoverBatches'
    <2> SUFFICES ASSUME NEW v \in Writer, NEW r \in Row
                 PROVE  lock'[r] = v <=> (v \notin severed /\ r \in InHand(v)')
        BY DEF LocksCoverBatches, Select
    <2>0. lock[r] = v <=> (v \notin severed /\ r \in InHand(v))
        BY DEF LocksCoverBatches
    <2>1. CASE v = w
      <3>1. lock[r] # w /\ w \notin severed
          BY <2>0, <2>1 DEF Select, HandsEmpty
      <3> QED BY <1>1, <2>1, <3>1 DEF Select
    <2>2. CASE v # w
        BY <1>1, <1>2, <2>0, <2>2, NoWriterAssumption DEF Select
    <2> QED BY <2>1, <2>2
  <1>6. NoUploadOfArchived'
      BY <1>1, <1>2 DEF Select, NoUploadOfArchived
  <1>7. NotedMeansPublished' /\ ReceiptMeansPublished'
      BY DEF Select, NotedMeansPublished, ReceiptMeansPublished
  <1> QED BY <1>3, <1>4, <1>5, <1>6, <1>7

(* Upload and update keep the row in the hands of w, and the upload comes  *)
(* before the note.                                                        *)
LEMMA MoveKeepsInv ==
  ASSUME OutboxInv, TypeOK', NEW w \in Writer, NEW r \in Row, Upload(w, r) \/ Update(w, r)
  PROVE  OutboxInv'
  <1> USE DEF OutboxInv, TypeOK
  <1>1. \A v \in Writer : InHand(v)' = InHand(v)
    <2>1. CASE Upload(w, r)
        BY <2>1 DEF Upload, InHand
    <2>2. CASE Update(w, r)
        BY <2>2 DEF Update, InHand
    <2> QED BY <2>1, <2>2
  <1>2. UNCHANGED <<status, lock, wpc, severed>>
      BY DEF Upload, Update
  <1>3. \A q \in Row : copies[q] > 0 => copies'[q] > 0
    <2>1. CASE Upload(w, r)
        BY <2>1 DEF Upload
    <2>2. CASE Update(w, r)
        BY <2>2 DEF Update
    <2> QED BY <2>1, <2>2
  <1>4. NotedMeansPublished'
    <2>1. CASE Upload(w, r)
      <3>1. copies'[r] > 0
          BY <2>1 DEF Upload
      <3>2. \A v \in Writer : current'[v] \union noted'[v] \subseteq current[v] \union noted[v] \union {r}
          BY <2>1 DEF Upload
      <3> QED BY <1>3, <3>1, <3>2 DEF NotedMeansPublished
    <2>2. CASE Update(w, r)
      <3>1. \A v \in Writer : current'[v] \union noted'[v] \subseteq current[v] \union noted[v]
          BY <2>2 DEF Update
      <3> QED BY <1>3, <3>1 DEF NotedMeansPublished
    <2> QED BY <2>1, <2>2
  <1>5. HandsEmpty' /\ HandsRecorded' /\ LocksCoverBatches' /\ NoUploadOfArchived'
      BY <1>1, <1>2 DEF HandsEmpty, HandsRecorded, LocksCoverBatches, NoUploadOfArchived
  <1>6. ReceiptMeansPublished'
      BY <1>2, <1>3 DEF ReceiptMeansPublished
  <1> QED BY <1>4, <1>5, <1>6

(* A connection that breaks takes the locks away, and w out of the game. *)
LEMMA SeverKeepsInv ==
  ASSUME OutboxInv, TypeOK', NEW w \in Writer, Sever(w)
  PROVE  OutboxInv'
  BY NoWriterAssumption
     DEF OutboxInv, TypeOK, Sever, InHand, HandsEmpty, HandsRecorded, LocksCoverBatches,
         NoUploadOfArchived, NotedMeansPublished, ReceiptMeansPublished

(* Steps outside of any transaction. *)
LEMMA QuietKeepsInv ==
  ASSUME OutboxInv, TypeOK', NEW w \in Writer, SelectNothing(w) \/ Wake(w) \/ Restart(w)
  PROVE  OutboxInv'
  <1>1. UNCHANGED <<status, txnVars, copies>> /\ \A v \in Writer : wpc'[v] = "upload" => wpc[v] = "upload"
      BY DEF SelectNothing, Wake, Restart, OutboxInv, TypeOK
  <1>2. \A v \in Writer : wpc[v] = "upload" => wpc'[v] = "upload"
      BY DEF SelectNothing, Wake, Restart, OutboxInv, TypeOK
  <1> QED BY <1>1, <1>2 DEF txnVars, OutboxInv, InHand, HandsEmpty, HandsRecorded,
             LocksCoverBatches, NoUploadOfArchived, NotedMeansPublished, ReceiptMeansPublished

(* New flags are in nobody's hands yet. *)
LEMMA CommitsKeepsInv ==
  ASSUME OutboxInv, NEW S \in SUBSET Row, Commits(S)
  PROVE  OutboxInv'
  <1>1. UNCHANGED <<lock, wpc, batch, current, noted, severed, backoff, copies>>
      BY DEF Commits, txnVars
  <1>2. TypeOK'
      BY <1>1 DEF Commits, OutboxInv, TypeOK
  <1>3. \A v \in Writer : InHand(v)' = InHand(v) /\ InHand(v) \subseteq Row
      BY <1>1 DEF InHand, OutboxInv, TypeOK
  <1>4. \A r \in Row : status[r] # "absent" => status'[r] = status[r]
      BY DEF Commits
  <1>5. \A r \in Row : status'[r] = "archived" => status[r] = "archived"
      BY DEF Commits
  <1> QED BY <1>1, <1>2, <1>3, <1>4, <1>5 DEF OutboxInv, HandsEmpty, HandsRecorded,
             LocksCoverBatches, NoUploadOfArchived, NotedMeansPublished, ReceiptMeansPublished

(* Every step, of whichever writer, keeps the invariant. *)
LEMMA OutboxStepInv == OutboxInv /\ [Next]_vars => OutboxInv'
  <1> SUFFICES ASSUME OutboxInv, [Next]_vars PROVE OutboxInv'
      OBVIOUS
  <1>1. ASSUME NEW w \in Writer, WriterStep(w) PROVE OutboxInv'
    <2>1. TypeOK'
        BY <1>1, WriterKeepsType DEF OutboxInv
    <2>2. CASE Fails(w) \/ Crash(w)
      <3>1. TxnOver(w) /\ UNCHANGED <<status, copies>> /\ \A v \in Writer \ {w} : wpc'[v] = wpc[v]
          BY <2>2 DEF Fails, Crash, BackOff, OutboxInv, TypeOK
      <3> QED BY <2>1, <3>1, RollbackKeepsInv
    <2>3. CASE Commit(w) \/ CommitAnswerLost(w)
      <3>1. /\ BatchDone(w) /\ ReceiptsOf(w) /\ TxnOver(w) /\ UNCHANGED copies
            /\ \A v \in Writer \ {w} : wpc'[v] = wpc[v]
          BY <2>3 DEF Commit, CommitAnswerLost, BackOff, OutboxInv, TypeOK
      <3> QED BY <2>1, <3>1, CommitKeepsInv
    <2> QED BY <1>1, <2>1, <2>2, <2>3, SelectKeepsInv, MoveKeepsInv, SeverKeepsInv, QuietKeepsInv
            DEF WriterStep
  <1>2. CASE UNCHANGED vars
      BY <1>2 DEF vars, OutboxInv, TypeOK, InHand, HandsEmpty, HandsRecorded, LocksCoverBatches,
                  NoUploadOfArchived, NotedMeansPublished, ReceiptMeansPublished
  <1> QED BY <1>1, <1>2, CommitsKeepsInv DEF Next

(* The outbox keeps its inductive invariant in every run. *)
THEOREM OutboxInvariant == Spec => []OutboxInv
  BY OutboxInit, OutboxStepInv, PTL DEF Spec

(* The variables of the outbox keep their types. *)
THEOREM OutboxTypes == Spec => []TypeOK
  <1>1. OutboxInv => TypeOK
      BY DEF OutboxInv
  <1> QED BY <1>1, OutboxInvariant, PTL

(* The row locks cover exactly what the writers have in hand. *)
THEOREM NoDoubleHands == Spec => []LocksCoverBatches
  <1>1. OutboxInv => LocksCoverBatches
      BY DEF OutboxInv
  <1> QED BY <1>1, OutboxInvariant, PTL

(* No writer whose transaction stands uploads a row that has a receipt,    *)
(* with any number of writers, rows and failures.                          *)
THEOREM ArchivedRowsRest == Spec => []NoUploadOfArchived
  <1>1. OutboxInv => NoUploadOfArchived
      BY DEF OutboxInv
  <1> QED BY <1>1, OutboxInvariant, PTL

(* No receipt without a copy on Arweave, through every failure.            *)
THEOREM ReceiptsAreProofs == Spec => []ReceiptMeansPublished
  <1>1. OutboxInv => ReceiptMeansPublished
      BY DEF OutboxInv
  <1> QED BY <1>1, OutboxInvariant, PTL

-----------------------------------------------------------------------------
(* The refinement.  Only three steps are visible to an auditor: a COMMIT   *)
(* of new flags records them, an upload publishes one, and a COMMIT of a   *)
(* batch confirms the rows that were noted in it.                          *)
LEMMA TrailInit == Init => Trail!Init
  BY DEF Init, Trail!Init

(* A COMMIT, answered or not, confirms receipts of published, unconfirmed  *)
(* flags: this is where the invariant is needed.                           *)
LEMMA CommitIsConfirm ==
  ASSUME OutboxInv, NEW w \in Writer, BatchDone(w), ReceiptsOf(w), UNCHANGED copies
  PROVE  Trail!Confirm(noted[w])
  <1> USE DEF OutboxInv, TypeOK
  <1>1. \A r \in noted[w] : r \in Row /\ status[r] = "pending" /\ copies[r] > 0
      BY DEF BatchDone, NoUploadOfArchived, NotedMeansPublished, InHand
  <1>2. {r \in Row : status'[r] = "archived"} = {r \in Row : status[r] = "archived"} \union noted[w]
      BY DEF ReceiptsOf
  <1>3. {r \in Row : status'[r] # "absent"} = {r \in Row : status[r] # "absent"}
      BY <1>1 DEF ReceiptsOf
  <1> QED BY <1>1, <1>2, <1>3 DEF Trail!Confirm

(* An upload publishes a recorded flag. *)
LEMMA UploadIsPublish ==
  ASSUME OutboxInv, NEW w \in Writer, NEW r \in Row, Upload(w, r)
  PROVE  Trail!Publish(r)
  <1> USE DEF OutboxInv, TypeOK
  <1>1. status[r] # "absent"
      BY DEF Upload, HandsRecorded, InHand
  <1>2. {q \in Row : copies'[q] > 0} = {q \in Row : copies[q] > 0} \union {r}
      BY DEF Upload
  <1> QED BY <1>1, <1>2 DEF Upload, Trail!Publish

(* Every step of the outbox is a step of the audit trail, or none at all. *)
LEMMA TrailStep == OutboxInv /\ [Next]_vars => [Trail!Next]_(Trail!trail)
  <1> SUFFICES ASSUME OutboxInv, [Next]_vars PROVE [Trail!Next]_(Trail!trail)
      OBVIOUS
  <1>1. ASSUME NEW S \in SUBSET Row, Commits(S) PROVE Trail!Record(S)
    <2>1. \A r \in Row : status'[r] = IF r \in S THEN "pending" ELSE status[r]
        BY <1>1 DEF Commits
    <2>2. {r \in Row : status'[r] # "absent"} = {r \in Row : status[r] # "absent"} \union S
        BY <2>1
    <2>3. {r \in Row : status'[r] = "archived"} = {r \in Row : status[r] = "archived"}
        BY <1>1, <2>1 DEF Commits
    <2> QED BY <1>1, <2>2, <2>3 DEF Commits, Trail!Record
  <1>2. ASSUME NEW w \in Writer, WriterStep(w) PROVE [Trail!Next]_(Trail!trail)
    <2>1. CASE Commit(w) \/ CommitAnswerLost(w)
      <3>1. Trail!Confirm(noted[w])
          BY <2>1, CommitIsConfirm DEF Commit, CommitAnswerLost
      <3>2. noted[w] \in SUBSET Row
          BY DEF OutboxInv, TypeOK
      <3> QED BY <3>1, <3>2 DEF Trail!Next, Trail!Confirm
    <2>2. ASSUME NEW r \in Row, Upload(w, r) PROVE [Trail!Next]_(Trail!trail)
        BY <2>2, UploadIsPublish DEF Trail!Next
    <2>3. CASE UNCHANGED <<status, copies>>
        BY <2>3 DEF Trail!trail
    <2> QED BY <1>2, <2>1, <2>2, <2>3 DEF WriterStep, Select, SelectNothing, Update, Fails, Wake,
                                          Sever, Crash, Restart
  <1>3. CASE UNCHANGED vars
      BY <1>3 DEF vars, Trail!trail
  <1> QED BY <1>1, <1>2, <1>3 DEF Next, Trail!Next

(* To an auditor the outbox is the audit trail: flags are recorded,        *)
(* published and confirmed in this order, and nothing is withdrawn.        *)
THEOREM OutboxKeepsAuditTrail == Spec => KeepsAuditTrail
  BY TrailInit, TrailStep, OutboxInvariant, PTL DEF Spec, KeepsAuditTrail, Trail!Spec

-----------------------------------------------------------------------------
(* How a flag comes to have two copies.  As long as no transaction has     *)
(* dropped a row, its one copy belongs to the writer that has it in hand   *)
(* or to the receipt: a second upload would need a second writer with the  *)
(* row in hand, and the locks leave none.                                  *)
Uploaded(w) == current[w] \union noted[w]

(* A row leaves the batch when it is uploaded. *)
UploadedLeavesBatch == \A w \in Writer : batch[w] \intersect Uploaded(w) = {}

(* Whatever a severed writer has in hand is dropped. *)
SeveredIsDropped == \A w \in severed : InHand(w) \intersect Tracked \subseteq dropped

(* The copy of a row nobody dropped is accounted for. *)
CopyHasOwner ==
  \A r \in Tracked \ dropped :
    copies[r] > 0 => status[r] = "archived" \/ \E w \in Writer : r \in Uploaded(w)

CopiesInv ==
  /\ OutboxInv
  /\ UploadedLeavesBatch
  /\ SeveredIsDropped
  /\ CopyHasOwner
  /\ SecondCopyMeansRollback

(* Nothing is uploaded at the start. *)
LEMMA CopiesInit == CopyInit => CopiesInv
  <1> SUFFICES ASSUME CopyInit PROVE CopiesInv
      OBVIOUS
  <1>1. OutboxInv
      BY OutboxInit DEF CopyInit
  <1> QED BY <1>1, TrackedAssumption DEF CopyInit, Init, CopiesInv, UploadedLeavesBatch, Uploaded, SeveredIsDropped,
                      CopyHasOwner, SecondCopyMeansRollback

(* Every action keeps the uploaded rows apart from the rest of the batch.  *)
LEMMA StepKeepsBatchApart ==
  ASSUME OutboxInv, UploadedLeavesBatch, [Next]_vars
  PROVE  UploadedLeavesBatch'
  <1> USE DEF UploadedLeavesBatch, Uploaded, OutboxInv, TypeOK
  <1>1. ASSUME NEW w \in Writer, WriterStep(w) PROVE UploadedLeavesBatch'
    <2>1. CASE Select(w)
      <3>1. Uploaded(w) = {}
          BY <2>1 DEF Select, HandsEmpty, InHand
      <3> QED BY <2>1, <3>1 DEF Select
    <2>2. ASSUME NEW r \in Row, Upload(w, r) PROVE UploadedLeavesBatch'
        BY <2>2 DEF Upload
    <2>3. ASSUME NEW r \in Row, Update(w, r) PROVE UploadedLeavesBatch'
        BY <2>3 DEF Update
    <2>4. CASE Commit(w) \/ Fails(w) \/ CommitAnswerLost(w) \/ Crash(w)
      <3>1. TxnOver(w)
          BY <2>4 DEF Commit, Fails, CommitAnswerLost, Crash
      <3> QED BY <3>1 DEF TxnOver
    <2>5. CASE SelectNothing(w) \/ Wake(w) \/ Sever(w) \/ Restart(w)
        BY <2>5 DEF SelectNothing, Wake, Sever, Restart, txnVars
    <2> QED BY <1>1, <2>1, <2>2, <2>3, <2>4, <2>5 DEF WriterStep
  <1>2. CASE (\E S \in SUBSET Row : Commits(S)) \/ UNCHANGED vars
      BY <1>2 DEF Commits, txnVars, vars
  <1> QED BY <1>1, <1>2 DEF Next

(* Two writers never have one row in hand that nobody dropped. *)
LEMMA OneHandPerRow ==
  ASSUME CopiesInv, NEW r \in Tracked \ dropped, NEW v \in Writer, NEW w \in Writer,
         r \in InHand(v), r \in InHand(w)
  PROVE  v = w
  <1> USE TrackedAssumption
  <1>1. v \notin severed /\ w \notin severed
      BY DEF CopiesInv, SeveredIsDropped
  <1> QED BY <1>1 DEF CopiesInv, OutboxInv, LocksCoverBatches

(* A row that is uploaded was not on Arweave before, or has been dropped:  *)
(* this is the step where two copies could come from nowhere.              *)
LEMMA UploadIsFirst ==
  ASSUME CopiesInv, NEW w \in Writer, NEW r \in Tracked \ dropped, Upload(w, r)
  PROVE  copies[r] = 0
  <1> USE TrackedAssumption
  <1>1. r \in batch[w] /\ r \in InHand(w)
      BY DEF Upload, InHand
  <1>2. w \notin severed
      BY <1>1 DEF CopiesInv, SeveredIsDropped
  <1>3. status[r] = "pending"
      BY <1>1, <1>2 DEF CopiesInv, OutboxInv, NoUploadOfArchived
  <1>4. ASSUME NEW v \in Writer, r \in Uploaded(v) PROVE FALSE
    <2>1. r \in InHand(v)
        BY <1>4 DEF Uploaded, InHand
    <2>2. v = w
        BY <1>1, <2>1, OneHandPerRow
    <2> QED BY <1>1, <1>4, <2>2 DEF CopiesInv, UploadedLeavesBatch
  <1>5. ~(copies[r] > 0)
      BY <1>3, <1>4 DEF CopiesInv, CopyHasOwner
  <1> QED BY <1>5 DEF CopiesInv, OutboxInv, TypeOK

(* What a step may do to the copies: one upload, or nothing. *)
LEMMA CopiesGrowByUpload ==
  ASSUME TypeOK, [Next]_vars, NEW r \in Row, copies'[r] # copies[r]
  PROVE  \E w \in Writer : Upload(w, r)
  <1>1. ASSUME NEW w \in Writer, WriterStep(w) PROVE \E v \in Writer : Upload(v, r)
    <2>1. ASSUME NEW q \in Row, Upload(w, q) PROVE \E v \in Writer : Upload(v, r)
        BY <2>1 DEF Upload, TypeOK
    <2>2. CASE \A q \in Row : ~Upload(w, q)
      <3>1. copies' = copies
          BY <1>1, <2>2 DEF WriterStep, Select, SelectNothing, Update, Commit, Fails,
                            CommitAnswerLost, Wake, Sever, Crash, Restart
      <3> QED BY <3>1
    <2> QED BY <2>1, <2>2
  <1>2. CASE (\E S \in SUBSET Row : Commits(S)) \/ UNCHANGED vars
      BY <1>2 DEF Commits, vars
  <1> QED BY <1>1, <1>2 DEF Next

(* A receipt stays. *)
LEMMA ReceiptsStay ==
  ASSUME TypeOK, [Next]_vars, NEW r \in Row, status[r] = "archived"
  PROVE  status'[r] = "archived"
  <1>1. ASSUME NEW w \in Writer, WriterStep(w) PROVE status'[r] = "archived"
    <2>1. CASE ReceiptsOf(w)
        BY <2>1 DEF ReceiptsOf
    <2>2. CASE status' = status
        BY <2>2
    <2> QED BY <1>1, <2>1, <2>2 DEF WriterStep, Select, SelectNothing, Upload, Update, Commit,
                  Fails, CommitAnswerLost, Wake, Sever, Crash, Restart
  <1>2. CASE (\E S \in SUBSET Row : Commits(S)) \/ UNCHANGED vars
      BY <1>2 DEF Commits, vars
  <1> QED BY <1>1, <1>2 DEF Next

(* The invariant of the copies is inductive. *)
LEMMA CopiesStepInv == CopiesInv /\ [CopyNext]_copyVars => CopiesInv'
  <1> SUFFICES ASSUME CopiesInv, [CopyNext]_copyVars PROVE CopiesInv'
      OBVIOUS
  <1> USE TrackedAssumption
  <1>1. [Next]_vars
      BY DEF CopyNext, copyVars
  <1>2. OutboxInv /\ TypeOK /\ OutboxInv'
      BY <1>1, OutboxStepInv DEF CopiesInv, OutboxInv
  <1>3. UploadedLeavesBatch'
      BY <1>1, <1>2, StepKeepsBatchApart DEF CopiesInv
  <1>4. CASE CopyNext
    <2>0. dropped' = dropped \union NowDropped
        BY <1>4 DEF CopyNext
    <2>1. SeveredIsDropped'
      <3> SUFFICES ASSUME NEW w \in severed', NEW r \in InHand(w)', r \in Tracked PROVE r \in dropped'
          BY DEF SeveredIsDropped
      <3>1. w \in Writer /\ r \in Row
          BY <1>2 DEF OutboxInv, TypeOK, InHand
      <3>2. UploadsForNothing(w, r)'
          BY DEF UploadsForNothing
      <3> QED BY <2>0, <3>1, <3>2 DEF NowDropped
    <2>2. CopyHasOwner'
      <3> SUFFICES ASSUME NEW r \in Tracked, r \notin dropped', copies'[r] > 0,
                          status'[r] # "archived"
                   PROVE  \E w \in Writer : r \in Uploaded(w)'
          BY DEF CopyHasOwner
      <3>1. r \notin dropped /\ \A w \in Writer : ~LosesReceipt(w, r)
          BY <2>0 DEF NowDropped
      <3>2. CASE copies'[r] = copies[r]
        <4>1. status[r] # "archived"
            BY <1>1, <1>2, ReceiptsStay
        <4>2. PICK w \in Writer : r \in Uploaded(w)
            BY <3>1, <3>2, <4>1 DEF CopiesInv, CopyHasOwner
        <4> QED BY <3>1, <4>2 DEF LosesReceipt, Uploaded
      <3>3. CASE copies'[r] # copies[r]
        <4>1. PICK w \in Writer : Upload(w, r)
            BY <1>1, <1>2, <3>3, CopiesGrowByUpload
        <4>2. r \in current'[w]
            BY <1>2, <4>1 DEF Upload, TypeOK
        <4> QED BY <4>2 DEF Uploaded
      <3> QED BY <3>2, <3>3
    <2>3. SecondCopyMeansRollback'
      <3> SUFFICES ASSUME NEW r \in Tracked, copies'[r] > 1, r \notin dropped PROVE FALSE
          BY <2>0 DEF SecondCopyMeansRollback
      <3>1. ~(copies[r] > 1)
          BY DEF CopiesInv, SecondCopyMeansRollback
      <3>2. PICK w \in Writer : Upload(w, r)
          BY <1>1, <1>2, <3>1, CopiesGrowByUpload
      <3>3. copies[r] = 0
          BY <3>2, UploadIsFirst
      <3> QED BY <1>2, <3>2, <3>3 DEF Upload, TypeOK
    <2> QED BY <1>2, <1>3, <2>1, <2>2, <2>3 DEF CopiesInv
  <1>5. CASE UNCHANGED copyVars
    <2>1. SeveredIsDropped' /\ CopyHasOwner' /\ SecondCopyMeansRollback'
        BY <1>5 DEF copyVars, vars, CopiesInv, SeveredIsDropped, CopyHasOwner, Uploaded, InHand,
                    SecondCopyMeansRollback
    <2> QED BY <1>2, <1>3, <2>1 DEF CopiesInv
  <1> QED BY <1>4, <1>5

(* For any number of rows and writers, whichever are tracked: a flag has a second copy only if a  *)
(* transaction that uploaded it came to nothing.                           *)
THEOREM SecondCopiesAreRetries == CopySpec => []SecondCopyMeansRollback
  <1>1. CopiesInv => SecondCopyMeansRollback
      BY DEF CopiesInv
  <1> QED BY <1>1, CopiesInit, CopiesStepInv, PTL DEF CopySpec
=============================================================================
