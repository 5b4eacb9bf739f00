------------------------- MODULE FlagPipelineProofs -------------------------
(***************************************************************************)
(* Proofs about the pipeline, for any transactions, rules, requests and    *)
(* clients.                                                                *)
(*                                                                         *)
(* Everything rests on the sequence: an id is drawn once and is larger     *)
(* than every id in use, so a flush writes no row that anybody has seen,   *)
(* and a correction, whose target was visible before its own id was drawn, *)
(* points to a smaller one.  Visible rows never change, so what was true   *)
(* of the target at the check is true at the COMMIT and ever after.        *)
(***************************************************************************)
EXTENDS FlagPipeline, Extrema, FiniteSetTheorems

(* The sequence is ahead of every id in the table, and each id it has      *)
(* handed out has its row.                                                 *)
DrawnIds ==
  /\ \A i \in FlagId : i < nextId => table[i] \in Row
  /\ \A i \in visible : i < nextId
  /\ \A w \in Caster : \A i \in staged[w] : i < nextId

(* What a request has checked still holds. *)
TargetStands ==
  \A o \in Operator : pc[o] = "insert" => target[o] \in visible /\ table[target[o]].tx = tx[o]

PointsBack(i) ==
  table[i].rule = Correction =>
    /\ table[i].supersedes \in visible
    /\ table[i].supersedes < i
    /\ table[table[i].supersedes].tx = table[i].tx

(* Flushed rows are as well-formed as committed ones. *)
StagedPointBack == \A w \in Caster : \A i \in staged[w] : PointsBack(i)

SendsHaveFlag == \A w \in Caster : at[w] # NoClient => flag[w] # NoFlag

PipelineInv ==
  /\ TypeOK
  /\ DrawnIds
  /\ TargetStands
  /\ StagedPointBack
  /\ CorrectionsPointBack
  /\ SendsHaveFlag
  /\ StreamedIsQueryable

(* An empty table, and nobody at work. *)
LEMMA PipelineInit == Init => PipelineInv
  <1> SUFFICES ASSUME Init PROVE PipelineInv
      OBVIOUS
  <1>1. TypeOK
      BY PipelineAssumption DEF Init, BCInit, TypeOK, FLTypeOK, BCTypeOK, FlagId
  <1>2. DrawnIds /\ TargetStands /\ StagedPointBack /\ CorrectionsPointBack /\ SendsHaveFlag
      BY PipelineAssumption DEF Init, BCInit, DrawnIds, TargetStands, StagedPointBack,
             CorrectionsPointBack, SendsHaveFlag, FlagId
  <1>3. StreamedIsQueryable
      BY DEF Init, BCInit, StreamedIsQueryable
  <1> QED BY <1>1, <1>2, <1>3 DEF PipelineInv

-----------------------------------------------------------------------------
(* The broadcaster hands on ids it was given, and makes up none. *)
LEMMA BroadcasterKeepsType ==
  ASSUME BCTypeOK, SendsHaveFlag, BCNext
  PROVE  BCTypeOK'
  <1> USE DEF BCTypeOK
  <1>1. ASSUME NEW c \in Client, ClientStep(c) PROVE BCTypeOK'
    <2>1. CASE Accept(c)
        BY <2>1 DEF Accept, castVars
    <2>2. CASE Register(c)
        BY <2>2 DEF Register, castVars
    <2>3. CASE PeerCloses(c)
        BY <2>3 DEF PeerCloses, castVars
    <2>4. CASE Unregister(c)
        BY <2>4 DEF Unregister, castVars
    <2> QED BY <1>1, <2>1, <2>2, <2>3, <2>4 DEF ClientStep
  <1>2. ASSUME NEW w \in Caster, CastStep(w) PROVE BCTypeOK'
    <2>1. ASSUME NEW i \in FlagId, TakeCopy(w, i) PROVE BCTypeOK'
        BY <2>1 DEF TakeCopy
    <2>2. ASSUME NEW c \in Client, SendBegins(w, c) PROVE BCTypeOK'
        BY <2>2 DEF SendBegins
    <2>3. CASE SendReturns(w)
      <3>1. flag[w] \in FlagId
          BY <2>3 DEF SendReturns, SendsHaveFlag
      <3>2. \A c \in Client : Append(received[c], flag[w]) \in Seq(FlagId)
          BY <3>1
      <3>3. received' \in [Client -> Seq(FlagId)]
          BY <2>3, <3>2 DEF SendReturns
      <3> QED BY <2>3, <3>3 DEF SendReturns
    <2>4. CASE SendRaises(w)
        BY <2>4 DEF SendRaises
    <2>5. CASE CastEnds(w)
        BY <2>5 DEF CastEnds
    <2> QED BY <1>2, <2>1, <2>2, <2>3, <2>4, <2>5 DEF CastStep
  <1> QED BY <1>1, <1>2 DEF BCNext

(* The broadcaster only takes flags from what it was handed to stream. *)
LEMMA BroadcasterKeepsFlags ==
  ASSUME BCTypeOK, SendsHaveFlag, StreamedIsQueryable, BCNext, visible' = visible
  PROVE  SendsHaveFlag' /\ StreamedIsQueryable'
  <1> USE DEF BCTypeOK
  <1>1. ASSUME NEW c \in Client, ClientStep(c) PROVE SendsHaveFlag' /\ StreamedIsQueryable'
    <2>1. UNCHANGED castVars
        BY <1>1 DEF ClientStep, Accept, Register, PeerCloses, Unregister
    <2>2. \A d \in Client : received'[d] = received[d] \/ received'[d] = <<>>
        BY <1>1 DEF ClientStep, Accept, Register, PeerCloses, Unregister
    <2> QED BY <2>1, <2>2 DEF castVars, SendsHaveFlag, StreamedIsQueryable
  <1>2. ASSUME NEW w \in Caster, CastStep(w) PROVE SendsHaveFlag' /\ StreamedIsQueryable'
    <2>1. ASSUME NEW i \in FlagId, TakeCopy(w, i) PROVE SendsHaveFlag' /\ StreamedIsQueryable'
        BY <2>1 DEF TakeCopy, SendsHaveFlag, StreamedIsQueryable, FlagId, NoFlag
    <2>2. ASSUME NEW c \in Client, SendBegins(w, c) PROVE SendsHaveFlag' /\ StreamedIsQueryable'
        BY <2>2 DEF SendBegins, SendsHaveFlag, StreamedIsQueryable
    <2>3. CASE SendReturns(w)
      <3>1. flag[w] \in visible /\ flag[w] \in FlagId
          BY <2>3 DEF SendReturns, SendsHaveFlag, StreamedIsQueryable
      <3>2. \A c \in Client : \A k \in 1 .. Len(received'[c]) : received'[c][k] \in visible
        <4> SUFFICES ASSUME NEW c \in Client, NEW k \in 1 .. Len(received'[c])
                     PROVE  received'[c][k] \in visible
            OBVIOUS
        <4>1. CASE received'[c] = received[c]
            BY <4>1 DEF StreamedIsQueryable
        <4>2. CASE received'[c] = Append(received[c], flag[w])
            BY <3>1, <4>2 DEF StreamedIsQueryable
        <4> QED BY <2>3, <4>1, <4>2 DEF SendReturns
      <3>3. SendsHaveFlag'
          BY <2>3 DEF SendReturns, SendsHaveFlag
      <3> QED BY <2>3, <3>2, <3>3 DEF SendReturns, StreamedIsQueryable
    <2>4. CASE SendRaises(w)
        BY <2>4 DEF SendRaises, SendsHaveFlag, StreamedIsQueryable
    <2>5. CASE CastEnds(w)
        BY <2>5 DEF CastEnds, SendsHaveFlag, StreamedIsQueryable
    <2> QED BY <1>2, <2>1, <2>2, <2>3, <2>4, <2>5 DEF CastStep
  <1> QED BY <1>1, <1>2 DEF BCNext

(* A step of the broadcaster or of a client leaves the table alone, and   *)
(* delivers only what a caster holds.                                      *)
LEMMA BroadcasterKeepsInv ==
  ASSUME PipelineInv, BCNext, UNCHANGED flVars
  PROVE  PipelineInv'
  <1>1. TypeOK'
      BY BroadcasterKeepsType DEF PipelineInv, TypeOK, FLTypeOK, flVars
  <1>2. SendsHaveFlag' /\ StreamedIsQueryable'
      BY BroadcasterKeepsFlags DEF PipelineInv, TypeOK, flVars
  <1>3. DrawnIds' /\ TargetStands' /\ StagedPointBack' /\ CorrectionsPointBack'
      BY DEF PipelineInv, flVars, DrawnIds, TargetStands, StagedPointBack, CorrectionsPointBack,
             PointsBack
  <1> QED BY <1>1, <1>2, <1>3 DEF PipelineInv

-----------------------------------------------------------------------------
(* A flush writes a row under a new id: nothing visible or staged changes. *)
LEMMA InsertFacts ==
  ASSUME PipelineInv, NEW w \in Caster, NEW row \in Row, Insert(w, row)
  PROVE  /\ table' \in [FlagId -> Row \union {NoRow}]
         /\ staged' \in [Caster -> SUBSET FlagId]
         /\ nextId' \in 1 .. MaxId + 1
         /\ nextId \in FlagId /\ nextId' = nextId + 1 /\ table'[nextId] = row
         /\ \A i \in FlagId : i < nextId' => i < nextId \/ i = nextId
         /\ \A i \in FlagId : i < nextId => table'[i] = table[i]
         /\ \A v \in Caster : \A i \in staged'[v] : i \in staged[v] \/ i = nextId
  <1>1. nextId \in FlagId
      BY PipelineAssumption DEF Insert, PipelineInv, TypeOK, FLTypeOK, FlagId
  <1> QED BY <1>1, PipelineAssumption DEF Insert, PipelineInv, TypeOK, FLTypeOK, FlagId

(* A flush of a row that points back, if it is a correction. *)
LEMMA InsertKeepsInv ==
  ASSUME PipelineInv, NEW w \in Caster, NEW row \in Row, Insert(w, row),
         row.rule = Correction =>
           row.supersedes \in visible /\ table[row.supersedes].tx = row.tx,
         UNCHANGED <<pc, tx, target, visible, bcVars>>, FLTypeOK'
  PROVE  PipelineInv'
  <1> USE DEF PipelineInv
  <1>1. TypeOK'
      BY DEF TypeOK, BCTypeOK, bcVars
  <1>2. visible \subseteq FlagId /\ (\A v \in Caster : staged[v] \subseteq FlagId) /\ nextId \in Nat
      BY PipelineAssumption DEF TypeOK, FLTypeOK, FlagId
  <1>3. DrawnIds'
      BY <1>2, InsertFacts DEF DrawnIds, FlagId
  <1>4. \A i \in visible : table'[i] = table[i]
      BY <1>2, InsertFacts DEF DrawnIds
  <1>5. TargetStands'
      BY <1>4 DEF TargetStands
  <1>6. CorrectionsPointBack'
      BY <1>4 DEF CorrectionsPointBack
  <1>7. StagedPointBack'
    <2> SUFFICES ASSUME NEW v \in Caster, NEW i \in staged'[v] PROVE PointsBack(i)'
        BY DEF StagedPointBack
    <2>1. CASE i = nextId
      <3>1. table'[i] = row
          BY <2>1, InsertFacts
      <3>2. row.rule = Correction => row.supersedes < i
          BY <1>2, <2>1 DEF DrawnIds
      <3> QED BY <1>4, <3>1, <3>2 DEF PointsBack
    <2>2. CASE i \in staged[v]
      <3>1. table'[i] = table[i]
          BY <1>2, <2>2, InsertFacts DEF DrawnIds
      <3> QED BY <1>4, <2>2, <3>1 DEF StagedPointBack, PointsBack
    <2> QED BY <2>1, <2>2, InsertFacts
  <1>8. SendsHaveFlag' /\ StreamedIsQueryable'
      BY DEF SendsHaveFlag, StreamedIsQueryable, bcVars
  <1> QED BY <1>1, <1>3, <1>5, <1>6, <1>7, <1>8

(* A COMMIT makes the staged rows of w visible, and nothing else. *)
LEMMA PublishKeepsInv ==
  ASSUME PipelineInv, NEW w \in Caster,
         visible' = visible \union staged[w],
         staged' = [staged EXCEPT ![w] = {}],
         \A v \in Caster \ {w} : pc'[v] = pc[v],
         pc'[w] # "insert",
         UNCHANGED <<tx, target, table, nextId>>,
         UNCHANGED <<at, flag, received>>,
         todo' = todo \/ todo' = [todo EXCEPT ![w] = staged[w]],
         TypeOK'
  PROVE  PipelineInv'
  <1> USE DEF PipelineInv
  <1>1. visible \subseteq visible' /\ \A v \in Caster : staged'[v] \subseteq staged[v]
      BY DEF TypeOK, FLTypeOK
  <1>2. DrawnIds'
      BY <1>1 DEF DrawnIds
  <1>3. TargetStands'
      BY <1>1, PipelineAssumption DEF TargetStands
  <1>4. StagedPointBack'
      BY <1>1 DEF StagedPointBack, PointsBack
  <1>5. CorrectionsPointBack'
      BY <1>1 DEF CorrectionsPointBack, StagedPointBack, PointsBack
  <1>6. \A v \in Caster : todo'[v] \subseteq visible'
      BY <1>1 DEF StreamedIsQueryable, TypeOK, BCTypeOK
  <1>7. SendsHaveFlag' /\ StreamedIsQueryable'
      BY <1>1, <1>6 DEF SendsHaveFlag, StreamedIsQueryable
  <1> QED BY <1>2, <1>3, <1>4, <1>5, <1>7

(* Steps that write no row: the staged rows may be dropped, and a request  *)
(* enters its transaction with a target that stands.                       *)
LEMMA OtherKeepsInv ==
  ASSUME PipelineInv, UNCHANGED <<table, visible, nextId>>, UNCHANGED bcVars, FLTypeOK',
         \A w \in Caster : staged'[w] \subseteq staged[w],
         TargetStands'
  PROVE  PipelineInv'
  <1> USE DEF PipelineInv
  <1>1. TypeOK'
      BY DEF TypeOK, BCTypeOK, bcVars
  <1>2. DrawnIds' /\ StagedPointBack' /\ CorrectionsPointBack'
      BY DEF DrawnIds, StagedPointBack, CorrectionsPointBack, PointsBack
  <1>3. SendsHaveFlag' /\ StreamedIsQueryable'
      BY DEF SendsHaveFlag, StreamedIsQueryable, bcVars
  <1> QED BY <1>1, <1>2, <1>3

-----------------------------------------------------------------------------
(* The three ways in which the work on one transaction ends. *)
LEMMA EndsKeepInv ==
  ASSUME PipelineInv, NEW w \in Caster, TxnFails(w) \/ CommitAnswerLost(w) \/ StreamEnds(w)
  PROVE  PipelineInv'
  <1> USE DEF PipelineInv, TypeOK, FLTypeOK
  <1>1. CASE TxnFails(w)
    <2>1. FLTypeOK'
        BY <1>1 DEF TxnFails
    <2>2. \A v \in Caster : staged'[v] \subseteq staged[v]
        BY <1>1 DEF TxnFails
    <2>3. TargetStands'
        BY <1>1, PipelineAssumption DEF TxnFails, TargetStands
    <2> QED BY <1>1, <2>1, <2>2, <2>3, OtherKeepsInv DEF TxnFails
  <1>2. CASE CommitAnswerLost(w)
    <2>1. TypeOK'
        BY <1>2 DEF CommitAnswerLost, bcVars, BCTypeOK
    <2> QED BY <1>2, <2>1, PublishKeepsInv DEF CommitAnswerLost, bcVars
  <1>3. CASE StreamEnds(w)
    <2>1. FLTypeOK'
        BY <1>3 DEF StreamEnds
    <2>2. TargetStands'
        BY <1>3, PipelineAssumption DEF StreamEnds, TargetStands
    <2> QED BY <1>3, <2>1, <2>2, OtherKeepsInv DEF StreamEnds
  <1> QED BY <1>1, <1>2, <1>3

(* The steps of the screening consumer, up to its COMMIT. *)
LEMMA ConsumerKeepsInv ==
  ASSUME PipelineInv, ConsumerStep
  PROVE  PipelineInv'
  <1> USE DEF PipelineInv, TypeOK, FLTypeOK
  <1>0. Consumer \in Caster /\ \A o \in Operator : o # Consumer /\ o \in Caster
      BY PipelineAssumption
  <1>1. ASSUME NEW t \in Tx, Get(t) PROVE PipelineInv'
    <2>1. FLTypeOK'
        BY <1>0, <1>1 DEF Get
    <2>2. TargetStands'
        BY <1>0, <1>1 DEF Get, TargetStands
    <2> QED BY <1>1, <2>1, <2>2, OtherKeepsInv DEF Get
  <1>2. ASSUME NEW h \in SUBSET Rule, ScreenHits(h) PROVE PipelineInv'
    <2>1. FLTypeOK'
        BY <1>0, <1>2 DEF ScreenHits
    <2>2. TargetStands'
        BY <1>0, <1>2 DEF ScreenHits, TargetStands
    <2> QED BY <1>2, <2>1, <2>2, OtherKeepsInv DEF ScreenHits
  <1>3. CASE ScreenNothing
    <2>1. FLTypeOK'
        BY <1>0, <1>3 DEF ScreenNothing
    <2>2. TargetStands'
        BY <1>0, <1>3 DEF ScreenNothing, TargetStands
    <2> QED BY <1>3, <2>1, <2>2, OtherKeepsInv DEF ScreenNothing
  <1>4. ASSUME NEW r \in Rule, InsertHit(r) PROVE PipelineInv'
    <2> DEFINE row == [tx |-> tx[Consumer], rule |-> r, supersedes |-> 0]
    <2>1. row \in Row /\ row.rule # Correction
        BY <1>0, PipelineAssumption DEF Row, Correction
    <2>2. Insert(Consumer, row)
        BY <1>4 DEF InsertHit
    <2>3. FLTypeOK'
        BY <1>0, <1>4, <2>1, <2>2, InsertFacts DEF InsertHit
    <2> HIDE DEF row
    <2> QED BY <1>0, <1>4, <2>1, <2>2, <2>3, InsertKeepsInv DEF InsertHit
  <1>5. CASE CommitHits
    <2>1. TypeOK'
        BY <1>0, <1>5 DEF CommitHits, Commit, BCTypeOK
    <2> QED BY <1>0, <1>5, <2>1, PublishKeepsInv DEF CommitHits, Commit
  <1> QED BY <1>1, <1>2, <1>3, <1>4, <1>5 DEF ConsumerStep

(* The steps of a correction request, up to its COMMIT. *)
LEMMA OperatorKeepsInv ==
  ASSUME PipelineInv, NEW o \in Operator, OperatorStep(o)
  PROVE  PipelineInv'
  <1> USE DEF PipelineInv, TypeOK, FLTypeOK
  <1>0. o \in Caster /\ o # Consumer /\ Operator \subseteq Caster
      BY PipelineAssumption
  <1>1. ASSUME NEW i \in FlagId, CheckHead(o, i) PROVE PipelineInv'
    <2>1. table[i].tx \in Tx
      <3>1. table[i] \in Row
          BY <1>1 DEF CheckHead, DrawnIds
      <3> QED BY <3>1 DEF Row
    <2>2. FLTypeOK'
        BY <1>0, <1>1, <2>1 DEF CheckHead
    <2>3. TargetStands'
        BY <1>0, <1>1 DEF CheckHead, TargetStands
    <2> QED BY <1>1, <2>2, <2>3, OtherKeepsInv DEF CheckHead
  <1>2. CASE InsertCorrection(o)
    <2> DEFINE row == [tx |-> tx[o], rule |-> Correction, supersedes |-> target[o]]
    <2>1. row \in Row
        BY <1>0 DEF Row
    <2>2. row.supersedes \in visible /\ table[row.supersedes].tx = row.tx
        BY <1>2 DEF InsertCorrection, TargetStands
    <2>3. Insert(o, row)
        BY <1>2 DEF InsertCorrection
    <2>4. FLTypeOK'
        BY <1>0, <1>2, <2>1, <2>3, InsertFacts DEF InsertCorrection
    <2> HIDE DEF row
    <2> QED BY <1>0, <1>2, <2>1, <2>2, <2>3, <2>4, InsertKeepsInv DEF InsertCorrection
  <1>3. CASE CommitCorrection(o)
    <2>1. TypeOK'
        BY <1>0, <1>3 DEF CommitCorrection, Commit, BCTypeOK
    <2> QED BY <1>0, <1>3, <2>1, PublishKeepsInv DEF CommitCorrection, Commit
  <1> QED BY <1>1, <1>2, <1>3 DEF OperatorStep

(* A crash: what is staged is gone, what is visible stays. *)
LEMMA PipelineCrashKeepsInv ==
  ASSUME PipelineInv, Crash
  PROVE  PipelineInv'
  <1> USE DEF PipelineInv
  <1>1. FLTypeOK'
    <2>1. verdict' \in [Tx -> SUBSET Rule]
        BY DEF TypeOK, FLTypeOK, Crash
    <2> QED BY <2>1 DEF TypeOK, FLTypeOK, Crash
  <1>2. BCTypeOK'
      BY DEF TypeOK, BCTypeOK, Crash, BCCrash
  <1>3. DrawnIds' /\ TargetStands' /\ StagedPointBack' /\ CorrectionsPointBack'
      BY PipelineAssumption DEF Crash, DrawnIds, TargetStands, StagedPointBack,
             CorrectionsPointBack
  <1>4. SendsHaveFlag' /\ StreamedIsQueryable'
      BY DEF Crash, BCCrash, SendsHaveFlag, StreamedIsQueryable
  <1> QED BY <1>1, <1>2, <1>3, <1>4 DEF TypeOK

(* Every step keeps the invariant. *)
LEMMA PipelineStepInv == PipelineInv /\ [Next]_vars => PipelineInv'
  <1> SUFFICES ASSUME PipelineInv, [Next]_vars PROVE PipelineInv'
      OBVIOUS
  <1>1. CASE UNCHANGED vars
      BY <1>1, OtherKeepsInv DEF vars, flVars, PipelineInv, TypeOK, FLTypeOK, TargetStands
  <1> QED BY <1>1, ConsumerKeepsInv, OperatorKeepsInv, EndsKeepInv, BroadcasterKeepsInv,
             PipelineCrashKeepsInv DEF Next

(* The pipeline keeps its inductive invariant in every run.                *)
THEOREM PipelineInvariant == Spec => []PipelineInv
  BY PipelineInit, PipelineStepInv, PTL DEF Spec

(* The variables of the pipeline and the broadcaster keep their types.     *)
THEOREM PipelineTypes == Spec => []TypeOK
  <1>1. PipelineInv => TypeOK
      BY DEF PipelineInv
  <1> QED BY <1>1, PipelineInvariant, PTL

(* Nothing is streamed before it can be queried: not by the consumer, not  *)
(* by a correction, not after a failed COMMIT or a restart.                *)
THEOREM NothingIsStreamedEarly == Spec => []StreamedIsQueryable
  <1>1. PipelineInv => StreamedIsQueryable
      BY DEF PipelineInv
  <1> QED BY <1>1, PipelineInvariant, PTL

(* Correction chains lead back, through ever smaller ids of committed rows *)
(* of the same transaction, to a rule's flag: they cannot loop.            *)
THEOREM ChainsLeadBack == Spec => []CorrectionsPointBack
  <1>1. PipelineInv => CorrectionsPointBack
      BY DEF PipelineInv
  <1> QED BY <1>1, PipelineInvariant, PTL

-----------------------------------------------------------------------------
(* No step rewrites or withdraws a committed row. *)
LEMMA VisibleRowsStand ==
  ASSUME PipelineInv, [Next]_vars, NEW i \in visible
  PROVE  i \in visible' /\ table'[i] = table[i]
  <1> USE DEF PipelineInv, TypeOK, FLTypeOK
  <1>1. CASE UNCHANGED <<table, visible>>
      BY <1>1
  <1>2. CASE visible \subseteq visible' /\ UNCHANGED table
      BY <1>2
  <1>3. ASSUME NEW w \in Caster, NEW row \in Row, Insert(w, row), UNCHANGED visible
        PROVE  i \in visible' /\ table'[i] = table[i]
      BY <1>3, InsertFacts DEF DrawnIds
  <1>4. ASSUME NEW w \in Caster, Commit(w), UNCHANGED table
        PROVE  visible \subseteq visible' /\ UNCHANGED table
      BY <1>4 DEF Commit
  <1>5. Consumer \in Caster /\ Operator \subseteq Caster
      BY PipelineAssumption
  <1>6. CASE ConsumerStep
    <2>1. ASSUME NEW r \in Rule, InsertHit(r) PROVE i \in visible' /\ table'[i] = table[i]
      <3>1. [tx |-> tx[Consumer], rule |-> r, supersedes |-> 0] \in Row
          BY <1>5 DEF Row
      <3> QED BY <1>3, <1>5, <2>1, <3>1 DEF InsertHit
    <2> QED BY <1>1, <1>2, <1>4, <1>5, <1>6, <2>1
            DEF ConsumerStep, Get, ScreenHits, ScreenNothing, CommitHits
  <1>7. ASSUME NEW o \in Operator, OperatorStep(o) PROVE i \in visible' /\ table'[i] = table[i]
    <2>1. CASE InsertCorrection(o)
      <3>1. [tx |-> tx[o], rule |-> Correction, supersedes |-> target[o]] \in Row
          BY <1>5 DEF Row
      <3> QED BY <1>3, <1>5, <2>1, <3>1 DEF InsertCorrection
    <2> QED BY <1>1, <1>2, <1>4, <1>5, <1>7, <2>1 DEF OperatorStep, CheckHead, CommitCorrection
  <1>8. ASSUME NEW w \in Caster, TxnFails(w) \/ CommitAnswerLost(w) \/ StreamEnds(w)
        PROVE  i \in visible' /\ table'[i] = table[i]
      BY <1>8 DEF TxnFails, CommitAnswerLost, StreamEnds
  <1> QED BY <1>1, <1>6, <1>7, <1>8 DEF Next, Crash, flVars, vars

(* The table of flags is append-only, whoever writes to it.                *)
THEOREM FlagsAreAppendOnly == Spec => AppendOnly
  <1>1. PipelineInv /\ [Next]_vars => [\A i \in visible : i \in visible' /\ table'[i] = table[i]]_vars
      BY VisibleRowsStand
  <1> QED BY <1>1, PipelineInvariant, PTL DEF Spec, AppendOnly

-----------------------------------------------------------------------------
(* What a step can do to the table: write a row under a new id, make the   *)
(* rows of one task visible, or drop rows that nobody has seen.            *)
Draws ==
  \E w \in Caster : \E row \in Row : Insert(w, row) /\ FT!MayFollow(row) /\ UNCHANGED visible

Publishes ==
  /\ UNCHANGED <<table, nextId>>
  /\ \E w \in Caster : /\ visible' = visible \union staged[w]
                        /\ staged' = [staged EXCEPT ![w] = {}]

Drops ==
  /\ UNCHANGED <<table, nextId, visible>>
  /\ \/ UNCHANGED staged
     \/ \E w \in Caster : staged' = [staged EXCEPT ![w] = {}]
     \/ staged' = [w \in Caster |-> {}]

(* Every step is of one of the three kinds. *)
LEMMA StepKinds ==
  ASSUME PipelineInv, [Next]_vars
  PROVE  Draws \/ Publishes \/ Drops
  <1> USE DEF PipelineInv, TypeOK, FLTypeOK
  <1>0. Consumer \in Caster /\ Operator \subseteq Caster
      BY PipelineAssumption
  <1>1. CASE ConsumerStep
    <2>1. ASSUME NEW r \in Rule, InsertHit(r) PROVE Draws
      <3> DEFINE row == [tx |-> tx[Consumer], rule |-> r, supersedes |-> 0]
      <3>1. row \in Row /\ row.supersedes = 0 /\ row.rule \in Rule
          BY <1>0 DEF Row
      <3>2. Insert(Consumer, row) /\ UNCHANGED visible
          BY <2>1 DEF InsertHit
      <3> HIDE DEF row
      <3> QED BY <1>0, <3>1, <3>2 DEF Draws, FT!MayFollow
    <2>2. ASSUME CommitHits PROVE Publishes
        BY <1>0, <2>2 DEF CommitHits, Commit, Publishes
    <2>3. ASSUME NEW t \in Tx, Get(t) PROVE Drops
        BY <2>3 DEF Get, Drops
    <2>4. ASSUME NEW h \in SUBSET Rule, ScreenHits(h) PROVE Drops
        BY <2>4 DEF ScreenHits, Drops
    <2>5. ASSUME ScreenNothing PROVE Drops
        BY <2>5 DEF ScreenNothing, Drops
    <2> QED BY <1>1, <2>1, <2>2, <2>3, <2>4, <2>5 DEF ConsumerStep
  <1>2. ASSUME NEW o \in Operator, OperatorStep(o) PROVE Draws \/ Publishes \/ Drops
    <2>1. ASSUME InsertCorrection(o) PROVE Draws
      <3> DEFINE row == [tx |-> tx[o], rule |-> Correction, supersedes |-> target[o]]
      <3>1. row \in Row /\ row.supersedes # 0 /\ row.rule = Correction
          BY <1>0 DEF Row, FlagId
      <3>2. row.supersedes \in visible /\ table[row.supersedes].tx = row.tx
          BY <2>1 DEF InsertCorrection, TargetStands
      <3>3. Insert(o, row) /\ UNCHANGED visible
          BY <2>1 DEF InsertCorrection
      <3> HIDE DEF row
      <3> QED BY <1>0, <3>1, <3>2, <3>3 DEF Draws, FT!MayFollow, FT!Correction, Correction
    <2>2. ASSUME CommitCorrection(o) PROVE Publishes
        BY <1>0, <2>2 DEF CommitCorrection, Commit, Publishes
    <2>3. ASSUME NEW i \in FlagId, CheckHead(o, i) PROVE Drops
        BY <2>3 DEF CheckHead, Drops
    <2> QED BY <1>2, <2>1, <2>2, <2>3 DEF OperatorStep
  <1>3. ASSUME NEW w \in Caster, TxnFails(w) PROVE Drops
      BY <1>3 DEF TxnFails, Drops
  <1>4. ASSUME NEW w \in Caster, CommitAnswerLost(w) PROVE Publishes
      BY <1>4 DEF CommitAnswerLost, Publishes
  <1>5. ASSUME NEW w \in Caster, StreamEnds(w) PROVE Drops
      BY <1>5 DEF StreamEnds, Drops
  <1>6. ASSUME Crash PROVE Drops
      BY <1>6 DEF Crash, Drops
  <1>7. ASSUME UNCHANGED flVars PROVE Drops
      BY <1>7 DEF flVars, Drops
  <1> QED BY <1>1, <1>2, <1>3, <1>4, <1>5, <1>6, <1>7 DEF Next, vars

(* No id is in two open transactions, so that a COMMIT or a rollback of    *)
(* one takes nothing from another; and only corrections supersede.         *)
StagedApart ==
  \A w, v \in Caster : w # v => staged[w] \intersect staged[v] = {}

OnlyCorrectionsSupersede ==
  \A i \in FlagId : i < nextId /\ table[i].supersedes # 0 => table[i].rule = Correction

(* A new id is in no other set, and the row under it may follow. *)
LEMMA TableShape ==
  ASSUME PipelineInv, StagedApart, OnlyCorrectionsSupersede, [Next]_vars
  PROVE  StagedApart' /\ OnlyCorrectionsSupersede'
  <1> USE DEF PipelineInv, TypeOK, FLTypeOK
  <1>1. CASE Draws
    <2> PICK w \in Caster, row \in Row : Insert(w, row) /\ FT!MayFollow(row) /\ UNCHANGED visible
        BY <1>1 DEF Draws
    <2>1. \A v \in Caster : nextId \notin staged[v]
        BY PipelineAssumption DEF DrawnIds
    <2>2. StagedApart'
        BY <2>1 DEF StagedApart, Insert
    <2>3. row.supersedes # 0 => row.rule = Correction
        BY DEF FT!MayFollow, FT!Correction, Correction
    <2>4. OnlyCorrectionsSupersede'
        BY <2>3, InsertFacts DEF OnlyCorrectionsSupersede
    <2> QED BY <2>2, <2>4
  <1>2. CASE Publishes
      BY <1>2 DEF Publishes, StagedApart, OnlyCorrectionsSupersede
  <1>3. CASE Drops
      BY <1>3 DEF Drops, StagedApart, OnlyCorrectionsSupersede
  <1> QED BY <1>1, <1>2, <1>3, StepKinds

(* The latest visible flag of a transaction has no successor, since a      *)
(* correction is later than what it corrects.                              *)
LEMMA LatestIsShown ==
  ASSUME PipelineInv, OnlyCorrectionsSupersede
  PROVE  FlaggedStaysVisible
  <1> USE DEF PipelineInv, TypeOK, FLTypeOK
  <1>1. SUFFICES ASSUME NEW i \in visible
                 PROVE  \E j \in visible : table[j].tx = table[i].tx /\ ~Superseded(j)
      BY DEF FlaggedStaysVisible
  <1> DEFINE S == {j \in visible : table[j].tx = table[i].tx}
  <1>2. PICK m \in S : \A s \in S : s <= m
    <2>1. \A s \in S : s \in Int /\ s <= MaxId
        BY PipelineAssumption DEF FlagId
    <2>2. S # {} /\ MaxId \in Int
        BY PipelineAssumption
    <2> HIDE DEF S
    <2> QED BY <2>1, <2>2, Greatest
  <1>3. ASSUME Superseded(m) PROVE FALSE
    <2> PICK k \in visible : table[k].supersedes = m
        BY <1>3 DEF Superseded
    <2>1. k \in FlagId /\ m \in FlagId /\ k < nextId /\ table[k].supersedes # 0
        BY DEF DrawnIds, FlagId
    <2>2. table[k].rule = Correction
        BY <2>1 DEF OnlyCorrectionsSupersede
    <2>3. m < k /\ k \in S
        BY <2>2 DEF CorrectionsPointBack
    <2> QED BY <1>2, <2>1, <2>3 DEF FlagId
  <1> QED BY <1>2, <1>3

StoreInv == PipelineInv /\ StagedApart /\ OnlyCorrectionsSupersede

(* No two transactions under way ever hold the same row, and only          *)
(* corrections supersede.                                                  *)
THEOREM StoreInvariant == Spec => []StoreInv
  <1>1. Init => StoreInv
    <2> SUFFICES ASSUME Init PROVE StagedApart /\ OnlyCorrectionsSupersede
        BY PipelineInit DEF StoreInv
    <2> QED BY PipelineAssumption DEF Init, StagedApart, OnlyCorrectionsSupersede, FlagId
  <1>2. StoreInv /\ [Next]_vars => StoreInv'
      BY PipelineStepInv, TableShape DEF StoreInv
  <1> QED BY <1>1, <1>2, PTL DEF Spec

(* Corrections never hide a flagged transaction altogether: the latest row *)
(* of a chain is shown by GET /flags.                                      *)
THEOREM FlaggedIsShown == Spec => []FlaggedStaysVisible
  <1>1. StoreInv => FlaggedStaysVisible
      BY LatestIsShown DEF StoreInv
  <1> QED BY <1>1, StoreInvariant, PTL

-----------------------------------------------------------------------------
Open == UNION {staged[w] : w \in Caster}

(* Ids that leave their transaction were committed, or abandoned. *)
LEMMA LeavingIsAStep ==
  ASSUME NEW S, S \subseteq FlagId, S \subseteq Open, Open' = Open \ S,
         UNCHANGED <<table, nextId>>,
         visible' = visible \union S \/ visible' = visible
  PROVE  FT!Next
  <1>1. S \in SUBSET FT!FlagId
      BY DEF FlagId, FT!FlagId
  <1>2. FT!Commit(S) \/ FT!Abandon(S)
      BY DEF FT!Commit, FT!Abandon, Open
  <1> QED BY <1>1, <1>2 DEF FT!Next

(* Each kind of step is a step of the table that readers are promised. *)
LEMMA StepOfTable == StoreInv /\ [Next]_vars => [FT!Next]_(FT!ftVars)
  <1> SUFFICES ASSUME StoreInv, [Next]_vars PROVE [FT!Next]_(FT!ftVars)
      OBVIOUS
  <1> USE DEF StoreInv, PipelineInv, TypeOK, FLTypeOK
  <1>1. Open \subseteq FlagId /\ \A w \in Caster : staged[w] \subseteq FlagId
      BY DEF Open
  <1>2. CASE Draws
    <2> PICK w \in Caster, row \in Row : Insert(w, row) /\ FT!MayFollow(row) /\ UNCHANGED visible
        BY <1>2 DEF Draws
    <2>1. Open' = Open \union {nextId}
        BY DEF Insert, Open
    <2>2. FT!Draw(row)
        BY <2>1 DEF Insert, FT!Draw, Open
    <2>3. row \in FT!Row
        BY DEF Row, FT!Row, FlagId, FT!FlagId, Correction, FT!Correction
    <2> QED BY <2>2, <2>3 DEF FT!Next
  <1>3. ASSUME NEW w \in Caster, staged' = [staged EXCEPT ![w] = {}]
        PROVE  Open' = Open \ staged[w] /\ staged[w] \subseteq Open
      BY <1>3 DEF StagedApart, Open
  <1>4. CASE Publishes
    <2> PICK w \in Caster : /\ visible' = visible \union staged[w]
                            /\ staged' = [staged EXCEPT ![w] = {}]
        BY <1>4 DEF Publishes
    <2> QED BY <1>1, <1>3, <1>4, LeavingIsAStep DEF Publishes
  <1>5. CASE Drops
    <2>1. ASSUME UNCHANGED staged PROVE UNCHANGED FT!ftVars
        BY <1>5, <2>1 DEF Drops, FT!ftVars
    <2>2. ASSUME NEW w \in Caster, staged' = [staged EXCEPT ![w] = {}] PROVE FT!Next
        BY <1>1, <1>3, <1>5, <2>2, LeavingIsAStep DEF Drops
    <2>3. ASSUME staged' = [w \in Caster |-> {}] PROVE FT!Next
      <3>1. Open' = Open \ Open
          BY <2>3 DEF Open
      <3> QED BY <1>1, <1>5, <3>1, LeavingIsAStep DEF Drops
    <2> QED BY <1>5, <2>1, <2>2, <2>3 DEF Drops
  <1> QED BY <1>2, <1>4, <1>5, StepKinds

(* To its readers the pipeline is the table FlagTable describes: whatever  *)
(* fails and whoever writes, ids grow, what is visible stays, and each     *)
(* correction names a visible flag of its transaction.                     *)
THEOREM ImplementsFlagTable == Spec => KeepsFlagTable
  <1>1. Init => FT!Init
    <2> SUFFICES ASSUME Init PROVE FT!Init
        OBVIOUS
    <2>1. UNION {staged[w] : w \in Caster} = {}
        BY DEF Init
    <2>2. table = [i \in FT!FlagId |-> FT!NoRow] /\ nextId = 1 /\ visible = {}
        BY DEF Init, FlagId, FT!FlagId, NoRow, FT!NoRow
    <2> QED BY <2>1, <2>2, Zenon DEF FT!Init
  <1> QED BY <1>1, StepOfTable, StoreInvariant, PTL DEF Spec, KeepsFlagTable, FT!Spec

-----------------------------------------------------------------------------
(* The consumer's open transaction holds the hits it has inserted, the     *)
(* rest are still to come, and no other flag has the same transaction: it  *)
(* was taken from the queue once, and a correction is no rule's flag.      *)
Taken == pc[Consumer] \in {"screen", "insert"}

Unflagged ==
  /\ \A t \in queue : FlagsOf(t) = {}
  /\ Taken => tx[Consumer] \notin queue /\ FlagsOf(tx[Consumer]) = {}

HitsInHand ==
  /\ pc[Consumer] # "insert" => staged[Consumer] = {}
  /\ \A i \in staged[Consumer] :
       table[i].tx = tx[Consumer] /\ table[i].rule \in Rule /\ table[i].rule \notin hits
  /\ \A i, j \in staged[Consumer] : table[i].rule = table[j].rule => i = j
  /\ pc[Consumer] = "insert" =>
       verdict[tx[Consumer]] = hits \union {table[i].rule : i \in staged[Consumer]}

OperatorsOnlyCorrect ==
  \A o \in Operator : \A i \in staged[o] : table[i].rule = Correction

HitsInv ==
  /\ PipelineInv
  /\ Unflagged
  /\ HitsInHand
  /\ OperatorsOnlyCorrect
  /\ AllHitsOrNone

(* Steps that leave the visible flags of rules alone, and the hits of      *)
(* every transaction but one that has no flag.                             *)
LEMMA SameFlags ==
  ASSUME NEW t,
         \A i \in visible' : i \in visible \/ table'[i].rule = Correction,
         \A i \in visible : i \in visible' /\ table'[i] = table[i]
  PROVE  FlagsOf(t)' = FlagsOf(t)
  BY DEF FlagsOf

(* Such steps leave every transaction with all of its flags or none.       *)
LEMMA AllHitsStand ==
  ASSUME AllHitsOrNone,
         \A t \in Tx : FlagsOf(t)' = FlagsOf(t),
         \A i \in visible : table'[i] = table[i],
         \A t \in Tx : verdict'[t] = verdict[t] \/ FlagsOf(t) = {}
  PROVE  AllHitsOrNone'
  <1> SUFFICES ASSUME NEW t \in Tx
               PROVE  /\ FlagsOf(t)' # {} => {table'[i].rule : i \in FlagsOf(t)'} = verdict'[t]
                      /\ \A i, j \in FlagsOf(t)' : table'[i].rule = table'[j].rule => i = j
      BY DEF AllHitsOrNone
  <1>1. FlagsOf(t)' = FlagsOf(t) /\ \A i \in FlagsOf(t) : table'[i] = table[i]
      BY DEF FlagsOf
  <1> DEFINE F == FlagsOf(t)
  <1>2. /\ F # {} => {table[i].rule : i \in F} = verdict[t]
        /\ \A i, j \in F : table[i].rule = table[j].rule => i = j
        /\ verdict'[t] = verdict[t] \/ F = {}
      BY DEF AllHitsOrNone
  <1>3. FlagsOf(t)' = F /\ \A i \in F : table'[i] = table[i]
      BY <1>1
  <1> HIDE DEF F
  <1> QED BY <1>2, <1>3

(* The steps of everybody but the consumer. *)
LEMMA OthersKeepHits ==
  ASSUME HitsInv, UNCHANGED <<queue, pc[Consumer], tx[Consumer], hits, verdict, staged[Consumer]>>,
         \A i \in visible' : i \in visible \/ table'[i].rule = Correction,
         \A i \in visible \union staged[Consumer] : table'[i] = table[i],
         visible \subseteq visible',
         PipelineInv', OperatorsOnlyCorrect'
  PROVE  HitsInv'
  <1> USE DEF HitsInv
  <1>1. \A t : FlagsOf(t)' = FlagsOf(t)
      BY SameFlags
  <1>2. AllHitsOrNone'
      BY <1>1, AllHitsStand
  <1>3. HitsInHand'
      BY DEF HitsInHand
  <1>4. Unflagged'
      BY <1>1 DEF Unflagged, Taken
  <1> QED BY <1>2, <1>3, <1>4

(* Corrections carry no rule's hit, and broadcasts write nothing. *)
LEMMA OperatorKeepsHits ==
  ASSUME HitsInv, PipelineInv', NEW o \in Operator,
         OperatorStep(o) \/ TxnFails(o) \/ CommitAnswerLost(o) \/ StreamEnds(o)
  PROVE  HitsInv'
  <1> USE DEF HitsInv, PipelineInv, TypeOK, FLTypeOK
  <1>0. o \in Caster /\ o # Consumer /\ Consumer \in Caster /\ Operator \subseteq Caster
      BY PipelineAssumption
  <1>1. UNCHANGED <<queue, pc[Consumer], tx[Consumer], hits, verdict, staged[Consumer]>>
      BY <1>0 DEF OperatorStep, CheckHead, InsertCorrection, Insert, CommitCorrection, Commit,
             TxnFails, CommitAnswerLost, StreamEnds
  <1>2. CASE InsertCorrection(o)
    <2> DEFINE row == [tx |-> tx[o], rule |-> Correction, supersedes |-> target[o]]
    <2>1. row \in Row /\ row.rule = Correction /\ Insert(o, row)
        BY <1>0, <1>2 DEF Row, InsertCorrection
    <2> HIDE DEF row
    <2>2. \A i \in visible \union staged[Consumer] : table'[i] = table[i]
        BY <1>0, <2>1, InsertFacts DEF DrawnIds
    <2>3. OperatorsOnlyCorrect'
      <3> SUFFICES ASSUME NEW v \in Operator, NEW i \in staged'[v]
                   PROVE  table'[i].rule = Correction
          BY DEF OperatorsOnlyCorrect
      <3>1. i \in staged[v] => table'[i] = table[i]
          BY <1>0, <2>1, InsertFacts DEF DrawnIds
      <3> QED BY <1>0, <2>1, <3>1, InsertFacts DEF OperatorsOnlyCorrect
    <2>4. visible' = visible
        BY <1>2 DEF InsertCorrection
    <2> QED BY <1>1, <2>2, <2>3, <2>4, OthersKeepHits
  <1>3. CASE CommitCorrection(o) \/ CommitAnswerLost(o)
    <2>1. /\ visible' = visible \union staged[o] /\ UNCHANGED table
          /\ \A v \in Caster : staged'[v] \subseteq staged[v]
        BY <1>0, <1>3 DEF CommitCorrection, Commit, CommitAnswerLost
    <2>2. OperatorsOnlyCorrect'
        BY <1>0, <2>1 DEF OperatorsOnlyCorrect
    <2>3. \A i \in visible' : i \in visible \/ table'[i].rule = Correction
        BY <2>1 DEF OperatorsOnlyCorrect
    <2> QED BY <1>1, <2>1, <2>2, <2>3, OthersKeepHits
  <1>4. CASE \/ \E i \in FlagId : CheckHead(o, i)
             \/ TxnFails(o) \/ StreamEnds(o)
    <2>1. /\ UNCHANGED <<table, visible>>
          /\ \A v \in Caster : staged'[v] \subseteq staged[v]
        BY <1>0, <1>4 DEF CheckHead, TxnFails, StreamEnds
    <2>2. OperatorsOnlyCorrect'
        BY <1>0, <2>1 DEF OperatorsOnlyCorrect
    <2> QED BY <1>1, <2>1, <2>2, OthersKeepHits
  <1> QED BY <1>2, <1>3, <1>4 DEF OperatorStep

(* The hits become visible together: those of a transaction without a flag. *)
LEMMA PublishedHits ==
  ASSUME HitsInv, PipelineInv', pc[Consumer] = "insert", hits = {},
         visible' = visible \union staged[Consumer],
         staged' = [staged EXCEPT ![Consumer] = {}],
         pc'[Consumer] \in {"ready", "stream"},
         UNCHANGED <<queue, tx, hits, table, verdict>>
  PROVE  HitsInv'
  <1> USE DEF HitsInv, PipelineInv, TypeOK, FLTypeOK
  <1>0. Consumer \in Caster /\ \A o \in Operator : o \in Caster /\ o # Consumer
      BY PipelineAssumption
  <1> DEFINE t0 == tx[Consumer]
  <1>1. \A t \in Tx : t # t0 => FlagsOf(t)' = FlagsOf(t)
      BY DEF FlagsOf, HitsInHand
  <1>2. FlagsOf(t0) = {} /\ t0 \notin queue /\ t0 \in Tx
      BY <1>0 DEF Unflagged, Taken
  <1>3. FlagsOf(t0)' = staged[Consumer]
    <2>1. \A i \in staged[Consumer] : table[i].rule # Correction
        BY PipelineAssumption DEF HitsInHand, Correction
    <2> QED BY <1>2, <2>1 DEF FlagsOf, HitsInHand
  <1>4. AllHitsOrNone'
    <2> SUFFICES ASSUME NEW t \in Tx
                 PROVE  /\ FlagsOf(t)' # {} => {table'[i].rule : i \in FlagsOf(t)'} = verdict'[t]
                        /\ \A i, j \in FlagsOf(t)' : table'[i].rule = table'[j].rule => i = j
        BY DEF AllHitsOrNone
    <2>1. CASE t = t0
      <3> DEFINE H == staged[Consumer]
      <3>1. FlagsOf(t)' = H /\ table' = table /\ verdict' = verdict
          BY <1>3, <2>1
      <3>2. verdict[t] = {table[i].rule : i \in H}
          BY <2>1 DEF HitsInHand
      <3>3. \A i, j \in H : table[i].rule = table[j].rule => i = j
          BY DEF HitsInHand
      <3> HIDE DEF H
      <3> QED BY <3>1, <3>2, <3>3
    <2>2. CASE t # t0
      <3> DEFINE F == FlagsOf(t)
      <3>1. FlagsOf(t)' = F /\ table' = table /\ verdict' = verdict
          BY <1>1, <2>2
      <3>2. /\ F # {} => {table[i].rule : i \in F} = verdict[t]
            /\ \A i, j \in F : table[i].rule = table[j].rule => i = j
          BY DEF AllHitsOrNone
      <3> HIDE DEF F
      <3> QED BY <3>1, <3>2
    <2> QED BY <2>1, <2>2
  <1>5. Unflagged'
      BY <1>1, <1>2 DEF Unflagged, Taken
  <1>6. HitsInHand' /\ OperatorsOnlyCorrect'
      BY <1>0 DEF HitsInHand, OperatorsOnlyCorrect
  <1> QED BY <1>4, <1>5, <1>6

(* Steps in which the consumer writes no row.  What it gives up, it gives  *)
(* up with the verdict.                                                    *)
LEMMA QuietKeepsHits ==
  ASSUME HitsInv, PipelineInv', UNCHANGED <<table, visible>>,
         \A o \in Operator : staged'[o] \subseteq staged[o],
         \A t \in Tx : verdict'[t] = verdict[t] \/ FlagsOf(t) = {},
         HitsInHand',
         queue' \subseteq queue,
         Taken' => tx'[Consumer] \notin queue' /\ FlagsOf(tx'[Consumer]) = {}
  PROVE  HitsInv'
  <1> USE DEF HitsInv
  <1>1. \A t : FlagsOf(t)' = FlagsOf(t)
      BY DEF FlagsOf
  <1>2. AllHitsOrNone'
      BY <1>1, AllHitsStand
  <1>3. OperatorsOnlyCorrect'
      BY DEF OperatorsOnlyCorrect
  <1>4. FlagsOf(tx'[Consumer]) = {} => FlagsOf(tx[Consumer])' = {}
      BY DEF FlagsOf
  <1>5. Unflagged'
      BY <1>1, <1>4 DEF Unflagged, Taken
  <1> QED BY <1>2, <1>3, <1>5

(* The consumer commits all hits of its transaction in one step, or none.  *)
LEMMA ConsumerKeepsHits ==
  ASSUME HitsInv, PipelineInv',
         \/ ConsumerStep \/ TxnFails(Consumer)
         \/ CommitAnswerLost(Consumer) \/ StreamEnds(Consumer)
  PROVE  HitsInv'
  <1> USE DEF HitsInv, PipelineInv, TypeOK, FLTypeOK
  <1>0. Consumer \in Caster /\ \A o \in Operator : o \in Caster /\ o # Consumer
      BY PipelineAssumption
  <1>1. ASSUME NEW t \in Tx, Get(t) PROVE HitsInv'
    <2>1. HitsInHand' /\ FlagsOf(tx'[Consumer]) = {} /\ tx'[Consumer] \notin queue'
        BY <1>0, <1>1 DEF Get, HitsInHand, Unflagged
    <2> QED BY <1>1, <2>1, QuietKeepsHits DEF Get
  <1>2. ASSUME NEW h \in SUBSET Rule, ScreenHits(h) PROVE HitsInv'
    <2>1. Taken /\ pc'[Consumer] = "insert" /\ staged[Consumer] = {}
        BY <1>0, <1>2 DEF ScreenHits, Taken, HitsInHand
    <2>2. HitsInHand'
        BY <1>0, <1>2, <2>1 DEF ScreenHits, HitsInHand
    <2>3. \A t \in Tx : verdict'[t] = verdict[t] \/ FlagsOf(t) = {}
        BY <1>2, <2>1 DEF ScreenHits, Unflagged
    <2> QED BY <1>2, <2>1, <2>2, <2>3, QuietKeepsHits DEF ScreenHits, Unflagged
  <1>3. CASE ScreenNothing \/ StreamEnds(Consumer)
    <2>1. HitsInHand' /\ ~Taken'
        BY <1>0, <1>3 DEF ScreenNothing, StreamEnds, HitsInHand, Taken
    <2> QED BY <1>3, <2>1, QuietKeepsHits DEF ScreenNothing, StreamEnds
  <1>4. ASSUME NEW r \in Rule, InsertHit(r) PROVE HitsInv'
    <2> DEFINE row == [tx |-> tx[Consumer], rule |-> r, supersedes |-> 0]
    <2>1. row \in Row /\ row.rule = r /\ row.tx = tx[Consumer] /\ Insert(Consumer, row)
        BY <1>0, <1>4 DEF Row, InsertHit
    <2> HIDE DEF row
    <2>2. /\ UNCHANGED <<queue, pc, tx, visible, verdict>> /\ hits' = hits \ {r} /\ r \in hits
          /\ pc[Consumer] = "insert"
        BY <1>4 DEF InsertHit
    <2>3. /\ staged'[Consumer] = staged[Consumer] \union {nextId}
          /\ \A o \in Operator : staged'[o] = staged[o]
        BY <1>0, <2>1 DEF Insert
    <2>4. /\ \A i \in visible : table'[i] = table[i]
          /\ \A w \in Caster : \A i \in staged[w] : table'[i] = table[i] /\ i # nextId
          /\ table'[nextId] = row
        BY <1>0, <2>1, InsertFacts, PipelineAssumption DEF DrawnIds
    <2>5. HitsInHand'
      <3>1. \A i \in staged'[Consumer] :
              table'[i].tx = tx'[Consumer] /\ table'[i].rule \in Rule /\ table'[i].rule \notin hits'
          BY <1>0, <2>1, <2>2, <2>3, <2>4 DEF HitsInHand
      <3>2. \A i, j \in staged'[Consumer] : table'[i].rule = table'[j].rule => i = j
          BY <1>0, <2>1, <2>2, <2>3, <2>4 DEF HitsInHand
      <3>3. {table'[i].rule : i \in staged'[Consumer]} = {table[i].rule : i \in staged[Consumer]} \union {r}
          BY <1>0, <2>1, <2>3, <2>4
      <3>4. verdict'[tx'[Consumer]] = hits' \union {table'[i].rule : i \in staged'[Consumer]}
          BY <2>2, <3>3 DEF HitsInHand
      <3> QED BY <2>2, <3>1, <3>2, <3>4 DEF HitsInHand
    <2>6. OperatorsOnlyCorrect'
        BY <1>0, <2>3, <2>4 DEF OperatorsOnlyCorrect
    <2>7. \A t : FlagsOf(t)' = FlagsOf(t)
        BY <2>2, <2>4, SameFlags
    <2>8. AllHitsOrNone'
        BY <2>2, <2>4, <2>7, AllHitsStand
    <2>9. Unflagged'
        BY <2>2, <2>7 DEF Unflagged, Taken
    <2> QED BY <2>5, <2>6, <2>8, <2>9
  <1>5. CASE CommitHits
      BY <1>0, <1>5, PublishedHits DEF CommitHits, Commit
  <1>6. CASE CommitAnswerLost(Consumer)
      BY <1>0, <1>6, PublishedHits DEF CommitAnswerLost
  <1>7. CASE TxnFails(Consumer)
    <2>1. Taken /\ ~Taken' /\ HitsInHand'
        BY <1>0, <1>7 DEF TxnFails, Taken, HitsInHand
    <2>2. \A t \in Tx : verdict'[t] = verdict[t] \/ FlagsOf(t) = {}
        BY <1>7, <2>1 DEF TxnFails, Unflagged
    <2> QED BY <1>0, <1>7, <2>1, <2>2, QuietKeepsHits DEF TxnFails
  <1> QED BY <1>1, <1>2, <1>3, <1>4, <1>5, <1>6, <1>7 DEF ConsumerStep

(* A crash between the verdict and the COMMIT loses both. *)
LEMMA CrashKeepsHits ==
  ASSUME HitsInv, PipelineInv', Crash
  PROVE  HitsInv'
  <1> USE DEF HitsInv, PipelineInv, TypeOK, FLTypeOK
  <1>0. Consumer \in Caster /\ \A o \in Operator : o \in Caster
      BY PipelineAssumption
  <1>1. HitsInHand' /\ ~Taken'
      BY <1>0 DEF Crash, HitsInHand, Taken
  <1>2. \A t \in Tx : verdict'[t] = verdict[t] \/ FlagsOf(t) = {}
      BY DEF Crash, Unflagged, Taken
  <1> QED BY <1>0, <1>1, <1>2, QuietKeepsHits DEF Crash

(* The pipeline keeps the hits of a transaction together. *)
LEMMA HitsStep == HitsInv /\ [Next]_vars => HitsInv'
  <1> SUFFICES ASSUME HitsInv, [Next]_vars PROVE HitsInv'
      OBVIOUS
  <1>1. PipelineInv'
      BY PipelineStepInv DEF HitsInv
  <1>2. ASSUME UNCHANGED flVars PROVE HitsInv'
    <2>1. HitsInHand'
        BY <1>2 DEF flVars, HitsInv, HitsInHand
    <2>2. Taken' => tx'[Consumer] \notin queue' /\ FlagsOf(tx'[Consumer]) = {}
        BY <1>2 DEF flVars, HitsInv, Unflagged, Taken
    <2> QED BY <1>1, <1>2, <2>1, <2>2, QuietKeepsHits DEF flVars
  <1>3. Caster = Operator \union {Consumer}
      BY PipelineAssumption
  <1> QED BY <1>1, <1>2, <1>3, ConsumerKeepsHits, OperatorKeepsHits, CrashKeepsHits DEF Next, vars

(* The hits of one transaction are stored together or not at all, and      *)
(* once: however inserts fail, a COMMIT's answer is lost or the process    *)
(* dies, no transaction is left with a part of its flags.                  *)
THEOREM HitsStandTogether == Spec => []AllHitsOrNone
  <1>1. Init => HitsInv
    <2> SUFFICES ASSUME Init PROVE Unflagged /\ HitsInHand /\ OperatorsOnlyCorrect /\ AllHitsOrNone
        BY PipelineInit DEF HitsInv
    <2>1. \A t : FlagsOf(t) = {}
        BY DEF Init, FlagsOf
    <2> QED BY <2>1, PipelineAssumption
            DEF Init, Unflagged, Taken, HitsInHand, OperatorsOnlyCorrect, AllHitsOrNone
  <1>2. HitsInv => AllHitsOrNone
      BY DEF HitsInv
  <1> QED BY <1>1, <1>2, HitsStep, PTL DEF Spec

-----------------------------------------------------------------------------
(* The requests that have passed the check for a flag, and have not ended  *)
(* their transaction.                                                      *)
Correcting(i) == {o \in Operator : pc[o] = "insert" /\ target[o] = i}

(* A request flushes one row, about its target; the consumer's supersede   *)
(* nothing.                                                                *)
OneRowEach ==
  /\ \A o \in Operator : \A j \in staged[o] :
       /\ pc[o] = "insert" /\ table[j].supersedes = target[o]
       /\ \A k \in staged[o] : j = k
  /\ \A j \in staged[Consumer] : table[j].supersedes = 0

(* Each successor has used up one of the requests that may still pass.     *)
RaceIsBounded ==
  \A i \in FlagId :
    Cardinality(SupersedersOf(i)) + Cardinality(Correcting(i)) <= Cardinality(Operator)

RaceInv == PipelineInv /\ OneRowEach /\ RaceIsBounded

(* Both sets are finite, whatever the table and the requests.              *)
LEMMA RaceIsFinite ==
  ASSUME FLTypeOK, NEW i
  PROVE  IsFiniteSet(SupersedersOf(i)) /\ IsFiniteSet(Correcting(i))
  <1>1. IsFiniteSet(FlagId)
      BY PipelineAssumption, FS_Interval DEF FlagId
  <1>2. SupersedersOf(i) \subseteq FlagId /\ Correcting(i) \subseteq Operator
      BY DEF SupersedersOf, Correcting, FLTypeOK
  <1> QED BY <1>1, <1>2, PipelineAssumption, FS_Subset

(* A finite part of a finite set has no more elements.                     *)
LEMMA PartIsSmaller ==
  ASSUME NEW T, IsFiniteSet(T), NEW S \in SUBSET T
  PROVE  Cardinality(S) \in Nat /\ Cardinality(T) \in Nat /\ Cardinality(S) <= Cardinality(T)
  BY FS_Subset, FS_CardinalityType

(* Nothing new is visible, and nobody has passed the check.                *)
LEMMA RaceShrinks ==
  ASSUME RaceInv,
         \A i \in FlagId : SupersedersOf(i)' \subseteq SupersedersOf(i),
         \A i \in FlagId : Correcting(i)' \subseteq Correcting(i)
  PROVE  RaceIsBounded'
  <1> SUFFICES ASSUME NEW i \in FlagId
               PROVE  Cardinality(SupersedersOf(i)') + Cardinality(Correcting(i)')
                        <= Cardinality(Operator)
      BY DEF RaceIsBounded
  <1>1. IsFiniteSet(SupersedersOf(i)) /\ IsFiniteSet(Correcting(i))
      BY RaceIsFinite DEF RaceInv, PipelineInv, TypeOK
  <1>2. /\ Cardinality(SupersedersOf(i)') <= Cardinality(SupersedersOf(i))
        /\ Cardinality(SupersedersOf(i)') \in Nat /\ Cardinality(SupersedersOf(i)) \in Nat
      BY <1>1, PartIsSmaller
  <1>3. /\ Cardinality(Correcting(i)') <= Cardinality(Correcting(i))
        /\ Cardinality(Correcting(i)') \in Nat /\ Cardinality(Correcting(i)) \in Nat
      BY <1>1, PartIsSmaller
  <1>4. Cardinality(Operator) \in Nat
      BY PipelineAssumption, FS_CardinalityType
  <1>5. Cardinality(SupersedersOf(i)) + Cardinality(Correcting(i)) <= Cardinality(Operator)
      BY DEF RaceInv, RaceIsBounded
  <1> QED BY <1>2, <1>3, <1>4, <1>5

(* A request that ends its transaction by a COMMIT trades its place for    *)
(* its row.                                                                *)
LEMMA PublishKeepsRace ==
  ASSUME RaceInv, NEW w \in Caster, pc[w] = "insert",
         visible' = visible \union staged[w],
         staged' = [staged EXCEPT ![w] = {}],
         \A v \in Caster : pc'[v] = IF v = w THEN pc'[w] ELSE pc[v],
         pc'[w] # "insert",
         UNCHANGED <<target, table>>
  PROVE  OneRowEach' /\ RaceIsBounded'
  <1> USE DEF RaceInv, PipelineInv, TypeOK, FLTypeOK
  <1>0. Consumer \in Caster /\ Operator \subseteq Caster /\ Consumer \notin Operator
      BY PipelineAssumption
  <1>1. OneRowEach'
      BY <1>0 DEF OneRowEach
  <1>2. \A i : Correcting(i)' = Correcting(i) \ {w}
      BY <1>0 DEF Correcting
  <1>3. CASE w = Consumer
    <2>1. \A i \in FlagId : SupersedersOf(i)' = SupersedersOf(i)
        BY <1>3 DEF SupersedersOf, OneRowEach, FlagId
    <2> QED BY <1>1, <1>2, <2>1, RaceShrinks
  <1>4. CASE w \in Operator
    <2> SUFFICES ASSUME NEW i \in FlagId
                 PROVE  Cardinality(SupersedersOf(i)') + Cardinality(Correcting(i)')
                          <= Cardinality(Operator)
        BY <1>1 DEF RaceIsBounded
    <2>1. IsFiniteSet(SupersedersOf(i)) /\ IsFiniteSet(Correcting(i))
        BY RaceIsFinite
    <2>2. Cardinality(SupersedersOf(i)) + Cardinality(Correcting(i)) <= Cardinality(Operator)
        BY DEF RaceIsBounded
    <2>3. CASE target[w] # i \/ staged[w] = {}
      <3>1. SupersedersOf(i)' = SupersedersOf(i)
          BY <1>4, <2>3 DEF SupersedersOf, OneRowEach
      <3>2. Cardinality(Correcting(i)') <= Cardinality(Correcting(i))
          BY <1>2, <2>1, PartIsSmaller
      <3>3. /\ Cardinality(SupersedersOf(i)) \in Nat /\ Cardinality(Correcting(i)) \in Nat
            /\ Cardinality(Correcting(i)') \in Nat /\ Cardinality(Operator) \in Nat
          BY <1>2, <2>1, PartIsSmaller, PipelineAssumption, FS_CardinalityType
      <3> QED BY <2>2, <3>1, <3>2, <3>3
    <2>4. CASE target[w] = i /\ staged[w] # {}
      <3> PICK j \in staged[w] : staged[w] = {j}
          BY <1>4, <2>4 DEF OneRowEach
      <3>1. SupersedersOf(i)' = SupersedersOf(i) \union {j}
          BY <1>4, <2>4 DEF SupersedersOf, OneRowEach
      <3>2. w \in Correcting(i)
          BY <1>4, <2>4 DEF Correcting
      <3>3. /\ Cardinality(SupersedersOf(i)) \in Nat
            /\ Cardinality(SupersedersOf(i)') <= Cardinality(SupersedersOf(i)) + 1
            /\ Cardinality(SupersedersOf(i)') \in Nat
        <4> DEFINE V == SupersedersOf(i)
                   n == Cardinality(V)
        <4>1. n \in Nat
            BY <2>1, FS_CardinalityType
        <4>2. Cardinality(V \union {j}) = IF j \in V THEN n ELSE n + 1
            BY <2>1, FS_AddElement
        <4>3. SupersedersOf(i)' = V \union {j}
            BY <3>1
        <4> HIDE DEF V, n
        <4>4. Cardinality(V \union {j}) \in Nat /\ Cardinality(V \union {j}) <= n + 1
            BY <4>1, <4>2
        <4> QED BY <4>1, <4>3, <4>4 DEF V, n
      <3>4. /\ Cardinality(Correcting(i)) \in Nat
            /\ Cardinality(Correcting(i)') = Cardinality(Correcting(i)) - 1
          BY <1>2, <2>1, <3>2, FS_RemoveElement, FS_CardinalityType
      <3>5. Cardinality(Operator) \in Nat
          BY PipelineAssumption, FS_CardinalityType
      <3> QED BY <2>2, <3>3, <3>4, <3>5
    <2> QED BY <2>3, <2>4
  <1> QED BY <1>0, <1>3, <1>4, PipelineAssumption

(* A flush: one row per request, and nothing is visible yet.               *)
LEMMA InsertKeepsRace ==
  ASSUME RaceInv, NEW w \in Caster, NEW row \in Row, Insert(w, row),
         row.supersedes = IF w = Consumer THEN 0 ELSE target[w],
         w # Consumer => pc[w] = "insert" /\ staged[w] = {},
         UNCHANGED <<pc, target, visible>>
  PROVE  OneRowEach' /\ RaceIsBounded'
  <1> USE DEF RaceInv, PipelineInv, TypeOK, FLTypeOK
  <1>0. Consumer \in Caster /\ Operator \subseteq Caster /\ Consumer \notin Operator
      BY PipelineAssumption
  <1>1. /\ \A i \in visible : table'[i] = table[i]
        /\ \A v \in Caster : \A i \in staged[v] : table'[i] = table[i]
        /\ table'[nextId] = row
        /\ \A v \in Caster : staged'[v] = IF v = w THEN staged[v] \union {nextId} ELSE staged[v]
    <2>1. /\ \A i \in FlagId : i < nextId => table'[i] = table[i]
          /\ table'[nextId] = row
        BY InsertFacts
    <2>2. \A v \in Caster : staged'[v] = IF v = w THEN staged[v] \union {nextId} ELSE staged[v]
        BY DEF Insert
    <2> QED BY <2>1, <2>2 DEF DrawnIds
  <1>2. OneRowEach'
    <2>1. ASSUME NEW o \in Operator
          PROVE  \A j \in staged'[o] : /\ pc'[o] = "insert" /\ table'[j].supersedes = target'[o]
                                       /\ \A k \in staged'[o] : j = k
      <3>1. CASE o = w
        <4>1. staged'[o] = {nextId} /\ pc'[o] = "insert"
            BY <1>0, <1>1, <3>1
        <4>2. table'[nextId].supersedes = target'[o]
            BY <1>0, <1>1, <3>1
        <4> QED BY <4>1, <4>2
      <3>2. CASE o # w
        <4>1. staged'[o] = staged[o] /\ \A j \in staged[o] : table'[j] = table[j]
            BY <1>0, <1>1, <3>2
        <4> QED BY <4>1 DEF OneRowEach
      <3> QED BY <3>1, <3>2
    <2>2. \A j \in staged'[Consumer] : table'[j].supersedes = 0
      <3>1. CASE w = Consumer
        <4>1. staged'[Consumer] = staged[Consumer] \union {nextId}
            BY <1>0, <1>1, <3>1
        <4>2. table'[nextId].supersedes = 0
            BY <1>0, <1>1, <3>1
        <4> QED BY <1>0, <1>1, <4>1, <4>2 DEF OneRowEach
      <3>2. CASE w # Consumer
        <4>1. staged'[Consumer] = staged[Consumer]
            BY <1>0, <1>1, <3>2
        <4> QED BY <1>0, <1>1, <4>1 DEF OneRowEach
      <3> QED BY <3>1, <3>2
    <2> QED BY <2>1, <2>2 DEF OneRowEach
  <1>3. \A i : SupersedersOf(i)' = SupersedersOf(i) /\ Correcting(i)' = Correcting(i)
      BY <1>1 DEF SupersedersOf, Correcting
  <1> QED BY <1>2, <1>3, RaceShrinks

(* Only a request that finds no successor joins the race.                  *)
LEMMA CheckKeepsRace ==
  ASSUME RaceInv, NEW o \in Operator, NEW i \in FlagId, CheckHead(o, i)
  PROVE  OneRowEach' /\ RaceIsBounded'
  <1> USE DEF RaceInv, PipelineInv, TypeOK, FLTypeOK
  <1>0. o \in Caster /\ Operator \subseteq Caster /\ Consumer \in Caster /\ o # Consumer
      BY PipelineAssumption
  <1>1. OneRowEach'
      BY <1>0 DEF OneRowEach, CheckHead
  <1>2. \A k : SupersedersOf(k)' = SupersedersOf(k)
      BY DEF SupersedersOf, CheckHead
  <1>3. SupersedersOf(i) = {}
      BY DEF SupersedersOf, CheckHead, Superseded
  <1> SUFFICES ASSUME NEW k \in FlagId
               PROVE  Cardinality(SupersedersOf(k)') + Cardinality(Correcting(k)')
                        <= Cardinality(Operator)
      BY <1>1 DEF RaceIsBounded
  <1>4. Cardinality(SupersedersOf(k)) + Cardinality(Correcting(k)) <= Cardinality(Operator)
      BY DEF RaceIsBounded
  <1>5. IsFiniteSet(SupersedersOf(k)) /\ IsFiniteSet(Correcting(k))
      BY RaceIsFinite
  <1>6. CASE k = i
    <2>1. Correcting(k)' \in SUBSET Operator
        BY DEF Correcting
    <2>2. /\ Cardinality(Correcting(k)') <= Cardinality(Operator)
          /\ Cardinality(Correcting(k)') \in Nat /\ Cardinality(Operator) \in Nat
        BY <2>1, PipelineAssumption, PartIsSmaller
    <2>3. Cardinality(SupersedersOf(k)') = 0
        BY <1>2, <1>3, <1>6, FS_EmptySet
    <2> QED BY <2>2, <2>3
  <1>7. CASE k # i
    <2>1. Correcting(k)' \in SUBSET Correcting(k)
        BY <1>0, <1>7 DEF Correcting, CheckHead
    <2>2. /\ Cardinality(Correcting(k)') <= Cardinality(Correcting(k))
          /\ Cardinality(Correcting(k)') \in Nat /\ Cardinality(Correcting(k)) \in Nat
        BY <1>5, <2>1, PartIsSmaller
    <2>3. Cardinality(SupersedersOf(k)) \in Nat /\ Cardinality(Operator) \in Nat
        BY <1>5, PipelineAssumption, FS_CardinalityType
    <2> QED BY <1>2, <1>4, <2>2, <2>3
  <1> QED BY <1>6, <1>7

(* Every step keeps the race within the requests that are in it.           *)
LEMMA RaceStep == RaceInv /\ [Next]_vars => RaceInv'
  <1> SUFFICES ASSUME RaceInv, [Next]_vars PROVE OneRowEach' /\ RaceIsBounded'
      BY PipelineStepInv DEF RaceInv
  <1> USE DEF RaceInv, PipelineInv, TypeOK, FLTypeOK
  <1>0. Consumer \in Caster /\ Operator \subseteq Caster /\ Consumer \notin Operator
      BY PipelineAssumption
  <1>1. ASSUME UNCHANGED <<table, visible, target>>,
               \A v \in Caster : \/ staged'[v] = {}
                                 \/ staged'[v] = staged[v] /\ (pc'[v] = "insert" <=> pc[v] = "insert"),
               \A v \in Operator : pc'[v] = "insert" => pc[v] = "insert"
        PROVE  OneRowEach' /\ RaceIsBounded'
    <2>1. OneRowEach'
        BY <1>0, <1>1 DEF OneRowEach
    <2>2. \A i : SupersedersOf(i)' = SupersedersOf(i) /\ Correcting(i)' \subseteq Correcting(i)
        BY <1>1 DEF SupersedersOf, Correcting
    <2> QED BY <2>1, <2>2, RaceShrinks
  <1>2. ASSUME ConsumerStep PROVE OneRowEach' /\ RaceIsBounded'
    <2>1. ASSUME NEW r \in Rule, InsertHit(r) PROVE OneRowEach' /\ RaceIsBounded'
      <3> DEFINE row == [tx |-> tx[Consumer], rule |-> r, supersedes |-> 0]
      <3>1. row \in Row /\ row.supersedes = 0 /\ Insert(Consumer, row)
          BY <1>0, <2>1 DEF Row, InsertHit
      <3> HIDE DEF row
      <3> QED BY <1>0, <2>1, <3>1, InsertKeepsRace DEF InsertHit
    <2>2. ASSUME CommitHits PROVE OneRowEach' /\ RaceIsBounded'
        BY <1>0, <2>2, PublishKeepsRace DEF CommitHits, Commit
    <2>3. ASSUME \/ \E t \in Tx : Get(t)
                 \/ \E h \in SUBSET Rule : ScreenHits(h)
                 \/ ScreenNothing
          PROVE  OneRowEach' /\ RaceIsBounded'
      <3>1. /\ UNCHANGED <<table, visible, target, staged>>
            /\ \A v \in Operator : pc'[v] = pc[v]
          BY <1>0, <2>3 DEF Get, ScreenHits, ScreenNothing
      <3>2. OneRowEach'
          BY <1>0, <3>1 DEF OneRowEach
      <3>3. \A i : SupersedersOf(i)' = SupersedersOf(i) /\ Correcting(i)' = Correcting(i)
          BY <3>1 DEF SupersedersOf, Correcting
      <3> QED BY <3>2, <3>3, RaceShrinks
    <2> QED BY <1>2, <2>1, <2>2, <2>3 DEF ConsumerStep
  <1>3. ASSUME NEW o \in Operator, OperatorStep(o) PROVE OneRowEach' /\ RaceIsBounded'
    <2>1. ASSUME InsertCorrection(o) PROVE OneRowEach' /\ RaceIsBounded'
      <3> DEFINE row == [tx |-> tx[o], rule |-> Correction, supersedes |-> target[o]]
      <3>1. row \in Row /\ row.supersedes = target[o] /\ Insert(o, row)
          BY <1>0, <2>1 DEF Row, InsertCorrection
      <3> HIDE DEF row
      <3> QED BY <1>0, <2>1, <3>1, InsertKeepsRace DEF InsertCorrection
    <2>2. ASSUME CommitCorrection(o) PROVE OneRowEach' /\ RaceIsBounded'
        BY <1>0, <2>2, PublishKeepsRace DEF CommitCorrection, Commit
    <2> QED BY <1>3, <2>1, <2>2, CheckKeepsRace DEF OperatorStep
  <1>4. ASSUME NEW w \in Caster, TxnFails(w) \/ StreamEnds(w) PROVE OneRowEach' /\ RaceIsBounded'
      BY <1>0, <1>1, <1>4 DEF TxnFails, StreamEnds
  <1>5. ASSUME NEW w \in Caster, CommitAnswerLost(w) PROVE OneRowEach' /\ RaceIsBounded'
      BY <1>5, PublishKeepsRace DEF CommitAnswerLost
  <1>6. ASSUME Crash PROVE OneRowEach' /\ RaceIsBounded'
      BY <1>0, <1>1, <1>6 DEF Crash
  <1>7. ASSUME UNCHANGED flVars PROVE OneRowEach' /\ RaceIsBounded'
      BY <1>1, <1>7 DEF flVars
  <1> QED BY <1>2, <1>3, <1>4, <1>5, <1>6, <1>7 DEF Next, vars

(* No flag has more successors than requests were about to correct it at   *)
(* once: the race the missing lock leaves open is the only one, and it     *)
(* ends with the first COMMIT.                                             *)
THEOREM RacesAreBounded == Spec => []SupersededPerRequest
  <1>1. Init => RaceInv
    <2> SUFFICES ASSUME Init PROVE OneRowEach /\ RaceIsBounded
        BY PipelineInit DEF RaceInv
    <2>1. OneRowEach
        BY PipelineAssumption DEF Init, OneRowEach
    <2>2. \A i \in FlagId : SupersedersOf(i) = {} /\ Correcting(i) = {}
        BY PipelineAssumption DEF Init, SupersedersOf, Correcting
    <2>3. Cardinality({}) = 0 /\ Cardinality(Operator) \in Nat
        BY PipelineAssumption, FS_EmptySet, FS_CardinalityType
    <2> QED BY <2>1, <2>2, <2>3 DEF RaceIsBounded
  <1>2. RaceInv => SupersededPerRequest
    <2> SUFFICES ASSUME RaceInv, NEW i \in FlagId
                 PROVE  Cardinality(SupersedersOf(i)) <= Cardinality(Operator)
        BY DEF SupersededPerRequest
    <2>1. IsFiniteSet(SupersedersOf(i)) /\ IsFiniteSet(Correcting(i))
        BY RaceIsFinite DEF RaceInv, PipelineInv, TypeOK
    <2>2. /\ Cardinality(SupersedersOf(i)) \in Nat /\ Cardinality(Correcting(i)) \in Nat
          /\ Cardinality(Operator) \in Nat
        BY <2>1, PipelineAssumption, FS_CardinalityType
    <2> QED BY <2>2 DEF RaceInv, RaceIsBounded
  <1> QED BY <1>1, <1>2, RaceStep, PTL DEF Spec

(* "but not double-superseding" is true of an operator who waits for the   *)
(* answer to one correction before he asks for the next.                   *)
THEOREM OneAtATimeIsEnough ==
  ASSUME NEW o, Operator = {o}
  PROVE  Spec => []SupersededOnce
  <1>1. PipelineInv /\ SupersededPerRequest => SupersededOnce
    <2> SUFFICES ASSUME PipelineInv, SupersededPerRequest, NEW i \in visible, NEW j \in visible,
                        table[i].supersedes = table[j].supersedes, table[i].supersedes # 0
                 PROVE  i = j
        BY DEF SupersededOnce
    <2> DEFINE f == table[i].supersedes
    <2>1. FLTypeOK /\ f \in FlagId
      <3>1. table[i] \in Row
          BY DEF PipelineInv, TypeOK, FLTypeOK, DrawnIds
      <3> QED BY <3>1 DEF PipelineInv, TypeOK, Row
    <2>2. Cardinality(SupersedersOf(f)) <= 1
        BY <2>1, FS_Singleton DEF SupersededPerRequest
    <2>3. IsFiniteSet(SupersedersOf(f))
        BY <2>1, RaceIsFinite
    <2>4. {i, j} \in SUBSET SupersedersOf(f)
        BY DEF SupersedersOf
    <2>5. Cardinality({i, j}) <= 1 /\ Cardinality({i, j}) \in Nat
        BY <2>2, <2>3, <2>4, PartIsSmaller
    <2>6. IsFiniteSet({i}) /\ Cardinality({i}) = 1
        BY FS_Singleton
    <2>7. i # j => Cardinality({i} \union {j}) = 2
        BY <2>6, FS_AddElement
    <2>8. {i} \union {j} = {i, j}
        OBVIOUS
    <2> QED BY <2>5, <2>7, <2>8
  <1> QED BY <1>1, PipelineInvariant, RacesAreBounded, PTL

-----------------------------------------------------------------------------
(* What a connection has heard, and whom a broadcast has yet to reach.     *)
Heard(c) == {received[c][k] : k \in 1 .. Len(received[c])}
Ahead(w) == copy[w] \union ({at[w]} \ {NoClient})

(* Each task broadcasts what it has committed itself, and only then.       *)
OwnFlags ==
  /\ \A w \in Caster :
       /\ pc[w] # "stream" => todo[w] = {}
       /\ flag[w] # NoFlag => flag[w] \in todo[w]
       /\ at[w] # NoClient => at[w] \notin copy[w]
       /\ staged[w] \intersect visible = {}
  /\ \A w, v \in Caster : w # v => todo[w] \intersect todo[v] = {}

(* No flag is heard before its turn, nor by a client it has yet to reach.  *)
NotYetHeard ==
  \A w \in Caster, c \in Client :
    /\ \A i \in todo[w] : i \in Heard(c) => i = flag[w]
    /\ flag[w] # NoFlag /\ c \in Ahead(w) => flag[w] \notin Heard(c)

(* A client that stays has heard the flag, or the broadcast is yet to come *)
(* to it.                                                                  *)
ServedOrAhead ==
  /\ \A w \in Caster : flag[w] # NoFlag =>
       \A c \in stayed[w] : peer[c] /\ (c \in Ahead(w) \/ flag[w] \in Heard(c))
  /\ \A c \in Client : handler[c] = "none" => ~peer[c]

StreamInv ==
  StoreInv /\ OwnFlags /\ NotYetHeard /\ ServedOrAhead /\ NobodyHearsTwice

(* What a step does to the broadcasts: nothing, hand over what it has      *)
(* committed, go on with one, or end them all.                             *)
LEMMA StreamStepKinds ==
  ASSUME StreamInv, [Next]_vars
  PROVE  \/ /\ UNCHANGED bcVars
            /\ \A w \in Caster : pc'[w] # "stream" => todo[w] = {}
         \/ \E w \in Caster : Commit(w) /\ pc[w] # "stream"
         \/ BCNext /\ UNCHANGED flVars
         \/ Crash
  <1> USE DEF StreamInv, StoreInv, PipelineInv, TypeOK, FLTypeOK, OwnFlags
  <1>0. Consumer \in Caster /\ Operator \subseteq Caster
      BY PipelineAssumption
  <1> DEFINE Quiet == /\ UNCHANGED bcVars
                      /\ \A w \in Caster : pc'[w] # "stream" => todo[w] = {}
  <1>1. ASSUME ConsumerStep PROVE Quiet \/ (Commit(Consumer) /\ pc[Consumer] # "stream")
    <2>1. \/ UNCHANGED bcVars /\ \A w \in Caster : pc'[w] = pc[w] \/ pc[w] # "stream"
          \/ (Commit(Consumer) /\ pc[Consumer] = "insert")
        BY <1>0, <1>1 DEF ConsumerStep, Get, ScreenHits, ScreenNothing, InsertHit, CommitHits
    <2> QED BY <2>1
  <1>2. ASSUME NEW o \in Operator, OperatorStep(o) PROVE Quiet \/ (Commit(o) /\ pc[o] # "stream")
    <2>1. \/ UNCHANGED bcVars /\ \A w \in Caster : pc'[w] = pc[w] \/ pc[w] # "stream"
          \/ (Commit(o) /\ pc[o] = "insert")
        BY <1>0, <1>2 DEF OperatorStep, CheckHead, InsertCorrection, CommitCorrection
    <2> QED BY <2>1
  <1>3. ASSUME NEW w \in Caster, TxnFails(w) \/ CommitAnswerLost(w) \/ StreamEnds(w) PROVE Quiet
      BY <1>3 DEF TxnFails, CommitAnswerLost, StreamEnds
  <1>4. ASSUME UNCHANGED vars PROVE Quiet
      BY <1>4 DEF vars, flVars
  <1> HIDE DEF Quiet
  <1>5. Quiet \/ (\E w \in Caster : Commit(w) /\ pc[w] # "stream") \/ (BCNext /\ UNCHANGED flVars) \/ Crash
      BY <1>0, <1>1, <1>2, <1>3, <1>4 DEF Next
  <1> QED BY <1>5 DEF Quiet

(* What is staged is not visible: ids are new, and a COMMIT takes its own. *)
LEMMA StagedStaysUnseen ==
  ASSUME StreamInv, [Next]_vars
  PROVE  \A w \in Caster : staged'[w] \intersect visible' = {}
  <1> USE DEF StreamInv, StoreInv, PipelineInv, TypeOK, FLTypeOK
  <1>1. CASE Draws
    <2> PICK w \in Caster, row \in Row : Insert(w, row) /\ UNCHANGED visible
        BY <1>1 DEF Draws
    <2>1. nextId \notin visible
        BY PipelineAssumption DEF DrawnIds
    <2> QED BY <2>1 DEF Insert, OwnFlags
  <1>2. CASE Publishes
      BY <1>2 DEF Publishes, OwnFlags, StagedApart
  <1>3. CASE Drops
      BY <1>3 DEF Drops, OwnFlags
  <1> QED BY <1>1, <1>2, <1>3, StepKinds

(* After a COMMIT its flags are nobody else's, and nobody has heard them.  *)
LEMMA HandOverKeepsStream ==
  ASSUME StreamInv, NEW w \in Caster, Commit(w), pc[w] # "stream",
         \A v \in Caster : staged'[v] \intersect visible' = {}
  PROVE  OwnFlags' /\ NotYetHeard' /\ ServedOrAhead' /\ NobodyHearsTwice'
  <1> USE DEF StreamInv, StoreInv, PipelineInv, TypeOK, FLTypeOK, BCTypeOK
  <1>1. /\ \A v \in Caster : todo'[v] = IF v = w THEN staged[w] ELSE todo[v]
        /\ \A v \in Caster : pc'[v] = IF v = w THEN "stream" ELSE pc[v]
        /\ UNCHANGED <<handler, peer, clients, flag, copy, at, dead, received, stayed>>
      BY DEF Commit
  <1>2. todo[w] = {} /\ flag[w] = NoFlag
      BY DEF OwnFlags
  <1>3. \A v \in Caster : todo[v] \subseteq visible
      BY DEF StreamedIsQueryable
  <1>4. \A c \in Client : Heard(c) \subseteq visible /\ Heard(c)' = Heard(c)
      BY <1>1 DEF StreamedIsQueryable, Heard
  <1>5. staged[w] \intersect visible = {}
      BY DEF OwnFlags
  <1>6. OwnFlags'
      BY <1>1, <1>2, <1>3, <1>5 DEF OwnFlags
  <1>7. NotYetHeard'
    <2> SUFFICES ASSUME NEW v \in Caster, NEW c \in Client
                 PROVE  /\ \A i \in todo'[v] : i \in Heard(c)' => i = flag'[v]
                        /\ flag'[v] # NoFlag /\ c \in Ahead(v)' => flag'[v] \notin Heard(c)'
        BY DEF NotYetHeard
    <2>1. Ahead(v)' = Ahead(v)
        BY <1>1 DEF Ahead
    <2>2. Heard(c)' = Heard(c) /\ Heard(c) \subseteq visible
        BY <1>4
    <2>3. /\ \A i \in todo[v] : i \in Heard(c) => i = flag[v]
          /\ flag[v] # NoFlag /\ c \in Ahead(v) => flag[v] \notin Heard(c)
        BY DEF NotYetHeard
    <2> QED BY <1>1, <1>2, <1>5, <2>1, <2>2, <2>3
  <1>8. ServedOrAhead'
      BY <1>1, <1>4 DEF ServedOrAhead, Ahead
  <1>9. NobodyHearsTwice'
      BY <1>1 DEF NobodyHearsTwice
  <1> QED BY <1>6, <1>7, <1>8, <1>9

(* Without a delivery: broadcasts go on, take up a flag, or end.           *)
LEMMA SilenceKeepsNotYetHeard ==
  ASSUME BCTypeOK, NotYetHeard,
         \A c \in Client : Heard(c)' \subseteq Heard(c),
         \A v \in Caster :
           \/ todo'[v] = todo[v] /\ flag'[v] = flag[v] /\ Ahead(v)' \subseteq Ahead(v)
           \/ todo'[v] = todo[v] /\ flag[v] = NoFlag /\ flag'[v] \in todo[v]
           \/ todo'[v] = todo[v] \ {flag[v]} /\ flag'[v] = NoFlag
  PROVE  NotYetHeard'
  <1> SUFFICES ASSUME NEW v \in Caster, NEW c \in Client
               PROVE  /\ \A i \in todo'[v] : i \in Heard(c)' => i = flag'[v]
                      /\ flag'[v] # NoFlag /\ c \in Ahead(v)' => flag'[v] \notin Heard(c)'
      BY DEF NotYetHeard
  <1>1. /\ \A i \in todo[v] : i \in Heard(c) => i = flag[v]
        /\ flag[v] # NoFlag /\ c \in Ahead(v) => flag[v] \notin Heard(c)
      BY DEF NotYetHeard
  <1>2. NoFlag \notin todo[v] /\ Ahead(v) \subseteq Client
      BY DEF BCTypeOK, FlagId, NoFlag, Ahead
  <1>3. Heard(c)' \subseteq Heard(c)
      OBVIOUS
  <1> QED BY <1>1, <1>2, <1>3

LEMMA SilenceKeepsServed ==
  ASSUME ServedOrAhead,
         \A c \in Client : handler'[c] = "none" => ~peer'[c],
         \A v \in Caster : flag'[v] # NoFlag => \A c \in stayed'[v] :
           \/ /\ flag'[v] = flag[v] /\ c \in stayed[v] /\ peer'[c] = peer[c]
              /\ Heard(c)' = Heard(c) /\ (c \in Ahead(v) => c \in Ahead(v)')
           \/ peer'[c] /\ c \in Ahead(v)'
  PROVE  ServedOrAhead'
  <1> SUFFICES ASSUME NEW v \in Caster, flag'[v] # NoFlag, NEW c \in stayed'[v]
               PROVE  peer'[c] /\ (c \in Ahead(v)' \/ flag'[v] \in Heard(c)')
      BY DEF ServedOrAhead
  <1>1. \/ /\ flag'[v] = flag[v] /\ c \in stayed[v] /\ peer'[c] = peer[c]
           /\ Heard(c)' = Heard(c) /\ (c \in Ahead(v) => c \in Ahead(v)')
        \/ peer'[c] /\ c \in Ahead(v)'
      OBVIOUS
  <1>2. flag[v] # NoFlag /\ c \in stayed[v] => peer[c] /\ (c \in Ahead(v) \/ flag[v] \in Heard(c))
      BY DEF ServedOrAhead
  <1> QED BY <1>1, <1>2

(* Clients come and go: a new connection has heard nothing.                *)
LEMMA ClientKeepsStream ==
  ASSUME StreamInv, NEW c \in Client, ClientStep(c), UNCHANGED flVars
  PROVE  OwnFlags' /\ NotYetHeard' /\ ServedOrAhead' /\ NobodyHearsTwice'
  <1> USE DEF StreamInv, StoreInv, PipelineInv, TypeOK, FLTypeOK, BCTypeOK
  <1>1. UNCHANGED <<todo, flag, copy, at>> /\ \A w \in Caster : Ahead(w)' = Ahead(w)
      BY DEF ClientStep, Accept, Register, PeerCloses, Unregister, castVars, Ahead
  <1>2. OwnFlags'
      BY <1>1 DEF OwnFlags, flVars
  <1>3. \A d \in Client : received'[d] = received[d] \/ received'[d] = <<>>
      BY DEF ClientStep, Accept, Register, PeerCloses, Unregister
  <1>4. \A d \in Client : Heard(d)' = Heard(d) \/ Heard(d)' = {}
      BY <1>3 DEF Heard
  <1>5. NotYetHeard'
    <2>1. \A d \in Client : Heard(d)' \subseteq Heard(d)
        BY <1>4
    <2> QED BY <1>1, <2>1, SilenceKeepsNotYetHeard
  <1>6. NobodyHearsTwice'
      BY <1>3 DEF NobodyHearsTwice
  <1>7. ServedOrAhead'
    <2>1. ASSUME NEW v \in Caster, NEW d \in stayed'[v], flag[v] # NoFlag
          PROVE  d \in stayed[v] /\ peer'[d] = peer[d] /\ received'[d] = received[d]
      <3>1. d \in stayed[v] /\ (PeerCloses(c) => d # c)
          BY <2>1 DEF ClientStep, Accept, Register, PeerCloses, Unregister
      <3>2. peer[d] /\ handler[d] # "none"
          BY <2>1, <3>1 DEF ServedOrAhead
      <3> QED BY <3>1, <3>2 DEF ClientStep, Accept, Register, PeerCloses, Unregister
    <2>2. \A d \in Client : handler'[d] = "none" => ~peer'[d]
        BY DEF ClientStep, Accept, Register, PeerCloses, Unregister, ServedOrAhead
    <2>3. ASSUME NEW v \in Caster, flag'[v] # NoFlag, NEW d \in stayed'[v]
          PROVE  /\ flag'[v] = flag[v] /\ d \in stayed[v] /\ peer'[d] = peer[d]
                 /\ Heard(d)' = Heard(d) /\ (d \in Ahead(v) => d \in Ahead(v)')
      <3>1. d \in stayed[v] /\ peer'[d] = peer[d] /\ received'[d] = received[d]
          BY <1>1, <2>1, <2>3
      <3>2. Heard(d)' = Heard(d)
          BY <3>1 DEF Heard
      <3> QED BY <1>1, <3>1, <3>2
    <2> QED BY <2>2, <2>3, SilenceKeepsServed
  <1> QED BY <1>2, <1>5, <1>6, <1>7

(* A send that returns: its client hears the flag for the first time.      *)
LEMMA SendKeepsStream ==
  ASSUME StreamInv, NEW w \in Caster, SendReturns(w), UNCHANGED flVars
  PROVE  OwnFlags' /\ NotYetHeard' /\ ServedOrAhead' /\ NobodyHearsTwice'
  <1> USE DEF StreamInv, StoreInv, PipelineInv, TypeOK, FLTypeOK, BCTypeOK
  <1>1. /\ at[w] # NoClient /\ flag[w] # NoFlag /\ flag[w] \in FlagId /\ flag[w] \in todo[w]
        /\ at[w] \in Client /\ at[w] \notin copy[w]
        /\ UNCHANGED <<handler, peer, todo, flag, copy, stayed>>
        /\ \A v \in Caster : at'[v] = IF v = w THEN NoClient ELSE at[v]
      BY DEF SendReturns, SendsHaveFlag, OwnFlags
  <1>2. \A c \in Client : received'[c] = IF c = at[w] /\ peer[c] THEN Append(received[c], flag[w])
                                        ELSE received[c]
      BY DEF SendReturns
  <1>3. \A c \in Client : Heard(c)' = IF c = at[w] /\ peer[c] THEN Heard(c) \union {flag[w]}
                                     ELSE Heard(c)
    <2> SUFFICES ASSUME NEW c \in Client
                 PROVE  Heard(c)' = IF c = at[w] /\ peer[c] THEN Heard(c) \union {flag[w]}
                                    ELSE Heard(c)
        OBVIOUS
    <2> DEFINE s == received[c]
    <2>1. s \in Seq(FlagId)
        OBVIOUS
    <2>2. CASE c = at[w] /\ peer[c]
      <3> DEFINE u == Append(s, flag[w])
      <3>1. received'[c] = u
          BY <1>2, <2>2
      <3>2. /\ Len(u) = Len(s) + 1 /\ Len(s) \in Nat
            /\ \A k \in 1 .. Len(s) : u[k] = s[k]
            /\ u[Len(s) + 1] = flag[w]
          BY <1>1, <2>1
      <3> HIDE DEF u, s
      <3>3. 1 .. Len(u) = (1 .. Len(s)) \union {Len(s) + 1}
          BY <3>2
      <3>4. {u[k] : k \in 1 .. Len(u)} = {s[k] : k \in 1 .. Len(s)} \union {flag[w]}
        <4> DEFINE A == {u[k] : k \in 1 .. Len(u)}
                   B == {s[k] : k \in 1 .. Len(s)}
        <4>1. A \subseteq B \union {flag[w]}
            BY <3>2, <3>3
        <4>2. B \subseteq A
            BY <3>2, <3>3
        <4>3. flag[w] \in A
            BY <3>2, <3>3
        <4> HIDE DEF A, B
        <4>4. A = B \union {flag[w]}
            BY <4>1, <4>2, <4>3
        <4> QED BY <4>4 DEF A, B
      <3>5. Heard(c)' = {u[k] : k \in 1 .. Len(u)} /\ Heard(c) = {s[k] : k \in 1 .. Len(s)}
          BY <3>1 DEF Heard, s
      <3> QED BY <2>2, <3>4, <3>5
    <2>3. CASE ~(c = at[w] /\ peer[c])
        BY <1>2, <2>3 DEF Heard
    <2> QED BY <2>2, <2>3
  <1>4. at[w] \in Ahead(w) /\ flag[w] \notin Heard(at[w])
      BY <1>1 DEF NotYetHeard, Ahead
  <1>5. \A v \in Caster : Ahead(v)' = IF v = w THEN Ahead(v) \ {at[w]} ELSE Ahead(v)
      BY <1>1 DEF Ahead
  <1>6. OwnFlags'
      BY <1>1 DEF OwnFlags, flVars
  <1>7. \A v \in Caster : v # w => flag[w] \notin todo[v]
      BY <1>1 DEF OwnFlags
  <1>8. NotYetHeard'
    <2> SUFFICES ASSUME NEW v \in Caster, NEW c \in Client
                 PROVE  /\ \A i \in todo[v] : i \in Heard(c)' => i = flag[v]
                        /\ flag[v] # NoFlag /\ c \in Ahead(v)' => flag[v] \notin Heard(c)'
        BY <1>1 DEF NotYetHeard
    <2>1. flag[v] # NoFlag => flag[v] \in todo[v]
        BY DEF OwnFlags
    <2>2. /\ \A i \in todo[v] : i \in Heard(c) => i = flag[v]
          /\ flag[v] # NoFlag /\ c \in Ahead(v) => flag[v] \notin Heard(c)
        BY DEF NotYetHeard
    <2>3. Heard(c)' = IF c = at[w] /\ peer[c] THEN Heard(c) \union {flag[w]} ELSE Heard(c)
        BY <1>3
    <2>4. Ahead(v)' = IF v = w THEN Ahead(v) \ {at[w]} ELSE Ahead(v)
        BY <1>5
    <2>5. CASE v = w
        BY <2>2, <2>3, <2>4, <2>5
    <2>6. CASE v # w
      <3>1. flag[w] \notin todo[v]
          BY <1>7, <2>6
      <3> QED BY <2>1, <2>2, <2>3, <2>4, <2>6, <3>1
    <2> QED BY <2>5, <2>6
  <1>9. ServedOrAhead'
    <2>1. ASSUME NEW v \in Caster, flag[v] # NoFlag, NEW c \in stayed[v]
          PROVE  peer[c] /\ (c \in Ahead(v)' \/ flag[v] \in Heard(c)')
      <3>1. peer[c] /\ (c \in Ahead(v) \/ flag[v] \in Heard(c)) /\ c \in Client
          BY <2>1 DEF ServedOrAhead
      <3>2. Heard(c)' = IF c = at[w] /\ peer[c] THEN Heard(c) \union {flag[w]} ELSE Heard(c)
          BY <1>3, <3>1
      <3>3. Ahead(v)' = IF v = w THEN Ahead(v) \ {at[w]} ELSE Ahead(v)
          BY <1>5
      <3> QED BY <3>1, <3>2, <3>3
    <2> QED BY <1>1, <2>1 DEF ServedOrAhead
  <1>10. NobodyHearsTwice'
    <2> SUFFICES ASSUME NEW c \in Client, NEW j \in 1 .. Len(received'[c]),
                        NEW k \in 1 .. Len(received'[c]), received'[c][j] = received'[c][k]
                 PROVE  j = k
        BY DEF NobodyHearsTwice
    <2> DEFINE s == received[c]
    <2>1. s \in Seq(FlagId) /\ \A m, n \in 1 .. Len(s) : s[m] = s[n] => m = n
        BY DEF NobodyHearsTwice
    <2>2. CASE c = at[w] /\ peer[c]
      <3>1. received'[c] = Append(s, flag[w])
          BY <1>2, <2>2
      <3>2. \A m \in 1 .. Len(s) : s[m] # flag[w]
          BY <1>4, <2>2 DEF Heard
      <3> HIDE DEF s
      <3> QED BY <1>1, <2>1, <3>1, <3>2
    <2>3. CASE ~(c = at[w] /\ peer[c])
        BY <1>2, <2>1, <2>3
    <2> QED BY <2>2, <2>3
  <1> QED BY <1>6, <1>8, <1>9, <1>10

(* The other steps of a broadcast deliver nothing.                         *)
LEMMA CastKeepsStream ==
  ASSUME StreamInv, NEW w \in Caster, CastStep(w), UNCHANGED flVars
  PROVE  OwnFlags' /\ NotYetHeard' /\ ServedOrAhead' /\ NobodyHearsTwice'
  <1> USE DEF StreamInv, StoreInv, PipelineInv, TypeOK, FLTypeOK, BCTypeOK
  <1> DEFINE Goal == OwnFlags' /\ NotYetHeard' /\ ServedOrAhead'
  <1>1. ASSUME received' = received
        PROVE  NobodyHearsTwice' /\ \A c \in Client : Heard(c)' = Heard(c)
      BY <1>1 DEF NobodyHearsTwice, Heard
  <1>2. ASSUME NEW i \in FlagId, TakeCopy(w, i) PROVE Goal
    <2>1. /\ received' = received /\ UNCHANGED <<handler, peer, todo, at>>
          /\ flag[w] = NoFlag /\ i \in todo[w] /\ i # NoFlag /\ at[w] = NoClient
          /\ \A v \in Caster : /\ flag'[v] = IF v = w THEN i ELSE flag[v]
                               /\ copy'[v] = IF v = w THEN clients ELSE copy[v]
                               /\ stayed'[v] = IF v = w THEN {c \in clients : peer[c]} ELSE stayed[v]
        BY <1>2 DEF TakeCopy, SendsHaveFlag, FlagId, NoFlag
    <2>2. \A v \in Caster : Ahead(v)' = IF v = w THEN clients ELSE Ahead(v)
        BY <2>1 DEF Ahead
    <2>3. OwnFlags'
        BY <2>1 DEF OwnFlags, flVars
    <2>4. NotYetHeard'
        BY <1>1, <2>1, <2>2, SilenceKeepsNotYetHeard
    <2>5. ServedOrAhead'
        BY <1>1, <2>1, <2>2, SilenceKeepsServed DEF ServedOrAhead
    <2> QED BY <2>3, <2>4, <2>5
  <1>3. ASSUME NEW c \in Client, SendBegins(w, c) PROVE Goal
    <2>1. /\ received' = received /\ UNCHANGED <<handler, peer, todo, flag, stayed>>
          /\ at[w] = NoClient /\ c \in copy[w]
          /\ \A v \in Caster : /\ at'[v] = IF v = w THEN c ELSE at[v]
                               /\ copy'[v] = IF v = w THEN copy[v] \ {c} ELSE copy[v]
        BY <1>3 DEF SendBegins
    <2>2. \A v \in Caster : Ahead(v)' = Ahead(v)
      <3>1. Ahead(w)' = (copy[w] \ {c}) \union ({c} \ {NoClient})
          BY <2>1 DEF Ahead
      <3>2. Ahead(w) = copy[w] /\ c # NoClient
          BY <2>1, BroadcasterAssumption DEF Ahead
      <3>3. Ahead(w)' = Ahead(w)
          BY <2>1, <3>1, <3>2
      <3> QED BY <2>1, <3>3 DEF Ahead
    <2>3. OwnFlags'
      <3>1. \A v \in Caster : at'[v] # NoClient => at'[v] \notin copy'[v]
        <4>1. at'[w] \notin copy'[w]
            BY <2>1
        <4> QED BY <2>1, <4>1 DEF OwnFlags
      <3> QED BY <2>1, <3>1 DEF OwnFlags, flVars
    <2>4. NotYetHeard'
        BY <1>1, <2>1, <2>2, SilenceKeepsNotYetHeard
    <2>5. ServedOrAhead'
        BY <1>1, <2>1, <2>2, SilenceKeepsServed DEF ServedOrAhead
    <2> QED BY <2>3, <2>4, <2>5
  <1>4. ASSUME SendRaises(w) PROVE Goal
    <2>1. /\ received' = received /\ UNCHANGED <<handler, peer, todo, flag, stayed, copy>>
          /\ at[w] # NoClient /\ ~peer[at[w]]
          /\ \A v \in Caster : at'[v] = IF v = w THEN NoClient ELSE at[v]
        BY <1>4 DEF SendRaises
    <2>2. \A v \in Caster : Ahead(v)' = IF v = w THEN Ahead(v) \ ({at[w]} \ copy[w]) ELSE Ahead(v)
        BY <2>1 DEF Ahead
    <2>3. OwnFlags'
        BY <2>1 DEF OwnFlags, flVars
    <2>4. NotYetHeard'
        BY <1>1, <2>1, <2>2, SilenceKeepsNotYetHeard
    <2>5. ServedOrAhead'
      <3>1. ASSUME NEW v \in Caster, flag[v] # NoFlag, NEW c \in stayed[v], c \in Ahead(v)
            PROVE  c \in Ahead(v)'
        <4>1. c # at[w]
            BY <2>1, <3>1 DEF ServedOrAhead
        <4> QED BY <2>2, <3>1, <4>1
      <3>2. \A v \in Caster : \A c \in stayed[v] : Heard(c)' = Heard(c)
          BY <1>1, <2>1
      <3>3. \A c \in Client : handler'[c] = "none" => ~peer'[c]
          BY <2>1 DEF ServedOrAhead
      <3> QED BY <2>1, <3>1, <3>2, <3>3, SilenceKeepsServed
    <2> QED BY <2>3, <2>4, <2>5
  <1>5. ASSUME CastEnds(w) PROVE Goal
    <2>1. /\ received' = received /\ UNCHANGED <<handler, peer, copy, at>>
          /\ flag[w] # NoFlag /\ at[w] = NoClient
          /\ \A v \in Caster : /\ flag'[v] = IF v = w THEN NoFlag ELSE flag[v]
                               /\ todo'[v] = IF v = w THEN todo[v] \ {flag[v]} ELSE todo[v]
                               /\ stayed'[v] = IF v = w THEN {} ELSE stayed[v]
        BY <1>5 DEF CastEnds
    <2>2. \A v \in Caster : Ahead(v)' = Ahead(v)
        BY <2>1 DEF Ahead
    <2>3. OwnFlags'
        BY <2>1 DEF OwnFlags, flVars
    <2>4. NotYetHeard'
        BY <1>1, <2>1, <2>2, SilenceKeepsNotYetHeard
    <2>5. ServedOrAhead'
        BY <1>1, <2>1, <2>2, SilenceKeepsServed DEF ServedOrAhead
    <2> QED BY <2>3, <2>4, <2>5
  <1>6. CASE SendReturns(w)
      BY <1>6, SendKeepsStream
  <1>7. CASE ~SendReturns(w)
    <2>1. received' = received
        BY <1>7 DEF CastStep, TakeCopy, SendBegins, SendRaises, CastEnds
    <2> HIDE DEF Goal
    <2>2. Goal
        BY <1>2, <1>3, <1>4, <1>5, <1>7 DEF CastStep
    <2> QED BY <1>1, <2>1, <2>2 DEF Goal
  <1> QED BY <1>6, <1>7

(* Whatever happens, nobody hears a flag twice, and who stays is served.   *)
LEMMA StreamStep == StreamInv /\ StoreInv' /\ [Next]_vars => StreamInv'
  <1> SUFFICES ASSUME StreamInv, StoreInv', [Next]_vars
               PROVE  OwnFlags' /\ NotYetHeard' /\ ServedOrAhead' /\ NobodyHearsTwice'
      BY DEF StreamInv
  <1>1. \A w \in Caster : staged'[w] \intersect visible' = {}
      BY StagedStaysUnseen
  <1>2. ASSUME UNCHANGED bcVars, \A w \in Caster : pc'[w] # "stream" => todo[w] = {}
        PROVE  OwnFlags' /\ NotYetHeard' /\ ServedOrAhead' /\ NobodyHearsTwice'
    <2>1. OwnFlags'
        BY <1>1, <1>2 DEF StreamInv, OwnFlags, bcVars
    <2>2. NotYetHeard' /\ ServedOrAhead' /\ NobodyHearsTwice'
        BY <1>2 DEF StreamInv, NotYetHeard, ServedOrAhead, NobodyHearsTwice, Heard, Ahead, bcVars
    <2> QED BY <2>1, <2>2
  <1>3. ASSUME NEW w \in Caster, Commit(w), pc[w] # "stream"
        PROVE  OwnFlags' /\ NotYetHeard' /\ ServedOrAhead' /\ NobodyHearsTwice'
      BY <1>1, <1>3, HandOverKeepsStream
  <1>4. ASSUME BCNext, UNCHANGED flVars
        PROVE  OwnFlags' /\ NotYetHeard' /\ ServedOrAhead' /\ NobodyHearsTwice'
      BY <1>4, ClientKeepsStream, CastKeepsStream DEF BCNext
  <1>5. ASSUME Crash
        PROVE  OwnFlags' /\ NotYetHeard' /\ ServedOrAhead' /\ NobodyHearsTwice'
    <2>1. /\ \A w \in Caster : /\ todo'[w] = {} /\ flag'[w] = NoFlag /\ at'[w] = NoClient
                               /\ copy'[w] = {} /\ staged'[w] = {}
          /\ \A c \in Client : ~peer'[c]
          /\ received' = received
        BY <1>5 DEF Crash, BCCrash
    <2>2. OwnFlags'
        BY <2>1 DEF OwnFlags
    <2>3. NotYetHeard' /\ ServedOrAhead'
        BY <2>1 DEF NotYetHeard, ServedOrAhead
    <2>4. NobodyHearsTwice'
        BY <2>1 DEF StreamInv, NobodyHearsTwice
    <2> QED BY <2>2, <2>3, <2>4
  <1> QED BY <1>2, <1>3, <1>4, <1>5, StreamStepKinds

(* The stream keeps its inductive invariant in every run.                  *)
THEOREM StreamInvariant == Spec => []StreamInv
  <1>1. Init => StreamInv
    <2> SUFFICES ASSUME Init PROVE StreamInv
        OBVIOUS
    <2>1. StoreInv
      <3>1. StagedApart /\ OnlyCorrectionsSupersede
          BY PipelineAssumption DEF Init, StagedApart, OnlyCorrectionsSupersede, FlagId
      <3> QED BY <3>1, PipelineInit DEF StoreInv
    <2>2. OwnFlags /\ NotYetHeard /\ ServedOrAhead
        BY DEF Init, BCInit, OwnFlags, NotYetHeard, ServedOrAhead
    <2>3. NobodyHearsTwice
        BY DEF Init, BCInit, NobodyHearsTwice
    <2> QED BY <2>1, <2>2, <2>3 DEF StreamInv
  <1> QED BY <1>1, StreamStep, StoreInvariant, PTL DEF Spec

(* No connection gets a flag twice, whoever broadcasts at the same time.   *)
THEOREM EachFlagOnce == Spec => []NobodyHearsTwice
  <1>1. StreamInv => NobodyHearsTwice
      BY DEF StreamInv
  <1> QED BY <1>1, StreamInvariant, PTL

(* A broadcast misses no client that was there at its start and stays: not *)
(* when others fail, leave or arrive, nor when other tasks broadcast.      *)
THEOREM WhoStaysIsServed == Spec => []EveryClientIsServed
  <1>1. StreamInv => EveryClientIsServed
    <2> SUFFICES ASSUME StreamInv, NEW w \in Caster, flag[w] # NoFlag, at[w] = NoClient,
                        copy[w] = {}, NEW c \in stayed[w]
                 PROVE  \E k \in 1 .. Len(received[c]) : received[c][k] = flag[w]
        BY DEF EveryClientIsServed
    <2>1. Ahead(w) = {}
        BY DEF Ahead
    <2>2. flag[w] \in Heard(c)
        BY <2>1 DEF StreamInv, ServedOrAhead
    <2> QED BY <2>2 DEF Heard
  <1> QED BY <1>1, StreamInvariant, PTL
=============================================================================
