------------------------ MODULE AddressManagerProofs ------------------------
(***************************************************************************)
(* Proofs about the address manager, for any set of addresses and any      *)
(* number of concurrent requests.                                          *)
(*                                                                         *)
(* The memory agrees with the table because of the lock: while a request   *)
(* stands between its COMMIT and its update of the memory, no other        *)
(* request can commit, so that the row it committed is still the row when  *)
(* it applies it.  The inductive invariant says exactly that.              *)
(***************************************************************************)
EXTENDS AddressManager, TLAPS

AMInv ==
  /\ AMTypeOK
  /\ MutualExclusion
  /\ CommittedRowStands
  /\ MemoryAgreesWithTable
  /\ ~up => \A r \in Req : req[r].pc = "idle"

(* The invariant holds once load_from_db has run. *)
LEMMA AMInitInv == AMInit => AMInv
  <1> SUFFICES ASSUME AMInit PROVE AMInv
      OBVIOUS
  <1>1. AMTypeOK
      BY DEF AMInit, AMTypeOK, RowState, ReqState, Answer, Active
  <1>2. \A r \in Req : req[r].pc = "idle"
      BY DEF AMInit
  <1>3. MutualExclusion /\ CommittedRowStands
      BY <1>2 DEF MutualExclusion, CommittedRowStands, HoldsLock
  <1>4. MemoryAgreesWithTable
      BY DEF AMInit, MemoryAgreesWithTable, Active
  <1> QED BY <1>1, <1>2, <1>3, <1>4 DEF AMInv

(* What a step of one request may do: it changes no other request, and it  *)
(* enters the lock only when nobody holds it.                              *)
LEMMA HandlerStepsAlone ==
  ASSUME AMTypeOK, NEW r \in Req, Handler(r)
  PROVE  /\ \A q \in Req \ {r} : req'[q] = req[q]
         /\ req'[r] \in ReqState
         /\ HoldsLock(r)' => HoldsLock(r) \/ \A q \in Req : ~HoldsLock(q)
  BY DEF AMTypeOK, ReqState, Op, Handler, Call, Acquire, Commit, ReturnNotWatched,
         TxnFails, CommitAnswerLost, Apply, HoldsLock

(* The lock admits one request at a time. *)
LEMMA HandlerKeepsMutex ==
  ASSUME AMTypeOK, MutualExclusion, NEW r \in Req, Handler(r)
  PROVE  MutualExclusion'
  BY HandlerStepsAlone DEF MutualExclusion, HoldsLock

(* Every step of a handler keeps the types. *)
LEMMA HandlerKeepsType ==
  ASSUME AMTypeOK, NEW r \in Req, Handler(r)
  PROVE  AMTypeOK'
  <1> USE DEF AMTypeOK, ReqState, Answer
  <1>1. ASSUME NEW op \in Op, NEW a \in Addr, Call(r, op, a) PROVE AMTypeOK'
      BY <1>1 DEF Call
  <1>2. CASE Acquire(r)
      BY <1>2 DEF Acquire
  <1>3. CASE Commit(r)
      BY <1>3 DEF Commit, RowAfter, RowState
  <1>4. CASE ReturnNotWatched(r) \/ TxnFails(r)
      BY <1>4 DEF ReturnNotWatched, TxnFails
  <1>5. CASE CommitAnswerLost(r)
      BY <1>5 DEF CommitAnswerLost, RowAfter, RowState
  <1>6. CASE Apply(r)
      BY <1>6 DEF Apply, MemoryAfter
  <1> QED BY <1>1, <1>2, <1>3, <1>4, <1>5, <1>6 DEF Handler

(* A request that commits is the only holder of the lock: the row another  *)
(* one is about to apply cannot change under it.                           *)
LEMMA HandlerKeepsCommittedRow ==
  ASSUME AMTypeOK, MutualExclusion, CommittedRowStands, NEW r \in Req, Handler(r)
  PROVE  CommittedRowStands'
  <1> SUFFICES ASSUME NEW q \in Req, (req[q].pc = "apply")'
               PROVE  (rows[req[q].addr] = RowAfter(req[q].op))'
      BY DEF CommittedRowStands
  <1>1. CASE Commit(r) \/ CommitAnswerLost(r)
    <2>1. HoldsLock(r)
        BY <1>1 DEF Commit, CommitAnswerLost, HoldsLock
    <2>2. q # r => HoldsLock(q)
        BY <1>1 DEF Commit, CommitAnswerLost, HoldsLock, AMTypeOK, ReqState
    <2>3. q = r
        BY <2>1, <2>2 DEF MutualExclusion
    <2> QED BY <1>1, <2>3 DEF Commit, CommitAnswerLost, AMTypeOK, ReqState, RowAfter
  <1>2. CASE ~(Commit(r) \/ CommitAnswerLost(r))
    <2>1. rows' = rows /\ req'[q] = req[q]
        BY <1>2 DEF Handler, Call, Acquire, ReturnNotWatched, TxnFails, Apply, AMTypeOK, ReqState
    <2> QED BY <2>1 DEF CommittedRowStands, RowAfter
  <1> QED BY <1>1, <1>2

(* Write through, then memory: every way a request can go leaves the       *)
(* memory and the table agreed, in flight, or unsure about its address.    *)
LEMMA HandlerKeepsAgreement ==
  ASSUME AMInv, NEW r \in Req, Handler(r)
  PROVE  MemoryAgreesWithTable'
  <1> USE DEF AMInv
  <1> SUFFICES ASSUME up', NEW a \in Addr, a \notin unsure', ~InFlight(a)'
               PROVE  a \in addrs' <=> rows'[a] = "active"
      BY DEF MemoryAgreesWithTable
  <1>0. up
      BY DEF Handler, Call, Acquire, Commit, ReturnNotWatched, TxnFails, CommitAnswerLost, Apply
  <1>1. CASE Call(r, req'[r].op, req'[r].addr) \/ Acquire(r) \/ ReturnNotWatched(r) \/ TxnFails(r)
    <2>1. UNCHANGED <<addrs, rows, unsure>>
        BY <1>1 DEF Call, Acquire, ReturnNotWatched, TxnFails
    <2>2. ~InFlight(a)
      <3> SUFFICES ASSUME NEW q \in Req, req[q].pc = "apply", req[q].addr = a PROVE FALSE
          BY DEF InFlight
      <3>1. req'[q] = req[q]
          BY <1>1 DEF Call, Acquire, ReturnNotWatched, TxnFails, AMTypeOK
      <3> QED BY <3>1 DEF InFlight
    <2> QED BY <1>0, <2>1, <2>2 DEF MemoryAgreesWithTable
  <1>2. CASE Commit(r)
    <2>1. a # req[r].addr
        BY <1>2 DEF Commit, InFlight, AMTypeOK, ReqState
    <2>2. ~InFlight(a)
        BY <1>2 DEF Commit, InFlight, AMTypeOK, ReqState
    <2> QED BY <1>0, <1>2, <2>1, <2>2 DEF Commit, MemoryAgreesWithTable, AMTypeOK
  <1>3. CASE CommitAnswerLost(r)
    <2>1. a # req[r].addr /\ a \notin unsure
        BY <1>3 DEF CommitAnswerLost
    <2>2. ~InFlight(a)
        BY <1>3 DEF CommitAnswerLost, InFlight, AMTypeOK, ReqState
    <2> QED BY <1>0, <1>3, <2>1, <2>2 DEF CommitAnswerLost, MemoryAgreesWithTable, AMTypeOK
  <1>4. CASE Apply(r)
    <2>1. CASE a = req[r].addr
      <3>1. rows[a] = RowAfter(req[r].op)
          BY <1>4, <2>1 DEF Apply, CommittedRowStands
      <3>2. req[r].op \in Op
          BY DEF AMTypeOK, ReqState
      <3> QED BY <1>4, <2>1, <3>1, <3>2 DEF Apply, MemoryAfter, RowAfter, Op
    <2>2. CASE a # req[r].addr
      <3>1. ~InFlight(a)
          BY <1>4, <2>2 DEF Apply, InFlight, AMTypeOK, ReqState
      <3>2. a \notin unsure
          BY <1>4, <2>2 DEF Apply
      <3>3. (a \in addrs' <=> a \in addrs) /\ rows' = rows
          BY <1>4, <2>2 DEF Apply, MemoryAfter
      <3> QED BY <1>0, <3>1, <3>2, <3>3 DEF MemoryAgreesWithTable
    <2> QED BY <2>1, <2>2
  <1>5. ASSUME NEW op \in Op, NEW b \in Addr, Call(r, op, b)
        PROVE  Call(r, req'[r].op, req'[r].addr)
      BY <1>5 DEF Call, AMTypeOK
  <1> QED BY <1>1, <1>2, <1>3, <1>4, <1>5 DEF Handler

(* The invariant is inductive. *)
LEMMA AMStepInv == AMInv /\ [AMNext]_amVars => AMInv'
  <1> SUFFICES ASSUME AMInv, [AMNext]_amVars PROVE AMInv'
      OBVIOUS
  <1> USE DEF AMInv
  <1>1. ASSUME NEW r \in Req, Handler(r) PROVE AMInv'
    <2>1. up /\ up'
        BY <1>1 DEF Handler, Call, Acquire, Commit, ReturnNotWatched, TxnFails,
                    CommitAnswerLost, Apply
    <2> QED BY <1>1, <2>1, HandlerKeepsType, HandlerKeepsMutex, HandlerKeepsCommittedRow,
               HandlerKeepsAgreement
  <1>2. CASE TakeChange
      BY <1>2 DEF TakeChange, AMTypeOK, MutualExclusion, HoldsLock, CommittedRowStands,
                  MemoryAgreesWithTable, InFlight
  <1>3. CASE AMCrash
    <2>1. \A r \in Req : req'[r].pc = "idle" /\ req'[r] \in ReqState
        BY <1>3 DEF AMCrash, AMTypeOK, ReqState
    <2>2. AMTypeOK'
        BY <1>3, <2>1 DEF AMCrash, AMTypeOK, Answer
    <2> QED BY <1>3, <2>1, <2>2 DEF AMCrash, MutualExclusion, HoldsLock, CommittedRowStands,
                                    MemoryAgreesWithTable
  <1>4. CASE AMRestart
      BY <1>4 DEF AMRestart, Active, AMTypeOK, MutualExclusion, HoldsLock, CommittedRowStands,
                  MemoryAgreesWithTable, InFlight
  <1>5. CASE UNCHANGED amVars
      BY <1>5 DEF amVars, AMTypeOK, MutualExclusion, HoldsLock, CommittedRowStands,
                  MemoryAgreesWithTable, InFlight
  <1> QED BY <1>1, <1>2, <1>3, <1>4, <1>5 DEF AMNext

(* The address manager keeps its invariant, whoever waits for its event. *)
THEOREM AddressManagerInvariant == AMInit /\ [][AMNext]_amVars => []AMInv
  BY AMInitInv, AMStepInv, PTL

(* Whatever the interleaving of add(), remove(), failing transactions and  *)
(* restarts, memory and table agree outside of an update under way.        *)
THEOREM MemoryAgrees == AMSpec => []MemoryAgreesWithTable
  <1>1. AMInv => MemoryAgreesWithTable
      BY DEF AMInv
  <1> QED BY <1>1, AddressManagerInvariant, PTL DEF AMSpec

(* The variables of the address manager keep their types. *)
THEOREM AddressManagerTypes == AMSpec => []AMTypeOK
  <1>1. AMInv => AMTypeOK
      BY DEF AMInv
  <1> QED BY <1>1, AddressManagerInvariant, PTL DEF AMSpec

(* While a request is about to update the memory, no other changes the row *)
(* it has committed: this is what the lock across the COMMIT is for.       *)
THEOREM NobodySlipsIn == AMSpec => []CommittedRowStands
  <1>1. AMInv => CommittedRowStands
      BY DEF AMInv
  <1> QED BY <1>1, AddressManagerInvariant, PTL DEF AMSpec

(* remove() answers False only for an address that the memory does not     *)
(* hold, or whose last COMMIT came back as an error: it reads the table    *)
(* under the lock, where nobody stands between a COMMIT and the memory.    *)
LEMMA FalseStep ==
  ASSUME AMInv, [AMNext]_amVars, NEW r \in Req,
         answer[r] = "none", answer'[r] = "notWatched"
  PROVE  req[r].addr \notin addrs' \/ req[r].addr \in unsure
  <1> USE DEF AMInv
  <1>1. ReturnNotWatched(r)
    <2>1. ASSUME NEW q \in Req, Handler(q) PROVE ReturnNotWatched(r)
      <3>1. CASE ReturnNotWatched(q)
        <4>1. q = r
            BY <3>1 DEF ReturnNotWatched, AMTypeOK
        <4> QED BY <3>1, <4>1
      <3>2. CASE ~ReturnNotWatched(q)
        <4>1. answer'[r] \in {answer[r], "none", "ok", "error"}
            BY <2>1, <3>2 DEF Handler, Call, Acquire, Commit, TxnFails, CommitAnswerLost,
                              Apply, AMTypeOK
        <4> QED BY <4>1
      <3> QED BY <3>1, <3>2
    <2>2. ~(TakeChange \/ AMCrash \/ AMRestart \/ UNCHANGED amVars)
        BY DEF TakeChange, AMCrash, AMRestart, amVars, AMTypeOK
    <2> QED BY <2>1, <2>2 DEF AMNext
  <1> DEFINE a == req[r].addr
  <1>2. a \in Addr /\ rows[a] # "active" /\ up
      BY <1>1 DEF ReturnNotWatched, NothingToRemove, AMTypeOK, ReqState
  <1>3. ~InFlight(a)
      BY <1>1 DEF ReturnNotWatched, InFlight, MutualExclusion, HoldsLock
  <1>4. a \notin addrs \/ a \in unsure
      BY <1>2, <1>3 DEF MemoryAgreesWithTable
  <1> QED BY <1>1, <1>4 DEF ReturnNotWatched

(* Whatever the number of requests and however they interleave, remove()   *)
(* answers False for a watched address only after a COMMIT went wrong.     *)
THEOREM FalseAnswersAreHonest == AMSpec => FalseIsHonest
  <1>1. AMInv /\ [AMNext]_amVars =>
          [\A r \in Req :
             (answer[r] = "none" /\ answer'[r] = "notWatched") =>
               req[r].addr \notin addrs' \/ req[r].addr \in unsure]_amVars
      BY FalseStep
  <1> QED BY <1>1, AddressManagerInvariant, PTL DEF AMSpec, FalseIsHonest
=============================================================================
