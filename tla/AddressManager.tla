--------------------------- MODULE AddressManager ---------------------------
(***************************************************************************)
(* The watch set of the monitor agent: the active rows of the              *)
(* monitored_addresses table, the set the process keeps in memory, the     *)
(* asyncio.Event that announces a change, and the POST/DELETE /monitor     *)
(* handlers that write through from one to the other                       *)
(* (aegis-monitor/src/aegis_monitor/address_manager.py).                   *)
(*                                                                         *)
(* A handler runs add() or remove(): it takes the lock, runs one database  *)
(* transaction, and only after the COMMIT has answered does it touch the   *)
(* memory and set the event, without an await between those two.  The      *)
(* awaits are where the steps below are cut: taking the lock, the          *)
(* transaction, and the return of the transaction.                         *)
(***************************************************************************)
CONSTANTS Addr,   \* the addresses, already lower-cased
          Req     \* the requests that may be in progress at once

VARIABLES
  rows,     \* monitored_addresses: no row, active, or soft-deleted
  addrs,    \* AddressManager._addrs
  change,   \* the flag of AddressManager._change
  req,      \* what each request is doing
  answer,   \* what the last call of each request returned or raised
  up,       \* the process serves (its lifespan handler has yielded)
  unsure    \* history: addresses whose last COMMIT was applied, but answered
            \* with an error (the connection broke under it)

amVars == <<rows, addrs, change, req, answer, up, unsure>>

RowState == {"absent", "active", "removed"}
Op       == {"add", "remove"}
ReqState == [pc : {"idle", "waiting", "txn", "apply"}, op : Op, addr : Addr]
Answer   == {"none", "ok", "notWatched", "error"}

Active == {a \in Addr : rows[a] = "active"}

AMTypeOK ==
  /\ rows \in [Addr -> RowState]
  /\ addrs \in SUBSET Addr
  /\ change \in BOOLEAN
  /\ req \in [Req -> ReqState]
  /\ answer \in [Req -> Answer]
  /\ up \in BOOLEAN
  /\ unsure \in SUBSET Addr

(* The program is deployed on an empty or a used table; load_from_db has   *)
(* run and no request has arrived.                                         *)
AMInit ==
  /\ rows \in [Addr -> RowState]
  /\ addrs = Active
  /\ change = FALSE
  /\ req \in [Req -> {q \in ReqState : q.pc = "idle"}]
  /\ answer = [r \in Req |-> "none"]
  /\ up = TRUE
  /\ unsure = {}

(* Mutant of HoldsLock: the memory is updated outside of the lock. *)
HoldsLockInTxn(r) == req[r].pc = "txn"

HoldsLock(r) == req[r].pc \in {"txn", "apply"}

-----------------------------------------------------------------------------
(* A POST (add) or DELETE (remove) arrives and waits for the lock. *)
Call(r, op, a) ==
  /\ up
  /\ req[r].pc = "idle"
  /\ req' = [req EXCEPT ![r] = [pc |-> "waiting", op |-> op, addr |-> a]]
  /\ answer' = [answer EXCEPT ![r] = "none"]
  /\ UNCHANGED <<rows, addrs, change, up, unsure>>

(* Mutant of Acquire: no lock. *)
AcquireUnlocked(r) ==
  /\ req[r].pc = "waiting"
  /\ req' = [req EXCEPT ![r].pc = "txn"]
  /\ UNCHANGED <<rows, addrs, change, answer, up, unsure>>

(* async with self._lock *)
Acquire(r) ==
  /\ req[r].pc = "waiting"
  /\ \A q \in Req : ~HoldsLock(q)
  /\ req' = [req EXCEPT ![r].pc = "txn"]
  /\ UNCHANGED <<rows, addrs, change, answer, up, unsure>>

(* Mutant of RowAfter: remove() leaves a row that no reader knows. *)
RowGone(op) == IF op = "add" THEN "active" ELSE "deleted"

(* The row a committed add or remove leaves behind: add() inserts or       *)
(* reactivates (and leaves an active row alone), remove() soft-deletes.    *)
RowAfter(op) == IF op = "add" THEN "active" ELSE "removed"

(* remove() of a row that is missing or inactive returns before writing. *)
NothingToRemove(r) == req[r].op = "remove" /\ rows[req[r].addr] # "active"

(* session_scope(): read the row, change it, COMMIT, and come back. *)
Commit(r) ==
  /\ req[r].pc = "txn"
  /\ ~NothingToRemove(r)
  /\ rows' = [rows EXCEPT ![req[r].addr] = RowAfter(req[r].op)]
  /\ req' = [req EXCEPT ![r].pc = "apply"]
  /\ UNCHANGED <<addrs, change, answer, up, unsure>>

(* The early return of remove(): the lock is released, the memory is not   *)
(* looked at.                                                              *)
ReturnNotWatched(r) ==
  /\ req[r].pc = "txn"
  /\ NothingToRemove(r)
  /\ req' = [req EXCEPT ![r].pc = "idle"]
  /\ answer' = [answer EXCEPT ![r] = "notWatched"]
  /\ UNCHANGED <<rows, addrs, change, up, unsure>>

(* The read, the write or the COMMIT fails and is rolled back. *)
TxnFails(r) ==
  /\ req[r].pc = "txn"
  /\ req' = [req EXCEPT ![r].pc = "idle"]
  /\ answer' = [answer EXCEPT ![r] = "error"]
  /\ UNCHANGED <<rows, addrs, change, up, unsure>>

(* The COMMIT is applied but its answer is lost: the caller sees an        *)
(* exception, and the memory keeps its old value.                          *)
CommitAnswerLost(r) ==
  /\ req[r].pc = "txn"
  /\ ~NothingToRemove(r)
  /\ rows' = [rows EXCEPT ![req[r].addr] = RowAfter(req[r].op)]
  /\ unsure' = unsure \union {req[r].addr}
  /\ req' = [req EXCEPT ![r].pc = "idle"]
  /\ answer' = [answer EXCEPT ![r] = "error"]
  /\ UNCHANGED <<addrs, change, up>>

(* The set that add() and remove() leave in memory. *)
MemoryAfter(r) ==
  IF req[r].op = "add" THEN addrs \union {req[r].addr}
                       ELSE addrs \ {req[r].addr}

(* Mutants of Apply: the lock is never released; the event is not set by   *)
(* an add; it is not set by a remove.                                      *)
ApplyKeepsLock(r) ==
  /\ req[r].pc = "apply"
  /\ addrs' = MemoryAfter(r)
  /\ change' = TRUE
  /\ unsure' = unsure \ {req[r].addr}
  /\ answer' = [answer EXCEPT ![r] = "ok"]
  /\ UNCHANGED <<rows, req, up>>

ApplyQuietly(r, op) ==
  /\ req[r].pc = "apply"
  /\ addrs' = MemoryAfter(r)
  /\ change' = (change \/ req[r].op # op)
  /\ unsure' = unsure \ {req[r].addr}
  /\ req' = [req EXCEPT ![r].pc = "idle"]
  /\ answer' = [answer EXCEPT ![r] = "ok"]
  /\ UNCHANGED <<rows, up>>

ApplySilentAdd(r) == ApplyQuietly(r, "add")
ApplySilentRemove(r) == ApplyQuietly(r, "remove")

(* After the transaction: update the memory, set the event, release the    *)
(* lock and return, in one step of the event loop.                         *)
Apply(r) ==
  /\ req[r].pc = "apply"
  /\ addrs' = MemoryAfter(r)
  /\ change' = TRUE
  /\ unsure' = unsure \ {req[r].addr}
  /\ req' = [req EXCEPT ![r].pc = "idle"]
  /\ answer' = [answer EXCEPT ![r] = "ok"]
  /\ UNCHANGED <<rows, up>>

(* wait_for_change() comes back: whoever waits on the event clears it. *)
TakeChange ==
  /\ change
  /\ change' = FALSE
  /\ UNCHANGED <<rows, addrs, req, answer, up, unsure>>

(* The process dies, or is stopped, between any two steps. *)
AMCrash ==
  /\ up
  /\ up' = FALSE
  /\ addrs' = {}
  /\ change' = FALSE
  /\ req' = [r \in Req |-> [req[r] EXCEPT !.pc = "idle"]]
  /\ answer' = [r \in Req |-> "none"]
  /\ unsure' = {}
  /\ UNCHANGED rows

(* lifespan(): load_from_db, before the first request is served. *)
AMRestart ==
  /\ ~up
  /\ up' = TRUE
  /\ addrs' = Active
  /\ UNCHANGED <<rows, change, req, answer, unsure>>

TxnEnds(r) ==
  Commit(r) \/ ReturnNotWatched(r) \/ TxnFails(r) \/ CommitAnswerLost(r)

Handler(r) ==
  \/ \E op \in Op, a \in Addr : Call(r, op, a)
  \/ Acquire(r)
  \/ Commit(r)
  \/ ReturnNotWatched(r)
  \/ TxnFails(r)
  \/ CommitAnswerLost(r)
  \/ Apply(r)

AMNext ==
  \/ \E r \in Req : Handler(r)
  \/ TakeChange
  \/ AMCrash
  \/ AMRestart

(* A handler that holds the lock runs on; asyncio.Lock serves its waiters  *)
(* in turn, hence strong fairness for the one that waits.                  *)
HandlerFairness(r) ==
  SF_amVars(Acquire(r)) /\ WF_amVars(TxnEnds(r)) /\ WF_amVars(Apply(r))

AMSpec == AMInit /\ [][AMNext]_amVars /\ \A r \in Req : HandlerFairness(r)

-----------------------------------------------------------------------------
(* Nobody changes the memory between the COMMIT of an address and the      *)
(* update of the memory that follows it.                                   *)
InFlight(a) == \E r \in Req : req[r].pc = "apply" /\ req[r].addr = a

(* The memory a request is about to write still matches the row it         *)
(* committed: a second add or remove cannot slip in between.               *)
CommittedRowStands ==
  \A r \in Req : req[r].pc = "apply" => rows[req[r].addr] = RowAfter(req[r].op)

MutualExclusion ==
  \A r, q \in Req : HoldsLock(r) /\ HoldsLock(q) => r = q

(* The memory and the table name the same addresses, whatever the          *)
(* interleaving of adds, removes, failures and restarts, except for an     *)
(* address that a request is updating right now or whose last COMMIT came  *)
(* back as an error (add, remove: write through, then memory).             *)
MemoryAgreesWithTable ==
  up => \A a \in Addr :
          (a \notin unsure /\ ~InFlight(a)) => (a \in addrs <=> rows[a] = "active")

(* remove() "Returns True on a real removal, False if not watched": an     *)
(* address that was answered to be unwatched is not in the set the         *)
(* listener subscribes.                                                    *)
FalseMeansNotWatched ==
  [][\A r \in Req :
       (answer[r] = "none" /\ answer'[r] = "notWatched") => req[r].addr \notin addrs']_amVars

(* What does hold: remove() returns False without looking at the memory,   *)
(* and yet, because it reads the table under the lock, the address it says *)
(* is unwatched can only be in the memory if an earlier COMMIT of it was   *)
(* answered with an error.                                                 *)
FalseIsHonest ==
  [][\A r \in Req :
       (answer[r] = "none" /\ answer'[r] = "notWatched") =>
         req[r].addr \notin addrs' \/ req[r].addr \in unsure]_amVars

(* Every call of add() and remove() comes back, with an answer or, if the  *)
(* process dies, without one: nobody waits for the lock for ever.          *)
EveryCallReturns == \A r \in Req : (req[r].pc # "idle") ~> (req[r].pc = "idle")
=============================================================================
