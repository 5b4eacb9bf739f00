----------------------- MODULE PendingTxListenerProofs -----------------------
(***************************************************************************)
(* Proofs about the listener, for any set of addresses, any number of      *)
(* requests and any bounds.                                                *)
(*                                                                         *)
(* First, composed with the listener the address manager still does what   *)
(* AddressManager says, so that its invariant carries over.  Then, no      *)
(* change of the watch set is lost.  The second fact is inductive only     *)
(* together with others: a listener that is not subscribed has no filter,  *)
(* and its waiter exists only while it streams.                            *)
(***************************************************************************)
EXTENDS PendingTxListener, AddressManagerProofs

FilterOfConnection == ~Subscribed => filter = {}
WaiterOfStream     == lpc \notin {"streaming", "putting"} => waiter = "none"
StoppedWhenDown    == lpc = "stopped" <=> ~up
HeldWhilePutting   == lpc = "putting" => held \in Addr

ListenerInv ==
  /\ TypeOK
  /\ FilterOfConnection
  /\ WaiterOfStream
  /\ StoppedWhenDown
  /\ HeldWhilePutting
  /\ NoLostChange

(* A step of the whole is a step of the address manager, or leaves it be. *)
LEMMA StepOfManager == [Next]_vars => [AMNext]_amVars
  BY DEF Next, vars, AMNext, amVars, EventStep, WaiterRuns, IdleEnds, Crash, Restart

(* The listener composed with the address manager implements it: the safety *)
(* part of AMSpec holds of the whole.                                       *)
THEOREM ImplementsAddressManager == Spec => AMInit /\ [][AMNext]_amVars
  <1>1. Init => AMInit
      BY DEF Init
  <1> QED BY <1>1, StepOfManager, PTL DEF Spec

(* So memory and table agree in the running system, listener included. *)
THEOREM MemoryAgreesInSystem == Spec => []MemoryAgreesWithTable
  <1>1. AMInv => MemoryAgreesWithTable
      BY DEF AMInv
  <1> QED BY <1>1, ImplementsAddressManager, AddressManagerInvariant, PTL

-----------------------------------------------------------------------------
(* A listener that is about to connect. *)
LEMMA ListenerInit == Init => ListenerInv
  <1> SUFFICES ASSUME Init PROVE ListenerInv
      OBVIOUS
  <1>1. AMTypeOK
      BY AMInitInv DEF Init, AMInv
  <1>2. LSTypeOK
      BY ListenerAssumption DEF Init, LSInit, LSTypeOK, ListenerPC
  <1>3. up = TRUE
      BY DEF Init, AMInit
  <1> QED BY <1>1, <1>2, <1>3 DEF Init, LSInit, ListenerInv, TypeOK, FilterOfConnection,
             WaiterOfStream, StoppedWhenDown, HeldWhilePutting, NoLostChange, Follows,
             Subscribed

(* The pause stays in its range: doubled at most once past MaxBackoff. *)
LEMMA BackoffRange ==
  ASSUME LSTypeOK
  PROVE  /\ 1 \in 1 .. 2 * MaxBackoff
         /\ backoff < MaxBackoff => 2 * backoff \in 1 .. 2 * MaxBackoff
  BY ListenerAssumption DEF LSTypeOK

(* The listener's own steps keep the types, and the queue its bound. *)
LEMMA ListenerKeepsType ==
  ASSUME TypeOK, HeldWhilePutting, ListenerStep
  PROVE  LSTypeOK'
  <1> USE DEF TypeOK, LSTypeOK
  <1>1. CASE ConnectIdle
      BY <1>1, BackoffRange DEF ConnectIdle, ListenerPC
  <1>2. CASE ConnectSubscribe
      BY <1>2, BackoffRange DEF ConnectSubscribe, AMTypeOK, ListenerPC
  <1>3. CASE EndTurn
      BY <1>3, ListenerAssumption DEF EndTurn, ListenerPC
  <1>4. CASE Acknowledged
      BY <1>4 DEF Acknowledged, ListenerPC
  <1>5. CASE ReceiveUnparsed
    <2>1. Tail(socket) \in Seq(Message) /\ Len(Tail(socket)) <= SocketMax
        BY <1>5, ListenerAssumption DEF ReceiveUnparsed
    <2> QED BY <1>5, <2>1 DEF ReceiveUnparsed
  <1>6. CASE ReceiveTx
    <2>1. Tail(socket) \in Seq(Message) /\ Len(Tail(socket)) <= SocketMax
        BY <1>6, ListenerAssumption DEF ReceiveTx
    <2>2. Head(socket) \in Addr
        BY <1>6 DEF ReceiveTx, Message
    <2>3. Len(queue) < QueueMax =>
            Append(queue, Head(socket)) \in Seq(Addr) /\ Len(Append(queue, Head(socket))) <= QueueMax
        BY <2>2, ListenerAssumption
    <2> QED BY <1>6, <2>1, <2>2, <2>3 DEF ReceiveTx, ListenerPC
  <1>7. CASE PutResumes
    <2>1. held \in Addr
        BY <1>7 DEF PutResumes, HeldWhilePutting
    <2>2. Append(queue, held) \in Seq(Addr) /\ Len(Append(queue, held)) <= QueueMax
        BY <1>7, <2>1, ListenerAssumption DEF PutResumes
    <2> QED BY <1>7, <2>2 DEF PutResumes, ListenerPC
  <1>8. CASE Wake
      BY <1>8, BackoffRange DEF Wake, ListenerPC
  <1>9. CASE Consume
    <2>1. Tail(queue) \in Seq(Addr) /\ Len(Tail(queue)) <= QueueMax
        BY <1>9, ListenerAssumption DEF Consume
    <2> QED BY <1>9, <2>1 DEF Consume
  <1>10. ASSUME NEW m \in Message, ProviderSends(m) PROVE LSTypeOK'
    <2>1. Append(socket, m) \in Seq(Message) /\ Len(Append(socket, m)) <= SocketMax
        BY <1>10, ListenerAssumption DEF ProviderSends
    <2> QED BY <1>10, <2>1 DEF ProviderSends
  <1> QED BY <1>1, <1>2, <1>3, <1>4, <1>5, <1>6, <1>7, <1>8, <1>9, <1>10
          DEF ListenerStep, ConnectFails, Refused, Disconnect, Resubscribe

(* The listener's own steps: it takes a fresh snapshot before it relies on *)
(* the event again, and gives up its filter before it forgets its waiter.  *)
LEMMA ListenerKeepsInv ==
  ASSUME ListenerInv, ListenerStep, UNCHANGED amVars
  PROVE  ListenerInv'
  <1> USE DEF ListenerInv, FilterOfConnection, WaiterOfStream, StoppedWhenDown,
              HeldWhilePutting, NoLostChange, Follows, Subscribed
  <1>1. AMTypeOK' /\ up' = up /\ addrs' = addrs /\ change' = change
      BY DEF TypeOK, AMTypeOK, amVars
  <1>2. TypeOK'
      BY <1>1, ListenerKeepsType DEF TypeOK
  <1>3. CASE ConnectIdle
      BY <1>1, <1>2, <1>3 DEF ConnectIdle
  <1>4. CASE ConnectSubscribe
      BY <1>1, <1>2, <1>4 DEF ConnectSubscribe
  <1>5. CASE EndTurn /\ lpc # "stopped"
      BY <1>1, <1>2, <1>5 DEF EndTurn
  <1>6. CASE Acknowledged
      BY <1>1, <1>2, <1>6 DEF Acknowledged
  <1>7. CASE ReceiveUnparsed
      BY <1>1, <1>2, <1>7 DEF ReceiveUnparsed
  <1>8. CASE ReceiveTx
    <2>1. Head(socket) \in Addr
        BY <1>8 DEF ReceiveTx, Message, TypeOK, LSTypeOK
    <2> QED BY <1>1, <1>2, <1>8, <2>1 DEF ReceiveTx
  <1>9. CASE PutResumes
      BY <1>1, <1>2, <1>9 DEF PutResumes
  <1>10. CASE Wake \/ Consume
      BY <1>1, <1>2, <1>10 DEF Wake, Consume
  <1>11. ASSUME NEW m \in Message, ProviderSends(m) PROVE ListenerInv'
      BY <1>1, <1>2, <1>11 DEF ProviderSends
  <1> QED BY <1>3, <1>4, <1>5, <1>6, <1>7, <1>8, <1>9, <1>10, <1>11
          DEF ListenerStep, ConnectFails, Refused, Disconnect, Resubscribe

(* A request changes the memory only in Apply, which sets the event. *)
LEMMA HandlerKeepsListenerInv ==
  ASSUME ListenerInv, NEW r \in Req, Handler(r), UNCHANGED lsVars
  PROVE  ListenerInv'
  <1>1. AMTypeOK'
      BY HandlerKeepsType DEF ListenerInv, TypeOK
  <1>2. LSTypeOK'
      BY DEF ListenerInv, TypeOK, LSTypeOK, lsVars
  <1>3. up' = up /\ ((addrs' = addrs /\ change' = change) \/ change' = TRUE)
      BY DEF Handler, Call, Acquire, Commit, ReturnNotWatched, TxnFails, CommitAnswerLost, Apply
  <1> QED BY <1>1, <1>2, <1>3 DEF ListenerInv, TypeOK, lsVars, FilterOfConnection,
             WaiterOfStream, StoppedWhenDown, HeldWhilePutting, NoLostChange, Follows, Subscribed

(* Clearing the event is safe: the waiter that clears it is done, or the   *)
(* idle listener is on its way to a new snapshot.                          *)
LEMMA EventKeepsListenerInv ==
  ASSUME ListenerInv, EventStep
  PROVE  ListenerInv'
  <1> USE DEF ListenerInv, TypeOK
  <1>1. AMTypeOK' /\ up' = up /\ addrs' = addrs
      BY DEF EventStep, WaiterRuns, IdleEnds, TakeChange, AMTypeOK
  <1>2. LSTypeOK'
    <2>1. CASE WaiterRuns
        BY <2>1 DEF WaiterRuns, LSTypeOK
    <2>2. CASE IdleEnds
        BY <2>2, ListenerAssumption DEF IdleEnds, EndTurn, LSTypeOK, ListenerPC
    <2> QED BY <2>1, <2>2 DEF EventStep
  <1> QED BY <1>1, <1>2 DEF EventStep, WaiterRuns, IdleEnds, EndTurn, FilterOfConnection,
             WaiterOfStream, StoppedWhenDown, HeldWhilePutting, NoLostChange, Follows, Subscribed

(* A crash stops the listener and forgets its filter. *)
LEMMA CrashKeepsListenerInv ==
  ASSUME ListenerInv, Crash
  PROVE  ListenerInv'
  <1>1. AMTypeOK'
    <2>1. \A r \in Req : req'[r] \in ReqState
        BY DEF ListenerInv, TypeOK, AMTypeOK, ReqState, Crash, AMCrash
    <2> QED BY <2>1 DEF ListenerInv, TypeOK, AMTypeOK, Crash, AMCrash, Answer
  <1>2. LSTypeOK'
      BY ListenerAssumption DEF Crash, LSTypeOK, ListenerPC
  <1> QED BY <1>1, <1>2 DEF Crash, AMCrash, ListenerInv, TypeOK, FilterOfConnection,
             WaiterOfStream, StoppedWhenDown, HeldWhilePutting, NoLostChange, Follows, Subscribed

(* A restarted listener has no filter before it takes a snapshot. *)
LEMMA RestartKeepsListenerInv ==
  ASSUME ListenerInv, Restart
  PROVE  ListenerInv'
  <1>1. AMTypeOK'
      BY DEF ListenerInv, TypeOK, AMTypeOK, Restart, AMRestart, Active
  <1>2. LSTypeOK'
      BY DEF ListenerInv, TypeOK, LSTypeOK, Restart, ListenerPC
  <1> QED BY <1>1, <1>2 DEF Restart, AMRestart, ListenerInv, TypeOK, FilterOfConnection,
             WaiterOfStream, StoppedWhenDown, HeldWhilePutting, NoLostChange, Follows, Subscribed

(* Every step of the whole keeps the invariant. *)
LEMMA ListenerStepInv == ListenerInv /\ [Next]_vars => ListenerInv'
  <1> SUFFICES ASSUME ListenerInv, [Next]_vars PROVE ListenerInv'
      OBVIOUS
  <1>1. CASE UNCHANGED vars
      BY <1>1 DEF vars, amVars, lsVars, ListenerInv, TypeOK, AMTypeOK, LSTypeOK,
                  FilterOfConnection, WaiterOfStream, StoppedWhenDown, HeldWhilePutting,
                  NoLostChange, Follows, Subscribed
  <1> QED BY <1>1, ListenerKeepsInv, HandlerKeepsListenerInv, EventKeepsListenerInv,
             CrashKeepsListenerInv, RestartKeepsListenerInv DEF Next

(* The strengthened invariant holds in every run of the composed system. *)
THEOREM ListenerInvariant == Spec => []ListenerInv
  BY ListenerInit, ListenerStepInv, PTL DEF Spec

(* The queue, the socket and the pause keep their bounds, and the rest its *)
(* types, in every run of the composed system.                             *)
THEOREM ListenerTypes == Spec => []TypeOK
  <1>1. ListenerInv => TypeOK
      BY DEF ListenerInv
  <1> QED BY <1>1, ListenerInvariant, PTL

(* No wakeup is lost, at whatever point of a subscription the watch set    *)
(* changes: a listener with a stale filter has a signal waiting for it.    *)
THEOREM NoChangeIsLost == Spec => []NoLostChange
  <1>1. ListenerInv => NoLostChange
      BY DEF ListenerInv
  <1> QED BY <1>1, ListenerInvariant, PTL
=============================================================================
