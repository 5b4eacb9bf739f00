-------------------------- MODULE PendingTxListener --------------------------
(***************************************************************************)
(* The mempool listener, composed with the address manager it follows      *)
(* (aegis-monitor/src/aegis_monitor/mempool/alchemy.py).                   *)
(*                                                                         *)
(* One task owns the WebSocket.  On every connection it takes a snapshot   *)
(* of the watch set and subscribes with it as the fromAddress filter; a    *)
(* second task, the waiter, sleeps on the change event and makes the       *)
(* listener drop the connection and start over.  Parsed transactions go    *)
(* on the bounded queue of the screening consumer.                         *)
(*                                                                         *)
(* Nothing ties the snapshot, the acknowledgement and the creation of the  *)
(* waiter together: the watch set can change between any two of them.      *)
(* The provider (Alchemy) is external: it may accept, refuse or drop a     *)
(* connection, and sends transactions of the addresses in the filter, or   *)
(* something the parser cannot read.                                       *)
(***************************************************************************)
EXTENDS AddressManager, Integers, Sequences

CONSTANTS
  QueueMax,    \* _QUEUE_MAX: room in the queue of the consumer
  SocketMax,   \* bound: received messages that wait in the socket
  MaxBackoff   \* _MAX_BACKOFF_SECONDS

ASSUME ListenerAssumption ==
  /\ QueueMax \in Nat \ {0}
  /\ SocketMax \in Nat \ {0}
  /\ MaxBackoff \in Nat \ {0}

VARIABLES
  lpc,      \* where the listener task awaits
  filter,   \* the fromAddress filter of the open connection
  waiter,   \* change_task: none, armed (waits on the event) or done
  socket,   \* messages received and not yet read
  queue,    \* the senders of the transactions that await screening
  backoff,  \* the pause before the next connection, in seconds
  held      \* the transaction the listener is blocked on putting

lsVars == <<lpc, filter, waiter, socket, queue, backoff, held>>
vars   == <<amVars, lsVars>>

Nothing  == "nothing"
Unparsed == "unparsed"     \* a payload that raises ParseError
Message  == Addr \union {Unparsed}

ListenerPC ==
  {"stopped",      \* the process is down
   "connecting",   \* connect(ws_url)
   "idle",         \* the watch set is empty: wait_for_change()
   "acking",       \* subscribed, ws.recv() of the acknowledgement
   "streaming",    \* asyncio.wait([recv_task, change_task])
   "putting",      \* queue.put(tx) on a full queue
   "sleeping"}     \* asyncio.sleep(backoff)

LSTypeOK ==
  /\ lpc \in ListenerPC
  /\ filter \in SUBSET Addr
  /\ waiter \in {"none", "armed", "done"}
  /\ socket \in Seq(Message) /\ Len(socket) <= SocketMax
  /\ queue \in Seq(Addr) /\ Len(queue) <= QueueMax
  /\ backoff \in 1 .. 2 * MaxBackoff
  /\ held \in Addr \union {Nothing}

TypeOK == AMTypeOK /\ LSTypeOK

LSInit ==
  /\ lpc = "connecting"
  /\ filter = {}
  /\ waiter = "none"
  /\ socket = <<>>
  /\ queue = <<>>
  /\ backoff = 1
  /\ held = Nothing

Init == AMInit /\ LSInit

-----------------------------------------------------------------------------
(* connect() succeeds; up to the next await the listener resets the        *)
(* backoff, takes the snapshot and either settles down to wait for a       *)
(* change or sends the subscription.                                       *)
ConnectIdle ==
  /\ lpc = "connecting"
  /\ addrs = {}
  /\ lpc' = "idle"
  /\ backoff' = 1
  /\ UNCHANGED <<filter, waiter, socket, queue, held>>

ConnectSubscribe ==
  /\ lpc = "connecting"
  /\ addrs # {}
  /\ lpc' = "acking"
  /\ filter' = addrs
  /\ backoff' = 1
  /\ UNCHANGED <<waiter, socket, queue, held>>

(* The end of a turn of _run(): the connection is closed, the change task  *)
(* cancelled, what the socket held is gone, and the task sleeps.           *)
EndTurn ==
  /\ lpc' = "sleeping"
  /\ filter' = {}
  /\ waiter' = "none"
  /\ socket' = <<>>
  /\ UNCHANGED <<queue, backoff, held>>

ConnectFails == lpc = "connecting" /\ EndTurn

(* The acknowledgement is good: the change task is created. *)
Acknowledged ==
  /\ lpc = "acking"
  /\ lpc' = "streaming"
  /\ waiter' = "armed"
  /\ UNCHANGED <<filter, socket, queue, backoff, held>>

(* The acknowledgement is an error, or no JSON: return. *)
Refused == lpc = "acking" /\ EndTurn

(* The connection drops while the listener reads from it.  If the change   *)
(* task is done as well, the listener sees that first (Resubscribe).       *)
Disconnect ==
  /\ lpc \in {"acking", "streaming"}
  /\ waiter # "done"
  /\ EndTurn

(* Mutant of WaiterRuns: it clears the event and waits on. *)
WaiterForgets ==
  /\ waiter = "armed"
  /\ TakeChange
  /\ UNCHANGED lsVars

(* wait_for_change() in the change task: the event is set; clear it and    *)
(* finish.                                                                 *)
WaiterRuns ==
  /\ waiter = "armed"
  /\ TakeChange
  /\ waiter' = "done"
  /\ UNCHANGED <<lpc, filter, socket, queue, backoff, held>>

(* The same call, made by the listener itself when nothing is watched. *)
IdleEnds ==
  /\ lpc = "idle"
  /\ TakeChange
  /\ EndTurn

(* change_task in done: whatever recv_task has received is dropped. *)
Resubscribe ==
  /\ lpc = "streaming"
  /\ waiter = "done"
  /\ EndTurn

(* recv_task is done and the change task is not: parse, and put. *)
ReceiveUnparsed ==
  /\ lpc = "streaming"
  /\ waiter = "armed"
  /\ socket # <<>> /\ Head(socket) = Unparsed
  /\ socket' = Tail(socket)
  /\ UNCHANGED <<lpc, filter, waiter, queue, backoff, held>>

(* Mutant of ReceiveTx: put without looking at the bound. *)
ReceiveUnbounded ==
  /\ lpc = "streaming"
  /\ waiter = "armed"
  /\ socket # <<>> /\ Head(socket) # Unparsed
  /\ socket' = Tail(socket)
  /\ queue' = Append(queue, Head(socket))
  /\ UNCHANGED <<lpc, filter, waiter, backoff, held>>

ReceiveTx ==
  /\ lpc = "streaming"
  /\ waiter = "armed"
  /\ socket # <<>> /\ Head(socket) # Unparsed
  /\ socket' = Tail(socket)
  /\ IF Len(queue) < QueueMax
       THEN queue' = Append(queue, Head(socket)) /\ UNCHANGED <<lpc, held>>
       ELSE lpc' = "putting" /\ held' = Head(socket) /\ UNCHANGED queue
  /\ UNCHANGED <<filter, waiter, backoff>>

(* queue.put() finds room at last. *)
PutResumes ==
  /\ lpc = "putting"
  /\ Len(queue) < QueueMax
  /\ queue' = Append(queue, held)
  /\ held' = Nothing
  /\ lpc' = "streaming"
  /\ UNCHANGED <<filter, waiter, socket, backoff>>

(* The pause is over.  The code doubles backoff without end but never      *)
(* sleeps longer than MaxBackoff, so the values past it are one.           *)
Wake ==
  /\ lpc = "sleeping"
  /\ lpc' = "connecting"
  /\ backoff' = IF backoff < MaxBackoff THEN 2 * backoff ELSE backoff
  /\ UNCHANGED <<filter, waiter, socket, queue, held>>

(* External: the provider pushes a transaction of a watched address. *)
ProviderSends(m) ==
  /\ lpc \in {"streaming", "putting"}
  /\ m \in filter \union {Unparsed}
  /\ Len(socket) < SocketMax
  /\ socket' = Append(socket, m)
  /\ UNCHANGED <<lpc, filter, waiter, queue, backoff, held>>

(* The screening consumer: queue.get(). *)
Consume ==
  /\ up
  /\ queue # <<>>
  /\ queue' = Tail(queue)
  /\ UNCHANGED <<lpc, filter, waiter, socket, backoff, held>>

-----------------------------------------------------------------------------
(* The steps that leave the address manager alone. *)
ListenerStep ==
  \/ ConnectIdle
  \/ ConnectSubscribe
  \/ ConnectFails
  \/ Acknowledged
  \/ Refused
  \/ Disconnect
  \/ Resubscribe
  \/ ReceiveUnparsed
  \/ ReceiveTx
  \/ PutResumes
  \/ Wake
  \/ Consume
  \/ \E m \in Message : ProviderSends(m)

EventStep == WaiterRuns \/ IdleEnds

Crash ==
  /\ AMCrash
  /\ lpc' = "stopped"
  /\ filter' = {}
  /\ waiter' = "none"
  /\ socket' = <<>>
  /\ queue' = <<>>
  /\ backoff' = 1
  /\ held' = Nothing

(* lifespan(): load the watch set, then start the listener. *)
Restart ==
  /\ AMRestart
  /\ lpc' = "connecting"
  /\ UNCHANGED <<filter, waiter, socket, queue, backoff, held>>

Next ==
  \/ (\E r \in Req : Handler(r)) /\ UNCHANGED lsVars
  \/ ListenerStep /\ UNCHANGED amVars
  \/ EventStep
  \/ Crash
  \/ Restart

(* The tasks of the event loop run on (weak fairness).  The network is     *)
(* assumed to let a connection and an acknowledgement through now and      *)
(* then (strong fairness): without it nothing can be subscribed.           *)
Fairness ==
  /\ \A r \in Req :
       /\ SF_vars(Acquire(r) /\ UNCHANGED lsVars)
       /\ WF_vars(TxnEnds(r) /\ UNCHANGED lsVars)
       /\ WF_vars(Apply(r) /\ UNCHANGED lsVars)
  /\ WF_vars(EventStep)
  /\ WF_vars((Resubscribe \/ PutResumes \/ Wake) /\ UNCHANGED amVars)
  /\ WF_vars(Consume /\ UNCHANGED amVars)
  /\ WF_vars(Restart)
  /\ SF_vars((ConnectIdle \/ ConnectSubscribe) /\ UNCHANGED amVars)
  /\ SF_vars(Acknowledged /\ UNCHANGED amVars)

Spec == Init /\ [][Next]_vars /\ Fairness

-----------------------------------------------------------------------------
Subscribed == lpc \in {"acking", "streaming", "putting"}

(* What the listener believes is watched: its filter, or nothing at all    *)
(* while it idles.                                                         *)
Follows == Subscribed \/ lpc = "idle"

(* A change of the watch set is never lost: whenever the listener sits on  *)
(* a filter that is not the watch set, the event is set or the waiter has  *)
(* already taken it, so that the listener is bound to start over.  (The    *)
(* snapshot, the acknowledgement and create_task are three steps, and      *)
(* wait_for_change() clears the event that the next waiter relies on.)     *)
NoLostChange == (Follows /\ filter # addrs) => (change \/ waiter = "done")

(* An address that stays in the watch set is subscribed again and again,   *)
(* and one that stays out of it is eventually never in the filter, however *)
(* often the other addresses change, the provider hangs up or the process  *)
(* restarts.                                                               *)
Streams(a) == lpc = "streaming" /\ a \in filter

AddReachesProvider == \A a \in Addr : <>[](up => a \in addrs) => []<>Streams(a)

RemoveReachesProvider == \A a \in Addr : <>[](a \notin addrs) => <>[](a \notin filter)
=============================================================================
