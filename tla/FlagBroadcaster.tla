--------------------------- MODULE FlagBroadcaster ---------------------------
(***************************************************************************)
(* The live stream of flags to WebSocket clients                           *)
(* (aegis-monitor/src/aegis_monitor/api/stream.py).                        *)
(*                                                                         *)
(* The screening consumer and every correction request call broadcast();   *)
(* they are the casters.  A broadcast copies the set of registered clients *)
(* under the lock, and sends to them one after the other outside of it;    *)
(* nothing is awaited while the lock is held, so each use of it is one     *)
(* step.  A client is one WebSocket object: its handler accepts it,        *)
(* registers it, waits for the peer to close and unregisters it.           *)
(***************************************************************************)
EXTENDS Integers, Sequences

CONSTANTS
  Client,    \* WebSocket connections
  Caster,    \* the tasks that call broadcast()
  MaxId      \* bound: ids of flags

FlagId == 1 .. MaxId
NoFlag == 0
NoClient == "no client"

ASSUME BroadcasterAssumption == NoClient \notin Client

VARIABLES
  handler,   \* stream(ws): none, accepted, or serving (registered, receiving)
  peer,      \* the other end of the connection is there
  clients,   \* FlagBroadcaster._clients
  todo,      \* the flags a caster still has to broadcast, in the order of their ids
  flag,      \* the flag it is broadcasting: it has taken its copy; else NoFlag
  copy,      \* the clients of the copy it has not sent to yet
  at,        \* the client whose send_json is awaited
  dead,      \* the clients that raised
  received,  \* what each connection has delivered to its peer, in order
  stayed     \* history: the clients that were there at the copy, and ever since

bcVars == <<handler, peer, clients, todo, flag, copy, at, dead, received, stayed>>

BCTypeOK ==
  /\ handler \in [Client -> {"none", "accepted", "serving"}]
  /\ peer \in [Client -> BOOLEAN]
  /\ clients \in SUBSET Client
  /\ todo \in [Caster -> SUBSET FlagId]
  /\ flag \in [Caster -> FlagId \union {NoFlag}]
  /\ copy \in [Caster -> SUBSET Client]
  /\ at \in [Caster -> Client \union {NoClient}]
  /\ dead \in [Caster -> SUBSET Client]
  /\ received \in [Client -> Seq(FlagId)]
  /\ stayed \in [Caster -> SUBSET Client]

BCInit ==
  /\ handler = [c \in Client |-> "none"]
  /\ peer = [c \in Client |-> FALSE]
  /\ clients = {}
  /\ todo = [w \in Caster |-> {}]
  /\ flag = [w \in Caster |-> NoFlag]
  /\ copy = [w \in Caster |-> {}]
  /\ at = [w \in Caster |-> NoClient]
  /\ dead = [w \in Caster |-> {}]
  /\ received = [c \in Client |-> <<>>]
  /\ stayed = [w \in Caster |-> {}]

castVars == <<todo, flag, copy, at, dead>>

-----------------------------------------------------------------------------
(* A client (re)connects: a WebSocket object no broadcast knows of. *)
Accept(c) ==
  /\ handler[c] = "none"
  /\ \A w \in Caster : c \notin copy[w] \union dead[w] \union {at[w]}
  /\ handler' = [handler EXCEPT ![c] = "accepted"]
  /\ peer' = [peer EXCEPT ![c] = TRUE]
  /\ received' = [received EXCEPT ![c] = <<>>]
  /\ UNCHANGED <<clients, castVars, stayed>>

(* connect(), after accept(): join the set, then wait in receive_text(). *)
Register(c) ==
  /\ handler[c] = "accepted"
  /\ handler' = [handler EXCEPT ![c] = "serving"]
  /\ clients' = clients \union {c}
  /\ UNCHANGED <<peer, castVars, received, stayed>>

(* External: the peer closes the connection, or its network drops. *)
PeerCloses(c) ==
  /\ peer[c]
  /\ peer' = [peer EXCEPT ![c] = FALSE]
  /\ stayed' = [w \in Caster |-> stayed[w] \ {c}]
  /\ UNCHANGED <<handler, clients, castVars, received>>

(* receive_text() raises, and the finally clause runs disconnect(). *)
Unregister(c) ==
  /\ handler[c] = "serving"
  /\ ~peer[c]
  /\ handler' = [handler EXCEPT ![c] = "none"]
  /\ clients' = clients \ {c}
  /\ UNCHANGED <<peer, castVars, received, stayed>>

(* broadcast() of the next flag: the copy of the set, taken under the lock. *)
TakeCopy(w, i) ==
  /\ flag[w] = NoFlag
  /\ i \in todo[w] /\ \A j \in todo[w] : i <= j
  /\ flag' = [flag EXCEPT ![w] = i]
  /\ copy' = [copy EXCEPT ![w] = clients]
  /\ stayed' = [stayed EXCEPT ![w] = {c \in clients : peer[c]}]
  /\ UNCHANGED <<handler, peer, clients, todo, at, dead, received>>

(* Mutant of SendBegins: it iterates over the set instead of the copy. *)
SendBeginsLive(w, c) ==
  /\ flag[w] # NoFlag
  /\ at[w] = NoClient
  /\ c \in clients
  /\ at' = [at EXCEPT ![w] = c]
  /\ copy' = [copy EXCEPT ![w] = @ \ {c}]
  /\ UNCHANGED <<handler, peer, clients, todo, flag, dead, received, stayed>>

(* await ws.send_json(payload) for the next client of the copy *)
SendBegins(w, c) ==
  /\ flag[w] # NoFlag
  /\ at[w] = NoClient
  /\ c \in copy[w]
  /\ at' = [at EXCEPT ![w] = c]
  /\ copy' = [copy EXCEPT ![w] = @ \ {c}]
  /\ UNCHANGED <<handler, peer, clients, todo, flag, dead, received, stayed>>

(* The send returns; if the peer is gone nobody gets the message. *)
SendReturns(w) ==
  /\ at[w] # NoClient
  /\ at' = [at EXCEPT ![w] = NoClient]
  /\ received' = [c \in Client |-> IF c = at[w] /\ peer[c]
                                     THEN Append(received[c], flag[w])
                                     ELSE received[c]]
  /\ UNCHANGED <<handler, peer, clients, todo, flag, copy, dead, stayed>>

(* Mutant of SendRaises: the exception ends the loop. *)
SendRaisesOut(w) ==
  /\ at[w] # NoClient
  /\ ~peer[at[w]]
  /\ dead' = [dead EXCEPT ![w] = @ \union {at[w]}]
  /\ at' = [at EXCEPT ![w] = NoClient]
  /\ copy' = [copy EXCEPT ![w] = {}]
  /\ UNCHANGED <<handler, peer, clients, todo, flag, received, stayed>>

(* The send raises: remember the client as dead and go on. *)
SendRaises(w) ==
  /\ at[w] # NoClient
  /\ ~peer[at[w]]
  /\ dead' = [dead EXCEPT ![w] = @ \union {at[w]}]
  /\ at' = [at EXCEPT ![w] = NoClient]
  /\ UNCHANGED <<handler, peer, clients, todo, flag, copy, received, stayed>>

(* The end of broadcast(): drop the dead clients, and take the next flag. *)
CastEnds(w) ==
  /\ flag[w] # NoFlag
  /\ at[w] = NoClient
  /\ copy[w] = {}
  /\ clients' = clients \ dead[w]
  /\ dead' = [dead EXCEPT ![w] = {}]
  /\ flag' = [flag EXCEPT ![w] = NoFlag]
  /\ todo' = [todo EXCEPT ![w] = @ \ {flag[w]}]
  /\ stayed' = [stayed EXCEPT ![w] = {}]
  /\ UNCHANGED <<handler, peer, copy, at, received>>

-----------------------------------------------------------------------------
CastStep(w) ==
  \/ \E i \in FlagId : TakeCopy(w, i)
  \/ \E c \in Client : SendBegins(w, c)
  \/ SendReturns(w)
  \/ SendRaises(w)
  \/ CastEnds(w)

ClientStep(c) == Accept(c) \/ Register(c) \/ PeerCloses(c) \/ Unregister(c)

BCNext == (\E w \in Caster : CastStep(w)) \/ (\E c \in Client : ClientStep(c))

(* The process is gone, and every connection with it. *)
BCCrash ==
  /\ handler' = [c \in Client |-> "none"]
  /\ peer' = [c \in Client |-> FALSE]
  /\ clients' = {}
  /\ todo' = [w \in Caster |-> {}]
  /\ flag' = [w \in Caster |-> NoFlag]
  /\ copy' = [w \in Caster |-> {}]
  /\ at' = [w \in Caster |-> NoClient]
  /\ dead' = [w \in Caster |-> {}]
  /\ stayed' = [w \in Caster |-> {}]
  /\ UNCHANGED received
=============================================================================
