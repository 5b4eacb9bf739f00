-------------------------- MODULE InteractionState --------------------------
(***************************************************************************)
(* What the monitor remembers of the addresses it screens:                 *)
(* screening/interaction_state.py.  When an address last approved a        *)
(* spender, and which contracts it has called; both memories are bounded   *)
(* and forget the address, or the contract, not used for longest.          *)
(***************************************************************************)
EXTENDS OrderedDict, FiniteSets

CONSTANTS
  Monitored,   \* addresses under watch
  Dest,        \* contracts they call
  MaxAddrs,    \* max_addresses
  MaxDests,    \* max_destinations_per_addr
  MaxWall      \* bound of the wall clock

ASSUME InteractionAssumption ==
  /\ IsFiniteSet(Monitored) /\ IsFiniteSet(Dest)
  /\ MaxAddrs \in Nat \ {0} /\ MaxDests \in Nat \ {0} /\ MaxWall \in Nat

VARIABLES
  wall,         \* time.time()
  approvals,    \* order of _last_approval_ms
  approvedAt,   \* its values
  buckets,      \* order of _seen_destinations
  seen,         \* its values: the order of each bucket
  called,       \* history: the calls <<address, contract>> of this process
  destsSince,   \* history: contracts the address called after its last such call
  addrsSince,   \* history: other addresses that called after it
  lastApproval, \* history: the last approval of each address, never forgotten
  approvers     \* history: who else approved after it

memory == <<approvals, approvedAt, buckets, seen>>
past == <<called, destsSince, addrsSince, lastApproval, approvers>>
isVars == <<memory, past>>

Never == MaxWall + 1    \* no approval in this process
Call == Monitored \X Dest

ISTypeOK ==
  /\ approvals \in [Monitored -> 0 .. MaxAddrs]
  /\ approvedAt \in [Monitored -> 0 .. MaxWall]
  /\ buckets \in [Monitored -> 0 .. MaxAddrs]
  /\ seen \in [Monitored -> [Dest -> 0 .. MaxDests]]
  /\ called \in SUBSET Call
  /\ destsSince \in [Call -> SUBSET Dest]
  /\ addrsSince \in [Call -> SUBSET Monitored]
  /\ lastApproval \in [Monitored -> 0 .. Never]
  /\ approvers \in [Monitored -> SUBSET Monitored]

(* An empty memory; the histories speak of one process only, because the   *)
(* docstring promises no more ("Process-local for v1").                    *)
ISInit ==
  /\ approvals = Empty(Monitored)
  /\ approvedAt = [a \in Monitored |-> 0]
  /\ buckets = Empty(Monitored)
  /\ seen = [a \in Monitored |-> Empty(Dest)]
  /\ called = {}
  /\ destsSince = [c \in Call |-> {}]
  /\ addrsSince = [c \in Call |-> {}]
  /\ lastApproval = [a \in Monitored |-> Never]
  /\ approvers = [a \in Monitored |-> {}]

ISForget ==
  /\ approvals' = Empty(Monitored)
  /\ approvedAt' = [a \in Monitored |-> 0]
  /\ buckets' = Empty(Monitored)
  /\ seen' = [a \in Monitored |-> Empty(Dest)]
  /\ called' = {}
  /\ destsSince' = [c \in Call |-> {}]
  /\ addrsSince' = [c \in Call |-> {}]
  /\ lastApproval' = [a \in Monitored |-> Never]
  /\ approvers' = [a \in Monitored |-> {}]

-----------------------------------------------------------------------------
(* Mutant of RecordApproval: the first approval counts, not the last. *)
RecordFirstApproval(a, now) ==
  LET order == Touch(approvals, a, MaxAddrs)
  IN /\ approvals' = order
     /\ approvedAt' = [b \in Monitored |-> IF order[b] = 0 THEN 0
                                           ELSE IF b = a /\ approvals[a] = 0 THEN now
                                           ELSE approvedAt[b]]
     /\ lastApproval' = [lastApproval EXCEPT ![a] = now]
     /\ approvers' = [b \in Monitored |-> IF b = a THEN {} ELSE approvers[b] \union {a}]

(* record_approval *)
RecordApproval(a, now) ==
  LET order == Touch(approvals, a, MaxAddrs)
  IN /\ approvals' = order
     /\ approvedAt' = [b \in Monitored |-> IF order[b] = 0 THEN 0
                                           ELSE IF b = a THEN now ELSE approvedAt[b]]
     /\ lastApproval' = [lastApproval EXCEPT ![a] = now]
     /\ approvers' = [b \in Monitored |-> IF b = a THEN {} ELSE approvers[b] \union {a}]

(* last_approval_ms: reading does not make the entry any younger. *)
LastApproval(a) == IF approvals[a] = 0 THEN Never ELSE approvedAt[a]

(* has_seen_destination.  It also moves the contract to the end of its     *)
(* bucket; its only caller records the same call right after, which does.  *)
HasSeen(a, d) == seen[a][d] > 0

(* record_destination: the contract in its bucket, then the bucket in the  *)
(* order of the addresses; an evicted bucket takes its contracts along.    *)
RecordDestination(a, d) ==
  LET order == Touch(buckets, a, MaxAddrs)
  IN /\ buckets' = order
     /\ seen' = [b \in Monitored |-> IF b = a THEN Touch(seen[a], d, MaxDests)
                                     ELSE IF order[b] = 0 THEN Empty(Dest) ELSE seen[b]]
     /\ called' = called \union {<<a, d>>}
     /\ destsSince' = [c \in Call |-> IF c = <<a, d>> THEN {}
                                      ELSE IF c[1] = a THEN destsSince[c] \union {d}
                                      ELSE destsSince[c]]
     /\ addrsSince' = [c \in Call |-> IF c = <<a, d>> THEN {}
                                      ELSE IF c[1] # a THEN addrsSince[c] \union {a}
                                      ELSE addrsSince[c]]

(* The memory of a call is lost only by use of the others: the address has *)
(* called MaxDests other contracts since, or MaxAddrs other addresses have *)
(* called something.                                                       *)
MayBeForgotten(a, d) ==
  \/ Cardinality(destsSince[<<a, d>>]) >= MaxDests
  \/ Cardinality(addrsSince[<<a, d>>]) >= MaxAddrs
=============================================================================
