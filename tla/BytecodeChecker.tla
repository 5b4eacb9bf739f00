-------------------------- MODULE BytecodeChecker --------------------------
(***************************************************************************)
(* The cached lookup of screening/bytecode.py: does an address have code?  *)
(* A "yes" is kept until it is evicted, a "no" for a while.  A lookup that *)
(* failed counts as "no" and is kept like one.                             *)
(*                                                                         *)
(* The lock is not modelled: the rules are run by one task, so no two      *)
(* lookups overlap, and the RPC is awaited outside of the lock.            *)
(***************************************************************************)
EXTENDS OrderedDict

CONSTANTS
  Spender,     \* addresses that are looked up
  MaxEntries,  \* max_entries
  NegativeTtl  \* negative_ttl_s

ASSUME BytecodeAssumption == MaxEntries \in Nat \ {0} /\ NegativeTtl \in Nat \ {0}

VARIABLES
  positives,   \* order of _positives
  negatives,   \* order of _negatives
  ttl,         \* what is left until the expiry of a negative, on the monotonic clock
  deployed,    \* the chain: addresses with code; they never lose it
  excuse       \* history: NegativeTtl since the address got its code or a lookup failed, less the time gone by

bcCache == <<positives, negatives, ttl>>
bytecodeVars == <<bcCache, deployed, excuse>>

BytecodeTypeOK ==
  /\ positives \in [Spender -> 0 .. MaxEntries]
  /\ negatives \in [Spender -> 0 .. MaxEntries]
  /\ ttl \in [Spender -> 0 .. NegativeTtl]
  /\ deployed \in SUBSET Spender
  /\ excuse \in [Spender -> 0 .. NegativeTtl]

(* A contract that was there before is one deployed long ago. *)
BytecodeInit ==
  /\ positives = Empty(Spender)
  /\ negatives = Empty(Spender)
  /\ ttl = [s \in Spender |-> 0]
  /\ deployed = {}
  /\ excuse = [s \in Spender |-> NegativeTtl]

(* A new process: the cache is empty. *)
BytecodeForget ==
  /\ positives' = Empty(Spender)
  /\ negatives' = Empty(Spender)
  /\ ttl' = [s \in Spender |-> 0]
  /\ UNCHANGED <<deployed, excuse>>

(* Time passes on the monotonic clock. *)
BytecodeTick ==
  /\ ttl' = [s \in Spender |-> IF ttl[s] = 0 THEN 0 ELSE ttl[s] - 1]
  /\ excuse' = [s \in Spender |-> IF s \notin deployed \/ excuse[s] = 0
                                  THEN excuse[s] ELSE excuse[s] - 1]
  /\ UNCHANGED <<positives, negatives, deployed>>

(* Somebody deploys a contract to the address (CREATE2). *)
Deploy(s) ==
  /\ s \notin deployed
  /\ deployed' = deployed \union {s}
  /\ UNCHANGED <<bcCache, excuse>>

-----------------------------------------------------------------------------
Live(s) == negatives[s] > 0 /\ ttl[s] > 0

(* has_code, answered from the cache: TRUE, FALSE, or a miss, which drops  *)
(* an expired "no".                                                        *)
CachedYes(s) ==
  /\ positives[s] > 0
  /\ positives' = Touch(positives, s, MaxEntries)
  /\ UNCHANGED <<negatives, ttl, deployed, excuse>>

(* Mutant of CachedNo: a "no" that is used lives on. *)
CachedNoSliding(s) ==
  /\ positives[s] = 0
  /\ Live(s)
  /\ negatives' = Touch(negatives, s, MaxEntries)
  /\ ttl' = [ttl EXCEPT ![s] = NegativeTtl]
  /\ UNCHANGED <<positives, deployed, excuse>>

CachedNo(s) ==
  /\ positives[s] = 0
  /\ Live(s)
  /\ negatives' = Touch(negatives, s, MaxEntries)
  /\ UNCHANGED <<positives, ttl, deployed, excuse>>

Miss(s) ==
  /\ positives[s] = 0
  /\ ~Live(s)
  /\ negatives' = Remove(negatives, s)
  /\ ttl' = [ttl EXCEPT ![s] = 0]
  /\ UNCHANGED <<positives, deployed, excuse>>

(* has_code after _fetch_has_code: the answer is kept under its policy. *)
KeepYes(s) ==
  /\ positives' = Touch(positives, s, MaxEntries)
  /\ UNCHANGED <<negatives, ttl, deployed, excuse>>

KeepNo(s) ==
  LET order == Touch(negatives, s, MaxEntries)
  IN /\ negatives' = order
     /\ ttl' = [x \in Spender |-> IF x = s THEN NegativeTtl
                                  ELSE IF order[x] = 0 THEN 0 ELSE ttl[x]]
     /\ excuse' = [excuse EXCEPT ![s] = NegativeTtl]
     /\ UNCHANGED <<positives, deployed>>
=============================================================================
