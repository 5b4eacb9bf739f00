-------------------------- MODULE ScreeningProofs --------------------------
(***************************************************************************)
(* Proofs about the screening of transactions, for any addresses,          *)
(* contracts, feeds, clock and bounds of the memories.                     *)
(*                                                                         *)
(* The argument is about the bytecode cache: it holds a "yes" only for an  *)
(* address that has code, and a "no" only as long as there is an excuse    *)
(* for it.  The hits of a transaction are settled rule by rule; what a     *)
(* rule has decided is not touched by the rules after it.                  *)
(***************************************************************************)
EXTENDS Screening, FiniteSetTheorems, TLAPS

(* Using a key keeps all ages within the limit. *)
LEMMA TouchType ==
  ASSUME NEW K, NEW limit \in Nat \ {0}, NEW d \in [K -> 0 .. limit], NEW k \in K
  PROVE  /\ Touch(d, k, limit) \in [K -> 0 .. limit]
         /\ Touch(d, k, limit)[k] > 0
         /\ \A x \in K : x # k /\ Touch(d, k, limit)[x] > 0 => d[x] > 0
<1> DEFINE f(x) == IF x = k THEN 1
                   ELSE IF d[x] = 0 \/ (d[k] > 0 /\ d[k] < d[x]) THEN d[x]
                   ELSE IF d[x] < limit THEN d[x] + 1 ELSE 0
<1>1. \A x \in K : /\ f(x) \in 0 .. limit
                   /\ x = k => f(x) > 0
                   /\ x # k /\ f(x) > 0 => d[x] > 0
  OBVIOUS
<1>2. Touch(d, k, limit) = [x \in K |-> f(x)]  BY DEF Touch
<1> HIDE DEF f
<1> QED  BY <1>1, <1>2

(* So does removing one, which brings back none. *)
LEMMA RemoveType ==
  ASSUME NEW K, NEW limit \in Nat, NEW d \in [K -> 0 .. limit], NEW k \in K
  PROVE  /\ Remove(d, k) \in [K -> 0 .. limit]
         /\ \A x \in K : Remove(d, k)[x] > 0 => d[x] > 0
<1> DEFINE f(x) == IF x = k THEN 0
                   ELSE IF d[k] > 0 /\ d[x] > d[k] THEN d[x] - 1 ELSE d[x]
<1>1. \A x \in K : f(x) \in 0 .. limit /\ (f(x) > 0 => d[x] > 0)  OBVIOUS
<1>2. Remove(d, k) = [x \in K |-> f(x)]  BY DEF Remove
<1> HIDE DEF f
<1> QED  BY <1>1, <1>2

-----------------------------------------------------------------------------
(* A "yes" is true, and a "no" has an excuse that outlives it. *)
CacheIsExcused ==
  \A s \in Spender :
    /\ positives[s] > 0 => s \in deployed
    /\ negatives[s] > 0 => ttl[s] <= excuse[s]
    /\ s \notin deployed => excuse[s] = NegativeTtl

CacheInv == BytecodeTypeOK /\ CacheIsExcused

(* Each step of the cache keeps it, the lookups included. *)
LEMMA CacheStep ==
  ASSUME CacheInv, NEW s \in Spender,
         \/ CachedYes(s) \/ CachedNo(s) \/ Miss(s) \/ Deploy(s)
         \/ s \in deployed /\ KeepYes(s)
         \/ KeepNo(s)
         \/ BytecodeTick \/ BytecodeForget \/ UNCHANGED bytecodeVars
  PROVE  CacheInv'
<1> USE BytecodeAssumption DEF CacheInv, BytecodeTypeOK, CacheIsExcused
<1>1. CASE CachedYes(s)
  <2> DEFINE p == Touch(positives, s, MaxEntries)
  <2>1. p \in [Spender -> 0 .. MaxEntries] /\ \A x \in Spender : p[x] > 0 => positives[x] > 0
    BY <1>1, TouchType DEF CachedYes
  <2> HIDE DEF p
  <2> QED  BY <1>1, <2>1 DEF CachedYes, p
<1>2. CASE CachedNo(s)
  <2> DEFINE n == Touch(negatives, s, MaxEntries)
  <2>1. n \in [Spender -> 0 .. MaxEntries] /\ \A x \in Spender : n[x] > 0 => negatives[x] > 0
    BY <1>2, TouchType DEF CachedNo, Live
  <2> HIDE DEF n
  <2> QED  BY <1>2, <2>1 DEF CachedNo, n
<1>3. CASE Miss(s)
  <2> DEFINE n == Remove(negatives, s)
  <2>1. n \in [Spender -> 0 .. MaxEntries] /\ \A x \in Spender : n[x] > 0 => negatives[x] > 0
    BY RemoveType
  <2> HIDE DEF n
  <2>2. /\ negatives' = n /\ UNCHANGED <<positives, deployed, excuse>>
        /\ ttl' = [ttl EXCEPT ![s] = 0]
    BY <1>3 DEF Miss, n
  <2> QED  BY <2>1, <2>2
<1>4. CASE Deploy(s)  BY <1>4 DEF Deploy, bcCache
<1>5. CASE s \in deployed /\ KeepYes(s)
  <2> DEFINE p == Touch(positives, s, MaxEntries)
  <2>1. /\ p \in [Spender -> 0 .. MaxEntries]
        /\ \A x \in Spender : x # s /\ p[x] > 0 => positives[x] > 0
    BY TouchType
  <2> HIDE DEF p
  <2> QED  BY <1>5, <2>1 DEF KeepYes, p
<1>6. CASE KeepNo(s)
  <2> DEFINE n == Touch(negatives, s, MaxEntries)
  <2>1. /\ n \in [Spender -> 0 .. MaxEntries]
        /\ \A x \in Spender : x # s /\ n[x] > 0 => negatives[x] > 0
    BY TouchType
  <2> HIDE DEF n
  <2>2. /\ negatives' = n /\ UNCHANGED <<positives, deployed>>
        /\ ttl' = [x \in Spender |-> IF x = s THEN NegativeTtl ELSE IF n[x] = 0 THEN 0 ELSE ttl[x]]
        /\ excuse' = [excuse EXCEPT ![s] = NegativeTtl]
    BY <1>6 DEF KeepNo, n
  <2> QED  BY <2>1, <2>2
<1>7. CASE BytecodeTick  BY <1>7 DEF BytecodeTick
<1>8. CASE BytecodeForget  BY <1>8 DEF BytecodeForget, Empty
<1>9. CASE UNCHANGED bytecodeVars  BY <1>9 DEF bytecodeVars, bcCache
<1> QED  BY <1>1, <1>2, <1>3, <1>4, <1>5, <1>6, <1>7, <1>8, <1>9

-----------------------------------------------------------------------------
(* The memory of interactions keeps its type. *)
LEMMA ApprovalIsTyped ==
  ASSUME ISTypeOK, NEW a \in Monitored, NEW now \in 0 .. MaxWall, RecordApproval(a, now)
  PROVE  /\ approvals' \in [Monitored -> 0 .. MaxAddrs]
         /\ approvedAt' \in [Monitored -> 0 .. MaxWall]
         /\ lastApproval' \in [Monitored -> 0 .. Never]
         /\ approvers' \in [Monitored -> SUBSET Monitored]
<1> USE InteractionAssumption DEF ISTypeOK
<1> DEFINE order == Touch(approvals, a, MaxAddrs)
<1>1. order \in [Monitored -> 0 .. MaxAddrs]  BY TouchType
<1> HIDE DEF order
<1>2. /\ approvals' = order
      /\ approvedAt' = [b \in Monitored |-> IF order[b] = 0 THEN 0
                                            ELSE IF b = a THEN now ELSE approvedAt[b]]
      /\ lastApproval' = [lastApproval EXCEPT ![a] = now]
      /\ approvers' = [b \in Monitored |-> IF b = a THEN {} ELSE approvers[b] \union {a}]
  BY DEF RecordApproval, order
<1>3. now \in 0 .. Never /\ 0 \in 0 .. MaxWall  BY DEF Never
<1> QED  BY <1>1, <1>2, <1>3

(* A call moves the contract and its bucket, within both bounds. *)
LEMMA DestinationIsTyped ==
  ASSUME ISTypeOK, NEW a \in Monitored, NEW d \in Dest, RecordDestination(a, d)
  PROVE  /\ buckets' \in [Monitored -> 0 .. MaxAddrs]
         /\ seen' \in [Monitored -> [Dest -> 0 .. MaxDests]]
         /\ called' \in SUBSET Call
         /\ destsSince' \in [Call -> SUBSET Dest]
         /\ addrsSince' \in [Call -> SUBSET Monitored]
<1> USE InteractionAssumption DEF ISTypeOK
<1> DEFINE order == Touch(buckets, a, MaxAddrs)
           bucket == Touch(seen[a], d, MaxDests)
<1>1. order \in [Monitored -> 0 .. MaxAddrs] /\ bucket \in [Dest -> 0 .. MaxDests]
  BY TouchType
<1>2. Empty(Dest) \in [Dest -> 0 .. MaxDests]  BY DEF Empty
<1> HIDE DEF order, bucket
<1>3. /\ buckets' = order
      /\ seen' = [b \in Monitored |-> IF b = a THEN bucket
                                      ELSE IF order[b] = 0 THEN Empty(Dest) ELSE seen[b]]
      /\ called' = called \union {<<a, d>>}
  BY DEF RecordDestination, order, bucket
<1>4. <<a, d>> \in Call  BY DEF Call
<1>5. destsSince' \in [Call -> SUBSET Dest] /\ addrsSince' \in [Call -> SUBSET Monitored]
  BY DEF RecordDestination
<1> QED  BY <1>1, <1>2, <1>3, <1>4, <1>5

(* A new process begins with an empty memory. *)
LEMMA ForgetIsTyped ==
  ASSUME ISForget
  PROVE  ISTypeOK'
BY InteractionAssumption DEF ISForget, ISTypeOK, Empty, Never

-----------------------------------------------------------------------------
(* The transaction under way is one, and a lookup has a spender. *)
TurnOK ==
  /\ feed \in DOMAIN Feed /\ wall \in 0 .. MaxWall
  /\ pc \in {"idle", "eth_getCode", "handle"} \union RuleId
  /\ tx \in PendingTx \union {None} /\ (tx = None <=> pc = "idle")
  /\ hits \in SUBSET RuleId /\ failed \in SUBSET Lookup
  /\ pc = "eth_getCode" => SpenderOf(tx) # None

(* What the first three rules have decided, once their turn is over. *)
After1 == pc \in {"transfer_from", "unlimited_approval", "fresh_approval", "handle"}
After2 == pc \in {"unlimited_approval", "fresh_approval", "handle"}
After3 == pc \in {"fresh_approval", "handle"}

ApproveDecided ==
  After1 /\ SpenderOf(tx) # None =>
    \/ "approve_to_eoa" \in hits
    \/ SpenderOf(tx) \in deployed
    \/ "eth_getCode" \in failed

TransferDecided ==
  /\ ~After2 => "transfer_from" \notin hits /\ failed \cap {"allowance", "isApprovedForAll"} = {}
  /\ After2 =>
       /\ "transfer_from" \in hits =>
            /\ tx.owner # tx.from
            /\ \/ Read(tx.allowance, "allowance", failed) = "short"
               \/ Read(tx.forAll, "isApprovedForAll", failed) = "no"
            /\ tx.allowance = "enough" => "allowance" \in failed
            /\ tx.forAll = "yes" => "isApprovedForAll" \in failed
       /\ (/\ tx.to # None /\ tx.method = "transferFrom" /\ tx.words = 3
           /\ failed = {} /\ ~Authorized(tx) /\ {tx.allowance, tx.forAll} # {"none"})
            => "transfer_from" \in hits

Disproportionate == tx.balance > 0 /\ tx.amount > OutsizedMultiplier * tx.balance

AmountDecided ==
  /\ ~After3 => "unlimited_approval" \notin hits /\ "balanceOf" \notin failed
  /\ After3 =>
       /\ "unlimited_approval" \in hits =>
            tx.amount = UintMax \/ ("balanceOf" \notin failed /\ Disproportionate)
       /\ AmountDecodes(tx) /\ tx.amount = UintMax => "unlimited_approval" \in hits
       /\ AmountDecodes(tx) /\ "balanceOf" \notin failed /\ Disproportionate
            => "unlimited_approval" \in hits

ScreeningInv ==
  /\ TurnOK /\ ISTypeOK /\ CacheInv
  /\ ApproveDecided /\ TransferDecided /\ AmountDecided

(* A new process at the beginning of time. *)
LEMMA ScreeningInit == Init => ScreeningInv
<1> SUFFICES ASSUME Init PROVE ScreeningInv  OBVIOUS
<1> USE DEF Init
<1>1. TurnOK  BY ScreeningAssumption, InteractionAssumption DEF TurnOK, RuleId
<1>2. ISTypeOK  BY InteractionAssumption DEF ISInit, ISTypeOK, Empty, Never
<1>3. CacheInv
  BY BytecodeAssumption DEF BytecodeInit, CacheInv, BytecodeTypeOK, CacheIsExcused, Empty
<1>4. ApproveDecided /\ TransferDecided /\ AmountDecided
  BY DEF ApproveDecided, TransferDecided, AmountDecided, After1, After2, After3
<1> QED  BY <1>1, <1>2, <1>3, <1>4 DEF ScreeningInv

(* A transaction under way has a typed sender, destination and spender. *)
LEMMA UnderWay ==
  ASSUME TurnOK, pc # "idle"
  PROVE  /\ tx \in PendingTx /\ tx.from \in Monitored /\ tx.to \in Dest \union {None}
         /\ tx.balance \in Nat /\ tx.amount \in Nat
         /\ tx.allowance \in {"enough", "short", "none"} /\ tx.forAll \in {"yes", "no", "none"}
         /\ SpenderOf(tx) # None => SpenderOf(tx) \in Spender /\ SpenderOf(tx) = tx.spender
<1>1. tx \in PendingTx  BY DEF TurnOK
<1> QED  BY <1>1, ScreeningAssumption DEF PendingTx, SpenderOf

-----------------------------------------------------------------------------
Decisions == ApproveDecided /\ TransferDecided /\ AmountDecided

(* The first rule, from the cache or with an answer of the chain. *)
LEMMA ApproveKeepsInv ==
  ASSUME ScreeningInv, ApproveToEoa \/ CodeAnswered
  PROVE  ScreeningInv'
<1> USE DEF ScreeningInv
<1> DEFINE s == SpenderOf(tx)
<1>1. pc \in {"approve_to_eoa", "eth_getCode"} /\ UNCHANGED <<isVars, feed, wall, tx>>
  BY DEF ApproveToEoa, CodeAnswered, Ends
<1>2. s # None => s \in Spender  BY <1>1, UnderWay
<1>3. ISTypeOK'  BY <1>1 DEF ISTypeOK, isVars, memory, past
<1>4. /\ hits' = hits \/ hits' = hits \union {"approve_to_eoa"}
      /\ failed' \in {failed, failed \union {"eth_getCode"}}
      /\ pc' \in {"transfer_from", "eth_getCode"}
      /\ pc' = "eth_getCode" => s # None
  BY DEF ApproveToEoa, CodeAnswered, Ends
<1>5. TurnOK'
  BY <1>1, <1>4 DEF TurnOK, RuleId, Lookup, SpenderOf
<1>6. /\ CacheInv'
      /\ pc' = "transfer_from" /\ s # None =>
           "approve_to_eoa" \in hits' \/ s \in deployed' \/ "eth_getCode" \in failed'
  <2>1. CASE ApproveToEoa
    <3>1. ASSUME s = None PROVE UNCHANGED bytecodeVars
      <4>1. SpenderOf(tx) = None  BY <3>1
      <4> QED  BY <2>1, <4>1 DEF ApproveToEoa
    <3>2. ASSUME s # None
          PROVE  \/ CachedYes(s) /\ positives[s] > 0 /\ UNCHANGED deployed
                 \/ CachedNo(s) /\ hits' = hits \union {"approve_to_eoa"}
                 \/ Miss(s) /\ pc' = "eth_getCode"
      BY <2>1, <3>2 DEF ApproveToEoa, Ends, CachedYes
    <3>3. CASE s = None
      <4>1. UNCHANGED bytecodeVars  BY <3>1, <3>3
      <4>2. CacheInv'
        BY <4>1 DEF CacheInv, BytecodeTypeOK, CacheIsExcused, bytecodeVars, bcCache
      <4> QED  BY <3>3, <4>2
    <3>4. CASE s # None
      <4>1. CacheInv'  BY <1>2, <3>2, <3>4, CacheStep
      <4> QED  BY <1>2, <3>2, <3>4, <4>1 DEF CacheInv, CacheIsExcused
    <3> QED  BY <3>3, <3>4
  <2>2. CASE CodeAnswered
    <3>1. s # None  BY <2>2 DEF CodeAnswered, TurnOK
    <3>2. \/ s \in deployed /\ KeepYes(s)
          \/ KeepNo(s) /\ hits' = hits \union {"approve_to_eoa"}
          \/ UNCHANGED bytecodeVars /\ failed' = failed \union {"eth_getCode"}
      BY <2>2 DEF CodeAnswered, Ends
    <3>3. CacheInv'  BY <1>2, <3>1, <3>2, CacheStep
    <3> QED  BY <3>2, <3>3 DEF KeepYes
  <2> QED  BY <2>1, <2>2
<1>7. Decisions'
  <2>1. ~After2 /\ ~After3 /\ ~After2' /\ ~After3' /\ (After1' => pc' = "transfer_from")
    BY <1>1, <1>4 DEF After1, After2, After3
  <2>2. ApproveDecided'  BY <1>1, <1>6, <2>1 DEF ApproveDecided
  <2>3. TransferDecided' /\ AmountDecided'
    BY <1>4, <2>1 DEF TransferDecided, AmountDecided
  <2> QED  BY <2>2, <2>3 DEF Decisions
<1> QED  BY <1>3, <1>5, <1>6, <1>7 DEF Decisions

(* The second rule decides on what has answered. *)
LEMMA TransferKeepsInv ==
  ASSUME ScreeningInv, NEW down \in SUBSET Lookup, NEW crash \in BOOLEAN,
         TransferFrom(down, crash)
  PROVE  ScreeningInv'
<1> USE DEF ScreeningInv
<1>1. /\ pc = "transfer_from" /\ pc' = "unlimited_approval"
      /\ UNCHANGED <<isVars, bytecodeVars, feed, tx, wall>>
      /\ down \subseteq {"allowance", "isApprovedForAll"} /\ (crash => down # {})
      /\ failed' = failed \union down
      /\ hits' = IF ~crash /\ Unauthorized(tx, down) THEN hits \union {"transfer_from"} ELSE hits
  BY DEF TransferFrom, Ends
<1>2. ISTypeOK' /\ CacheInv'
  BY <1>1 DEF ISTypeOK, isVars, memory, past, CacheInv, BytecodeTypeOK, CacheIsExcused,
              bytecodeVars, bcCache
<1>3. TurnOK'  BY <1>1 DEF TurnOK, RuleId
<1>4. ApproveDecided'
  BY <1>1 DEF ApproveDecided, After1, bytecodeVars
<1>5. /\ tx.allowance \in {"enough", "short", "none"} /\ tx.forAll \in {"yes", "no", "none"}
  BY <1>1, UnderWay
<1>6. TransferDecided'
  <2>1. /\ After2' /\ ~After2 /\ "transfer_from" \notin hits
        /\ failed \cap {"allowance", "isApprovedForAll"} = {}
    BY <1>1 DEF After2, TransferDecided
  <2>2. /\ "allowance" \in failed' <=> "allowance" \in down
        /\ "isApprovedForAll" \in failed' <=> "isApprovedForAll" \in down
    BY <1>1, <2>1
  <2>3. ASSUME "transfer_from" \in hits'
        PROVE  /\ tx.owner # tx.from
               /\ \/ Read(tx.allowance, "allowance", failed') = "short"
                  \/ Read(tx.forAll, "isApprovedForAll", failed') = "no"
               /\ tx.allowance = "enough" => "allowance" \in failed'
               /\ tx.forAll = "yes" => "isApprovedForAll" \in failed'
    <3>1. Unauthorized(tx, down)  BY <1>1, <2>1, <2>3
    <3> QED  BY <1>5, <2>2, <3>1 DEF Unauthorized, Read, Answered
  <2>4. ASSUME tx.to # None, tx.method = "transferFrom", tx.words = 3,
               failed' = {}, ~Authorized(tx), {tx.allowance, tx.forAll} # {"none"}
        PROVE  "transfer_from" \in hits'
    <3>1. down = {} /\ ~crash  BY <1>1, <2>4
    <3>2. Unauthorized(tx, down)  BY <1>5, <2>4, <3>1 DEF Unauthorized, Authorized, Read, Answered
    <3> QED  BY <1>1, <3>1, <3>2
  <2>5. tx' = tx  BY <1>1
  <2> HIDE DEF ScreeningInv
  <2> QED  BY <2>1, <2>3, <2>4, <2>5 DEF TransferDecided, Authorized, Read, Answered
<1>7. AmountDecided'  BY <1>1 DEF AmountDecided, After3, Disproportionate
<1> QED  BY <1>2, <1>3, <1>4, <1>6, <1>7

(* The third rule decides on the amount and the balance it could read. *)
LEMMA AmountKeepsInv ==
  ASSUME ScreeningInv, NEW down \in SUBSET Lookup, UnlimitedApproval(down)
  PROVE  ScreeningInv'
<1> USE DEF ScreeningInv
<1>1. /\ pc = "unlimited_approval" /\ pc' = "fresh_approval"
      /\ UNCHANGED <<isVars, bytecodeVars, feed, tx, wall>>
      /\ failed' = failed \union down /\ down \subseteq {"balanceOf"}
      /\ hits' = IF Outsized(tx, down) THEN hits \union {"unlimited_approval"} ELSE hits
  BY DEF UnlimitedApproval, Ends
<1>2. ISTypeOK' /\ CacheInv'
  BY <1>1 DEF ISTypeOK, isVars, memory, past, CacheInv, BytecodeTypeOK, CacheIsExcused,
              bytecodeVars, bcCache
<1>3. TurnOK'  BY <1>1 DEF TurnOK, RuleId
<1>4. ApproveDecided'  BY <1>1 DEF ApproveDecided, After1, bytecodeVars
<1>5. TransferDecided'  BY <1>1 DEF TransferDecided, After2, Authorized, Read, Answered
<1>6. AmountDecided'
  <2>1. After3' /\ "unlimited_approval" \notin hits /\ "balanceOf" \notin failed
    BY <1>1 DEF AmountDecided, After3
  <2>2. "unlimited_approval" \in hits' <=> Outsized(tx, down)  BY <1>1, <2>1
  <2>3. tx.balance \in Nat  BY <1>1, UnderWay
  <2>4. "balanceOf" \in failed' <=> "balanceOf" \in down  BY <1>1, <2>1
  <2>5. Outsized(tx, down) <=>
          /\ AmountDecodes(tx)
          /\ tx.amount = UintMax \/ ("balanceOf" \notin failed' /\ Disproportionate)
    BY <2>3, <2>4 DEF Outsized, Answered, Disproportionate
  <2>6. Disproportionate' <=> Disproportionate  BY <1>1 DEF Disproportionate
  <2> HIDE DEF ScreeningInv
  <2> QED  BY <1>1, <2>1, <2>2, <2>5, <2>6 DEF AmountDecided, AmountDecodes
<1> QED  BY <1>2, <1>3, <1>4, <1>5, <1>6

(* The fourth rule learns; what the others have decided stands. *)
LEMMA FreshKeepsInv ==
  ASSUME ScreeningInv, FreshApproval
  PROVE  ScreeningInv'
<1> USE DEF ScreeningInv
<1>1. /\ pc = "fresh_approval" /\ pc' = "handle"
      /\ UNCHANGED <<bytecodeVars, feed, tx, wall>>
      /\ failed' = failed
      /\ hits' = hits \/ hits' = hits \union {"fresh_approval"}
  BY DEF FreshApproval, Ends
<1>2. CacheInv'
  BY <1>1 DEF CacheInv, BytecodeTypeOK, CacheIsExcused, bytecodeVars, bcCache
<1>3. TurnOK'  BY <1>1 DEF TurnOK, RuleId
<1>4. ISTypeOK'
  <2>1. tx.from \in Monitored /\ tx.to \in Dest \union {None} /\ wall \in 0 .. MaxWall
    BY <1>1, UnderWay DEF TurnOK
  <2>2. CASE UNCHANGED isVars  BY <2>2 DEF ISTypeOK, isVars, memory, past
  <2>3. CASE /\ tx.to # None
             /\ RecordApproval(tx.from, wall) \/ UNCHANGED <<approvals, approvedAt, lastApproval, approvers>>
             /\ RecordDestination(tx.from, tx.to)
    <3>1. tx.to \in Dest  BY <2>1, <2>3
    <3>2. /\ approvals' \in [Monitored -> 0 .. MaxAddrs]
          /\ approvedAt' \in [Monitored -> 0 .. MaxWall]
          /\ lastApproval' \in [Monitored -> 0 .. Never]
          /\ approvers' \in [Monitored -> SUBSET Monitored]
      <4>1. CASE RecordApproval(tx.from, wall)  BY <2>1, <4>1, ApprovalIsTyped
      <4>2. CASE UNCHANGED <<approvals, approvedAt, lastApproval, approvers>>
        BY <4>2 DEF ISTypeOK
      <4> QED  BY <2>3, <4>1, <4>2
    <3>3. /\ buckets' \in [Monitored -> 0 .. MaxAddrs]
          /\ seen' \in [Monitored -> [Dest -> 0 .. MaxDests]]
          /\ called' \in SUBSET Call
          /\ destsSince' \in [Call -> SUBSET Dest]
          /\ addrsSince' \in [Call -> SUBSET Monitored]
      BY <2>1, <2>3, <3>1, DestinationIsTyped
    <3> QED  BY <3>2, <3>3 DEF ISTypeOK
  <2> QED  BY <2>2, <2>3 DEF FreshApproval
<1>5. ApproveDecided'  BY <1>1 DEF ApproveDecided, After1, bytecodeVars
<1>6. TransferDecided'
  <2>1. After2 /\ After2'  BY <1>1 DEF After2
  <2> QED  BY <1>1, <2>1 DEF TransferDecided, Authorized, Read, Answered
<1>7. AmountDecided'
  <2>1. After3 /\ After3'  BY <1>1 DEF After3
  <2> QED  BY <1>1, <2>1 DEF AmountDecided, AmountDecodes, Disproportionate
<1> QED  BY <1>2, <1>3, <1>4, <1>5, <1>6, <1>7

(* A transaction is taken up, or handed over: nothing is decided of it. *)
LEMMA TurnsKeepInv ==
  ASSUME ScreeningInv, (\E t \in Feed[feed] : Get(t)) \/ Handle
  PROVE  ScreeningInv'
<1> USE DEF ScreeningInv
<1>1. UNCHANGED <<feed, wall, isVars, bytecodeVars>>  BY DEF Get, Handle
<1>2. ISTypeOK' /\ CacheInv'
  BY <1>1 DEF ISTypeOK, isVars, memory, past, CacheInv, BytecodeTypeOK, CacheIsExcused,
              bytecodeVars, bcCache
<1>3. TurnOK'
  <2>1. ASSUME NEW t \in Feed[feed], Get(t)  PROVE TurnOK'
    <3>1. t \in PendingTx /\ t # None  BY ScreeningAssumption DEF TurnOK
    <3> QED  BY <2>1, <3>1 DEF Get, TurnOK, RuleId
  <2>2. CASE Handle  BY <2>2 DEF Handle, TurnOK
  <2> QED  BY <2>1, <2>2
<1>4. ~After1' /\ ~After2' /\ ~After3'  BY DEF Get, Handle, After1, After2, After3
<1>5. /\ "transfer_from" \notin hits' /\ "unlimited_approval" \notin hits'
      /\ failed' \cap {"allowance", "isApprovedForAll"} = {} /\ "balanceOf" \notin failed'
  BY DEF Get, Handle, TransferDecided, AmountDecided, After2, After3
<1>6. ApproveDecided' /\ TransferDecided' /\ AmountDecided'
  BY <1>4, <1>5 DEF ApproveDecided, TransferDecided, AmountDecided
<1> QED  BY <1>2, <1>3, <1>6

(* Time and the chain go on: a contract stays one, so that what has been   *)
(* decided of the transaction under way stands.                            *)
LEMMA WorldKeepsInv ==
  ASSUME ScreeningInv, Tick \/ SetBack \/ Deployed
  PROVE  ScreeningInv'
<1> USE DEF ScreeningInv
<1>1. UNCHANGED <<feed, pc, tx, hits, failed, isVars>> /\ wall' \in 0 .. MaxWall
  BY InteractionAssumption DEF Tick, SetBack, Deployed, turn, TurnOK
<1>2. ISTypeOK'  BY <1>1 DEF ISTypeOK, isVars, memory, past
<1>3. TurnOK'  BY <1>1 DEF TurnOK
<1>4. CacheInv' /\ deployed \subseteq deployed'
  <2>1. CASE Tick
    <3>1. CacheInv'
      BY <2>1, BytecodeAssumption
      DEF Tick, BytecodeTick, CacheInv, BytecodeTypeOK, CacheIsExcused
    <3> QED  BY <2>1, <3>1 DEF Tick, BytecodeTick
  <2>2. CASE SetBack
    BY <2>2 DEF SetBack, CacheInv, BytecodeTypeOK, CacheIsExcused, bytecodeVars, bcCache
  <2>3. CASE Deployed
    <3>1. PICK t \in Feed[feed] : SpenderOf(t) # None /\ Deploy(SpenderOf(t))
      BY <2>3 DEF Deployed
    <3>2. SpenderOf(t) \in Spender
      <4>1. t \in PendingTx  BY ScreeningAssumption DEF TurnOK
      <4> QED  BY <3>1, <4>1 DEF SpenderOf, PendingTx
    <3>3. CacheInv'  BY <3>1, <3>2, CacheStep
    <3> QED  BY <3>1, <3>3 DEF Deploy
  <2> QED  BY <2>1, <2>2, <2>3
<1>5. ApproveDecided'  BY <1>1, <1>4 DEF ApproveDecided, After1
<1>6. TransferDecided'
  BY <1>1 DEF TransferDecided, After2, Authorized, Read, Answered
<1>7. AmountDecided'
  BY <1>1 DEF AmountDecided, After3, AmountDecodes, Disproportionate
<1> QED  BY <1>2, <1>3, <1>4, <1>5, <1>6, <1>7

(* A new process has nothing under way and nothing cached. *)
LEMMA RestartKeepsInv ==
  ASSUME ScreeningInv, Restart
  PROVE  ScreeningInv'
<1> USE DEF ScreeningInv
<1>1. /\ pc' = "idle" /\ tx' = None /\ hits' = {} /\ failed' = {}
      /\ ISForget /\ BytecodeForget /\ UNCHANGED <<feed, wall>>
  BY DEF Restart
<1>2. TurnOK'  BY <1>1 DEF TurnOK
<1>3. ISTypeOK'  BY <1>1, ForgetIsTyped
<1>4. CacheInv'
  BY <1>1, BytecodeAssumption DEF BytecodeForget, CacheInv, BytecodeTypeOK, CacheIsExcused, Empty
<1>5. ApproveDecided' /\ TransferDecided' /\ AmountDecided'
  BY <1>1 DEF ApproveDecided, TransferDecided, AmountDecided, After1, After2, After3
<1> QED  BY <1>2, <1>3, <1>4, <1>5

(* Every step keeps the invariant: the rules, the turns, the world, restarts. *)
LEMMA ScreeningStep ==
  ASSUME ScreeningInv, [Next]_vars
  PROVE  ScreeningInv'
<1>1. CASE RunRule
  <2>1. CASE ApproveToEoa \/ CodeAnswered  BY <2>1, ApproveKeepsInv
  <2>2. ASSUME NEW down \in SUBSET Lookup, NEW crash \in BOOLEAN, TransferFrom(down, crash)
        PROVE  ScreeningInv'
    BY <2>2, TransferKeepsInv
  <2>3. ASSUME NEW down \in SUBSET Lookup, UnlimitedApproval(down)
        PROVE  ScreeningInv'
    BY <2>3, AmountKeepsInv
  <2>4. CASE FreshApproval  BY <2>4, FreshKeepsInv
  <2> QED  BY <1>1, <2>1, <2>2, <2>3, <2>4 DEF RunRule
<1>2. CASE (\E t \in Feed[feed] : Get(t)) \/ Handle  BY <1>2, TurnsKeepInv
<1>3. CASE Tick \/ SetBack \/ Deployed  BY <1>3, WorldKeepsInv
<1>4. CASE Restart  BY <1>4, RestartKeepsInv
<1>5. CASE UNCHANGED vars
  <2> USE <1>5 DEF vars, ScreeningInv
  <2>1. ISTypeOK'  BY DEF ISTypeOK, isVars, memory, past
  <2>2. CacheInv'  BY DEF CacheInv, BytecodeTypeOK, CacheIsExcused, bytecodeVars, bcCache
  <2>3. TurnOK'  BY DEF TurnOK, turn
  <2>4. ApproveDecided'  BY DEF ApproveDecided, After1, turn, bytecodeVars
  <2>5. TransferDecided'
    BY DEF TransferDecided, After2, Authorized, Read, Answered, turn
  <2>6. AmountDecided'
    BY DEF AmountDecided, After3, AmountDecodes, Disproportionate, turn
  <2> QED  BY <2>1, <2>2, <2>3, <2>4, <2>5, <2>6
<1> QED  BY <1>1, <1>2, <1>3, <1>4, <1>5 DEF Next

-----------------------------------------------------------------------------
(* The cache tells the truth of contracts and has an excuse for the rest,  *)
(* and the hits of the transaction under way are what its rules decided.   *)
THEOREM ScreeningInvariant == Spec => []ScreeningInv
<1>1. ScreeningInv /\ [Next]_vars => ScreeningInv'  BY ScreeningStep
<1> QED  BY ScreeningInit, <1>1, PTL DEF Spec

(* The memories stay within their bounds (max_addresses,                   *)
(* max_destinations_per_addr, max_entries), whatever is announced.         *)
THEOREM ScreeningTypes == Spec => []ScreeningTypeOK
<1>1. ScreeningInv => ScreeningTypeOK
  BY DEF ScreeningInv, TurnOK, CacheInv, ScreeningTypeOK
<1> QED  BY ScreeningInvariant, <1>1, PTL

(* T1.1 misses no approval of an address without code, however the cache   *)
(* is used and bounded, unless an exception ended the rule.                *)
THEOREM EoaSpenderIsHit == Spec => []EoaSpenderIsFlagged
<1>1. ScreeningInv => EoaSpenderIsFlagged
  BY DEF ScreeningInv, ApproveDecided, After1, EoaSpenderIsFlagged
<1> QED  BY ScreeningInvariant, <1>1, PTL

(* T1.3 flags only if a read has said no, and a transfer that the chain    *)
(* allows only if every read that would have said so failed; T1.4 flags    *)
(* only on a balance it has read, unless the amount is maximal.            *)
THEOREM FlagsHaveAnAnswer == Spec => []FlagsRestOnAnswers
<1>1. ScreeningInv => FlagsRestOnAnswers
  BY DEF ScreeningInv, TransferDecided, AmountDecided, After2, After3, Disproportionate,
         FlagsRestOnAnswers
<1> QED  BY ScreeningInvariant, <1>1, PTL

(* And they flag what the rows of their docstrings say, save that T1.4     *)
(* excepts a balance of zero.                                              *)
THEOREM DecisionTablesHold == Spec => []NothingMissed
<1>1. ScreeningInv => NothingMissed
  BY DEF ScreeningInv, TransferDecided, AmountDecided, After2, After3, Disproportionate,
         NothingMissed
<1> QED  BY ScreeningInvariant, <1>1, PTL

(* T1.1 takes a contract for an address without code only as long after    *)
(* its deployment, or after a failed lookup, as a "no" is kept.            *)
THEOREM ContractIsKnownSoon == Spec => ContractTakenForEoaBriefly
<1> DEFINE Excused == Fires("approve_to_eoa") => excuse'[tx.spender] > 0
<1>1. ScreeningInv /\ [Next]_vars => [Excused]_vars
  <2> SUFFICES ASSUME ScreeningInv, [Next]_vars, Fires("approve_to_eoa")
               PROVE  excuse'[tx.spender] > 0
    OBVIOUS
  <2>1. ApproveToEoa \/ CodeAnswered
    <3>1. ~ UNCHANGED hits /\ hits' # {}  BY DEF Fires
    <3>2. RunRule
      BY <3>1 DEF Next, Get, Handle, Tick, SetBack, Deployed, Restart, vars, turn
    <3> QED
      BY <3>2 DEF RunRule, TransferFrom, UnlimitedApproval, FreshApproval, Ends, Fires
  <2>2. pc # "idle" /\ TurnOK  BY <2>1 DEF ApproveToEoa, CodeAnswered, ScreeningInv
  <2>3. \/ SpenderOf(tx) # None /\ CachedNo(SpenderOf(tx))
        \/ pc = "eth_getCode" /\ KeepNo(SpenderOf(tx))
    BY <2>1 DEF ApproveToEoa, CodeAnswered, Ends, Fires
  <2>4. SpenderOf(tx) \in Spender /\ SpenderOf(tx) = tx.spender
    BY <2>2, <2>3, UnderWay DEF TurnOK
  <2>5. /\ excuse \in [Spender -> 0 .. NegativeTtl] /\ ttl \in [Spender -> 0 .. NegativeTtl]
        /\ negatives[tx.spender] > 0 => ttl[tx.spender] <= excuse[tx.spender]
    BY <2>4 DEF ScreeningInv, CacheInv, BytecodeTypeOK, CacheIsExcused
  <2>6. CASE CachedNo(tx.spender)  BY <2>4, <2>5, <2>6, BytecodeAssumption DEF CachedNo, Live
  <2>7. CASE KeepNo(tx.spender)  BY <2>4, <2>5, <2>7, BytecodeAssumption DEF KeepNo
  <2> QED  BY <2>3, <2>4, <2>6, <2>7
<1> QED  BY ScreeningInvariant, <1>1, PTL DEF Spec, ContractTakenForEoaBriefly

-----------------------------------------------------------------------------
(* The memory of interactions against what it has been told.  An age is    *)
(* small if little was used since; so what is gone has been pushed out by  *)
(* as many others as the memory holds.                                     *)

(* No two keys have the same age. *)
Distinct(d) == \A x, y \in DOMAIN d : d[x] = d[y] /\ d[x] > 0 => x = y

(* All of since is there, and younger than x; and x is no older than that  *)
(* accounts for.                                                           *)
Outlived(d, x, since) ==
  d[x] > 0 => /\ d[x] <= Cardinality(since) + 1
              /\ \A y \in since : 0 < d[y] /\ d[y] < d[x]

(* The key that is used is the youngest, and the ages stay apart. *)
LEMMA TouchDistinct ==
  ASSUME NEW K, NEW limit \in Nat \ {0}, NEW d \in [K -> 0 .. limit], NEW k \in K, Distinct(d)
  PROVE  /\ Distinct(Touch(d, k, limit))
         /\ Touch(d, k, limit)[k] = 1
         /\ \A x \in K : Touch(d, k, limit)[x] = 1 => x = k
         /\ Outlived(Touch(d, k, limit), k, {})
<1> DEFINE f(x) == IF x = k THEN 1
                   ELSE IF d[x] = 0 \/ (d[k] > 0 /\ d[k] < d[x]) THEN d[x]
                   ELSE IF d[x] < limit THEN d[x] + 1 ELSE 0
<1>1. Touch(d, k, limit) = [x \in K |-> f(x)]  BY DEF Touch
<1>2. \A x, y \in K : d[x] = d[y] /\ d[x] > 0 => x = y  BY DEF Distinct
<1>3. \A x \in K : d[x] \in 0 .. limit  OBVIOUS
<1>4. \A x \in K : f(x) = 1 => x = k  BY <1>3
<1>5. \A x, y \in K : f(x) = f(y) /\ f(x) > 0 => x = y
  <2> SUFFICES ASSUME NEW x \in K, NEW y \in K, f(x) = f(y), f(x) > 0  PROVE x = y
    OBVIOUS
  <2>1. CASE x = k \/ y = k  BY <1>4, <2>1
  <2>2. CASE x # k /\ y # k
    <3>1. d[x] = d[y] /\ d[x] > 0  BY <1>2, <1>3, <2>2
    <3> QED  BY <1>2, <3>1
  <2> QED  BY <2>1, <2>2
<1>6. f(k) = 1  OBVIOUS
<1> HIDE DEF f
<1>7. Distinct(Touch(d, k, limit))  BY <1>1, <1>5 DEF Distinct
<1>8. Touch(d, k, limit)[k] = 1 /\ \A x \in K : Touch(d, k, limit)[x] = 1 => x = k
  BY <1>1, <1>4, <1>6
<1>9. Outlived(Touch(d, k, limit), k, {})  BY <1>8, FS_EmptySet DEF Outlived
<1> QED  BY <1>7, <1>8, <1>9

(* Whoever is older than the key used now is older than that one too; and  *)
(* only a full memory of younger ones pushes it out.                       *)
LEMMA TouchOutlives ==
  ASSUME NEW K, IsFiniteSet(K), NEW limit \in Nat \ {0}, NEW d \in [K -> 0 .. limit],
         NEW k \in K, Distinct(d), NEW x \in K, x # k, NEW since \in SUBSET K,
         Outlived(d, x, since)
  PROVE  /\ Outlived(Touch(d, k, limit), x, since \union {k})
         /\ d[x] > 0 /\ Touch(d, k, limit)[x] = 0 => Cardinality(since \union {k}) >= limit
<1> DEFINE f(y) == IF y = k THEN 1
                   ELSE IF d[y] = 0 \/ (d[k] > 0 /\ d[k] < d[y]) THEN d[y]
                   ELSE IF d[y] < limit THEN d[y] + 1 ELSE 0
           n == Cardinality(since)
           m == Cardinality(since \union {k})
<1>1. Touch(d, k, limit) = [y \in K |-> f(y)]  BY DEF Touch
<1>2. \A y, z \in K : d[y] = d[z] /\ d[y] > 0 => y = z  BY DEF Distinct
<1>3. \A y \in K : d[y] \in 0 .. limit  OBVIOUS
<1>4. /\ n \in Nat /\ m \in Nat /\ n <= m
      /\ k \notin since => m = n + 1
  <2>1. IsFiniteSet(since)  BY FS_Subset
  <2>2. n \in Nat  BY <2>1, FS_CardinalityType
  <2>3. m = IF k \in since THEN n ELSE n + 1  BY <2>1, FS_AddElement
  <2> QED  BY <2>2, <2>3
<1> HIDE DEF n, m
<1>5. d[x] > 0 => /\ d[x] <= n + 1
                  /\ \A y \in since : 0 < d[y] /\ d[y] < d[x]
  BY DEF Outlived, n
<1>6. ASSUME d[x] > 0, f(x) # d[x]
      PROVE  /\ k \notin since /\ d[x] <= m
             /\ d[k] = 0 \/ d[x] < d[k]
             /\ f(x) = IF d[x] < limit THEN d[x] + 1 ELSE 0
  <2>1. ~(d[k] > 0 /\ d[k] < d[x]) /\ f(x) = IF d[x] < limit THEN d[x] + 1 ELSE 0
    BY <1>6
  <2>2. k \notin since  BY <1>3, <1>5, <1>6, <2>1
  <2>3. d[k] # d[x]  BY <1>2, <1>6
  <2> QED  BY <1>3, <1>4, <1>5, <1>6, <2>1, <2>2, <2>3
<1>7. ASSUME d[x] > 0, f(x) = 0  PROVE m >= limit
  BY <1>3, <1>4, <1>6, <1>7
<1>8. ASSUME f(x) > 0
      PROVE  /\ d[x] > 0 /\ f(x) <= m + 1
             /\ \A y \in since \union {k} : 0 < f(y) /\ f(y) < f(x)
  <2>1. d[x] > 0 /\ (f(x) = d[x] \/ f(x) = d[x] + 1)  BY <1>3, <1>8
  <2>2. f(x) <= m + 1  BY <1>3, <1>4, <1>5, <1>6, <2>1
  <2>3. f(k) = 1 /\ f(x) > 1  BY <1>3, <1>8
  <2>4. ASSUME NEW y \in since, y # k  PROVE 0 < f(y) /\ f(y) < f(x)
    <3>1. 0 < d[y] /\ d[y] < d[x] /\ y \in K  BY <1>5, <2>1
    <3>2. d[y] # d[k]  BY <1>2, <2>4, <3>1
    <3>3. d[x] # d[k]  BY <1>2, <2>1
    <3> QED  BY <1>3, <1>8, <2>4, <3>1, <3>2, <3>3
  <2> QED  BY <2>1, <2>2, <2>3, <2>4
<1>9. \A y \in since \union {k} : y \in K  OBVIOUS
<1> HIDE DEF f
<1> QED  BY <1>1, <1>7, <1>8, <1>9 DEF Outlived, m

-----------------------------------------------------------------------------
(* An approval is remembered with its time until MaxAddrs others approve. *)
ApprovalsRemembered ==
  /\ Distinct(approvals)
  /\ \A a \in Monitored :
       /\ Outlived(approvals, a, approvers[a])
       /\ approvals[a] > 0 => approvedAt[a] = lastApproval[a]
       /\ approvals[a] = 0 /\ lastApproval[a] # Never => Cardinality(approvers[a]) >= MaxAddrs

(* The youngest contract of a bucket dates the bucket: who called after    *)
(* it, called after all the others of that address too.                    *)
BucketRemembered(a) ==
  /\ Distinct(seen[a])
  /\ buckets[a] > 0 => \E d \in Dest : seen[a][d] = 1
  /\ \A d \in Dest :
       /\ seen[a][d] > 0 => buckets[a] > 0 /\ <<a, d>> \in called
       /\ seen[a][d] = 0 /\ <<a, d>> \in called => MayBeForgotten(a, d)
       /\ Outlived(seen[a], d, destsSince[<<a, d>>])
       /\ seen[a][d] = 1 =>
            /\ Outlived(buckets, a, addrsSince[<<a, d>>])
            /\ \A e \in Dest :
                 <<a, e>> \in called => addrsSince[<<a, d>>] \subseteq addrsSince[<<a, e>>]

CallsRemembered == Distinct(buckets) /\ \A a \in Monitored : BucketRemembered(a)

(* The fourth rule has not decided before its turn. *)
FreshPending == pc # "handle" => "fresh_approval" \notin hits

MemoryInv == ISTypeOK /\ ApprovalsRemembered /\ CallsRemembered

(* A new process remembers nothing, and nothing has happened to it. *)
LEMMA EmptyMemory ==
  /\ ISInit => MemoryInv
  /\ ISForget => MemoryInv'
<1> USE InteractionAssumption
    DEF ISInit, ISForget, MemoryInv, ApprovalsRemembered, CallsRemembered, BucketRemembered
<1>1. ISInit => MemoryInv
  <2> SUFFICES ASSUME ISInit PROVE MemoryInv  OBVIOUS
  <2>1. ISTypeOK  BY DEF ISTypeOK, Empty, Never
  <2>2. ApprovalsRemembered  BY DEF Empty, Distinct, Outlived
  <2>3. \A a \in Monitored : seen[a] = Empty(Dest)  OBVIOUS
  <2>4. \A a \in Monitored, d \in Dest : seen[a][d] = 0  BY <2>3 DEF Empty
  <2>5. ASSUME NEW a \in Monitored PROVE BucketRemembered(a)
    <3>1. seen[a] = Empty(Dest) /\ buckets[a] = 0 /\ called = {}  BY <2>3 DEF Empty
    <3>2. Distinct(seen[a])  BY <3>1 DEF Distinct, Empty
    <3> QED  BY <2>4, <3>1, <3>2 DEF Outlived
  <2>6. Distinct(buckets)  BY DEF Distinct, Empty
  <2> QED  BY <2>1, <2>2, <2>5, <2>6
<1>2. ISForget => MemoryInv'
  <2> SUFFICES ASSUME ISForget PROVE MemoryInv'  OBVIOUS
  <2>1. ISTypeOK'  BY ForgetIsTyped
  <2>2. ApprovalsRemembered'  BY DEF Empty, Distinct, Outlived
  <2>3. \A a \in Monitored : seen'[a] = Empty(Dest)  OBVIOUS
  <2>4. \A a \in Monitored, d \in Dest : seen'[a][d] = 0  BY <2>3 DEF Empty
  <2>5. ASSUME NEW a \in Monitored PROVE BucketRemembered(a)'
    <3>1. seen'[a] = Empty(Dest) /\ buckets'[a] = 0 /\ called' = {}  BY <2>3 DEF Empty
    <3>2. Distinct(seen'[a])  BY <3>1 DEF Distinct, Empty
    <3> QED  BY <2>4, <3>1, <3>2 DEF Outlived
  <2>6. Distinct(buckets)'  BY DEF Distinct, Empty
  <2> QED  BY <2>1, <2>2, <2>5, <2>6
<1> QED  BY <1>1, <1>2

(* An approval is the youngest; the others have one more behind them. *)
LEMMA ApprovalKeepsMemory ==
  ASSUME ISTypeOK, ApprovalsRemembered,
         NEW a \in Monitored, NEW now \in 0 .. MaxWall, RecordApproval(a, now)
  PROVE  ApprovalsRemembered'
<1> USE InteractionAssumption
<1> DEFINE order == Touch(approvals, a, MaxAddrs)
<1>1. /\ approvals \in [Monitored -> 0 .. MaxAddrs] /\ Distinct(approvals)
      /\ approvedAt \in [Monitored -> 0 .. MaxWall]
      /\ lastApproval \in [Monitored -> 0 .. Never]
      /\ approvers \in [Monitored -> SUBSET Monitored]
  BY DEF ISTypeOK, ApprovalsRemembered
<1>2. /\ Distinct(order) /\ order[a] = 1 /\ Outlived(order, a, {})
      /\ order \in [Monitored -> 0 .. MaxAddrs]
      /\ \A b \in Monitored : b # a /\ order[b] > 0 => approvals[b] > 0
  BY <1>1, TouchDistinct, TouchType
<1>3. ASSUME NEW b \in Monitored, b # a
      PROVE  /\ Outlived(order, b, approvers[b] \union {a})
             /\ approvals[b] > 0 /\ order[b] = 0 => Cardinality(approvers[b] \union {a}) >= MaxAddrs
             /\ Cardinality(approvers[b]) <= Cardinality(approvers[b] \union {a})
             /\ Cardinality(approvers[b]) \in Nat /\ Cardinality(approvers[b] \union {a}) \in Nat
  <2>1. Outlived(approvals, b, approvers[b]) /\ approvers[b] \in SUBSET Monitored
    BY <1>1 DEF ApprovalsRemembered
  <2>2. IsFiniteSet(approvers[b])  BY <2>1, FS_Subset
  <2>3. /\ Cardinality(approvers[b]) \in Nat
        /\ Cardinality(approvers[b] \union {a}) =
             IF a \in approvers[b] THEN Cardinality(approvers[b]) ELSE Cardinality(approvers[b]) + 1
    BY <2>2, FS_CardinalityType, FS_AddElement
  <2> QED  BY <1>1, <1>3, <2>1, <2>3, TouchOutlives
<1>4. /\ approvals' = order
      /\ approvedAt' = [b \in Monitored |-> IF order[b] = 0 THEN 0
                                            ELSE IF b = a THEN now ELSE approvedAt[b]]
      /\ lastApproval' = [lastApproval EXCEPT ![a] = now]
      /\ approvers' = [b \in Monitored |-> IF b = a THEN {} ELSE approvers[b] \union {a}]
  BY DEF RecordApproval
<1> HIDE DEF order
<1>5. ASSUME NEW b \in Monitored
      PROVE  /\ Outlived(approvals, b, approvers[b])'
             /\ approvals'[b] > 0 => approvedAt'[b] = lastApproval'[b]
             /\ approvals'[b] = 0 /\ lastApproval'[b] # Never => Cardinality(approvers'[b]) >= MaxAddrs
  <2>1. CASE b = a  BY <1>1, <1>2, <1>4, <2>1
  <2>2. CASE b # a
    <3>1. approvers'[b] = approvers[b] \union {a} /\ lastApproval'[b] = lastApproval[b]
      BY <1>1, <1>4, <2>2
    <3>2. Outlived(approvals, b, approvers[b])'  BY <1>3, <1>4, <2>2, <3>1
    <3>3. approvals'[b] > 0 => approvedAt'[b] = lastApproval'[b]
      BY <1>2, <1>4, <2>2, <3>1 DEF ApprovalsRemembered
    <3>4. ASSUME approvals'[b] = 0, lastApproval'[b] # Never
          PROVE  Cardinality(approvers'[b]) >= MaxAddrs
      <4>1. CASE approvals[b] > 0  BY <1>3, <1>4, <2>2, <3>1, <3>4, <4>1
      <4>2. CASE approvals[b] = 0
        <5>1. Cardinality(approvers[b]) >= MaxAddrs
          BY <3>1, <3>4, <4>2 DEF ApprovalsRemembered
        <5> QED  BY <1>3, <2>2, <3>1, <5>1
      <4> QED  BY <1>1, <4>1, <4>2
    <3> QED  BY <3>2, <3>3, <3>4
  <2> QED  BY <2>1, <2>2
<1> QED  BY <1>2, <1>4, <1>5 DEF ApprovalsRemembered

(* A larger finite set has no fewer elements. *)
LEMMA MoreElements ==
  ASSUME NEW T, IsFiniteSet(T), NEW S \in SUBSET T
  PROVE  Cardinality(S) \in Nat /\ Cardinality(T) \in Nat /\ Cardinality(S) <= Cardinality(T)
BY FS_Subset, FS_CardinalityType

(* What a call does to the histories: its own begin anew, those of the     *)
(* other contracts of its address and those of the other addresses grow.   *)
LEMMA CallHistories ==
  ASSUME ISTypeOK, NEW a \in Monitored, NEW d \in Dest, RecordDestination(a, d),
         NEW b \in Monitored, NEW e \in Dest
  PROVE  /\ destsSince[<<b, e>>] \in SUBSET Dest /\ addrsSince[<<b, e>>] \in SUBSET Monitored
         /\ b = a /\ e = d => destsSince'[<<b, e>>] = {} /\ addrsSince'[<<b, e>>] = {}
         /\ b = a /\ e # d => /\ destsSince'[<<b, e>>] = destsSince[<<b, e>>] \union {d}
                              /\ addrsSince'[<<b, e>>] = addrsSince[<<b, e>>]
         /\ b # a => /\ destsSince'[<<b, e>>] = destsSince[<<b, e>>]
                     /\ addrsSince'[<<b, e>>] = addrsSince[<<b, e>>] \union {a}
         /\ (b # a \/ e # d) /\ MayBeForgotten(b, e) => MayBeForgotten(b, e)'
         /\ <<b, e>> \in called' <=> <<b, e>> \in called \/ (b = a /\ e = d)
<1> USE InteractionAssumption
<1>1. <<b, e>> \in Call  BY DEF Call
<1>2. destsSince[<<b, e>>] \in SUBSET Dest /\ addrsSince[<<b, e>>] \in SUBSET Monitored
  BY <1>1 DEF ISTypeOK
<1>3. /\ b = a /\ e = d => destsSince'[<<b, e>>] = {} /\ addrsSince'[<<b, e>>] = {}
      /\ b = a /\ e # d => /\ destsSince'[<<b, e>>] = destsSince[<<b, e>>] \union {d}
                           /\ addrsSince'[<<b, e>>] = addrsSince[<<b, e>>]
      /\ b # a => /\ destsSince'[<<b, e>>] = destsSince[<<b, e>>]
                  /\ addrsSince'[<<b, e>>] = addrsSince[<<b, e>>] \union {a}
  BY <1>1 DEF RecordDestination
<1>4. <<b, e>> \in called' <=> <<b, e>> \in called \/ (b = a /\ e = d)
  BY DEF RecordDestination
<1>5. ASSUME b # a \/ e # d, MayBeForgotten(b, e)  PROVE MayBeForgotten(b, e)'
  <2>1. /\ destsSince'[<<b, e>>] \in SUBSET Dest /\ addrsSince'[<<b, e>>] \in SUBSET Monitored
        /\ destsSince[<<b, e>>] \subseteq destsSince'[<<b, e>>]
        /\ addrsSince[<<b, e>>] \subseteq addrsSince'[<<b, e>>]
    BY <1>2, <1>3, <1>5
  <2>2. IsFiniteSet(destsSince'[<<b, e>>]) /\ IsFiniteSet(addrsSince'[<<b, e>>])
    BY <2>1, FS_Subset
  <2>3. /\ Cardinality(destsSince[<<b, e>>]) \in Nat
        /\ Cardinality(destsSince'[<<b, e>>]) \in Nat
        /\ Cardinality(destsSince[<<b, e>>]) <= Cardinality(destsSince'[<<b, e>>])
    BY <2>1, <2>2, MoreElements
  <2>4. /\ Cardinality(addrsSince[<<b, e>>]) \in Nat
        /\ Cardinality(addrsSince'[<<b, e>>]) \in Nat
        /\ Cardinality(addrsSince[<<b, e>>]) <= Cardinality(addrsSince'[<<b, e>>])
    BY <2>1, <2>2, MoreElements
  <2> QED  BY <1>5, <2>3, <2>4 DEF MayBeForgotten
<1> QED  BY <1>2, <1>3, <1>4, <1>5

(* The bucket of the address that calls: the contract comes first, and the *)
(* one that is dropped has as many behind it as the bucket holds.          *)
LEMMA OwnBucket ==
  ASSUME ISTypeOK, CallsRemembered, NEW a \in Monitored, NEW d \in Dest, RecordDestination(a, d)
  PROVE  BucketRemembered(a)'
<1> USE InteractionAssumption
<1> DEFINE order == Touch(buckets, a, MaxAddrs)
           bucket == Touch(seen[a], d, MaxDests)
<1>1. /\ buckets \in [Monitored -> 0 .. MaxAddrs] /\ Distinct(buckets)
      /\ seen[a] \in [Dest -> 0 .. MaxDests] /\ BucketRemembered(a)
  BY DEF ISTypeOK, CallsRemembered
<1>2. order[a] = 1 /\ Outlived(order, a, {})  BY <1>1, TouchDistinct
<1>3. /\ Distinct(bucket) /\ bucket[d] = 1 /\ Outlived(bucket, d, {})
      /\ \A e \in Dest : bucket[e] = 1 => e = d
      /\ bucket \in [Dest -> 0 .. MaxDests]
      /\ \A e \in Dest : e # d /\ bucket[e] > 0 => seen[a][e] > 0
  BY <1>1, TouchDistinct, TouchType, BucketRemembered(a) DEF BucketRemembered
<1>4. ASSUME NEW e \in Dest, e # d
      PROVE  /\ Outlived(bucket, e, destsSince'[<<a, e>>])
             /\ seen[a][e] > 0 /\ bucket[e] = 0 => Cardinality(destsSince'[<<a, e>>]) >= MaxDests
  <2>1. /\ destsSince[<<a, e>>] \in SUBSET Dest
        /\ destsSince'[<<a, e>>] = destsSince[<<a, e>>] \union {d}
    BY <1>4, CallHistories
  <2>2. Outlived(seen[a], e, destsSince[<<a, e>>]) /\ Distinct(seen[a])
    BY <1>1 DEF BucketRemembered
  <2> DEFINE since == destsSince[<<a, e>>]
  <2>3. /\ Outlived(bucket, e, since \union {d})
        /\ seen[a][e] > 0 /\ bucket[e] = 0 => Cardinality(since \union {d}) >= MaxDests
    BY <1>1, <1>4, <2>1, <2>2, TouchOutlives
  <2> HIDE DEF bucket
  <2> QED  BY <2>1, <2>3
<1>5. seen'[a] = bucket /\ buckets' = order  BY DEF RecordDestination, ISTypeOK
<1> HIDE DEF order, bucket
<1>6. ASSUME NEW e \in Dest
      PROVE  /\ seen'[a][e] > 0 => buckets'[a] > 0 /\ <<a, e>> \in called'
             /\ seen'[a][e] = 0 /\ <<a, e>> \in called' => MayBeForgotten(a, e)'
             /\ Outlived(seen'[a], e, destsSince'[<<a, e>>])
             /\ seen'[a][e] = 1 => e = d /\ addrsSince'[<<a, e>>] = {}
  <2>1. CASE e = d
    <3>1. <<a, e>> \in called' /\ destsSince'[<<a, e>>] = {} /\ addrsSince'[<<a, e>>] = {}
      BY <2>1, CallHistories
    <3> QED  BY <1>2, <1>3, <1>5, <2>1, <3>1
  <2>2. CASE e # d
    <3>1. /\ <<a, e>> \in called' <=> <<a, e>> \in called
          /\ MayBeForgotten(a, e) => MayBeForgotten(a, e)'
      BY <2>2, CallHistories
    <3>2. ASSUME seen'[a][e] = 0, <<a, e>> \in called'  PROVE MayBeForgotten(a, e)'
      <4>1. CASE seen[a][e] = 0  BY <1>1, <3>1, <3>2, <4>1 DEF BucketRemembered
      <4>2. CASE seen[a][e] > 0
        <5>1. Cardinality(destsSince'[<<a, e>>]) >= MaxDests  BY <1>4, <1>5, <2>2, <3>2, <4>2
        <5> QED  BY <5>1 DEF MayBeForgotten
      <4> QED  BY <1>1, <4>1, <4>2
    <3>3. seen'[a][e] > 0 => buckets'[a] > 0 /\ <<a, e>> \in called'
      BY <1>1, <1>2, <1>3, <1>5, <2>2, <3>1 DEF BucketRemembered
    <3> QED  BY <1>3, <1>4, <1>5, <2>2, <3>2, <3>3
  <2> QED  BY <2>1, <2>2
<1>7. buckets'[a] > 0 => \E e \in Dest : seen'[a][e] = 1  BY <1>3, <1>5
<1>8. Outlived(buckets', a, {}) /\ Distinct(seen'[a])  BY <1>2, <1>3, <1>5
<1> QED  BY <1>6, <1>7, <1>8 DEF BucketRemembered

(* The bucket of another address: it ages by one, or it is dropped with    *)
(* all its contracts, because MaxAddrs addresses have called since its     *)
(* youngest contract was called.                                           *)
LEMMA OtherBucket ==
  ASSUME ISTypeOK, CallsRemembered, NEW a \in Monitored, NEW d \in Dest, RecordDestination(a, d),
         NEW b \in Monitored, b # a
  PROVE  BucketRemembered(b)'
<1> USE InteractionAssumption
<1> DEFINE order == Touch(buckets, a, MaxAddrs)
<1>1. /\ buckets \in [Monitored -> 0 .. MaxAddrs] /\ Distinct(buckets)
      /\ seen[b] \in [Dest -> 0 .. MaxDests] /\ BucketRemembered(b)
  BY DEF ISTypeOK, CallsRemembered
<1>2. ASSUME NEW e \in Dest
      PROVE  /\ addrsSince[<<b, e>>] \in SUBSET Monitored
             /\ destsSince'[<<b, e>>] = destsSince[<<b, e>>]
             /\ addrsSince'[<<b, e>>] = addrsSince[<<b, e>>] \union {a}
             /\ <<b, e>> \in called' <=> <<b, e>> \in called
             /\ MayBeForgotten(b, e) => MayBeForgotten(b, e)'
  BY CallHistories
<1>3. ASSUME NEW e \in Dest, seen[b][e] = 1
      PROVE  /\ Outlived(order, b, addrsSince'[<<b, e>>])
             /\ buckets[b] > 0 /\ order[b] = 0 => Cardinality(addrsSince'[<<b, e>>]) >= MaxAddrs
  <2>1. Outlived(buckets, b, addrsSince[<<b, e>>])  BY <1>1, <1>3 DEF BucketRemembered
  <2> DEFINE since == addrsSince[<<b, e>>]
  <2>2. since \in SUBSET Monitored /\ addrsSince'[<<b, e>>] = since \union {a}  BY <1>2
  <2>3. /\ Outlived(order, b, since \union {a})
        /\ buckets[b] > 0 /\ order[b] = 0 => Cardinality(since \union {a}) >= MaxAddrs
    BY <1>1, <2>1, <2>2, TouchOutlives
  <2> HIDE DEF order
  <2> QED  BY <2>2, <2>3
<1>4. order \in [Monitored -> 0 .. MaxAddrs] /\ (order[b] > 0 => buckets[b] > 0)
  BY <1>1, TouchType
<1>5. buckets' = order /\ seen'[b] = IF order[b] = 0 THEN Empty(Dest) ELSE seen[b]
  BY DEF RecordDestination, ISTypeOK
<1> HIDE DEF order
<1>6. CASE order[b] = 0
  <2>1. seen'[b] = Empty(Dest) /\ \A e \in Dest : seen'[b][e] = 0  BY <1>5, <1>6 DEF Empty
  <2>2. Distinct(seen'[b])  BY <2>1 DEF Distinct, Empty
  <2>3. ASSUME NEW e \in Dest, <<b, e>> \in called'  PROVE MayBeForgotten(b, e)'
    <3>1. CASE seen[b][e] = 0  BY <1>1, <1>2, <2>3, <3>1 DEF BucketRemembered
    <3>2. CASE seen[b][e] > 0
      <4>1. buckets[b] > 0  BY <1>1, <3>2 DEF BucketRemembered
      <4>2. PICK f \in Dest : seen[b][f] = 1  BY <1>1, <4>1 DEF BucketRemembered
      <4>3. Cardinality(addrsSince'[<<b, f>>]) >= MaxAddrs  BY <1>3, <1>6, <4>1, <4>2
      <4>4. addrsSince[<<b, f>>] \subseteq addrsSince[<<b, e>>]
        BY <1>1, <1>2, <2>3, <4>2 DEF BucketRemembered
      <4>5. /\ addrsSince'[<<b, f>>] \subseteq addrsSince'[<<b, e>>]
            /\ addrsSince'[<<b, e>>] \in SUBSET Monitored
        BY <1>2, <4>4
      <4>6. IsFiniteSet(addrsSince'[<<b, e>>])  BY <4>5, FS_Subset
      <4>7. /\ Cardinality(addrsSince'[<<b, f>>]) \in Nat
            /\ Cardinality(addrsSince'[<<b, e>>]) \in Nat
            /\ Cardinality(addrsSince'[<<b, f>>]) <= Cardinality(addrsSince'[<<b, e>>])
        BY <4>5, <4>6, MoreElements
      <4>8. Cardinality(addrsSince'[<<b, e>>]) >= MaxAddrs  BY <4>3, <4>7
      <4> QED  BY <4>8 DEF MayBeForgotten
    <3> QED  BY <1>1, <3>1, <3>2
  <2> QED  BY <1>5, <1>6, <2>1, <2>2, <2>3 DEF BucketRemembered, Outlived
<1>7. CASE order[b] # 0
  <2>1. seen'[b] = seen[b] /\ buckets[b] > 0 /\ buckets'[b] > 0  BY <1>4, <1>5, <1>7
  <2>2. ASSUME NEW e \in Dest
        PROVE  /\ seen'[b][e] > 0 => <<b, e>> \in called'
               /\ seen'[b][e] = 0 /\ <<b, e>> \in called' => MayBeForgotten(b, e)'
               /\ Outlived(seen'[b], e, destsSince'[<<b, e>>])
               /\ seen'[b][e] = 1 => Outlived(buckets', b, addrsSince'[<<b, e>>])
    BY <1>1, <1>2, <1>3, <1>5, <2>1 DEF BucketRemembered
  <2>3. ASSUME NEW e \in Dest, seen'[b][e] = 1, NEW f \in Dest, <<b, f>> \in called'
        PROVE  addrsSince'[<<b, e>>] \subseteq addrsSince'[<<b, f>>]
    <3>1. addrsSince[<<b, e>>] \subseteq addrsSince[<<b, f>>]
      BY <1>1, <1>2, <2>1, <2>3 DEF BucketRemembered
    <3> QED  BY <1>2, <3>1
  <2>4. Distinct(seen'[b]) /\ \E e \in Dest : seen'[b][e] = 1
    BY <1>1, <2>1 DEF BucketRemembered
  <2> QED  BY <2>1, <2>2, <2>3, <2>4 DEF BucketRemembered
<1> QED  BY <1>6, <1>7

(* A call keeps the memory in step with its histories. *)
LEMMA CallKeepsMemory ==
  ASSUME ISTypeOK, CallsRemembered, NEW a \in Monitored, NEW d \in Dest, RecordDestination(a, d)
  PROVE  CallsRemembered'
<1>1. Distinct(buckets)'
  <2>1. buckets \in [Monitored -> 0 .. MaxAddrs] /\ Distinct(buckets) /\ MaxAddrs \in Nat \ {0}
    BY InteractionAssumption DEF ISTypeOK, CallsRemembered
  <2>2. Distinct(Touch(buckets, a, MaxAddrs))  BY <2>1, TouchDistinct
  <2>3. buckets' = Touch(buckets, a, MaxAddrs)  BY DEF RecordDestination
  <2> QED  BY <2>2, <2>3
<1>2. ASSUME NEW b \in Monitored PROVE BucketRemembered(b)'
  BY OwnBucket, OtherBucket
<1> QED  BY <1>1, <1>2 DEF CallsRemembered

(* What is remembered depends on the memory and its histories alone. *)
LEMMA MemoryUntouched ==
  /\ MemoryInv /\ UNCHANGED isVars => MemoryInv'
  /\ ApprovalsRemembered /\ UNCHANGED <<approvals, approvedAt, lastApproval, approvers>>
       => ApprovalsRemembered'
<1>1. ASSUME ApprovalsRemembered, UNCHANGED <<approvals, approvedAt, lastApproval, approvers>>
      PROVE  ApprovalsRemembered'
  BY <1>1 DEF ApprovalsRemembered
<1>2. ASSUME MemoryInv, UNCHANGED isVars  PROVE MemoryInv'
  <2>1. /\ ISTypeOK /\ ApprovalsRemembered /\ Distinct(buckets)
        /\ \A a \in Monitored : BucketRemembered(a)
        /\ UNCHANGED <<approvals, approvedAt, buckets, seen>>
        /\ UNCHANGED <<lastApproval, approvers, called, destsSince, addrsSince>>
    BY <1>2 DEF MemoryInv, CallsRemembered, isVars, memory, past
  <2>2. ISTypeOK'  BY <2>1 DEF ISTypeOK
  <2>3. ASSUME NEW a \in Monitored PROVE BucketRemembered(a)'
    <3>1. BucketRemembered(a)  BY <2>1
    <3>2. ASSUME NEW d \in Dest, MayBeForgotten(a, d)  PROVE MayBeForgotten(a, d)'
      BY <2>1, <3>2 DEF MayBeForgotten
    <3> QED  BY <2>1, <3>1, <3>2 DEF BucketRemembered
  <2>4. Distinct(buckets)'  BY <2>1
  <2> QED  BY <1>1, <2>1, <2>2, <2>3, <2>4 DEF MemoryInv, CallsRemembered
<1> QED  BY <1>1, <1>2

(* Only the fourth rule writes to the memory, and only a restart clears it. *)
LEMMA MemoryStep ==
  ASSUME ScreeningInv, MemoryInv, FreshPending, [Next]_vars
  PROVE  MemoryInv' /\ FreshPending'
<1>1. CASE FreshApproval
  <2>1. tx.from \in Monitored /\ tx.to \in Dest \union {None} /\ wall \in 0 .. MaxWall
    BY <1>1, UnderWay DEF FreshApproval, ScreeningInv, TurnOK
  <2>2. ISTypeOK /\ ApprovalsRemembered /\ CallsRemembered  BY DEF MemoryInv
  <2>3. ISTypeOK'  BY <1>1, FreshKeepsInv DEF ScreeningInv
  <2>4. ASSUME tx.to # None, RecordDestination(tx.from, tx.to)  PROVE CallsRemembered'
    BY <2>1, <2>2, <2>4, CallKeepsMemory
  <2>5. ASSUME RecordApproval(tx.from, wall)  PROVE ApprovalsRemembered'
    BY <2>1, <2>2, <2>5, ApprovalKeepsMemory
  <2>6. ASSUME UNCHANGED <<approvals, approvedAt, lastApproval, approvers>>
        PROVE  ApprovalsRemembered'
    BY <2>2, <2>6, MemoryUntouched
  <2>7. MemoryInv'
    BY <1>1, <2>3, <2>4, <2>5, <2>6, MemoryUntouched DEF FreshApproval, MemoryInv
  <2>8. FreshPending'  BY <1>1 DEF FreshApproval, Ends, FreshPending
  <2> QED  BY <2>7, <2>8
<1>2. CASE Restart
  BY <1>2, EmptyMemory DEF Restart, FreshPending
<1>3. CASE RunRule /\ ~FreshApproval
  <2>1. UNCHANGED isVars /\ (hits' = hits \/ \E r \in RuleId \ {"fresh_approval"} : hits' = hits \union {r})
        /\ pc # "handle"
    BY <1>3 DEF RunRule, ApproveToEoa, CodeAnswered, TransferFrom, UnlimitedApproval, Ends, RuleId
  <2> QED  BY <2>1, MemoryUntouched DEF FreshPending
<1>4. CASE (\E t \in Feed[feed] : Get(t)) \/ Handle
  BY <1>4, MemoryUntouched DEF Get, Handle, FreshPending
<1>5. CASE Tick \/ SetBack \/ Deployed
  BY <1>5, MemoryUntouched DEF Tick, SetBack, Deployed, turn, FreshPending
<1>6. CASE UNCHANGED vars
  BY <1>6, MemoryUntouched DEF vars, turn, FreshPending
<1> QED  BY <1>1, <1>2, <1>3, <1>4, <1>5, <1>6 DEF Next

(* The memory of interactions agrees with its histories: what it has       *)
(* forgotten was pushed out by MaxAddrs addresses or MaxDests contracts.   *)
THEOREM MemoryInvariant == Spec => [](ScreeningInv /\ MemoryInv /\ FreshPending)
<1>1. Init => MemoryInv /\ FreshPending  BY EmptyMemory DEF Init, FreshPending
<1>2. /\ ScreeningInv /\ MemoryInv /\ FreshPending /\ [Next]_vars
      => MemoryInv' /\ FreshPending'
  BY MemoryStep
<1> QED  BY ScreeningInvariant, <1>1, <1>2, PTL DEF Spec

(* Only the fourth rule decides whether it fires. *)
LEMMA OnlyFreshApprovalFires ==
  ASSUME [Next]_vars, Fires("fresh_approval")
  PROVE  FreshApproval
<1>1. RunRule
  BY DEF Fires, Next, Get, Handle, Tick, SetBack, Deployed, Restart, vars, turn
<1> QED
  BY <1>1 DEF RunRule, ApproveToEoa, CodeAnswered, TransferFrom, UnlimitedApproval, Ends, Fires

(* T1.5 fires for a repeated call only if the bounds of the memory made it *)
(* forget the first, and always within the window after the last approval. *)
THEOREM RepeatsAreExcused == Spec => RepeatFiresOnlyIfForgotten
<1> DEFINE Excused ==
      Fires("fresh_approval") =>
        /\ wall - lastApproval[tx.from] \in 0 .. Window
        /\ <<tx.from, tx.to>> \in called => MayBeForgotten(tx.from, tx.to)
<1>1. ScreeningInv /\ MemoryInv /\ [Next]_vars => [Excused]_vars
  <2> SUFFICES ASSUME ScreeningInv, MemoryInv, [Next]_vars, Fires("fresh_approval")
               PROVE  /\ wall - lastApproval[tx.from] \in 0 .. Window
                      /\ <<tx.from, tx.to>> \in called => MayBeForgotten(tx.from, tx.to)
    OBVIOUS
  <2>1. FreshApproval  BY OnlyFreshApprovalFires
  <2>2. tx.to # None /\ FreshTouch(tx.from, tx.to)
    BY <2>1 DEF FreshApproval, Ends, Fires
  <2>3. tx.from \in Monitored /\ tx.to \in Dest
    BY <2>1, <2>2, UnderWay DEF FreshApproval, ScreeningInv
  <2>4. approvals[tx.from] # 0 /\ wall - approvedAt[tx.from] \in 0 .. Window
    BY <2>2 DEF FreshTouch, LastApproval
  <2>5. approvals[tx.from] \in 0 .. MaxAddrs /\ seen[tx.from][tx.to] \in 0 .. MaxDests
    BY <2>3 DEF MemoryInv, ISTypeOK
  <2>6. approvedAt[tx.from] = lastApproval[tx.from]
    <3>1. approvals[tx.from] > 0  BY <2>4, <2>5, InteractionAssumption
    <3> QED  BY <2>3, <3>1 DEF MemoryInv, ApprovalsRemembered
  <2>7. seen[tx.from][tx.to] = 0  BY <2>2, <2>5, InteractionAssumption DEF FreshTouch, HasSeen
  <2>8. <<tx.from, tx.to>> \in called => MayBeForgotten(tx.from, tx.to)
    BY <2>3, <2>7 DEF MemoryInv, CallsRemembered, BucketRemembered
  <2> QED  BY <2>4, <2>6, <2>8
<1> QED  BY MemoryInvariant, <1>1, PTL DEF Spec, RepeatFiresOnlyIfForgotten

(* T1.5 flags the first call of a contract within the window after an      *)
(* approval, unless MaxAddrs other addresses have approved since.          *)
THEOREM FirstTouchFires == Spec => FirstTouchIsFlagged
<1> DEFINE FirstTouch ==
             /\ pc = "fresh_approval" /\ pc' = "handle"
             /\ tx.to # None /\ tx.method \notin ApprovalMethod
             /\ <<tx.from, tx.to>> \notin called
             /\ wall - lastApproval[tx.from] \in 0 .. Window
             /\ lastApproval[tx.from] # Never
             /\ Cardinality(approvers[tx.from]) < MaxAddrs
<1>1. ScreeningInv /\ MemoryInv /\ FreshPending /\ [Next]_vars
        => [FirstTouch => Fires("fresh_approval")]_vars
  <2> SUFFICES ASSUME ScreeningInv, MemoryInv, FreshPending, [Next]_vars, FirstTouch
               PROVE  Fires("fresh_approval")
    OBVIOUS
  <2>1. FreshApproval
    BY DEF Next, RunRule, Get, Handle, Tick, SetBack, Deployed, Restart, ApproveToEoa, CodeAnswered,
           TransferFrom, UnlimitedApproval, vars, turn
  <2>2. tx.from \in Monitored /\ tx.to \in Dest
    BY UnderWay DEF ScreeningInv
  <2>3. /\ approvals[tx.from] \in 0 .. MaxAddrs /\ approvedAt[tx.from] \in 0 .. MaxWall
        /\ seen[tx.from][tx.to] \in 0 .. MaxDests /\ approvers[tx.from] \in SUBSET Monitored
    BY <2>2 DEF MemoryInv, ISTypeOK
  <2>4. seen[tx.from][tx.to] = 0
    BY <2>2, <2>3, InteractionAssumption DEF MemoryInv, CallsRemembered, BucketRemembered
  <2>5. approvals[tx.from] > 0
    <3>1. Cardinality(approvers[tx.from]) \in Nat
      BY <2>3, InteractionAssumption, FS_Subset, FS_CardinalityType
    <3>2. approvals[tx.from] # 0
      <4>1. ~(Cardinality(approvers[tx.from]) >= MaxAddrs)  BY <3>1, InteractionAssumption
      <4> QED  BY <2>2, <4>1 DEF MemoryInv, ApprovalsRemembered
    <3> QED  BY <2>3, <3>2, InteractionAssumption
  <2>6. LastApproval(tx.from) = lastApproval[tx.from]
    BY <2>2, <2>5 DEF MemoryInv, ApprovalsRemembered, LastApproval
  <2>7. FreshTouch(tx.from, tx.to)  BY <2>4, <2>6 DEF FreshTouch, HasSeen
  <2>8. "fresh_approval" \notin hits  BY DEF FreshPending
  <2> QED  BY <2>1, <2>7, <2>8 DEF FreshApproval, Ends, Fires
<1> QED  BY MemoryInvariant, <1>1, PTL DEF Spec, FirstTouchIsFlagged
=============================================================================
