----------------------------- MODULE Screening -----------------------------
(***************************************************************************)
(* The screening of one transaction after the other: RuleRegistry.run_all  *)
(* (screening/engine.py) with the four rules main.py registers, over the   *)
(* memories InteractionState and BytecodeChecker.                          *)
(*                                                                         *)
(* One task screens, so the rules run one after the other; time, the chain *)
(* and a restart may come between two of them.  What the calldata decodes  *)
(* to, and what the chain would answer, are fields of the transaction.     *)
(***************************************************************************)
EXTENDS InteractionState, BytecodeChecker

CONSTANTS
  None,       \* Python's None
  UintMax,    \* _UINT256_MAX
  Window,     \* T1_5_FRESH_APPROVAL_WINDOW_SECONDS
  Feed        \* sets of transactions, by name; the provider announces one of them

ApprovalMethod == {"approve", "increaseAllowance", "setApprovalForAll", "permit"}

(* from, to; the method of the selector ("short" if there is none, "other" *)
(* if no rule knows it); how many whole words of arguments follow, and the *)
(* arguments; then what the token would answer, "none" if it has no such   *)
(* function.                                                               *)
PendingTx ==
  [from : Monitored, to : Dest \union {None},
   method : ApprovalMethod \union {"transferFrom", "short", "other"},
   words : 0 .. 3, owner : Monitored, spender : Spender, amount : 0 .. UintMax,
   balance : Nat, allowance : {"enough", "short", "none"}, forAll : {"yes", "no", "none"}]

ASSUME ScreeningAssumption ==
  /\ UintMax \in Nat /\ Window \in 0 .. MaxWall
  /\ None \notin Dest \union Spender \union PendingTx
  /\ \A f \in DOMAIN Feed : Feed[f] \subseteq PendingTx

RuleId == {"approve_to_eoa", "transfer_from", "unlimited_approval", "fresh_approval"}
Lookup == {"eth_getCode", "allowance", "isApprovedForAll", "balanceOf"}

VARIABLES
  feed,     \* what is announced in this behaviour
  pc,       \* the rule under way, the RPC it awaits, or whose turn it is
  tx,       \* the transaction under way, or None
  hits,     \* the rules that have hit it
  failed    \* history: the lookups that failed for it, or would have, had they been made

turn == <<pc, tx, hits, failed>>
vars == <<feed, turn, wall, isVars, bytecodeVars>>

ScreeningTypeOK ==
  /\ ISTypeOK /\ BytecodeTypeOK
  /\ feed \in DOMAIN Feed /\ wall \in 0 .. MaxWall
  /\ pc \in {"idle", "eth_getCode", "handle"} \union RuleId
  /\ tx \in PendingTx \union {None} /\ tx = None <=> pc = "idle"
  /\ hits \in SUBSET RuleId /\ failed \in SUBSET Lookup

Init ==
  /\ feed \in DOMAIN Feed
  /\ pc = "idle" /\ tx = None /\ hits = {} /\ failed = {}
  /\ wall = 0 /\ ISInit /\ BytecodeInit

(* The rule under way ends, with a hit or without; an exception counts as  *)
(* none, because run_all logs it and goes on.                              *)
Ends(rule, hit, lookups, next) ==
  /\ hits' = IF hit THEN hits \union {rule} ELSE hits
  /\ failed' = failed \union lookups
  /\ pc' = next
  /\ UNCHANGED <<feed, tx, wall>>

(* queue.get() of the consumer. *)
Get(t) ==
  /\ pc = "idle"
  /\ t \in Feed[feed]
  /\ tx' = t
  /\ pc' = "approve_to_eoa"
  /\ UNCHANGED <<feed, hits, failed, wall, isVars, bytecodeVars>>

(* _handle_hits takes the hits over: see FlagPipeline. *)
Handle ==
  /\ pc = "handle"
  /\ pc' = "idle" /\ tx' = None /\ hits' = {} /\ failed' = {}
  /\ UNCHANGED <<feed, wall, isVars, bytecodeVars>>

-----------------------------------------------------------------------------
(* _decode_spender of T1.1: the second word of a permit, else the first.   *)
SpenderOf(t) ==
  IF t.to # None /\ t.method \in ApprovalMethod
     /\ t.words >= (IF t.method = "permit" THEN 2 ELSE 1)
  THEN t.spender ELSE None

(* Mutant of ApproveToEoa: an address whose "no" has expired is passed. *)
ApproveToEoaLax ==
  /\ pc = "approve_to_eoa"
  /\ UNCHANGED isVars
  /\ LET s == SpenderOf(tx)
     IN \/ s = None /\ Ends(pc, FALSE, {}, "transfer_from") /\ UNCHANGED bytecodeVars
        \/ s # None /\ CachedYes(s) /\ Ends(pc, FALSE, {}, "transfer_from")
        \/ s # None /\ CachedNo(s) /\ Ends(pc, TRUE, {}, "transfer_from")
        \/ s # None /\ negatives[s] > 0 /\ Miss(s) /\ Ends(pc, FALSE, {}, "transfer_from")
        \/ s # None /\ negatives[s] = 0 /\ Miss(s) /\ Ends(pc, FALSE, {}, "eth_getCode")

(* ApproveToEoaRule.evaluate up to the answer of the cache. *)
ApproveToEoa ==
  /\ pc = "approve_to_eoa"
  /\ UNCHANGED isVars
  /\ LET s == SpenderOf(tx)
     IN \/ s = None /\ Ends(pc, FALSE, {}, "transfer_from") /\ UNCHANGED bytecodeVars
        \/ s # None /\ CachedYes(s) /\ Ends(pc, FALSE, {}, "transfer_from")
        \/ s # None /\ CachedNo(s) /\ Ends(pc, TRUE, {}, "transfer_from")
        \/ s # None /\ Miss(s) /\ Ends(pc, FALSE, {}, "eth_getCode")

(* The RPC answers with the code of the chain; or it fails, also by a      *)
(* JSON-RPC error, which counts as "no code"; or the body is no JSON and   *)
(* the exception ends the rule.                                            *)
CodeAnswered ==
  /\ pc = "eth_getCode"
  /\ UNCHANGED isVars
  /\ LET s == SpenderOf(tx)
         End(hit, lookups) == Ends("approve_to_eoa", hit, lookups, "transfer_from")
     IN \/ s \in deployed /\ KeepYes(s) /\ End(FALSE, {})
        \/ s \notin deployed /\ KeepNo(s) /\ End(TRUE, {})
        \/ KeepNo(s) /\ End(TRUE, {"eth_getCode"})
        \/ UNCHANGED bytecodeVars /\ End(FALSE, {"eth_getCode"})

-----------------------------------------------------------------------------
(* EthCallClient.call: the token is heard, unless the connection, the      *)
(* status or the RPC fails, or the body is no JSON.  That last one is an   *)
(* exception; it ends the rule without a hit, as if nothing were known.    *)
Answered(lookup, down) == lookup \notin down

(* The reads and decoders of Erc20Reader: the answer, or nothing. *)
Read(answer, lookup, down) == IF Answered(lookup, down) THEN answer ELSE "none"

(* Mutant of Unauthorized: a failed allowance counts as zero. *)
UnauthorizedAggressive(t, down) ==
  /\ t.to # None /\ t.method = "transferFrom" /\ t.words = 3
  /\ t.owner # t.from
  /\ Read(t.allowance, "allowance", down) # "enough"
  /\ Read(t.forAll, "isApprovedForAll", down) # "yes"

(* TransferFromUnauthorizedRule.evaluate: neither read allows the          *)
(* transfer, and one of them at least has answered.                        *)
Unauthorized(t, down) ==
  LET allowance == Read(t.allowance, "allowance", down)
      approvedForAll == Read(t.forAll, "isApprovedForAll", down)
  IN /\ t.to # None /\ t.method = "transferFrom" /\ t.words = 3
     /\ t.owner # t.from
     /\ allowance # "enough"
     /\ approvedForAll # "yes"
     /\ allowance # "none" \/ approvedForAll # "none"

TransferFrom(down, crash) ==
  /\ pc = "transfer_from"
  /\ down \subseteq {"allowance", "isApprovedForAll"}
  /\ Ends(pc, ~crash /\ Unauthorized(tx, down), down, "unlimited_approval")
  /\ crash => down # {}
  /\ UNCHANGED <<isVars, bytecodeVars>>

-----------------------------------------------------------------------------
OutsizedMultiplier == 10

(* _decode_approve_amount, _decode_permit: a whole word after the spender. *)
AmountDecodes(t) ==
  /\ t.to # None
  /\ \/ t.method \in {"approve", "increaseAllowance"} /\ t.words >= 2
     \/ t.method = "permit" /\ t.words >= 3

(* Mutant of Outsized: the balance is read first. *)
OutsizedReadFirst(t, down) ==
  /\ AmountDecodes(t)
  /\ Answered("balanceOf", down)
  /\ t.balance # 0
  /\ t.amount = UintMax \/ t.amount > OutsizedMultiplier * t.balance

(* UnlimitedApprovalRule.evaluate: the maximal amount whatever the owner   *)
(* has, else more than ten times what it is known to have.                 *)
Outsized(t, down) ==
  /\ AmountDecodes(t)
  /\ \/ t.amount = UintMax
     \/ /\ Answered("balanceOf", down)
        /\ t.balance # 0
        /\ t.amount > OutsizedMultiplier * t.balance

UnlimitedApproval(down) ==
  /\ pc = "unlimited_approval"
  /\ down \subseteq {"balanceOf"}
  /\ Ends(pc, Outsized(tx, down), down, "fresh_approval")
  /\ UNCHANGED <<isVars, bytecodeVars>>

-----------------------------------------------------------------------------
(* The contract is new to the address, whose last approval is recent.  The *)
(* wall clock may have been set back since.                                *)
FreshTouch(a, d) ==
  /\ ~HasSeen(a, d)
  /\ LastApproval(a) # Never
  /\ wall - LastApproval(a) \in 0 .. Window

(* FreshApprovalNewContractRule.evaluate.  The destination is learnt in    *)
(* every case, after the decision.                                         *)
FreshApproval ==
  /\ pc = "fresh_approval"
  /\ \/ /\ tx.to = None
        /\ Ends(pc, FALSE, {}, "handle")
        /\ UNCHANGED isVars
     \/ /\ tx.to # None /\ tx.method \in ApprovalMethod
        /\ Ends(pc, FALSE, {}, "handle")
        /\ RecordApproval(tx.from, wall)
        /\ RecordDestination(tx.from, tx.to)
     \/ /\ tx.to # None /\ tx.method \notin ApprovalMethod
        /\ Ends(pc, FreshTouch(tx.from, tx.to), {}, "handle")
        /\ RecordDestination(tx.from, tx.to)
        /\ UNCHANGED <<approvals, approvedAt, lastApproval, approvers>>
  /\ UNCHANGED bytecodeVars

-----------------------------------------------------------------------------
(* Time passes on both clocks, or the wall clock is set back. *)
Tick ==
  /\ wall < MaxWall
  /\ wall' = wall + 1
  /\ BytecodeTick
  /\ UNCHANGED <<feed, turn, isVars>>

SetBack ==
  /\ wall > 0
  /\ wall' = wall - 1
  /\ UNCHANGED <<feed, turn, isVars, bytecodeVars>>

(* Only the spenders of this behaviour matter. *)
Deployed ==
  /\ \E t \in Feed[feed] : SpenderOf(t) # None /\ Deploy(SpenderOf(t))
  /\ UNCHANGED <<feed, turn, wall, isVars>>

(* The process is restarted: the memories are gone, and with them the      *)
(* transaction under way.                                                  *)
Restart ==
  /\ pc' = "idle" /\ tx' = None /\ hits' = {} /\ failed' = {}
  /\ ISForget
  /\ BytecodeForget
  /\ UNCHANGED <<feed, wall>>

RunRule ==
  \/ ApproveToEoa
  \/ CodeAnswered
  \/ \E down \in SUBSET Lookup, crash \in BOOLEAN : TransferFrom(down, crash)
  \/ \E down \in SUBSET Lookup : UnlimitedApproval(down)
  \/ FreshApproval

Next ==
  \/ \E t \in Feed[feed] : Get(t)
  \/ RunRule
  \/ Handle
  \/ Tick \/ SetBack \/ Deployed \/ Restart

Spec == Init /\ [][Next]_vars

-----------------------------------------------------------------------------
Fires(rule) == rule \in hits' /\ rule \notin hits

(* An approval whose spender has no code is flagged, whatever the cache    *)
(* remembers of that address and of others; only an exception prevents it. *)
EoaSpenderIsFlagged ==
  pc = "handle" /\ SpenderOf(tx) # None =>
    \/ "approve_to_eoa" \in hits
    \/ SpenderOf(tx) \in deployed
    \/ "eth_getCode" \in failed

(* "a false-now isn't necessarily false-forever": a contract is taken for  *)
(* an address without code for no longer than negative_ttl_s after it was  *)
(* deployed, or after a lookup of it that failed; being asked for again    *)
(* and again, evicted or looked up anew does not extend that.              *)
ContractTakenForEoaBriefly ==
  [][Fires("approve_to_eoa") => excuse'[tx.spender] > 0]_vars

Authorized(t) == t.owner = t.from \/ t.allowance = "enough" \/ t.forAll = "yes"

(* "Rules treat None as inconclusive and skip rather than flagging on      *)
(* missing data" (screening/erc20.py).  T1.3 does so if both reads fail.   *)
(* If one fails, an answer of the other that does not allow the transfer   *)
(* is enough: the property says that a transfer is flagged only if one     *)
(* read has said no, and that one the chain would have allowed is flagged  *)
(* only if every answer that allows it was lost.  T1.4 flags only on a     *)
(* balance it has read, unless the amount is maximal.                      *)
FlagsRestOnAnswers ==
  pc = "handle" =>
    /\ "transfer_from" \in hits =>
         /\ tx.owner # tx.from
         /\ \/ Read(tx.allowance, "allowance", failed) = "short"
            \/ Read(tx.forAll, "isApprovedForAll", failed) = "no"
         /\ tx.allowance = "enough" => "allowance" \in failed
         /\ tx.forAll = "yes" => "isApprovedForAll" \in failed
    /\ "unlimited_approval" \in hits =>
         \/ tx.amount = UintMax
         \/ /\ "balanceOf" \notin failed
            /\ tx.balance > 0 /\ tx.amount > OutsizedMultiplier * tx.balance

(* The rows of the two docstrings: a transfer that nothing allows is       *)
(* flagged if both reads answer, an unlimited approval in any case, and    *)
(* one of more than ten times the balance if that is read and not zero.    *)
(* The docstring of T1.4 has no exception for zero; its code has.          *)
NothingMissed ==
  pc = "handle" /\ tx.to # None =>
    /\ (/\ tx.method = "transferFrom" /\ tx.words = 3
        /\ failed = {} /\ ~Authorized(tx)
        /\ {tx.allowance, tx.forAll} # {"none"})
         => "transfer_from" \in hits
    /\ AmountDecodes(tx) /\ tx.amount = UintMax => "unlimited_approval" \in hits
    /\ (/\ AmountDecodes(tx) /\ "balanceOf" \notin failed
        /\ tx.balance > 0 /\ tx.amount > OutsizedMultiplier * tx.balance)
         => "unlimited_approval" \in hits

(* "so a repeat call to the same contract doesn't fire again": the rule    *)
(* fires for a second time only if the bounds of the memory made it forget *)
(* the call, and always within the window after the last approval, also    *)
(* if that one is not the youngest entry and the clock was set back.       *)
RepeatFiresOnlyIfForgotten ==
  [][Fires("fresh_approval") =>
       /\ wall - lastApproval[tx.from] \in 0 .. Window
       /\ <<tx.from, tx.to>> \in called => MayBeForgotten(tx.from, tx.to)]_vars

(* The first call of a contract within the window after an approval is     *)
(* flagged, whatever else the address and the others did in between,       *)
(* unless MaxAddrs other addresses have approved since.                    *)
FirstTouchIsFlagged ==
  [][(/\ pc = "fresh_approval" /\ pc' = "handle"
      /\ tx.to # None /\ tx.method \notin ApprovalMethod
      /\ <<tx.from, tx.to>> \notin called
      /\ wall - lastApproval[tx.from] \in 0 .. Window
      /\ lastApproval[tx.from] # Never
      /\ Cardinality(approvers[tx.from]) < MaxAddrs)
     => Fires("fresh_approval")]_vars
=============================================================================
