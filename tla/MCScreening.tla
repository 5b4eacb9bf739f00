---------------------------- MODULE MCScreening ----------------------------
(* Five feeds, one in each behaviour, because what they exercise is        *)
(* independent: approvals and the bytecode cache, calls and the memory of  *)
(* interactions, transfers and amounts and the reads of the token.         *)
EXTENDS Screening

CONSTANTS a1, a2, d1, d2, d3, s1, s2

Plain == [from |-> a1, to |-> d1, method |-> "other", words |-> 0, owner |-> a1,
          spender |-> s1, amount |-> 0, balance |-> 0, allowance |-> "none", forAll |-> "none"]

Approvals ==
  {[Plain EXCEPT !.method = "approve", !.words = 1, !.spender = s] : s \in Spender}
  \union
  {[Plain EXCEPT !.method = "permit", !.words = 2, !.spender = s] : s \in Spender}
  \union
  {[Plain EXCEPT !.to = None]}

(* An approval whose arguments are cut off is one for the memory alone. *)
Prime(a) == [Plain EXCEPT !.from = a, !.method = "setApprovalForAll"]

(* One address that calls many contracts; two that share the memory. *)
Calls == {[Plain EXCEPT !.to = d] : d \in Dest} \union {Prime(a1)}
Crowd == {[Plain EXCEPT !.from = a, !.to = d] : a \in Monitored, d \in {d1, d2}}
         \union {Prime(a) : a \in Monitored}

Transfer == [Plain EXCEPT !.method = "transferFrom", !.words = 3, !.owner = a2]
Transfers ==
  {[Transfer EXCEPT !.allowance = x, !.forAll = y] :
     x \in {"enough", "short", "none"}, y \in {"yes", "no", "none"}}
  \union
  {[Transfer EXCEPT !.allowance = "short", !.owner = a1],
   [Transfer EXCEPT !.allowance = "short", !.words = 2]}

Grant == [Plain EXCEPT !.method = "increaseAllowance", !.words = 2]
Amounts ==
  {[Grant EXCEPT !.amount = n, !.balance = b] : n \in {10, 11, UintMax}, b \in {0, 1}}
  \union
  {[Grant EXCEPT !.method = "permit", !.words = w, !.amount = UintMax] : w \in {2, 3}}

MCFeed == [approvals |-> Approvals, calls |-> Calls, crowd |-> Crowd,
           transfers |-> Transfers, amounts |-> Amounts]
=============================================================================
