--------------------------- MODULE Tier1Detector ---------------------------
(***************************************************************************)
(* The ten Tier 1 rules of scripts/tier1_detector.py as predicates over    *)
(* the facts given on its command line, and the verdict screen() draws     *)
(* from them.  The script is one function call and keeps no state.         *)
(*                                                                         *)
(* Amounts of money are in cents and prices in any unit: the floats of the *)
(* script are compared with thresholds, and what rounding does near one is *)
(* left out.  Descriptions, chain, hash and token names decide nothing.    *)
(***************************************************************************)
EXTENDS Integers

CLEAR == 0
WATCH == 1
ESCALATE == 2
PAUSE == 3
REJECT == 4
Flag == CLEAR .. REJECT

Usd == 100

Facts ==
  [validator_count : Int, tvl_usd : Int,
   current_price : Int, price_ma24h : Int,
   mint_amount_usd : Int, has_dex_swap : BOOLEAN,
   is_admin_key_signing : BOOLEAN, has_timelock : BOOLEAN,
   contract_type : {"bridge", "lending", "other"},
   whitelist_entries : Int, active_whitelist_entries : Int,
   last_whitelist_rotation_hours : Int,
   pool_interactions : Int, has_governance_action : BOOLEAN,
   bridge_deposit_declared_usd : Int, bridge_deposit_actual_usd : Int,
   minter_is_contract : BOOLEAN, has_mint_cap : BOOLEAN,
   caller_is_cross_chain_relay : BOOLEAN, target_is_privileged_data_contract : BOOLEAN,
   selector_collides : BOOLEAN,    \* the selector is one of KNOWN_COLLISION_SELECTORS
   is_upgrade_or_param_change : BOOLEAN, signer_is_multisig : BOOLEAN]

Detection == [rule : STRING, flag : Flag, confidence_bp : Int]

(* What a rule returns: an escalation, else a watch, else nothing. *)
Detect(rule, escalate, high, watch, low) ==
  IF escalate THEN {[rule |-> rule, flag |-> ESCALATE, confidence_bp |-> high]}
  ELSE IF watch THEN {[rule |-> rule, flag |-> WATCH, confidence_bp |-> low]}
  ELSE {}

BridgeValidatorCount(x) ==
  LET large == x.tvl_usd > 50000000 * Usd
  IN Detect("T1-001", large /\ x.validator_count < 5, 8500,
                      large /\ x.validator_count < 8, 6000)

(* current / average > n, for an average above zero *)
PriceDeviation(x) ==
  LET above(n) == x.price_ma24h > 0 /\ x.current_price > n * x.price_ma24h
  IN Detect("T1-002", above(20), 9000, above(5), 5000)

LargeMintDexExit(x) ==
  Detect("T1-003", x.mint_amount_usd > 1000000 * Usd /\ x.has_dex_swap, 8000,
                   x.mint_amount_usd > 100000 * Usd /\ x.has_dex_swap, 5000)

AdminKeySoleSigner(x) ==
  Detect("T1-004", FALSE, 0,
         /\ x.is_admin_key_signing /\ ~x.has_timelock
         /\ x.contract_type \in {"bridge", "lending"}, 7000)

WhitelistNotRevoked(x) ==
  Detect("T1-005", FALSE, 0,
         /\ x.whitelist_entries - x.active_whitelist_entries > 0
         /\ x.last_whitelist_rotation_hours > 720, 7500)

FlashLoanMultipool(x) ==
  Detect("T1-006", FALSE, 0,
         /\ x.pool_interactions > 3
         /\ x.has_governance_action \/ x.has_dex_swap, 6000)

ToleranceBp == 100

(* The difference in basis points of the declared amount, rounded down. *)
DiffBp(x) ==
  LET d == x.bridge_deposit_declared_usd - x.bridge_deposit_actual_usd
  IN ((IF d < 0 THEN -d ELSE d) * 10000) \div x.bridge_deposit_declared_usd

PhantomDeposit(x) ==
  IF x.bridge_deposit_declared_usd <= 0 THEN {}
  ELSE Detect("T1-007",
         /\ x.bridge_deposit_actual_usd < 1 * Usd
         /\ x.bridge_deposit_declared_usd > 100 * Usd, 9500,
         DiffBp(x) > ToleranceBp, IF DiffBp(x) > 4500 THEN 9500 ELSE 5000 + DiffBp(x))

LargeMintFromEoa(x) ==
  LET uncapped == ~x.minter_is_contract /\ ~x.has_mint_cap
  IN Detect("T1-008", uncapped /\ x.mint_amount_usd > 10000000 * Usd, 9000,
                      uncapped /\ x.mint_amount_usd > 1000000 * Usd, 7000)

PrivilegedCrossChainRelay(x) ==
  Detect("T1-009", x.caller_is_cross_chain_relay /\ x.target_is_privileged_data_contract, 9000,
                   x.selector_collides, 7500)

EoaUpgradeOrParamChange(x) ==
  Detect("T1-010",
         x.is_upgrade_or_param_change /\ ~x.signer_is_multisig /\ ~x.has_timelock, 8500,
         x.is_upgrade_or_param_change /\ ~(x.signer_is_multisig /\ x.has_timelock), 6500)

Detections(x) ==
  UNION {BridgeValidatorCount(x), PriceDeviation(x), LargeMintDexExit(x),
         AdminKeySoleSigner(x), WhitelistNotRevoked(x), FlashLoanMultipool(x),
         PhantomDeposit(x), LargeMintFromEoa(x), PrivilegedCrossChainRelay(x),
         EoaUpgradeOrParamChange(x)}

(* screen().  The code takes the flag of the detection with the greatest   *)
(* pair (flag, confidence), which is the greatest flag.                    *)
OverallFlag(x) ==
  IF Detections(x) = {} THEN CLEAR
  ELSE CHOOSE f \in {d.flag : d \in Detections(x)} : \A d \in Detections(x) : d.flag <= f

MaxConfidence(x) ==
  IF Detections(x) = {} THEN 0
  ELSE CHOOSE c \in {d.confidence_bp : d \in Detections(x)} :
         \A d \in Detections(x) : d.confidence_bp <= c

(* y gives no less cause for alarm than x: each fact is the same, or it    *)
(* has moved in the direction that one would call worse.                   *)
AtLeastAsRisky(y, x) ==
  /\ y.validator_count <= x.validator_count /\ y.tvl_usd >= x.tvl_usd
  /\ y.current_price >= x.current_price
  /\ \/ y.price_ma24h = x.price_ma24h
     \/ 0 < y.price_ma24h /\ y.price_ma24h <= x.price_ma24h
  /\ y.mint_amount_usd >= x.mint_amount_usd /\ (x.has_dex_swap => y.has_dex_swap)
  /\ x.is_admin_key_signing => y.is_admin_key_signing
  /\ y.has_timelock => x.has_timelock
  /\ y.contract_type = x.contract_type
  /\ y.whitelist_entries >= x.whitelist_entries
  /\ y.active_whitelist_entries <= x.active_whitelist_entries
  /\ y.last_whitelist_rotation_hours >= x.last_whitelist_rotation_hours
  /\ y.pool_interactions >= x.pool_interactions
  /\ x.has_governance_action => y.has_governance_action
  /\ y.bridge_deposit_declared_usd = x.bridge_deposit_declared_usd
  /\ \/ y.bridge_deposit_actual_usd = x.bridge_deposit_actual_usd
     \/ /\ y.bridge_deposit_actual_usd <= x.bridge_deposit_actual_usd
        /\ x.bridge_deposit_actual_usd <= x.bridge_deposit_declared_usd
  /\ y.minter_is_contract => x.minter_is_contract
  /\ y.has_mint_cap => x.has_mint_cap
  /\ x.caller_is_cross_chain_relay => y.caller_is_cross_chain_relay
  /\ x.target_is_privileged_data_contract => y.target_is_privileged_data_contract
  /\ x.selector_collides => y.selector_collides
  /\ x.is_upgrade_or_param_change => y.is_upgrade_or_param_change
  /\ y.signer_is_multisig => x.signer_is_multisig
=============================================================================
