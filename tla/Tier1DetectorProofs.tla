------------------------ MODULE Tier1DetectorProofs ------------------------
(* What holds of the Tier 1 verdict for all facts. *)
EXTENDS Tier1Detector, Extrema

Sound(d) ==
  /\ d.flag \in {WATCH, ESCALATE}
  /\ d.confidence_bp \in Int /\ 5000 <= d.confidence_bp /\ d.confidence_bp <= 9500
  /\ d.flag = ESCALATE => d.confidence_bp >= 8000

(* Whatever a rule detects is a watch or an escalation, and the confidence *)
(* of an escalation is high.                                               *)
LEMMA DetectionsAreSound ==
  ASSUME NEW x \in Facts
  PROVE  \A d \in Detections(x) : Sound(d)
<1> USE DEF Detect, Sound, CLEAR, WATCH, ESCALATE
<1>1. \A d \in BridgeValidatorCount(x) : Sound(d)  BY DEF BridgeValidatorCount
<1>2. \A d \in PriceDeviation(x) : Sound(d)  BY DEF PriceDeviation
<1>3. \A d \in LargeMintDexExit(x) : Sound(d)  BY DEF LargeMintDexExit
<1>4. \A d \in AdminKeySoleSigner(x) : Sound(d)  BY DEF AdminKeySoleSigner
<1>5. \A d \in WhitelistNotRevoked(x) : Sound(d)  BY DEF WhitelistNotRevoked
<1>6. \A d \in FlashLoanMultipool(x) : Sound(d)  BY DEF FlashLoanMultipool
<1>7. \A d \in PhantomDeposit(x) : Sound(d)
  <2>1. CASE x.bridge_deposit_declared_usd <= 0  BY <2>1 DEF PhantomDeposit
  <2>2. CASE x.bridge_deposit_declared_usd > 0
    <3> DEFINE q == DiffBp(x)
    <3>1. q \in Int  BY <2>2 DEF DiffBp, Facts
    <3> HIDE DEF q
    <3> DEFINE c == IF q > 4500 THEN 9500 ELSE 5000 + q
    <3>4. q > ToleranceBp => c \in Int /\ 5000 <= c /\ c <= 9500  BY <3>1 DEF ToleranceBp
    <3> HIDE DEF c
    <3>2. ASSUME NEW d \in Detect("T1-007",
             /\ x.bridge_deposit_actual_usd < 1 * Usd
             /\ x.bridge_deposit_declared_usd > 100 * Usd, 9500, q > ToleranceBp, c)
          PROVE  Sound(d)
      BY <3>4
    <3>3. ~(x.bridge_deposit_declared_usd <= 0)  BY <2>2 DEF Facts
    <3> QED  BY <3>2, <3>3 DEF PhantomDeposit, c, q
  <2> QED  BY <2>1, <2>2 DEF Facts
<1>8. \A d \in LargeMintFromEoa(x) : Sound(d)  BY DEF LargeMintFromEoa
<1>9. \A d \in PrivilegedCrossChainRelay(x) : Sound(d)  BY DEF PrivilegedCrossChainRelay
<1>10. \A d \in EoaUpgradeOrParamChange(x) : Sound(d)  BY DEF EoaUpgradeOrParamChange
<1> HIDE DEF Detect, Sound, CLEAR, WATCH, ESCALATE
<1> QED  BY <1>1, <1>2, <1>3, <1>4, <1>5, <1>6, <1>7, <1>8, <1>9, <1>10 DEF Detections

(* The verdict is the flag of the worst detection: no detection is worse   *)
(* than it, and it is CLEAR only if nothing was detected.  PAUSE and       *)
(* REJECT are never reached.                                               *)
THEOREM VerdictIsTheWorst ==
  ASSUME NEW x \in Facts
  PROVE  /\ OverallFlag(x) \in {CLEAR, WATCH, ESCALATE}
         /\ \A d \in Detections(x) : d.flag <= OverallFlag(x)
         /\ OverallFlag(x) = CLEAR <=> Detections(x) = {}
         /\ OverallFlag(x) # CLEAR => \E d \in Detections(x) : d.flag = OverallFlag(x)
<1> DEFINE F == {d.flag : d \in Detections(x)}
<1>1. \A d \in Detections(x) : Sound(d)  BY DetectionsAreSound
<1>2. CASE Detections(x) = {}  BY <1>2 DEF OverallFlag
<1>3. CASE Detections(x) # {}
  <2>1. (\A f \in F : f \in {WATCH, ESCALATE}) /\ F # {}  BY <1>1, <1>3 DEF Sound
  <2>2. \E m \in F : \A f \in F : f <= m
    <3> HIDE DEF F
    <3>1. \A f \in F : f \in Int /\ f <= 9500  BY <2>1 DEF WATCH, ESCALATE
    <3> QED  BY <2>1, <3>1, 9500 \in Int, Greatest
  <2>3. \E m \in F : \A d \in Detections(x) : d.flag <= m  BY <2>2
  <2>4. /\ OverallFlag(x) \in F
        /\ \A d \in Detections(x) : d.flag <= OverallFlag(x)
    BY <1>3, <2>3, Zenon DEF OverallFlag
  <2> HIDE DEF F
  <2>5. OverallFlag(x) # CLEAR  BY <2>1, <2>4 DEF CLEAR, WATCH, ESCALATE
  <2> USE DEF F
  <2> QED  BY <1>3, <2>1, <2>4, <2>5
<1> QED  BY <1>2, <1>3

(* The confidence that goes with the verdict: that of an escalation is     *)
(* never below 8000, though it may come from another detection than the    *)
(* worst, and only a CLEAR has none.                                       *)
THEOREM ConfidenceFitsVerdict ==
  ASSUME NEW x \in Facts
  PROVE  /\ OverallFlag(x) = CLEAR => MaxConfidence(x) = 0
         /\ OverallFlag(x) = WATCH => 5000 <= MaxConfidence(x)
         /\ OverallFlag(x) = ESCALATE => 8000 <= MaxConfidence(x)
         /\ MaxConfidence(x) \in Int /\ MaxConfidence(x) <= 9500
<1> DEFINE C == {d.confidence_bp : d \in Detections(x)}
<1>1. \A d \in Detections(x) : Sound(d)  BY DetectionsAreSound
<1>2. /\ OverallFlag(x) = CLEAR <=> Detections(x) = {}
      /\ OverallFlag(x) # CLEAR => \E d \in Detections(x) : d.flag = OverallFlag(x)
  BY VerdictIsTheWorst
<1>3. CASE Detections(x) = {}  BY <1>2, <1>3 DEF MaxConfidence, CLEAR, WATCH, ESCALATE
<1>4. CASE Detections(x) # {}
  <2>1. (\A c \in C : c \in Int /\ c <= 9500) /\ C # {}  BY <1>1, <1>4 DEF Sound
  <2>2. \E m \in C : \A c \in C : c <= m
    <3> HIDE DEF C
    <3> QED  BY <2>1, 9500 \in Int, Greatest
  <2>3. \E m \in C : \A d \in Detections(x) : d.confidence_bp <= m  BY <2>2
  <2>4. /\ MaxConfidence(x) \in C
        /\ \A d \in Detections(x) : d.confidence_bp <= MaxConfidence(x)
    BY <1>4, <2>3, Zenon DEF MaxConfidence
  <2>5. /\ MaxConfidence(x) \in Int
        /\ 5000 <= MaxConfidence(x) /\ MaxConfidence(x) <= 9500
    <3>1. PICK d \in Detections(x) : d.confidence_bp = MaxConfidence(x)  BY <2>4
    <3> QED  BY <1>1, <3>1 DEF Sound
  <2>6. OverallFlag(x) = ESCALATE => MaxConfidence(x) >= 8000
    <3>1. SUFFICES ASSUME OverallFlag(x) = ESCALATE PROVE MaxConfidence(x) >= 8000
      OBVIOUS
    <3>2. PICK d \in Detections(x) : d.flag = ESCALATE  BY <1>2, <3>1 DEF CLEAR, ESCALATE
    <3>3. d.confidence_bp >= 8000 /\ d.confidence_bp \in Int  BY <1>1, <3>2 DEF Sound
    <3>4. d.confidence_bp <= MaxConfidence(x)  BY <2>4
    <3> HIDE DEF C
    <3> QED  BY <2>5, <3>3, <3>4
  <2> QED  BY <1>2, <1>4, <2>5, <2>6
<1> QED  BY <1>3, <1>4

(* What one rule finds in x, the same rule finds in y, as bad or worse.    *)
Covers(Y, X) == \A d \in X : \E e \in Y : d.flag <= e.flag

(* Rules with the same two outcomes cover each other when their conditions *)
(* imply each other's.                                                     *)
LEMMA DetectCovers ==
  ASSUME NEW rule, NEW esc, NEW esc2, NEW watch, NEW watch2,
         NEW high, NEW high2, NEW low, NEW low2,
         esc => esc2, watch => watch2
  PROVE  Covers(Detect(rule, esc2, high2, watch2, low2), Detect(rule, esc, high, watch, low))
<1> DEFINE X == Detect(rule, esc, high, watch, low)
           Y == Detect(rule, esc2, high2, watch2, low2)
<1>1. CASE esc
  <2>1. \A d \in X : d.flag = ESCALATE  BY <1>1 DEF Detect
  <2>2. \E e \in Y : e.flag = ESCALATE  BY <1>1 DEF Detect
  <2> QED  BY <2>1, <2>2 DEF Covers, ESCALATE
<1>2. CASE ~esc /\ watch
  <2>1. \A d \in X : d.flag = WATCH  BY <1>2 DEF Detect
  <2>2. \E e \in Y : e.flag \in {WATCH, ESCALATE}  BY <1>2 DEF Detect
  <2> QED  BY <2>1, <2>2 DEF Covers, WATCH, ESCALATE
<1>3. CASE ~esc /\ ~watch  BY <1>3 DEF Covers, Detect
<1> QED  BY <1>1, <1>2, <1>3

(* A quotient does not shrink when its numerator grows. *)
LEMMA QuotientGrows ==
  ASSUME NEW a \in Nat, NEW b \in Nat, NEW n \in Nat, a <= b, 0 < n
  PROVE  a \div n <= b \div n
<1> DEFINE p == a \div n
           q == b \div n
<1>1. p \in Int /\ q \in Int /\ n * p <= a /\ b < n * q + n  OBVIOUS
<1>2. SUFFICES ASSUME ~(p <= q) PROVE FALSE  OBVIOUS
<1> HIDE DEF p, q
<1>3. PICK k \in Nat : p = q + 1 + k
  <2>1. p - q - 1 \in Nat /\ p = q + 1 + (p - q - 1)  BY <1>1, <1>2
  <2> QED  BY <2>1
<1>4. n * p = n * q + n + n * k /\ n * k \in Nat /\ n * q \in Int  BY <1>1, <1>3
<1> DEFINE np == n * p
           nq == n * q
           nk == n * k
<1> HIDE DEF np, nq, nk
<1>5. np <= a /\ b < nq + n /\ np = nq + n + nk /\ nk \in Nat /\ nq \in Int
  BY <1>1, <1>4 DEF np, nq, nk
<1> QED  BY <1>5

(* A phantom deposit is no smaller when less of it has arrived. *)
LEMMA PhantomCovers ==
  ASSUME NEW x \in Facts, NEW y \in Facts, AtLeastAsRisky(y, x)
  PROVE  Covers(PhantomDeposit(y), PhantomDeposit(x))
<1> DEFINE n == x.bridge_deposit_declared_usd
           a == x.bridge_deposit_actual_usd
           b == y.bridge_deposit_actual_usd
<1>1. /\ n \in Int /\ a \in Int /\ b \in Int /\ y.bridge_deposit_declared_usd = n
      /\ b = a \/ (b <= a /\ a <= n)
  BY DEF AtLeastAsRisky, Facts
<1>2. CASE n <= 0  BY <1>1, <1>2 DEF Covers, PhantomDeposit
<1>3. CASE n > 0
  <2>1. DiffBp(x) <= DiffBp(y) /\ DiffBp(x) \in Int /\ DiffBp(y) \in Int
    <3> DEFINE D(c) == (IF n - c < 0 THEN -(n - c) ELSE n - c) * 10000
    <3>1. D(a) \in Nat /\ D(b) \in Nat /\ D(a) <= D(b)  BY <1>1
    <3>2. DiffBp(x) = D(a) \div n /\ DiffBp(y) = D(b) \div n  BY <1>1 DEF DiffBp
    <3> HIDE DEF D, n
    <3>3. /\ D(a) \div n <= D(b) \div n
          /\ D(a) \div n \in Int /\ D(b) \div n \in Int
      <4> DEFINE da == D(a)
                 db == D(b)
      <4>1. da \in Nat /\ db \in Nat /\ da <= db /\ n \in Nat /\ 0 < n  BY <1>1, <1>3, <3>1
      <4> HIDE DEF da, db
      <4>2. da \div n <= db \div n  BY <4>1, QuotientGrows
      <4>3. da \div n \in Int /\ db \div n \in Int  BY <4>1
      <4> QED  BY <4>2, <4>3 DEF da, db
    <3> QED  BY <3>2, <3>3
  <2> DEFINE Esc(z) == /\ z.bridge_deposit_actual_usd < 1 * Usd
                       /\ z.bridge_deposit_declared_usd > 100 * Usd
             W(z) == DiffBp(z) > ToleranceBp
             c(z) == IF DiffBp(z) > 4500 THEN 9500 ELSE 5000 + DiffBp(z)
  <2>2. Esc(x) => Esc(y)  BY <1>1, <1>3 DEF Usd
  <2>3. W(x) => W(y)  BY <2>1 DEF ToleranceBp
  <2> DEFINE B(z) == Detect("T1-007", Esc(z), 9500, W(z), c(z))
  <2>4. \A z : PhantomDeposit(z) = IF z.bridge_deposit_declared_usd <= 0 THEN {} ELSE B(z)
    BY DEF PhantomDeposit
  <2>5. ~(x.bridge_deposit_declared_usd <= 0) /\ ~(y.bridge_deposit_declared_usd <= 0)
    BY <1>1, <1>3
  <2> HIDE DEF Esc, W, c
  <2>6. Covers(B(y), B(x))  BY <2>2, <2>3, DetectCovers
  <2> HIDE DEF B
  <2> QED  BY <2>4, <2>5, <2>6
<1> QED  BY <1>1, <1>2, <1>3

(* A transaction that is at least as risky as another in every fact is not *)
(* given a milder verdict: no rule is switched off by a fact that should   *)
(* alarm it.                                                               *)
THEOREM RiskierIsNeverCalmer ==
  ASSUME NEW x \in Facts, NEW y \in Facts, AtLeastAsRisky(y, x)
  PROVE  OverallFlag(x) <= OverallFlag(y)
<1>1. Covers(BridgeValidatorCount(y), BridgeValidatorCount(x))
  <2> DEFINE large(z) == z.tvl_usd > 50000000 * Usd
             E(z) == large(z) /\ z.validator_count < 5
             W(z) == large(z) /\ z.validator_count < 8
  <2>1. (E(x) => E(y)) /\ (W(x) => W(y))  BY DEF AtLeastAsRisky, Facts, Usd
  <2>2. \A z : BridgeValidatorCount(z) = Detect("T1-001", E(z), 8500, W(z), 6000)
    BY DEF BridgeValidatorCount
  <2> HIDE DEF E, W
  <2> QED  BY <2>1, <2>2, DetectCovers
<1>2. Covers(PriceDeviation(y), PriceDeviation(x))
  <2> DEFINE A(z, n) == z.price_ma24h > 0 /\ z.current_price > n * z.price_ma24h
             E(z) == A(z, 20)
             W(z) == A(z, 5)
  <2>1. (E(x) => E(y)) /\ (W(x) => W(y))  BY DEF AtLeastAsRisky, Facts
  <2>2. \A z : PriceDeviation(z) = Detect("T1-002", E(z), 9000, W(z), 5000)
    BY DEF PriceDeviation
  <2> HIDE DEF E, W
  <2> QED  BY <2>1, <2>2, DetectCovers
<1>3. Covers(LargeMintDexExit(y), LargeMintDexExit(x))
  <2> DEFINE E(z) == z.mint_amount_usd > 1000000 * Usd /\ z.has_dex_swap
             W(z) == z.mint_amount_usd > 100000 * Usd /\ z.has_dex_swap
  <2>1. (E(x) => E(y)) /\ (W(x) => W(y))  BY DEF AtLeastAsRisky, Facts, Usd
  <2>2. \A z : LargeMintDexExit(z) = Detect("T1-003", E(z), 8000, W(z), 5000)
    BY DEF LargeMintDexExit
  <2> HIDE DEF E, W
  <2> QED  BY <2>1, <2>2, DetectCovers
<1>4. Covers(AdminKeySoleSigner(y), AdminKeySoleSigner(x))
  <2> DEFINE E(z) == FALSE
             W(z) == /\ z.is_admin_key_signing /\ ~z.has_timelock
                     /\ z.contract_type \in {"bridge", "lending"}
  <2>1. (E(x) => E(y)) /\ (W(x) => W(y))  BY DEF AtLeastAsRisky, Facts
  <2>2. \A z : AdminKeySoleSigner(z) = Detect("T1-004", E(z), 0, W(z), 7000)
    BY DEF AdminKeySoleSigner
  <2> HIDE DEF E, W
  <2> QED  BY <2>1, <2>2, DetectCovers
<1>5. Covers(WhitelistNotRevoked(y), WhitelistNotRevoked(x))
  <2> DEFINE E(z) == FALSE
             W(z) == /\ z.whitelist_entries - z.active_whitelist_entries > 0
                     /\ z.last_whitelist_rotation_hours > 720
  <2>1. (E(x) => E(y)) /\ (W(x) => W(y))  BY DEF AtLeastAsRisky, Facts
  <2>2. \A z : WhitelistNotRevoked(z) = Detect("T1-005", E(z), 0, W(z), 7500)
    BY DEF WhitelistNotRevoked
  <2> HIDE DEF E, W
  <2> QED  BY <2>1, <2>2, DetectCovers
<1>6. Covers(FlashLoanMultipool(y), FlashLoanMultipool(x))
  <2> DEFINE E(z) == FALSE
             W(z) == /\ z.pool_interactions > 3
                     /\ z.has_governance_action \/ z.has_dex_swap
  <2>1. (E(x) => E(y)) /\ (W(x) => W(y))  BY DEF AtLeastAsRisky, Facts
  <2>2. \A z : FlashLoanMultipool(z) = Detect("T1-006", E(z), 0, W(z), 6000)
    BY DEF FlashLoanMultipool
  <2> HIDE DEF E, W
  <2> QED  BY <2>1, <2>2, DetectCovers
<1>7. Covers(PhantomDeposit(y), PhantomDeposit(x))  BY PhantomCovers
<1>8. Covers(LargeMintFromEoa(y), LargeMintFromEoa(x))
  <2> DEFINE U(z) == ~z.minter_is_contract /\ ~z.has_mint_cap
             E(z) == U(z) /\ z.mint_amount_usd > 10000000 * Usd
             W(z) == U(z) /\ z.mint_amount_usd > 1000000 * Usd
  <2>1. (E(x) => E(y)) /\ (W(x) => W(y))  BY DEF AtLeastAsRisky, Facts, Usd
  <2>2. \A z : LargeMintFromEoa(z) = Detect("T1-008", E(z), 9000, W(z), 7000)
    BY DEF LargeMintFromEoa
  <2> HIDE DEF E, W
  <2> QED  BY <2>1, <2>2, DetectCovers
<1>9. Covers(PrivilegedCrossChainRelay(y), PrivilegedCrossChainRelay(x))
  <2> DEFINE E(z) == z.caller_is_cross_chain_relay /\ z.target_is_privileged_data_contract
             W(z) == z.selector_collides
  <2>1. (E(x) => E(y)) /\ (W(x) => W(y))  BY DEF AtLeastAsRisky
  <2>2. \A z : PrivilegedCrossChainRelay(z) = Detect("T1-009", E(z), 9000, W(z), 7500)
    BY DEF PrivilegedCrossChainRelay
  <2> HIDE DEF E, W
  <2> QED  BY <2>1, <2>2, DetectCovers
<1>10. Covers(EoaUpgradeOrParamChange(y), EoaUpgradeOrParamChange(x))
  <2> DEFINE E(z) == z.is_upgrade_or_param_change /\ ~z.signer_is_multisig /\ ~z.has_timelock
             W(z) == z.is_upgrade_or_param_change /\ ~(z.signer_is_multisig /\ z.has_timelock)
  <2>1. (E(x) => E(y)) /\ (W(x) => W(y))  BY DEF AtLeastAsRisky
  <2>2. \A z : EoaUpgradeOrParamChange(z) = Detect("T1-010", E(z), 8500, W(z), 6500)
    BY DEF EoaUpgradeOrParamChange
  <2> HIDE DEF E, W
  <2> QED  BY <2>1, <2>2, DetectCovers
<1>11. Covers(Detections(y), Detections(x))
  <2>1. SUFFICES ASSUME NEW d \in Detections(x)
                 PROVE  \E e \in Detections(y) : d.flag <= e.flag
    BY DEF Covers
  <2> QED  BY <1>1, <1>2, <1>3, <1>4, <1>5, <1>6, <1>7, <1>8, <1>9, <1>10
           DEF Covers, Detections
<1>12. CASE OverallFlag(x) = CLEAR
  BY <1>12, VerdictIsTheWorst DEF CLEAR, WATCH, ESCALATE
<1>13. CASE OverallFlag(x) # CLEAR
  <2>1. PICK d \in Detections(x) : d.flag = OverallFlag(x)  BY <1>13, VerdictIsTheWorst
  <2>2. PICK e \in Detections(y) : d.flag <= e.flag  BY <1>11 DEF Covers
  <2>3. e.flag <= OverallFlag(y)  BY VerdictIsTheWorst
  <2>4. Sound(d) /\ Sound(e)  BY DetectionsAreSound
  <2>5. OverallFlag(y) \in {CLEAR, WATCH, ESCALATE}  BY VerdictIsTheWorst
  <2> QED  BY <2>1, <2>2, <2>3, <2>4, <2>5 DEF Sound, CLEAR, WATCH, ESCALATE
<1> QED  BY <1>12, <1>13
=============================================================================
