------------------------- MODULE PublishGateProofs -------------------------
(***************************************************************************)
(* StoredTierIsEarned is not inductive: a tier that reaches the store was  *)
(* judged stages before. PipelineInv carries along what the earlier stages *)
(* have established about the manifest.                                    *)
(***************************************************************************)
EXTENDS PublishGate, TLAPS

(* Past the signature check, a claim that requires a signature has one.     *)
Proven(m) ==
    m.genuine /\ m.did \in {"web", "key"} /\ (m.did = "web" => m.active)

Admitted ==
    stage \in {"policy", "did", "domain"} /\ RequiresSignature(manifest)
        => Proven(manifest)

(* The rank never runs ahead of the checks done so far. *)
Ranked ==
    /\ stage \in {"did", "domain"} /\ rank >= 2 => manifest.sig # "none"
    /\ stage = "did" => rank <= 2
    /\ stage = "domain" => rank <= 3

PipelineInv == TypeOK /\ Admitted /\ Ranked /\ StoredTierIsEarned

-----------------------------------------------------------------------------
(* The two tables agree on every name trust.ts ranks above the first tier.  *)
LEMMA TablesAgree ==
    ASSUME NEW t \in Tier, TierRank(t) >= 2
    PROVE  ParseTier(t) = TierRank(t)
  BY DEF Tier, TierRank, ParseTier

(* A rank and the tier it is called by are the same, except for rank 0.     *)
LEMMA RankOfTier ==
    ASSUME NEW r \in 0..4
    PROVE  /\ RankToTier(r) \in Tier
           /\ r >= 2 => ParseTier(RankToTier(r)) = r
           /\ r <= 1 => RankToTier(r) = "community"
           /\ RankToTier(r) # "official"
           /\ RankToTier(r) = "verified" => r = 4
  BY DEF RankToTier, Tier, ParseTier

(* Only a confidence of at least 50 and a claim of a proven tier degrade to *)
(* "signed".                                                               *)
LEMMA DegradedIsLower ==
    ASSUME NEW m \in Manifest, NeedsReview(m)
    PROVE  /\ DegradedTier(m) \in {"signed", "community"}
           /\ DegradedTier(m) = "signed" => m.tier \in {"verified", "official"}
  BY ConfidenceAssumption DEF Manifest, NeedsReview, DegradedTier

-----------------------------------------------------------------------------
LEMMA PipelineInit == Init => PipelineInv
  <1> SUFFICES ASSUME Init PROVE PipelineInv
    OBVIOUS
  <1>1. TypeOK
    BY DEF Init, TypeOK
  <1>2. Admitted /\ Ranked /\ StoredTierIsEarned
    BY DEF Init, Admitted, Ranked, StoredTierIsEarned
  <1> QED BY <1>1, <1>2 DEF PipelineInv

LEMMA PipelineStep == PipelineInv /\ [Next]_vars => PipelineInv'
  <1> SUFFICES ASSUME PipelineInv, [Next]_vars PROVE PipelineInv'
    OBVIOUS
  <1> USE DEF PipelineInv
  <1>1. CASE VerifySignature
    <2>1. TypeOK'
      BY <1>1 DEF VerifySignature, Answered, TypeOK
    <2>2. Admitted'
      <3> SUFFICES ASSUME stage' = "policy", RequiresSignature(manifest)
                   PROVE  Proven(manifest)
        BY <1>1 DEF VerifySignature, Answered, Admitted
      <3>1. PICK resolves, hasKey \in BOOLEAN :
              SignatureVerified(manifest, resolves, hasKey)
        BY <1>1 DEF VerifySignature, Answered
      <3> QED BY <3>1 DEF SignatureVerified, Proven, TypeOK, Manifest
    <2>3. Ranked'
      BY <1>1 DEF VerifySignature, Answered, Ranked
    <2>4. StoredTierIsEarned'
      BY <1>1 DEF VerifySignature, StoredTierIsEarned
    <2> QED BY <2>1, <2>2, <2>3, <2>4
  <1>2. CASE Deny \/ Reject
    BY <1>2 DEF Deny, Reject, Answered, TypeOK, Admitted, Ranked, StoredTierIsEarned
  <1>3. CASE HumanReview
    <2> DEFINE t == DegradedTier(manifest)
    <2>1. /\ t \in {"signed", "community"}
          /\ t = "signed" => manifest.tier \in {"verified", "official"}
      BY <1>3, DegradedIsLower DEF HumanReview, TypeOK
    <2>2. manifest' \in Manifest /\ manifest'.tier = t
      BY <1>3, <2>1 DEF HumanReview, TypeOK, Manifest, Tier
    <2>3. manifest'.sig = manifest.sig
      BY <1>3 DEF HumanReview, TypeOK, Manifest
    <2>4. TypeOK'
      BY <1>3, <2>2 DEF HumanReview, StoreIfComplete, Stores, Answered, TypeOK
    <2>5. Admitted' /\ Ranked'
      BY <1>3 DEF HumanReview, Answered, Admitted, Ranked
    <2>6. t = "signed" => manifest.sig # "none"
      BY <1>3, <2>1 DEF HumanReview, Admitted, RequiresSignature, ParseTier,
                        Proven, TypeOK, Manifest
    <2>7. StoredTierIsEarned'
      BY <1>3, <2>1, <2>2, <2>3, <2>6
         DEF HumanReview, StoreIfComplete, StoredTierIsEarned, ParseTier, TierRank
    <2> QED BY <2>4, <2>5, <2>7
  <1>4. CASE Proceed
    <2>1. TypeOK' /\ Ranked'
      BY <1>4 DEF Proceed, TypeOK, Ranked
    <2>2. Admitted' /\ StoredTierIsEarned'
      BY <1>4 DEF Proceed, Admitted, StoredTierIsEarned
    <2> QED BY <2>1, <2>2
  <1>5. CASE CheckDid
    <2>1. TypeOK' /\ Ranked'
      BY <1>5 DEF CheckDid, TypeOK, Ranked
    <2>2. Admitted' /\ StoredTierIsEarned'
      BY <1>5 DEF CheckDid, Admitted, StoredTierIsEarned
    <2> QED BY <2>1, <2>2
  <1>6. CASE CheckDomain
    <2> DEFINE t == VerifiedTier(manifest, rank')
    <2>1. /\ rank' \in 0..4
          /\ rank' >= 2 => manifest.sig # "none"
          /\ rank' = 4 => manifest.did = "web"
      BY <1>6 DEF CheckDomain, Ranked, TypeOK
    <2>2. manifest \in Manifest /\ manifest.tier \in Tier
      BY DEF TypeOK, Manifest
    <2>3. t \in Tier
      BY <2>1, <2>2, RankOfTier DEF VerifiedTier
    <2>4. /\ manifest' \in Manifest /\ manifest'.tier = t
          /\ manifest'.did = manifest.did /\ manifest'.sig = manifest.sig
          /\ manifest'.genuine = manifest.genuine
          /\ manifest'.active = manifest.active
      BY <1>6, <2>2, <2>3 DEF CheckDomain, Manifest
    <2>5. TypeOK'
      BY <1>6, <2>1, <2>4 DEF CheckDomain, StoreIfComplete, Stores, Answered, TypeOK
    <2>6. Admitted' /\ Ranked'
      BY <1>6 DEF CheckDomain, Answered, Admitted, Ranked
    <2>7. ParseTier(t) >= 3 => Proven(manifest)
      <3> SUFFICES ASSUME ParseTier(t) >= 3 PROVE RequiresSignature(manifest)
        BY <1>6 DEF CheckDomain, Admitted
      <3>1. CASE rank' < TierRank(manifest.tier)
        <4>1. rank' >= 3
          BY <2>1, <3>1, RankOfTier DEF VerifiedTier, ParseTier
        <4>2. TierRank(manifest.tier) >= 3 /\ TierRank(manifest.tier) \in Nat
          BY <2>1, <3>1, <4>1 DEF TierRank
        <4> QED BY <2>2, <4>2, TablesAgree DEF RequiresSignature
      <3>2. CASE ~(rank' < TierRank(manifest.tier))
        BY <3>2 DEF VerifiedTier, RequiresSignature
      <3> QED BY <3>1, <3>2
    <2>8. TierRank(t) >= 2 => manifest.sig # "none"
      <3>1. CASE rank' < TierRank(manifest.tier)
        BY <2>1, <3>1 DEF VerifiedTier, RankToTier, TierRank
      <3>2. CASE ~(rank' < TierRank(manifest.tier)) /\ t = "signed"
        BY <2>1, <3>2 DEF VerifiedTier, TierRank
      <3>3. CASE ParseTier(t) >= 3
        BY <2>2, <2>7, <3>3 DEF Proven, Manifest
      <3>4. t # "signed" /\ TierRank(t) >= 2 => ParseTier(t) >= 3
        BY DEF ParseTier, TierRank
      <3> QED BY <3>1, <3>2, <3>3, <3>4
    <2>9. t = "verified" => manifest.did = "web"
      <3>1. CASE rank' < TierRank(manifest.tier)
        BY <2>1, <3>1, RankOfTier DEF VerifiedTier
      <3>2. CASE ~(rank' < TierRank(manifest.tier))
        BY <2>1, <3>2 DEF VerifiedTier, TierRank
      <3> QED BY <3>1, <3>2
    <2>10. t # "official"
      <3>1. CASE rank' < TierRank(manifest.tier)
        BY <2>1, <3>1, RankOfTier DEF VerifiedTier
      <3>2. CASE ~(rank' < TierRank(manifest.tier))
        BY <2>1, <3>2 DEF VerifiedTier, TierRank
      <3> QED BY <3>1, <3>2
    <2>11. StoredTierIsEarned'
      <3>1. StoredTierIsEarned'
            \/ row' = manifest'
        BY <1>6 DEF CheckDomain, StoreIfComplete, StoredTierIsEarned
      <3>2. t = "verified" => ParseTier(t) >= 3
        BY DEF ParseTier
      <3>3. row' = manifest' => StoredTierIsEarned'
        BY <2>4, <2>7, <2>8, <2>9, <2>10, <3>2 DEF StoredTierIsEarned, Proven
      <3> QED BY <3>1, <3>3
    <2> QED BY <2>5, <2>6, <2>11
  <1>7. CASE UNCHANGED vars
    BY <1>7 DEF vars, TypeOK, Admitted, Ranked, StoredTierIsEarned
  <1> QED
    BY <1>1, <1>2, <1>3, <1>4, <1>5, <1>6, <1>7 DEF Next

(* The action property, for one step from a state of the invariant. *)
LEMMA TierNeverRaisedStep ==
    PipelineInv /\ [Next]_vars
        => [TierRank(manifest'.tier) <= TierRank(manifest.tier)]_vars
  <1> SUFFICES ASSUME PipelineInv, Next
               PROVE  TierRank(manifest'.tier) <= TierRank(manifest.tier)
    OBVIOUS
  <1>1. manifest \in Manifest /\ manifest.tier \in Tier
    BY DEF PipelineInv, TypeOK, Manifest
  <1>2. \A t \in Tier : TierRank(t) \in 1..5
    BY DEF TierRank
  <1>3. CASE UNCHANGED manifest
    BY <1>1, <1>2, <1>3
  <1>4. CASE HumanReview
    <2>1. /\ manifest'.tier \in {"signed", "community"}
          /\ manifest'.tier = "signed" => manifest.tier \in {"verified", "official"}
      BY <1>1, <1>4, DegradedIsLower DEF HumanReview, Manifest
    <2> QED BY <1>1, <1>2, <2>1 DEF TierRank
  <1>5. CASE CheckDomain
    <2>1. manifest'.tier = VerifiedTier(manifest, rank')
      BY <1>1, <1>5 DEF CheckDomain, Manifest
    <2>2. rank' \in 0..4
      BY <1>5 DEF CheckDomain, PipelineInv, TypeOK
    <2>3. rank' < TierRank(manifest.tier)
            => TierRank(RankToTier(rank')) <= TierRank(manifest.tier)
      BY <1>1, <1>2, <2>2 DEF RankToTier, TierRank
    <2> QED BY <1>1, <1>2, <2>1, <2>3 DEF VerifiedTier
  <1> QED
    BY <1>3, <1>4, <1>5
       DEF Next, VerifySignature, Deny, Reject, Proceed, CheckDid

-----------------------------------------------------------------------------
(* Until the answer nothing is stored; the answer then tells what was. *)
AnswerInv ==
    /\ manifest \in Manifest
    /\ stage # "answered" <=> answer = 0
    /\ AnswerTellsStored

LEMMA AnswerStep == TypeOK /\ AnswerInv /\ [Next]_vars => AnswerInv'
  <1> SUFFICES ASSUME TypeOK, AnswerInv, [Next]_vars PROVE AnswerInv'
    OBVIOUS
  <1> USE DEF TypeOK, AnswerInv, AnswerTellsStored, Answered
  <1>1. CASE VerifySignature
    BY <1>1 DEF VerifySignature
  <1>2. CASE Deny \/ Reject
    BY <1>2 DEF Deny, Reject
  <1>3. CASE HumanReview
    <2>1. manifest' \in Manifest /\ manifest'.complete = manifest.complete
      BY <1>3, DegradedIsLower DEF HumanReview, Manifest, Tier
    <2> QED
      BY <1>3, <2>1 DEF HumanReview, StoreIfComplete, Stores
  <1>4. CASE Proceed \/ CheckDid
    BY <1>4 DEF Proceed, CheckDid
  <1>5. CASE CheckDomain
    <2>1. rank' \in 0..4
      BY <1>5 DEF CheckDomain
    <2>2. VerifiedTier(manifest, rank') \in Tier
      BY <2>1, RankOfTier DEF VerifiedTier, Manifest
    <2>3. manifest' \in Manifest /\ manifest'.complete = manifest.complete
      BY <1>5, <2>2 DEF CheckDomain, Manifest
    <2> QED
      BY <1>5, <2>3 DEF CheckDomain, StoreIfComplete, Stores
  <1>6. CASE UNCHANGED vars
    BY <1>6 DEF vars
  <1> QED
    BY <1>1, <1>2, <1>3, <1>4, <1>5, <1>6 DEF Next

-----------------------------------------------------------------------------
LEMMA PipelineInvariant == Spec => []PipelineInv
  BY PipelineInit, PipelineStep, PTL DEF Spec

(* The handler's state keeps its types, for any set of confidence scores.   *)
THEOREM PipelineTypeCorrect == Spec => []TypeOK
  BY PipelineInvariant, PTL DEF PipelineInv

(* No policy decision and no order of lookups stores an unearned tier.      *)
THEOREM OnlyEarnedTiers == Spec => []StoredTierIsEarned
  BY PipelineInvariant, PTL DEF PipelineInv

(* No step raises a tier: the review path and trust.ts only lower claims.   *)
THEOREM NoTierIsRaised == Spec => TierNeverRaised
  BY PipelineInvariant, TierNeverRaisedStep, PTL DEF Spec, TierNeverRaised

(* What the handler answers is true of what it has stored. *)
THEOREM AnswerIsTrue == Spec => []AnswerTellsStored
  <1>1. Init => AnswerInv
    BY DEF Init, AnswerInv, AnswerTellsStored
  <1>2. Spec => []AnswerInv
    BY <1>1, AnswerStep, PipelineTypeCorrect, PTL DEF Spec
  <1> QED
    BY <1>2, PTL DEF AnswerInv
=============================================================================
