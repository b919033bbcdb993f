---------------------------- MODULE PublishGate ----------------------------
(***************************************************************************)
(* One run of publishResourceWithChecks, from the revocation check it has  *)
(* passed to its answer: the publisher's signature, the policy decision,   *)
(* the confidence gate and the automated trust verification, which may     *)
(* rewrite the trust tier the resource claims before it is stored.         *)
(*                                                                         *)
(* Four modules of the node judge a tier, each with its own table: the     *)
(* signature verifier, the confidence gate, trust.ts and the policies of   *)
(* the compliance service, which may here decide anything. A DID document, *)
(* a domain or the service may answer differently at every call.           *)
(* Revocation around this pipeline is in RevocationGossip.                 *)
(***************************************************************************)
EXTENDS Naturals

CONSTANTS Confidence,   \* bound: the confidence scores a manifest may carry
          NoRow         \* nothing is stored

ASSUME ConfidenceAssumption == Confidence \subseteq 0..100

(* A tier the manifest names, or "unset". A numbered name stands for all    *)
(* that begin so (tier_2_publish), "tier_9" for any number above five, and  *)
(* "other" for a name no table has.                                        *)
Tier == {"unset", "community", "signed", "verified-signature", "verified",
         "official", "certified", "tier_0", "tier_1", "tier_2", "tier_3",
         "tier_4", "tier_5", "tier_9", "other"}

(* did: did:web, did:key, another method, or none. sig: "partial" is a      *)
(* value without a signer. genuine: the signature is by the key of the DID  *)
(* over this very content. active: the lifecycle, if any, is active and not *)
(* expired. complete: apiVersion, kind and name are given. ossa: apiVersion *)
(* and kind are those of an OSSA resource.                                 *)
Manifest ==
    {m \in [tier : Tier, did : {"none", "web", "key", "other"},
            sig : {"none", "partial", "complete"}, genuine : BOOLEAN,
            active : BOOLEAN, confidence : Confidence, validated : BOOLEAN,
            complete : BOOLEAN, ossa : BOOLEAN] :
        /\ m.ossa => m.complete
        /\ m.genuine => m.sig # "none"}

ASSUME NoRowAssumption == NoRow \notin Manifest

VARIABLES manifest,  \* the body of the request, its tier rewritten in place
          stage,     \* what the handler waits for, or "answered"
          rank,      \* maxVerifiedRank of verifyTrustTier
          row,       \* what the handler has stored
          answer     \* the status it answered with; 0 before

vars == <<manifest, stage, rank, row, answer>>

TypeOK ==
    /\ manifest \in Manifest
    /\ stage \in {"signature", "policy", "did", "domain", "answered"}
    /\ rank \in 0..4
    /\ row \in Manifest \cup {NoRow}
    /\ answer \in {0, 201, 202, 400, 403}

Init ==
    /\ manifest \in Manifest
    /\ stage = "signature"
    /\ rank = 0
    /\ row = NoRow
    /\ answer = 0

-----------------------------------------------------------------------------
(* The two tables of tiers. *)

(* signature-verifier.ts knows "certified" and the numbered names ... *)
ParseTier(t) ==
    CASE t = "tier_0" -> 0
      [] t \in {"signed", "tier_2"} -> 2
      [] t \in {"verified-signature", "tier_3"} -> 3
      [] t \in {"verified", "tier_4"} -> 4
      [] t \in {"official", "certified", "tier_5"} -> 5
      [] t = "tier_9" -> 9
      [] OTHER -> 1

(* ... and trust.ts knows neither. *)
TierRank(t) ==
    CASE t = "signed" -> 2
      [] t = "verified-signature" -> 3
      [] t = "verified" -> 4
      [] t = "official" -> 5
      [] OTHER -> 1

RankToTier(r) ==
    CASE r = 4 -> "verified"
      [] r = 3 -> "verified-signature"
      [] r = 2 -> "signed"
      [] OTHER -> "community"

-----------------------------------------------------------------------------
Answered(status) == stage' = "answered" /\ answer' = status

(* Whether provider.publishResource takes the manifest. *)
Stores(m) == m.complete

(* Mutant: stored whatever it lacks. *)
StoreAlways(m) == row' = m

StoreIfComplete(m) == row' = IF Stores(m) THEN m ELSE row

(* Mutant: the third tier is not yet a high one. *)
RequiresSignatureAbove(m) == ParseTier(m.tier) > 3

RequiresSignature(m) == ParseTier(m.tier) >= 3

(* A manifest without a DID passes unless its tier needs a signature; a     *)
(* did:key is checked locally; any other goes through the identity chain of *)
(* the SDK, where the DID has to resolve to a document with the right key.  *)
SignatureVerified(m, resolves, hasKey) ==
    CASE m.did = "none" -> ~RequiresSignature(m)
      [] m.did = "key"  -> m.genuine
      [] m.did = "web"  -> resolves /\ hasKey /\ m.genuine /\ m.active
      [] OTHER          -> FALSE

VerifySignature ==
    /\ stage = "signature"
    /\ \E resolves, hasKey \in BOOLEAN :
         IF RequiresSignature(manifest)
              /\ ~SignatureVerified(manifest, resolves, hasKey)
         THEN Answered(403)
         ELSE stage' = "policy" /\ UNCHANGED answer
    /\ UNCHANGED <<manifest, rank, row>>

-----------------------------------------------------------------------------
(* The verdicts of the confidence gate. A score of 0 is no score. *)

NeedsReview(m) ==
    \/ m.confidence \in 50..89 /\ m.tier \in {"verified", "official"}
    \/ m.confidence \in 1..49 /\ m.validated

Rejected(m) == m.confidence \in 1..49 /\ ~m.validated

DegradedTier(m) == IF m.confidence >= 50 THEN "signed" ELSE "community"

(* The policies deny, or the service cannot be reached, which denies too.   *)
Deny ==
    /\ stage = "policy"
    /\ Answered(403)
    /\ UNCHANGED <<manifest, rank, row>>

Reject ==
    /\ stage = "policy"
    /\ Rejected(manifest)
    /\ Answered(403)
    /\ UNCHANGED <<manifest, rank, row>>

(* The resource is stored at the degraded tier without trust verification,  *)
(* and the answer does not look at whether it was stored.                   *)
HumanReview ==
    /\ stage = "policy"
    /\ NeedsReview(manifest)
    /\ manifest' = [manifest EXCEPT !.tier = DegradedTier(manifest)]
    /\ StoreIfComplete(manifest')
    /\ Answered(202)
    /\ UNCHANGED rank

(* verifyTrustTier begins: the schema and the signature field need no wait. *)
Proceed ==
    /\ stage = "policy"
    /\ ~NeedsReview(manifest) /\ ~Rejected(manifest)
    /\ rank' = IF ~manifest.ossa THEN 0
               ELSE IF manifest.sig = "complete" THEN 2 ELSE 1
    /\ stage' = "did"
    /\ UNCHANGED <<manifest, row, answer>>

(* A did:web is fetched again; that the document exists is enough here. *)
CheckDid ==
    /\ stage = "did"
    /\ \E resolves \in BOOLEAN :
         LET passed == \/ manifest.did = "key"
                       \/ manifest.did = "web" /\ resolves
         IN  rank' = IF passed /\ rank = 2 THEN 3 ELSE rank
    /\ stage' = "domain"
    /\ UNCHANGED <<manifest, row, answer>>

(* Mutant: the verified tier replaces the claim even when it is higher. *)
VerifiedTierAlways(m, r) == RankToTier(r)

VerifiedTier(m, r) == IF r < TierRank(m.tier) THEN RankToTier(r) ELSE m.tier

(* The proof of the domain comes last; official is never granted. The tier  *)
(* is rewritten and the resource stored in the same step.                   *)
CheckDomain ==
    /\ stage = "domain"
    /\ \E proof \in BOOLEAN :
         rank' = IF manifest.did = "web" /\ proof /\ rank = 3 THEN 4 ELSE rank
    /\ manifest' = [manifest EXCEPT !.tier = VerifiedTier(manifest, rank')]
    /\ StoreIfComplete(manifest')
    /\ Answered(IF Stores(manifest) THEN 201 ELSE 400)

Next ==
    \/ VerifySignature
    \/ Deny
    \/ Reject
    \/ HumanReview
    \/ Proceed
    \/ CheckDid
    \/ CheckDomain

Spec == Init /\ [][Next]_vars

-----------------------------------------------------------------------------
(* Properties. *)

(* Whatever the policies allow and however the lookups answer, a stored     *)
(* tier is earned as far as the table that knows it goes. A tier of trust.ts *)
(* from "signed" up has a signature, "verified" needs a did:web, and        *)
(* "official" is never given (trust.ts:4-9). Any tier the signature         *)
(* verifier reads as 3 or more, by name or by number, has the genuine       *)
(* signature of a DID that proves it (index.ts:90). No more is so of the    *)
(* names trust.ts lacks: "tier_2" is stored unsigned, and "certified" and   *)
(* "tier_4" without any proof of a domain.                                  *)
StoredTierIsEarned ==
    row # NoRow =>
        /\ TierRank(row.tier) >= 2 => row.sig # "none"
        /\ ParseTier(row.tier) >= 3
             => /\ row.genuine /\ row.did \in {"web", "key"}
                /\ row.did = "web" => row.active
        /\ row.tier = "verified" => row.did = "web"
        /\ row.tier # "official"

(* No step of the pipeline, degraded or verified, raises a claimed tier.    *)
TierNeverRaised ==
    [][TierRank(manifest'.tier) <= TierRank(manifest.tier)]_vars

-----------------------------------------------------------------------------
(* What the answer says of the storage is so: 201 means that the manifest is  *)
(* stored as it now is, a refusal that nothing is, and nothing is stored    *)
(* before the answer. Only a 202 may be without a row, when the manifest is *)
(* incomplete, for the review path does not look (index.ts:123).            *)
AnswerTellsStored ==
    /\ answer \in {0, 400, 403} => row = NoRow
    /\ answer = 201 => row = manifest
    /\ answer = 202 => row = IF manifest.complete THEN manifest ELSE NoRow
=============================================================================
