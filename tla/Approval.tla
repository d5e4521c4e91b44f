------------------------------ MODULE Approval ------------------------------
(***************************************************************************)
(* Approval tokens and the nonce store of policy.mjs.                      *)
(*                                                                         *)
(* The HMAC is ideal: the signature of a payload is the payload itself     *)
(* under the runtime secret, so nobody without the secret produces one for *)
(* other fields.  A nonce (16 random bytes) is a number never drawn twice. *)
(* The fields verification does not read (action, riskClass, approvedBy)   *)
(* are left out; they are as protected by the signature as the others.     *)
(***************************************************************************)
EXTENDS Integers

CONSTANT None   \* JavaScript null

\* The fields the signature covers.
CanonicalApprovalPayload(grant) ==
    [planHash |-> grant.planHash, nonce |-> grant.nonce, expiresAt |-> grant.expiresAt]

\* state.approval before a grant.
NoToken == [planHash |-> None, nonce |-> 0, expiresAt |-> 0, signature |-> None]

IssueApprovalToken(planHash, nonce, ttlMs, now) ==
    LET grant == [planHash |-> planHash, nonce |-> nonce, expiresAt |-> now + ttlMs]
    IN  [planHash  |-> planHash, nonce |-> nonce, expiresAt |-> now + ttlMs,
         signature |-> CanonicalApprovalPayload(grant)]

(***************************************************************************)
(* NonceStore: used is the set of consumed nonces.                         *)
(***************************************************************************)

\* Plausible defect: the store answers but does not remember.
ConsumeForgets(used, nonce) == used

Consume(used, nonce) == used \cup {nonce}

(***************************************************************************)
(* Verification, in the order the checks are made; "valid" or the reason.  *)
(* The caller consumes the nonce exactly when the answer is "valid".       *)
(***************************************************************************)

\* Plausible defect: the MAC is never recomputed.
VerifyWithoutMac(token, planHash, now, used) ==
    CASE token.planHash # planHash -> "not_bound"
      [] token.planHash = planHash /\ now > token.expiresAt -> "expired"
      [] OTHER -> IF token.nonce \in used THEN "replay" ELSE "valid"

\* Plausible defect: the expiry is not looked at.
VerifyWithoutExpiry(token, planHash, now, used) ==
    CASE token.planHash # planHash -> "not_bound"
      [] /\ token.planHash = planHash
         /\ token.signature # CanonicalApprovalPayload(token) -> "signature_mismatch"
      [] OTHER -> IF token.nonce \in used THEN "replay" ELSE "valid"

VerifyApprovalToken(token, planHash, now, used) ==
    IF token.planHash # planHash THEN "not_bound"
    ELSE IF now > token.expiresAt THEN "expired"
    ELSE IF token.signature # CanonicalApprovalPayload(token) THEN "signature_mismatch"
    ELSE IF token.nonce \in used THEN "replay"
    ELSE "valid"

=============================================================================
