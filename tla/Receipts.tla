------------------------------ MODULE Receipts ------------------------------
(***************************************************************************)
(* The receipt engine of receipt.mjs: what a step's receipt says, what is  *)
(* redacted from it, how it is sealed into the ledger and how a ledger is  *)
(* verified.                                                               *)
(*                                                                         *)
(* SHA-256 is taken as injective: the hash of a body holds the body.      *)
(* Texts (summary, notes, timestamps, agent and privacy blocks) are left   *)
(* out.                                                                    *)
(***************************************************************************)
EXTENDS Integers, Sequences, Approval

GenesisHash == [sha256 |-> None]   \* 64 zeros: the hash of nothing

HashReceiptBody(body) == [sha256 |-> body]

(***************************************************************************)
(* What a step hands to the builder (args of buildStepReceipt):            *)
(*   step, status  which step, and how it ended                            *)
(*   plan          contents of the plan at the moment of the receipt       *)
(*   decision      the policy decision of the run                          *)
(*   simulation    "null", "ok" or "failed"                                *)
(*   token         the approval token passed, NoToken if none is           *)
(*   granted       approval.granted                                        *)
(*   broadcast     "null", "confirmed" or "failed"                         *)
(*   failure       failure code, "null" if none                            *)
(***************************************************************************)
HasApproval(args) == args.token.nonce # 0

\* authority.mode
Mode(args) ==
    IF args.status = "succeeded" /\ args.broadcast # "null" THEN "execute_with_human_approval"
    ELSE IF HasApproval(args) THEN "prepare"
    ELSE "simulate"

ApprovalState(args) ==
    IF ~HasApproval(args) THEN "not_required"
    ELSE IF args.granted THEN "approved" ELSE "required"

SimulationStatus(args) ==
    CASE args.simulation = "ok"     -> "simulated_ok"
      [] args.simulation = "failed" -> "simulation_failed"
      [] OTHER                      -> "not_simulated"

BuildStepReceipt(id, args) ==
    [ receipt_id        |-> id,
      step              |-> args.step,
      status            |-> args.status,
      plan              |-> args.plan,
      policy_decision   |-> args.decision,
      mode              |-> Mode(args),
      grant_id          |-> args.token.nonce,
      approval_state    |-> ApprovalState(args),
      token_digest      |-> IF HasApproval(args) THEN "digest" ELSE "absent",
      simulation_status |-> SimulationStatus(args),
      broadcast         |-> args.broadcast # "null",
      failure           |-> args.failure,
      human_review_required |-> args.decision = "needs_approval" /\ ~args.granted ]

\* Plausible defect: nested objects are not entered.
RedactTopLevel(body) == body

\* redact: of the fields of a step receipt only token_digest has a name that
\* contains a forbidden word ("token"); its value is replaced when it is there.
Redact(body) ==
    [body EXCEPT !.token_digest = IF @ = "absent" THEN "absent" ELSE "redacted"]

(***************************************************************************)
(* ReceiptLedger                                                           *)
(***************************************************************************)
HeadHash(ledger) ==
    IF ledger = << >> THEN GenesisHash ELSE ledger[Len(ledger)].receipt_hash

Seal(ledger, body) ==
    [body |-> Redact(body), previous_hash |-> HeadHash(ledger),
     receipt_hash |-> HashReceiptBody(Redact(body))]

\* Plausible defect: the receipt is hashed before it is redacted.
AppendHashedBeforeRedaction(ledger, body) ==
    Append(ledger, [body |-> Redact(body), previous_hash |-> HeadHash(ledger),
                    receipt_hash |-> HashReceiptBody(body)])

AppendReceipt(ledger, body) == Append(ledger, Seal(ledger, body))

\* ReceiptLedger.verify().verified: every link and every hash holds.
VerifyChain(ledger) ==
    \A i \in 1..Len(ledger) :
        /\ ledger[i].previous_hash =
              IF i = 1 THEN GenesisHash ELSE ledger[i - 1].receipt_hash
        /\ ledger[i].receipt_hash = HashReceiptBody(ledger[i].body)

=============================================================================
