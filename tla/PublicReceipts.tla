--------------------------- MODULE PublicReceipts ---------------------------
(***************************************************************************)
(* The public rendering of a receipt (toPublicSpecReceipt of receipt.mjs)  *)
(* and the two validators that judge it: the corpus validator's            *)
(* assertReceiptShape and the TypeScript package's validateAgentReceipt.   *)
(*                                                                         *)
(* Texts and dates are "text".  The keys are the code's: validators look   *)
(* for keys, and rendering must produce them.                              *)
(***************************************************************************)
EXTENDS Receipts

Clusters == {"devnet", "testnet", "mainnet-beta"}

Version == "aweb.agent_receipt.v0.1"

\* authority.allowed_actions
DeriveAllowed(decision) ==
    CASE decision = "allow"          -> {"read_program_context"}
      [] decision = "simulate_only"  -> {"simulate_transaction", "prepare_reviewer_summary"}
      [] decision = "needs_approval" -> {"simulate_transaction", "request_human_approval"}
      [] OTHER                       -> {}

\* authority.denied_actions
DeniedActions ==
    {"extract_private_key_or_seed", "move_user_funds", "front_run_or_sandwich", "spam_rpc"}

\* evidence.artifacts
Artifacts(body) ==
    {"transaction_plan"}
        \cup (IF body.simulation_status = "not_simulated" THEN {} ELSE {"simulation_logs"})

TrustState(status) ==
    CASE status = "succeeded" -> "executed_with_approval"
      [] status = "rejected"  -> "blocked"
      [] OTHER                -> "review_pending"

\* A public receipt knows two modes.
PublicMode(mode) ==
    IF mode = "execute_with_human_approval" THEN "execute_with_human_approval" ELSE "simulate"

\* workflow.environment, by way of the receipt's production or testnet.
PublicEnvironment(cluster) ==
    IF cluster = "mainnet-beta" THEN "mainnet_read_only" ELSE "testnet"

\* The rendering of the receipt of a plan for that cluster.  redact finds no
\* forbidden name among these keys.
ToPublicSpecReceipt(body, cluster) ==
    [ receipt_version |-> Version, receipt_id |-> body.receipt_id, example |-> TRUE,
      created_at |-> "text", scope |-> "solana_action_review",
      authority  |-> [grant_id |-> body.grant_id, mode |-> PublicMode(body.mode),
                      authorized_by |-> "text", policy_profile |-> "text",
                      allowed_actions |-> DeriveAllowed(body.policy_decision),
                      denied_actions |-> DeniedActions],
      agent      |-> [agent_id |-> "text", model_class |-> "text", operator |-> "text"],
      workflow   |-> [workflow_id |-> body.plan, intent |-> "text",
                      environment |-> PublicEnvironment(cluster)],
      capability |-> [provider |-> "solana", tool |-> "text", category |-> "text"],
      execution  |-> [status |-> body.status, started_at |-> "text", finished_at |-> "text",
                      idempotency_key |-> << body.plan, body.step >>, cost |-> "text"],
      evidence   |-> [summary |-> "text", solana_context |-> [broadcast |-> body.broadcast],
                      artifacts |-> Artifacts(body)],
      privacy    |-> [redaction_policy |-> "text", redacted_fields |-> "text"],
      review     |-> [trust_state |-> TrustState(body.status),
                      human_review_required |-> body.human_review_required,
                      review_notes |-> "text"] ]

-----------------------------------------------------------------------------
(* The corpus validator *)

RequiredTopLevel ==
    {"receipt_version", "receipt_id", "example", "created_at", "scope", "authority", "agent",
     "workflow", "capability", "execution", "evidence", "privacy", "review"}

RequiredNested ==
    [ authority  |-> {"grant_id", "mode", "authorized_by", "allowed_actions", "denied_actions"},
      agent      |-> {"agent_id", "model_class", "operator"},
      workflow   |-> {"workflow_id", "intent", "environment"},
      capability |-> {"provider", "tool", "category"},
      execution  |-> {"status", "started_at", "finished_at", "idempotency_key", "cost"},
      evidence   |-> {"summary", "artifacts"},
      privacy    |-> {"redaction_policy", "redacted_fields"},
      review     |-> {"trust_state", "human_review_required", "review_notes"} ]

\* A rendered receipt has no workflow.contract_id, which would be looked at next.
AssertReceiptShape(receipt) ==
    /\ RequiredTopLevel \subseteq DOMAIN receipt
    /\ receipt.receipt_version = Version
    /\ receipt.example = TRUE
    /\ \A part \in DOMAIN RequiredNested : RequiredNested[part] \subseteq DOMAIN receipt[part]

-----------------------------------------------------------------------------
(* The TypeScript package *)

ValidateAgentReceipt(receipt) ==
    /\ receipt.receipt_version = Version
    /\ receipt.example = TRUE
    /\ receipt.authority.allowed_actions # {}
    /\ receipt.authority.denied_actions # {}
    /\ receipt.evidence.artifacts # {}

=============================================================================
