----------------------------- MODULE SampleRun -----------------------------
(***************************************************************************)
(* The devnet run published with the explorer (explorer/sample-run.js,     *)
(* recorded by the live runner from a transfer it broadcast): the fields   *)
(* of its five receipts that Receipts.tla models.  A hash is written by    *)
(* its first digits; a grant id by its own.                                *)
(***************************************************************************)
EXTENDS Naturals, Sequences

\* null, no approval, and the grant id of a receipt without one.
NoGrant == "grant.solana.simulate_only"

RecordedPlan ==
    [ step |-> "plan", status |-> "prepared", policy_decision |-> "needs_approval",
      mode |-> "simulate", grant_id |-> NoGrant, approval_state |-> "not_required",
      token_digest |-> "absent", simulation_status |-> "not_simulated",
      broadcast |-> FALSE, failure |-> "null", human_review_required |-> TRUE,
      previous_hash |-> "00000000", receipt_hash |-> "b79ac304" ]

RecordedSimulate ==
    [ step |-> "simulate", status |-> "needs_human_review", policy_decision |-> "needs_approval",
      mode |-> "simulate", grant_id |-> NoGrant, approval_state |-> "not_required",
      token_digest |-> "absent", simulation_status |-> "simulated_ok",
      broadcast |-> FALSE, failure |-> "null", human_review_required |-> TRUE,
      previous_hash |-> "b79ac304", receipt_hash |-> "5f81193f" ]

RecordedApproval ==
    [ step |-> "await_approval", status |-> "prepared", policy_decision |-> "needs_approval",
      mode |-> "prepare", grant_id |-> "grant.solana.c2aab43c0935",
      approval_state |-> "approved", token_digest |-> "redacted",
      simulation_status |-> "simulated_ok",
      broadcast |-> FALSE, failure |-> "null", human_review_required |-> FALSE,
      previous_hash |-> "5f81193f", receipt_hash |-> "275a72c1" ]

RecordedSign ==
    [ step |-> "sign", status |-> "prepared", policy_decision |-> "needs_approval",
      mode |-> "prepare", grant_id |-> "grant.solana.c2aab43c0935",
      approval_state |-> "approved", token_digest |-> "redacted",
      simulation_status |-> "simulated_ok",
      broadcast |-> FALSE, failure |-> "null", human_review_required |-> FALSE,
      previous_hash |-> "275a72c1", receipt_hash |-> "f968a3e3" ]

RecordedBroadcast ==
    [ step |-> "broadcast", status |-> "succeeded", policy_decision |-> "needs_approval",
      mode |-> "execute_with_human_approval", grant_id |-> "grant.solana.c2aab43c0935",
      approval_state |-> "approved", token_digest |-> "redacted",
      simulation_status |-> "simulated_ok",
      broadcast |-> TRUE, failure |-> "null", human_review_required |-> FALSE,
      previous_hash |-> "f968a3e3", receipt_hash |-> "db868a9d" ]

RecordedRun ==
    << RecordedPlan, RecordedSimulate, RecordedApproval, RecordedSign, RecordedBroadcast >>

\* Fields with values of their own in every run: compared by which are equal.
Drawn == {"grant_id", "previous_hash", "receipt_hash"}

\* A ledger of the model says what the recorded run says: the same receipts,
\* the same of them under one grant, and chained in the same way.
IsRecordedRun(ledger) ==
    /\ Len(ledger) = Len(RecordedRun)
    /\ \A i \in 1..Len(ledger) :
          /\ \A f \in DOMAIN RecordedRun[i] \ Drawn : ledger[i].body[f] = RecordedRun[i][f]
          /\ ledger[i].body.grant_id = 0 <=> RecordedRun[i].grant_id = NoGrant
    /\ \A i, j \in 1..Len(ledger) :
          /\ ledger[i].body.grant_id = ledger[j].body.grant_id
                <=> RecordedRun[i].grant_id = RecordedRun[j].grant_id
          /\ ledger[i].previous_hash = ledger[j].receipt_hash
                <=> RecordedRun[i].previous_hash = RecordedRun[j].receipt_hash

=============================================================================
