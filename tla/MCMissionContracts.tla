------------------------- MODULE MCMissionContracts -------------------------
(* A small contract with the makings of the example in the corpus: something   *)
(* to read, something to send, a gate on the sending, evidence for both.       *)
EXTENDS MissionContracts

MCContract ==
    [ sound                 |-> Sections,
      allowed_capabilities  |->
        { [capability_id |-> "research", mode |-> "read", risk_class |-> "read",
           approval_required |-> "false", evidence_required |-> TRUE,
           credential_boundary_id |-> "public"],
          [capability_id |-> "email", mode |-> "send", risk_class |-> "send",
           approval_required |-> "true", evidence_required |-> TRUE,
           credential_boundary_id |-> "public"] },
      credential_boundaries |-> {"public"},
      approval_gates        |-> {[default_decision |-> "block",
                                  blocks_capabilities |-> {"email"}]},
      evidence_requirements |-> {[required |-> TRUE,
                                  applies_to_capability_ids |-> {"research", "email"}]},
      links_to_contract     |-> TRUE,
      requires_contract_id  |-> TRUE,
      nodes                 |-> {"intent"},
      edges                 |-> {<< "intent", "email" >>} ]

=============================================================================
