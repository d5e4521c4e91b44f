------------------------------- MODULE MCParts -------------------------------
(* The components that share no state with the agent, nor with each other,    *)
(* checked in one run: the policy engine, the approval tokens and nonce       *)
(* stores, the ledger with the explorer's page, and the contract validators.  *)
(* A behaviour is one of the first to the last of them, and the others rest.  *)
EXTENDS MCPolicyReview, MCApprovalDesk, MCExplorer, MCMissionContracts

VARIABLE part

vars == << part, reviewVars, deskVars, pageVars, contractVars >>

\* Where a component rests; the policy engine is asked about all plans and profiles.
Init ==
    /\ part \in {"policy", "desk", "explorer", "contracts"}
    /\ ReviewInit /\ DeskInit /\ PageInit /\ ContractInit
    /\ part # "policy" => plan.cluster = "devnet" /\ profile = DefaultPolicyProfile

Next ==
    \/ /\ part = "policy" /\ ReviewNext
       /\ UNCHANGED << part, deskVars, pageVars, contractVars >>
    \/ /\ part = "desk" /\ DeskNext
       /\ UNCHANGED << part, reviewVars, pageVars, contractVars >>
    \/ /\ part = "explorer" /\ PageNext
       /\ UNCHANGED << part, reviewVars, deskVars, contractVars >>
    \/ /\ part = "contracts" /\ ContractNext
       /\ UNCHANGED << part, reviewVars, deskVars, pageVars >>

Spec == Init /\ [][Next]_vars

=============================================================================
