------------------------------- MODULE Policy -------------------------------
(***************************************************************************)
(* The policy engine of policy.mjs: what evaluatePlan decides about a      *)
(* transaction plan under a policy profile.  A plan is a cluster and a     *)
(* sequence of instructions [kind, programId, lamports] (an absent         *)
(* lamports counts as 0); reasons are texts and are left out.              *)
(***************************************************************************)
EXTENDS Integers, Sequences

RiskOrder == <<"READ", "WRITE", "SIGN_AND_BROADCAST", "VALUE_MOVEMENT">>

RiskRank(class) == CHOOSE i \in 1..4 : RiskOrder[i] = class

\* Unknown kinds are value movement.
ClassifyInstruction(ix) ==
    IF ix.kind \in {"read", "get_account"} THEN "READ"
    ELSE IF ix.kind \in {"memo", "create_account", "initialize", "program_call"} THEN "WRITE"
    ELSE "VALUE_MOVEMENT"

InstructionsOf(plan) == {plan.instructions[i] : i \in 1..Len(plan.instructions)}

\* The highest class of the instructions, SIGN_AND_BROADCAST at least.
ClassifyTransaction(plan) ==
    LET classes == {"SIGN_AND_BROADCAST"}
                     \cup {ClassifyInstruction(ix) : ix \in InstructionsOf(plan)}
    IN  CHOOSE c \in classes : \A d \in classes : RiskRank(d) <= RiskRank(c)

TotalLamports(plan) ==
    LET total[n \in 0..Len(plan.instructions)] ==
            IF n = 0 THEN 0 ELSE total[n - 1] + plan.instructions[n].lamports
    IN  total[Len(plan.instructions)]

(***************************************************************************)
(* The guards, in the order evaluatePlan applies them.                     *)
(***************************************************************************)
MainnetDisabled(plan, profile) ==
    plan.cluster = "mainnet-beta" /\ ~profile.allowMainnet

\* Plausible defect: only a plan made of nothing but denied kinds is denied.
HasOnlyDeniedKinds(plan, profile) ==
    \A ix \in InstructionsOf(plan) : ix.kind \in profile.deniedInstructionKinds

HasDeniedKind(plan, profile) ==
    \E ix \in InstructionsOf(plan) : ix.kind \in profile.deniedInstructionKinds

\* An empty allowlist restricts nothing.
OffAllowlist(plan, profile) ==
    /\ profile.allowedPrograms # {}
    /\ \E ix \in InstructionsOf(plan) : ix.programId \notin profile.allowedPrograms

OverCap(plan, profile) == TotalLamports(plan) > profile.maxLamportsPerTransaction

\* Plausible defect: the cap is tested before the denied kinds, so that a plan
\* that fails both can be simulated.
EvaluateCapFirst(plan, profile) ==
    IF MainnetDisabled(plan, profile) THEN "deny"
    ELSE IF OverCap(plan, profile) THEN "simulate_only"
    ELSE IF HasDeniedKind(plan, profile) THEN "deny"
    ELSE IF OffAllowlist(plan, profile) THEN "simulate_only"
    ELSE IF ClassifyTransaction(plan) = "READ" THEN "allow"
    ELSE IF profile.requireApprovalForBroadcast THEN "needs_approval"
    ELSE "allow"

\* evaluatePlan(plan, profile).decision.  A plan for another cluster than the
\* profile's only adds a reason; it decides nothing.
EvaluatePlan(plan, profile) ==
    IF MainnetDisabled(plan, profile) THEN "deny"
    ELSE IF HasDeniedKind(plan, profile) THEN "deny"
    ELSE IF OffAllowlist(plan, profile) THEN "simulate_only"
    ELSE IF OverCap(plan, profile) THEN "simulate_only"
    ELSE IF ClassifyTransaction(plan) = "READ" THEN "allow"
    ELSE IF profile.requireApprovalForBroadcast THEN "needs_approval"
    ELSE "allow"

DefaultPolicyProfile ==
    [ cluster |-> "devnet",
      requireApprovalForBroadcast |-> TRUE,
      allowedPrograms |-> {},
      deniedInstructionKinds |-> {"set_authority", "close_account", "delegate",
                                  "approve_unlimited"},
      maxLamportsPerTransaction |-> 50000000,
      allowMainnet |-> FALSE ]

=============================================================================
