---------------------------- MODULE PolicyReview ----------------------------
(***************************************************************************)
(* A host composes a plan instruction by instruction and has it evaluated  *)
(* by the policy engine, as an agent that extends a plan before it calls   *)
(* plan() does.                                                            *)
(***************************************************************************)
EXTENDS Policy

CONSTANTS
    Clusters,          \* clusters a plan may name
    Instructions,      \* instructions a plan may hold
    Profiles,          \* policy profiles a host may inject
    MaxInstructions    \* bound: instructions in a plan

ASSUME LamportsAssumption ==
    /\ \A ix \in Instructions : ix.lamports \in Nat
    /\ \A f \in Profiles : f.maxLamportsPerTransaction \in Nat

VARIABLES
    plan,      \* the plan under construction
    profile,   \* the injected profile
    decision   \* the last decision, "none" before the first

reviewVars == << plan, profile, decision >>

ReviewInit ==
    /\ plan \in [cluster : Clusters, instructions : {<< >>}]
    /\ profile \in Profiles
    /\ decision = "none"

\* The host extends its plan (buildPlan then copies the list it is given).
AddInstruction(ix) ==
    /\ Len(plan.instructions) < MaxInstructions
    /\ plan' = [plan EXCEPT !.instructions = Append(@, ix)]
    /\ UNCHANGED << profile, decision >>

\* buildPlan refuses a plan without instructions.
Evaluate ==
    /\ plan.instructions # << >>
    /\ decision' = EvaluatePlan(plan, profile)
    /\ UNCHANGED << plan, profile >>

ReviewNext == (\E ix \in Instructions : AddInstruction(ix)) \/ Evaluate

ReviewSpec == ReviewInit /\ [][ReviewNext]_reviewVars

-----------------------------------------------------------------------------
Severity(d) == CASE d = "none"           -> 0
                 [] d = "allow"          -> 1
                 [] d = "needs_approval" -> 2
                 [] d = "simulate_only"  -> 3
                 [] d = "deny"           -> 4

\* What each rule of the policy demands on its own, whatever the others say.
Demands(p, f) ==
    {IF f.requireApprovalForBroadcast THEN "needs_approval" ELSE "allow"}
    \cup {"deny" : ix \in {i \in InstructionsOf(p) : i.kind \in f.deniedInstructionKinds}}
    \cup {"simulate_only" : ix \in {i \in InstructionsOf(p) :
                                      /\ f.allowedPrograms # {}
                                      /\ i.programId \notin f.allowedPrograms}}
    \cup (IF TotalLamports(p) > f.maxLamportsPerTransaction THEN {"simulate_only"} ELSE {})
    \cup (IF p.cluster = "mainnet-beta" /\ ~f.allowMainnet THEN {"deny"} ELSE {})

\* The guards are evaluated in an order and return early; the decision is still
\* the strictest one any rule demands ("fail-closed policy", README).
DecisionIsStrictest ==
    plan.instructions # << >> =>
        LET d == EvaluatePlan(plan, profile) IN
        /\ d \in Demands(plan, profile)
        /\ \A e \in Demands(plan, profile) : Severity(e) <= Severity(d)

\* A plan that grows is never judged more leniently than it was: nothing that is
\* added to a plan talks it out of a guard.
DecisionsOnlyTighten ==
    [][ Severity(decision') >= Severity(decision) ]_decision

=============================================================================
