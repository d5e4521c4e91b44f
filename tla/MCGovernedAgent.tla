-------------------------- MODULE MCGovernedAgent --------------------------
(* Small instances of GovernedAgent for TLC.  The decisions are the policy   *)
(* engine's own, for real plans under the default profile.                   *)
EXTENDS GateRefinement, TLC

P == INSTANCE Policy

Ix(kind, lamports) == [kind |-> kind, programId |-> "system", lamports |-> lamports]

\* A marker memo, a transfer below the cap, one above it, a denied authority
\* change.
PlanOf ==
    [ launch        |-> << Ix("memo", 0) >>,
      transfer      |-> << Ix("memo", 0), Ix("transfer", 1000000) >>,
      overcap       |-> << Ix("transfer", 60000000) >>,
      set_authority |-> << Ix("set_authority", 0) >> ]

MCBodies == DOMAIN PlanOf
MCThreeBodies == {"launch", "transfer", "overcap"}
MCTwoBodies == {"launch", "overcap"}
MCTxs == {None, "transfer"}
MCHashPlan == [b \in Bodies |-> <<"sha256", b>>]
MCHashes == {<<"sha256", b>> : b \in Bodies}

MCDecide ==
    [b \in Bodies |->
        P!EvaluatePlan([cluster |-> "devnet", instructions |-> PlanOf[b]],
                       P!DefaultPolicyProfile)]

Symmetry == Permutations(Tasks)

\* Bound of the concurrent run: a host that meddles, or whose clock runs, stays
\* with its first plan; a well behaved one goes on to a second.
MeddlesOnlyAtFirst == state.run > 1 => now + edits + forces = 0

=============================================================================
