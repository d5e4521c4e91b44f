--------------------------- MODULE MCHostScripts ---------------------------
(* Instance of HostScripts for TLC: the demo's plan, and one plan for each   *)
(* way the policy engine or the mock can end a script early.                 *)
EXTENDS HostScripts

P == INSTANCE Policy

Ix(kind, lamports) == [kind |-> kind, programId |-> "system", lamports |-> lamports]

PlanOf ==
    [ launch        |-> << Ix("memo", 0), Ix("transfer", 1000000) >>,
      malformed     |-> << Ix("__force_sim_fail__", 0) >>,
      overcap       |-> << Ix("transfer", 60000000) >>,
      set_authority |-> << Ix("set_authority", 0) >>,
      mainnet       |-> << Ix("memo", 0) >> ]

MCBodies == DOMAIN PlanOf
MCTxs == MCBodies \cup {None}
MCClusterOf == [b \in Bodies |-> IF b = "mainnet" THEN "mainnet-beta" ELSE "devnet"]
MCMalformed == {"malformed"}
MCHashPlan == [b \in Bodies |-> <<"sha256", b>>]
MCHashes == {<<"sha256", b>> : b \in Bodies}

MCDecide ==
    [b \in Bodies |-> P!EvaluatePlan([cluster |-> ClusterOf[b], instructions |-> PlanOf[b]],
                                     P!DefaultPolicyProfile)]

=============================================================================
