--------------------------- MODULE MCPolicyReview ---------------------------
(* Small instances of PolicyReview for TLC: one instruction per risk class    *)
(* and denied kind, on a listed and on an unlisted program, with amounts at   *)
(* and around the cap.                                                        *)
EXTENDS PolicyReview

MCInstructions ==
    { [kind |-> "read",          programId |-> "memo",   lamports |-> 0],
      [kind |-> "memo",          programId |-> "memo",   lamports |-> 0],
      [kind |-> "memo",          programId |-> "other",  lamports |-> 0],
      [kind |-> "transfer",      programId |-> "system", lamports |-> 1],
      [kind |-> "transfer",      programId |-> "system", lamports |-> 25000000],
      [kind |-> "swap",          programId |-> "other",  lamports |-> 50000000],
      [kind |-> "set_authority", programId |-> "system", lamports |-> 0] }

\* The default profile and the overrides a host makes of it.
MCProfiles ==
    { [DefaultPolicyProfile EXCEPT !.cluster = c, !.requireApprovalForBroadcast = r,
                                   !.allowedPrograms = a, !.allowMainnet = m] :
        c \in {"devnet", "testnet"}, r \in BOOLEAN, a \in {{}, {"memo", "system"}},
        m \in BOOLEAN }

=============================================================================
