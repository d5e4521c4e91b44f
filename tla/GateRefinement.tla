--------------------------- MODULE GateRefinement ---------------------------
(***************************************************************************)
(* The agent, driven by a host that awaits each call, implements           *)
(* ApprovalGate.                                                           *)
(***************************************************************************)
EXTENDS GovernedAgent

\* A transaction of the current run is on the cluster, unconfirmed.
UnderWay == \E t \in Tasks : call[t].op = "confirm"

Stage ==
    CASE state.lifecycle = "none"              -> "none"
      [] state.lifecycle = "PLANNED"           -> "proposed"
      [] state.lifecycle = "SIMULATED"         -> "viewed"
      [] state.lifecycle = "AWAITING_APPROVAL" -> "reviewable"
      [] state.lifecycle = "APPROVED"          -> "authorised"
      [] state.lifecycle = "SIGNED"            -> IF UnderWay THEN "sent" ELSE "armed"
      [] state.lifecycle = "CONFIRMED"         -> "done"
      [] state.lifecycle \in {"REJECTED", "FAILED"} -> "blocked"

\* An effect is a submission: the hash of the plan it was made for, in the run whose
\* grant it was made under.
Effects ==
    [i \in 1..Len(submitted) |->
        [round |-> submitted[i].run, proposal |-> HashPlan[submitted[i].plan]]]

HashesDecided(d) == {HashPlan[b] : b \in {c \in Bodies : Decide[c] = d}}

\* A proposal is the plan's hash at plan().
Gate == INSTANCE ApprovalGate WITH
    Proposals  <- Hashes,
    Reviewable <- HashesDecided("needs_approval"),
    Forbidden  <- HashesDecided("deny"),
    Nothing    <- None,
    MaxRounds  <- MaxPlans,
    round      <- state.run,
    proposal   <- state.planHash,
    stage      <- Stage,
    effects    <- Effects

\* Every behaviour of the agent is one the gate allows.
ImplementsGate == Gate!GateSpec

=============================================================================
