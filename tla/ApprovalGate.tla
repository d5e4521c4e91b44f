---------------------------- MODULE ApprovalGate ----------------------------
(***************************************************************************)
(* What the governed lifecycle promises its operator, with no tokens,      *)
(* nonces, clocks, receipts or ports: an agent's proposal has an effect    *)
(* only after it was tried out and then authorised by a human, at most     *)
(* once, and an abandoned proposal never has one any more.                 *)
(*                                                                         *)
(* Stages of the current proposal:                                         *)
(*   proposed    put forward              viewed   tried out, no way on    *)
(*   reviewable  tried out, human's turn  authorised, armed  on the way    *)
(*   sent        has had its effect       done, blocked      over          *)
(***************************************************************************)
EXTENDS Naturals, Sequences

CONSTANTS
    Proposals,   \* what can be proposed
    Reviewable,  \* proposals policy puts to a human
    Forbidden,   \* proposals policy blocks outright
    Nothing,     \* the proposal before the first one
    MaxRounds    \* bound: proposals made

VARIABLES
    round,     \* number of the current proposal
    proposal,  \* the current proposal
    stage,
    effects    \* what happened in the world, in order

gateVars == << round, proposal, stage, effects >>

GateInit ==
    /\ round = 0
    /\ proposal = Nothing
    /\ stage = "none"
    /\ effects = << >>

\* A new proposal replaces the current one, but not while its effect is under way.
Propose(p) ==
    /\ stage # "sent"
    /\ round < MaxRounds
    /\ round' = round + 1
    /\ proposal' = p
    /\ stage' = IF p \in Forbidden THEN "blocked" ELSE "proposed"
    /\ UNCHANGED effects

Move(from, to) ==
    /\ stage = from
    /\ stage' = to
    /\ UNCHANGED << round, proposal, effects >>

TryOut == Move("proposed", IF proposal \in Reviewable THEN "reviewable" ELSE "viewed")

Authorise == Move("reviewable", "authorised")

Arm == Move("authorised", "armed")

Effect ==
    /\ stage = "armed"
    /\ stage' = "sent"
    /\ effects' = Append(effects, [round |-> round, proposal |-> proposal])
    /\ UNCHANGED << round, proposal >>

Finish == Move("sent", "done")

Block == \E from \in {"proposed", "authorised", "armed", "sent"} : Move(from, "blocked")

GateNext ==
    \/ \E p \in Proposals : Propose(p)
    \/ TryOut \/ Authorise \/ Arm \/ Effect \/ Finish \/ Block

GateSpec == GateInit /\ [][GateNext]_gateVars

\* The promise the stages are for: every effect is of a proposal policy put to
\* a human, and no round has two.
EffectsAreAuthorised ==
    \A i, j \in 1..Len(effects) :
        /\ effects[i].proposal \in Reviewable
        /\ effects[i].round = effects[j].round => i = j

=============================================================================
