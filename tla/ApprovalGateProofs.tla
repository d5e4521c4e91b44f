------------------------- MODULE ApprovalGateProofs -------------------------
(***************************************************************************)
(* The gate keeps its promise, for any proposals and any number of rounds. *)
(***************************************************************************)
EXTENDS ApprovalGate, TLAPS

\* Past the human only what policy put to the human; the effects so far were of
\* such proposals, in earlier rounds or in this one after its effect.
GateInv ==
    /\ round \in Nat
    /\ effects \in Seq([round : Nat, proposal : Reviewable])
    /\ stage \in {"reviewable", "authorised", "armed", "sent"} => proposal \in Reviewable
    /\ \A i \in 1..Len(effects) :
          /\ effects[i].round <= round
          /\ stage \in {"none", "proposed", "reviewable", "authorised", "armed"}
                => effects[i].round < round
    /\ EffectsAreAuthorised

\* A step that changes nothing but the stage.
LEMMA StageMoved ==
    ASSUME GateInv, UNCHANGED << round, proposal, effects >>,
           stage' \in {"reviewable", "authorised", "armed", "sent"} => proposal \in Reviewable,
           stage' \in {"none", "proposed", "reviewable", "authorised", "armed"}
               => stage \in {"none", "proposed", "reviewable", "authorised", "armed"}
    PROVE  GateInv'
BY DEF GateInv, EffectsAreAuthorised

\* The fields of a typed effect.
LEMMA EffectTyped ==
    ASSUME NEW S, NEW es \in Seq([round : Nat, proposal : S])
    PROVE  \A i \in 1..Len(es) : es[i].round \in Nat /\ es[i].proposal \in S
<1> SUFFICES ASSUME NEW i \in 1..Len(es)
             PROVE  es[i].round \in Nat /\ es[i].proposal \in S
  OBVIOUS
<1> DEFINE R == [round : Nat, proposal : S]
<1>1. es[i] \in R
  <2>1. es \in Seq(R)
    OBVIOUS
  <2> HIDE DEF R
  <2> QED
    BY <2>1
<1> QED
  BY <1>1

\* Only Effect adds to the effects, from a stage past the human, once per round.
LEMMA GateStep ==
    ASSUME GateInv, [GateNext]_gateVars
    PROVE  GateInv'
<1>1. ASSUME NEW p \in Proposals, Propose(p) PROVE GateInv'
  <2>1. round' = round + 1 /\ effects' = effects /\ stage' \in {"blocked", "proposed"}
    BY <1>1 DEF Propose
  <2>2. \A i \in 1..Len(effects) : effects[i].round \in Nat
    BY EffectTyped DEF GateInv
  <2> QED
    BY <2>1, <2>2 DEF GateInv, EffectsAreAuthorised
<1>2. CASE TryOut
  BY <1>2, StageMoved DEF TryOut, Move
<1>3. CASE Authorise
  BY <1>3, StageMoved DEF Authorise, Move, GateInv
<1>4. CASE Arm
  BY <1>4, StageMoved DEF Arm, Move, GateInv
<1>5. CASE Effect
  <2> DEFINE e == [round |-> round, proposal |-> proposal]
  <2>1. /\ stage = "armed" /\ stage' = "sent" /\ effects' = Append(effects, e)
        /\ round' = round /\ proposal' = proposal
    BY <1>5 DEF Effect
  <2>2. proposal \in Reviewable /\ e \in [round : Nat, proposal : Reviewable]
    BY <2>1 DEF GateInv
  <2>3. e.round = round /\ e.proposal = proposal
    OBVIOUS
  <2> HIDE DEF e
  <2>4. /\ effects' \in Seq([round : Nat, proposal : Reviewable])
        /\ Len(effects') = Len(effects) + 1 /\ effects'[Len(effects) + 1] = e
        /\ \A i \in 1..Len(effects) : effects'[i] = effects[i]
        /\ \A i \in 1..Len(effects') : i \in 1..Len(effects) \/ i = Len(effects) + 1
    BY <2>1, <2>2 DEF GateInv
  <2>5. \A i \in 1..Len(effects) : effects'[i].round \in Nat /\ effects'[i].round < round
    <3>1. \A i \in 1..Len(effects) : effects[i].round \in Nat
      BY EffectTyped DEF GateInv
    <3> QED
      BY <2>1, <2>4, <3>1 DEF GateInv
  <2>6. \A i \in 1..Len(effects') : effects'[i].round <= round'
    BY <2>1, <2>3, <2>4, <2>5 DEF GateInv
  <2>7. EffectsAreAuthorised'
    <3> SUFFICES ASSUME NEW i \in 1..Len(effects'), NEW j \in 1..Len(effects')
                 PROVE  /\ effects'[i].proposal \in Reviewable
                        /\ effects'[i].round = effects'[j].round => i = j
      BY DEF EffectsAreAuthorised
    <3>1. effects'[i].proposal \in Reviewable
      BY <2>4, EffectTyped
    <3>2. CASE i \in 1..Len(effects) /\ j \in 1..Len(effects)
      BY <2>4, <3>1, <3>2 DEF GateInv, EffectsAreAuthorised
    <3>3. CASE i = Len(effects) + 1 \/ j = Len(effects) + 1
      BY <2>3, <2>4, <2>5, <3>1, <3>3 DEF GateInv
    <3> QED
      BY <2>4, <3>2, <3>3
  <2> QED
    BY <2>1, <2>2, <2>4, <2>6, <2>7 DEF GateInv
<1>6. CASE Finish
  BY <1>6, StageMoved DEF Finish, Move
<1>7. CASE Block
  BY <1>7, StageMoved DEF Block, Move
<1>8. CASE UNCHANGED gateVars
  BY <1>8, StageMoved DEF gateVars, GateInv
<1> QED
  BY <1>1, <1>2, <1>3, <1>4, <1>5, <1>6, <1>7, <1>8 DEF GateNext

\* Whatever implements the gate has an effect only on what policy put to a human,
\* and at most one per proposal.
THEOREM GateIsSafe == GateSpec => []EffectsAreAuthorised
<1>1. GateInit => GateInv
  BY DEF GateInit, GateInv, EffectsAreAuthorised
<1>2. GateInv /\ [GateNext]_gateVars => GateInv'
  BY GateStep
<1>3. GateInv => EffectsAreAuthorised
  BY DEF GateInv
<1> QED
  BY <1>1, <1>2, <1>3, PTL DEF GateSpec

=============================================================================
