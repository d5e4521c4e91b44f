----------------------- MODULE MissionContractProofs -----------------------
(***************************************************************************)
(* What both validators promise, for contracts of any size and after any   *)
(* number of revisions.                                                    *)
(***************************************************************************)
EXTENDS MissionContracts, TLAPS

\* A mode and a class of the schema either read or draft or count as side effects: the
\* lists of the two programs are the complement of the harmless ones.
LEMMA SideEffectsAreAllListed ==
    ASSUME NEW cap, cap.mode \in SchemaModes, cap.risk_class \in SchemaRiskClasses,
           ReachesOut(cap)
    PROVE  SideEffecting(cap) /\ NeedsGate(cap)
  BY DEF ReachesOut, SideEffecting, NeedsGate, SchemaModes, SchemaRiskClasses

\* A gate counts for a capability in both programs when any gate lists it; since no
\* gate of an accepted contract has another default, one that blocks does.
LEMMA GatedIsBlocked ==
    ASSUME NEW c \in Contracts, NEW id \in GatedIds(c),
           \A g \in c.approval_gates : g.default_decision = "block"
    PROVE  Blocked(c, id)
  BY DEF GatedIds, Blocked

LEMMA CorpusGates ==
    ASSUME NEW c \in Contracts, CorpusAccepts(c), KeepsToSchema(c)
    PROVE  NothingUngated(c)
<1> SUFFICES ASSUME NEW cap \in c.allowed_capabilities, ReachesOut(cap)
             PROVE  cap.approval_required # "false" /\ Blocked(c, cap.capability_id)
  BY DEF NothingUngated
<1>1. cap.mode \in SchemaModes /\ cap.risk_class \in SchemaRiskClasses
  BY DEF KeepsToSchema
<1>2. SideEffecting(cap)
  BY <1>1, SideEffectsAreAllListed
<1>3. cap.approval_required = "true" /\ cap.capability_id \in GatedIds(c)
  BY <1>2 DEF CorpusAccepts, CapabilityHolds
<1>4. \A g \in c.approval_gates : g.default_decision = "block"
  BY DEF CorpusAccepts, GatesHold
<1> QED
  BY <1>3, <1>4, GatedIsBlocked

LEMMA TypeScriptGates ==
    ASSUME NEW c \in Contracts, TypeScriptAccepts(c), KeepsToSchema(c)
    PROVE  NothingUngated(c)
<1> SUFFICES ASSUME NEW cap \in c.allowed_capabilities, ReachesOut(cap)
             PROVE  cap.approval_required # "false" /\ Blocked(c, cap.capability_id)
  BY DEF NothingUngated
<1>1. cap.mode \in SchemaModes /\ cap.risk_class \in SchemaRiskClasses
  BY DEF KeepsToSchema
<1>2. NeedsGate(cap)
  BY <1>1, SideEffectsAreAllListed
<1>3. CapabilityIssues(c, cap) = {}
  BY DEF TypeScriptAccepts, Issues
<1>4. cap.approval_required # "false" /\ cap.capability_id \in GatedIds(c)
  BY <1>2, <1>3 DEF CapabilityIssues
<1>5. \A g \in c.approval_gates : g.default_decision = "block"
  BY DEF TypeScriptAccepts, Issues
<1> QED
  BY <1>4, <1>5, GatedIsBlocked

LEMMA CorpusImpliesTypeScript ==
    ASSUME NEW c \in Contracts, CorpusAccepts(c)
    PROVE  TypeScriptAccepts(c)
<1>1. TypeScriptReads \subseteq c.sound /\ {"contract_version", "example"} \subseteq c.sound
  BY DEF CorpusAccepts, Sections, TypeScriptReads
<1>2. c.links_to_contract /\ c.requires_contract_id
  BY DEF CorpusAccepts, ReceiptSchemaHolds
<1>3. \A g \in c.approval_gates : g.default_decision = "block"
  BY DEF CorpusAccepts, GatesHold
<1>4. ASSUME NEW cap \in c.allowed_capabilities
      PROVE  CapabilityIssues(c, cap) = {}
  <2>1. CapabilityHolds(c, cap)
    BY DEF CorpusAccepts
  <2>2. NeedsGate(cap) => cap.approval_required = "true" /\ cap.capability_id \in GatedIds(c)
    BY <2>1 DEF CapabilityHolds, NeedsGate, SideEffecting
  <2> QED
    BY <2>1, <2>2 DEF CapabilityHolds, CapabilityIssues
<1> QED
  BY <1>1, <1>2, <1>3, <1>4 DEF TypeScriptAccepts, Issues

-----------------------------------------------------------------------------
\* Every edit leaves a contract, and what is published was accepted.  Init holds it by
\* the assumption on the corpus, Publish by the validator's verdict.
THEOREM ContractTypeCorrect == ContractSpec => []TypeOK
<1>1. ContractInit => TypeOK
  BY ContractAssumption, MaxEditsAssumption DEF ContractInit, TypeOK
<1>2. TypeOK /\ [ContractNext]_contractVars => TypeOK'
  <2> SUFFICES ASSUME TypeOK, [ContractNext]_contractVars
               PROVE  TypeOK'
    OBVIOUS
  <2> USE DEF TypeOK
  <2>0. ASSUME NEW c \in Contracts, Revise(c)
        PROVE  TypeOK'
    BY <2>0, MaxEditsAssumption DEF Revise
  <2>1. CASE AddCapability
    <3>1. PICK id \in CapabilityIds, b \in BoundaryIds :
             Revise([draft EXCEPT !.allowed_capabilities = @ \cup
                  {[capability_id |-> id, mode |-> "read", risk_class |-> "read",
                    approval_required |-> "false", evidence_required |-> FALSE,
                    credential_boundary_id |-> b]}])
      BY <2>1 DEF AddCapability
    <3>2. [capability_id |-> id, mode |-> "read", risk_class |-> "read",
           approval_required |-> "false", evidence_required |-> FALSE,
           credential_boundary_id |-> b] \in Capabilities
      BY DEF Capabilities, Modes, RiskClasses, SchemaModes, SchemaRiskClasses, Flags
    <3> QED
      BY <2>0, <3>1, <3>2 DEF Contracts
  <2>2. CASE ReviseCapability
    <3>1. PICK cap \in draft.allowed_capabilities :
             \E new \in {[cap EXCEPT !.mode = v] : v \in Modes}
                    \cup {[cap EXCEPT !.risk_class = v] : v \in RiskClasses}
                    \cup {[cap EXCEPT !.approval_required = v] : v \in Flags}
                    \cup {[cap EXCEPT !.evidence_required = ~@]}
                    \cup {[cap EXCEPT !.credential_boundary_id = v] : v \in BoundaryIds} :
                Revise([draft EXCEPT !.allowed_capabilities = Replace(@, cap, new)])
      BY <2>2 DEF ReviseCapability
    <3>2. cap \in Capabilities
      BY DEF Contracts
    <3>3. PICK new \in Capabilities :
             Revise([draft EXCEPT !.allowed_capabilities = Replace(@, cap, new)])
      BY <3>1, <3>2 DEF Capabilities
    <3> QED
      BY <2>0, <3>3 DEF Contracts, Replace
  <2>3. CASE DropCapability
    BY <2>0, <2>3 DEF DropCapability, Contracts
  <2>4. CASE AddGate
    <3>1. PICK id \in CapabilityIds :
             Revise([draft EXCEPT !.approval_gates = @ \cup
                  {[default_decision |-> "block", blocks_capabilities |-> {id}]}])
      BY <2>4 DEF AddGate
    <3>2. [default_decision |-> "block", blocks_capabilities |-> {id}] \in Gates
      BY DEF Gates
    <3> QED
      BY <2>0, <3>1, <3>2 DEF Contracts
  <2>5. CASE ReviseGate
    <3>1. PICK g \in draft.approval_gates :
             \E new \in {[g EXCEPT !.default_decision = v] : v \in {"block", "allow"}}
                    \cup {[g EXCEPT !.blocks_capabilities = Toggle(@, id)] : id \in CapabilityIds} :
                Revise([draft EXCEPT !.approval_gates = Replace(@, g, new)])
      BY <2>5 DEF ReviseGate
    <3>2. g \in Gates
      BY DEF Contracts
    <3>3. PICK new \in Gates : Revise([draft EXCEPT !.approval_gates = Replace(@, g, new)])
      BY <3>1, <3>2 DEF Gates, Toggle
    <3> QED
      BY <2>0, <3>3 DEF Contracts, Replace
  <2>6. CASE DropGate
    BY <2>0, <2>6 DEF DropGate, Contracts
  <2>7. CASE ReviseRequirement
    <3>1. PICK r \in draft.evidence_requirements :
             \E new \in {[r EXCEPT !.required = ~@]}
                    \cup {[r EXCEPT !.applies_to_capability_ids = Toggle(@, id)] : id \in CapabilityIds} :
                Revise([draft EXCEPT !.evidence_requirements = Replace(@, r, new)])
      BY <2>7 DEF ReviseRequirement
    <3>2. r \in Requirements
      BY DEF Contracts
    <3>3. [r EXCEPT !.required = ~@] \in Requirements
      BY <3>2 DEF Requirements
    <3>4. \A id \in CapabilityIds :
             [r EXCEPT !.applies_to_capability_ids = Toggle(@, id)] \in Requirements
      BY <3>2 DEF Requirements, Toggle
    <3>5. PICK new \in Requirements :
             Revise([draft EXCEPT !.evidence_requirements = Replace(@, r, new)])
      BY <3>1, <3>3, <3>4
    <3> QED
      BY <2>0, <3>5 DEF Contracts, Replace
  <2>8. CASE DropRequirement
    BY <2>0, <2>8 DEF DropRequirement, Contracts
  <2>9. CASE ReviseBoundaries
    BY <2>0, <2>9 DEF ReviseBoundaries, Contracts, Toggle
  <2>10. CASE ReviseReceiptSchema
    <3>1. [draft EXCEPT !.links_to_contract = ~@] \in Contracts
      BY DEF Contracts
    <3>2. [draft EXCEPT !.requires_contract_id = ~@] \in Contracts
      BY DEF Contracts
    <3>3. Revise([draft EXCEPT !.links_to_contract = ~@]) => TypeOK'
      BY <2>0, <3>1, Zenon
    <3>4. Revise([draft EXCEPT !.requires_contract_id = ~@]) => TypeOK'
      BY <2>0, <3>2, Zenon
    <3> HIDE DEF TypeOK
    <3> QED
      BY <2>10, <3>3, <3>4, Zenon DEF ReviseReceiptSchema
  <2>11. CASE ReviseGraph
    <3>1. \A n \in NodeIds : [draft EXCEPT !.nodes = Toggle(@, n)] \in Contracts
      BY DEF Contracts, Toggle
    <3>2. \A from \in NodeIds, to \in NodeIds \cup CapabilityIds :
             [draft EXCEPT !.edges = Toggle(@, << from, to >>)] \in Contracts
      BY DEF Contracts, Toggle
    <3> HIDE DEF TypeOK
    <3> QED
      BY <2>0, <2>11, <3>1, <3>2 DEF ReviseGraph
  <2>12. CASE ReviseForm
    BY <2>0, <2>12 DEF ReviseForm, Contracts, Toggle
  <2>13. CASE Publish
    BY <2>13 DEF Publish
  <2>14. CASE UNCHANGED contractVars
    BY <2>14 DEF contractVars
  <2> QED
    BY <2>1, <2>2, <2>3, <2>4, <2>5, <2>6, <2>7, <2>8, <2>9, <2>10, <2>11, <2>12,
       <2>13, <2>14 DEF ContractNext
<1> QED
  BY <1>1, <1>2, PTL DEF ContractSpec

\* Neither program accepts a contract that keeps to the schema's modes and classes and in
\* which something that reaches out is ungated.
THEOREM AcceptedContractsAreGated == ContractSpec => []AcceptedIsGated
<1>1. TypeOK => AcceptedIsGated
  BY CorpusGates, TypeScriptGates DEF TypeOK, AcceptedIsGated
<1> QED
  BY <1>1, ContractTypeCorrect, PTL

\* The TypeScript package accepts all that the corpus validator accepts.
THEOREM CorpusValidatorIsStricter == ContractSpec => []CorpusIsStricter
<1>1. TypeOK => CorpusIsStricter
  BY CorpusImpliesTypeScript DEF TypeOK, CorpusIsStricter
<1> QED
  BY <1>1, ContractTypeCorrect, PTL

=============================================================================
