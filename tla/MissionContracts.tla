-------------------------- MODULE MissionContracts --------------------------
(***************************************************************************)
(* Mission Contracts under revision.  Two programs judge a contract: the   *)
(* corpus validator (validate-examples.mjs), which stops at the first      *)
(* demand that fails, and validateMissionContract of the TypeScript        *)
(* package, which collects issues.  An author edits a draft field by       *)
(* field; a draft the corpus validator accepts becomes the published       *)
(* contract.                                                               *)
(*                                                                         *)
(* Titles, triggers, slugs and the other texts are left out.  "sound"      *)
(* holds the parts of a contract that are there and well formed; how they  *)
(* fail to be is not told apart.  Every gate and requirement has its list  *)
(* of capability ids.                                                      *)
(***************************************************************************)
EXTENDS Integers, FiniteSets

CONSTANTS
    CapabilityIds, BoundaryIds, NodeIds,
    InitialContract,   \* the contract the corpus holds at first
    MaxEdits           \* bound: edits in a behaviour

\* The modes and risk classes the JSON schema and the TypeScript types list.
SchemaModes == {"read", "draft", "write", "send"}
SchemaRiskClasses ==
    {"read", "draft", "write", "send", "spend", "deploy", "admin", "identity", "legal"}

\* What a contract file may hold there: neither program asks whether the value is a
\* listed one ("execute", "payment").
Modes == SchemaModes \cup {"unlisted"}
RiskClasses == SchemaRiskClasses \cup {"unlisted"}

\* approval_required as JSON has it: a truthy value need not be the Boolean.
Flags == {"false", "true", "truthy"}

\* The parts of a contract whose form is checked: version and example mark, the
\* top-level keys (those without further checks are one, "texts", with the keys of
\* the mission), and the eight keys of each capability.
Sections ==
    { "contract_version", "example", "texts", "capability_keys", "allowed_capabilities",
      "credential_boundaries", "approval_gates", "evidence_requirements",
      "receipt_schema", "operational_graph" }

Capabilities ==
    [ capability_id : CapabilityIds, mode : Modes, risk_class : RiskClasses,
      approval_required : Flags, evidence_required : BOOLEAN,
      credential_boundary_id : BoundaryIds ]

Gates == [ default_decision : {"block", "allow"}, blocks_capabilities : SUBSET CapabilityIds ]

Requirements == [ required : BOOLEAN, applies_to_capability_ids : SUBSET CapabilityIds ]

Contracts ==
    [ sound                 : SUBSET Sections,
      allowed_capabilities  : SUBSET Capabilities,
      credential_boundaries : SUBSET BoundaryIds,
      approval_gates        : SUBSET Gates,
      evidence_requirements : SUBSET Requirements,
      links_to_contract     : BOOLEAN,
      requires_contract_id  : BOOLEAN,   \* required_fields includes contract_id
      nodes                 : SUBSET NodeIds,
      edges                 : SUBSET (NodeIds \X (NodeIds \cup CapabilityIds)) ]

-----------------------------------------------------------------------------
DeclaredIds(c)  == {cap.capability_id : cap \in c.allowed_capabilities}
GatedIds(c)     == UNION {g.blocks_capabilities : g \in c.approval_gates}
EvidencedIds(c) == UNION {r.applies_to_capability_ids : r \in c.evidence_requirements}

SideEffecting(cap) ==
    \/ cap.approval_required # "false"
    \/ cap.mode \in {"write", "send"}
    \/ cap.risk_class \in {"write", "send", "spend", "deploy", "admin", "identity", "legal"}

(***************************************************************************)
(* assertMissionContractShape of the corpus validator                      *)
(***************************************************************************)
CapabilityHolds(c, cap) ==
    /\ cap.credential_boundary_id \in c.credential_boundaries
    /\ SideEffecting(cap) => /\ cap.approval_required = "true"
                             /\ cap.capability_id \in GatedIds(c)
    /\ cap.evidence_required => cap.capability_id \in EvidencedIds(c)

GatesHold(c) ==
    \A g \in c.approval_gates :
        g.default_decision = "block" /\ g.blocks_capabilities \subseteq DeclaredIds(c)

RequirementsHold(c) ==
    \A r \in c.evidence_requirements :
        r.required /\ r.applies_to_capability_ids \subseteq DeclaredIds(c)

ReceiptSchemaHolds(c) == c.links_to_contract /\ c.requires_contract_id

GraphHolds(c) ==
    /\ c.nodes # {}
    /\ \A e \in c.edges : e[1] \in c.nodes /\ e[2] \in c.nodes \cup DeclaredIds(c)

CorpusAccepts(c) ==
    /\ c.sound = Sections
    /\ {} \notin {c.allowed_capabilities, c.credential_boundaries,
                  c.approval_gates, c.evidence_requirements}
    /\ \A cap \in c.allowed_capabilities : CapabilityHolds(c, cap)
    /\ GatesHold(c)
    /\ RequirementsHold(c)
    /\ ReceiptSchemaHolds(c)
    /\ GraphHolds(c)

ASSUME MaxEditsAssumption == MaxEdits \in Nat

ASSUME ContractAssumption ==
    InitialContract \in Contracts /\ CorpusAccepts(InitialContract)

(***************************************************************************)
(* validateMissionContract of the TypeScript package.  It reads five       *)
(* sections without asking whether they are there; a contract without them *)
(* makes it throw.                                                         *)
(***************************************************************************)
TypeScriptReads ==
    { "receipt_schema", "credential_boundaries", "approval_gates",
      "evidence_requirements", "allowed_capabilities" }

\* Plausible defect: drafts are put behind a gate in one of the two programs only.
NeedsGateAlsoDrafts(cap) ==
    cap.approval_required # "false" \/ cap.mode # "read" \/ cap.risk_class # "read"

\* Plausible defect: only the mode counts, the risk class is forgotten.
NeedsGateByMode(cap) ==
    cap.approval_required # "false" \/ cap.mode \in {"write", "send"}

NeedsGate(cap) ==
    \/ cap.approval_required # "false"
    \/ cap.mode \in {"write", "send"}
    \/ cap.risk_class \in {"write", "send", "spend", "deploy", "admin", "identity", "legal"}

CapabilityIssues(c, cap) ==
    (IF cap.credential_boundary_id \notin c.credential_boundaries
     THEN {"unknown_boundary"} ELSE {})
    \cup (IF NeedsGate(cap) /\ cap.approval_required = "false"
          THEN {"approval_not_required"} ELSE {})
    \cup (IF NeedsGate(cap) /\ cap.capability_id \notin GatedIds(c)
          THEN {"not_gated"} ELSE {})
    \cup (IF cap.evidence_required /\ cap.capability_id \notin EvidencedIds(c)
          THEN {"not_evidenced"} ELSE {})

Issues(c) ==
    {s \in {"contract_version", "example"} : s \notin c.sound}
    \cup (IF c.links_to_contract THEN {} ELSE {"links_to_contract"})
    \cup (IF c.requires_contract_id THEN {} ELSE {"contract_id"})
    \cup {"gate_does_not_block" : g \in {h \in c.approval_gates : h.default_decision # "block"}}
    \cup UNION {CapabilityIssues(c, cap) : cap \in c.allowed_capabilities}

TypeScriptAccepts(c) == TypeScriptReads \subseteq c.sound /\ Issues(c) = {}

-----------------------------------------------------------------------------
VARIABLES
    draft,       \* the contract file as the author has it
    published,   \* the last draft the corpus validator passed
    edits        \* edits so far

contractVars == << draft, published, edits >>

ContractInit ==
    /\ draft = InitialContract
    /\ published = InitialContract
    /\ edits = 0

Revise(c) ==
    /\ edits < MaxEdits
    /\ c # draft
    /\ draft' = c
    /\ edits' = edits + 1
    /\ UNCHANGED published

\* S with x replaced by y.
Replace(S, x, y) == (S \ {x}) \cup {y}

\* x in or out of S.
Toggle(S, x) == IF x \in S THEN S \ {x} ELSE S \cup {x}

\* A new entry is the harmless one; its fields are edited afterwards.  An id may be
\* listed twice.
AddCapability ==
    \E id \in CapabilityIds, b \in BoundaryIds :
        Revise([draft EXCEPT !.allowed_capabilities = @ \cup
                  {[capability_id |-> id, mode |-> "read", risk_class |-> "read",
                    approval_required |-> "false", evidence_required |-> FALSE,
                    credential_boundary_id |-> b]}])

ReviseCapability ==
    \E cap \in draft.allowed_capabilities :
    \E new \in {[cap EXCEPT !.mode = v] : v \in Modes}
           \cup {[cap EXCEPT !.risk_class = v] : v \in RiskClasses}
           \cup {[cap EXCEPT !.approval_required = v] : v \in Flags}
           \cup {[cap EXCEPT !.evidence_required = ~@]}
           \cup {[cap EXCEPT !.credential_boundary_id = v] : v \in BoundaryIds} :
        Revise([draft EXCEPT !.allowed_capabilities = Replace(@, cap, new)])

DropCapability ==
    \E cap \in draft.allowed_capabilities :
        Revise([draft EXCEPT !.allowed_capabilities = @ \ {cap}])

AddGate ==
    \E id \in CapabilityIds :
        Revise([draft EXCEPT !.approval_gates = @ \cup
                  {[default_decision |-> "block", blocks_capabilities |-> {id}]}])

ReviseGate ==
    \E g \in draft.approval_gates :
    \E new \in {[g EXCEPT !.default_decision = v] : v \in {"block", "allow"}}
           \cup {[g EXCEPT !.blocks_capabilities = Toggle(@, id)] : id \in CapabilityIds} :
        Revise([draft EXCEPT !.approval_gates = Replace(@, g, new)])

DropGate ==
    \E g \in draft.approval_gates : Revise([draft EXCEPT !.approval_gates = @ \ {g}])

ReviseRequirement ==
    \E r \in draft.evidence_requirements :
    \E new \in {[r EXCEPT !.required = ~@]}
           \cup {[r EXCEPT !.applies_to_capability_ids = Toggle(@, id)] : id \in CapabilityIds} :
        Revise([draft EXCEPT !.evidence_requirements = Replace(@, r, new)])

DropRequirement ==
    \E r \in draft.evidence_requirements :
        Revise([draft EXCEPT !.evidence_requirements = @ \ {r}])

ReviseBoundaries ==
    \E b \in BoundaryIds : Revise([draft EXCEPT !.credential_boundaries = Toggle(@, b)])

ReviseReceiptSchema ==
    \/ Revise([draft EXCEPT !.links_to_contract = ~@])
    \/ Revise([draft EXCEPT !.requires_contract_id = ~@])

ReviseGraph ==
    \/ \E n \in NodeIds : Revise([draft EXCEPT !.nodes = Toggle(@, n)])
    \/ \E from \in NodeIds, to \in NodeIds \cup CapabilityIds :
          Revise([draft EXCEPT !.edges = Toggle(@, << from, to >>)])

ReviseForm ==
    \E s \in Sections : Revise([draft EXCEPT !.sound = Toggle(@, s)])

\* "node validate-examples.mjs" passes the file.
Publish ==
    /\ CorpusAccepts(draft)
    /\ published' = draft
    /\ UNCHANGED << draft, edits >>

ContractNext ==
    \/ AddCapability \/ ReviseCapability \/ DropCapability
    \/ AddGate \/ ReviseGate \/ DropGate
    \/ ReviseRequirement \/ DropRequirement
    \/ ReviseBoundaries \/ ReviseReceiptSchema \/ ReviseGraph \/ ReviseForm
    \/ Publish

ContractSpec == ContractInit /\ [][ContractNext]_contractVars

-----------------------------------------------------------------------------
\* What changes something outside the mission, or may: all but reading and drafting.
ReachesOut(cap) == cap.mode \notin {"read", "draft"} \/ cap.risk_class \notin {"read", "draft"}

Blocked(c, id) ==
    \E g \in c.approval_gates : g.default_decision = "block" /\ id \in g.blocks_capabilities

NothingUngated(c) ==
    \A cap \in c.allowed_capabilities :
        ReachesOut(cap) => cap.approval_required # "false" /\ Blocked(c, cap.capability_id)

\* The capabilities keep to the enumerations of the schema (which no program of the
\* repository checks a contract against).
KeepsToSchema(c) ==
    \A cap \in c.allowed_capabilities :
        cap.mode \in SchemaModes /\ cap.risk_class \in SchemaRiskClasses

TypeOK ==
    /\ draft \in Contracts
    /\ published \in Contracts /\ CorpusAccepts(published)
    /\ edits \in 0..MaxEdits

\* The two programs agree in one direction: a contract the corpus validator passes
\* raises no issue in the TypeScript package, so what is published here is never
\* refused by an integration.
CorpusIsStricter == CorpusAccepts(draft) => TypeScriptAccepts(draft)

\* The lists of side effects in the two programs are complete for the schema's modes
\* and classes: of a contract that keeps to those, whatever else the author wrote (one
\* id listed twice, gates that overlap or name nothing), either program's acceptance
\* means that a capability that reaches out of the mission is behind a gate that blocks.
AcceptedIsGated ==
    KeepsToSchema(draft) /\ (CorpusAccepts(draft) \/ TypeScriptAccepts(draft))
        => NothingUngated(draft)

\* docs/security-model.md, Default-Deny Rule: "default to denied side effects unless a
\* human approval token or explicit review state is represented", for any contract
\* either program accepts.  Not so: a mode or class outside the lists counts as harmless.
SideEffectsDefaultToDenied ==
    CorpusAccepts(draft) \/ TypeScriptAccepts(draft) => NothingUngated(draft)

=============================================================================
