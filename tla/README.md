# Verification of the governed agent kit

TLA+ specifications of the parts of this repository that decide, sign, submit, record
and show: the policy engine, the approval gate and its tokens, the governed agent over
its ports, the receipt ledger and its explorer, the scripts that drive the agent, the
live devnet runner, and the validators. They are written from the source;
`PROJECT.json` gives for every definition the lines it stands for.

## The system

| Part | State it keeps | Operations | Talks to |
|---|---|---|---|
| `GovernedSolanaAgent` (`kit.mjs`) | `state` (lifecycle, plan, hash, decision, simulation, approval, signature, broadcast), `ledger`, `nonceStore`, receipt counter | `plan`, `simulate`, `grantApproval`, `sign`, `broadcast`, `verifyReceipts` | calls policy and receipts synchronously, awaits connection and signer ports; the host calls it and holds references into its state |
| Policy engine (`policy.mjs`) | none | `classifyTransaction`, `totalLamports`, `evaluatePlan` | called by `plan` |
| Approval tokens, `NonceStore` (`policy.mjs`) | set of used nonces, in memory or durable | issue, verify (has, then consume) | called by `grantApproval`, `sign`; a durable store by other processes too |
| Receipts (`receipt.mjs`) | `ReceiptLedger`: sealed receipts, handed out as live objects | build, redact, append, verify, `toPublicSpecReceipt` | called after every step; exported as JSON |
| Connection port (`connection.mjs`) | none (mock: a slot) | `simulate`, `sendSigned`, several RPC awaits each | the cluster |
| Signer port (`signer.mjs`) | key | `sign(planHash)` | - |
| Live runner (`examples/live-devnet-runner.mjs`) | key file, process state | fund, run one marker transfer, report | agent, faucet, cluster |
| Plan builder (`index.mjs`) | none | `buildPlan` | - |
| Corpus validator (`validate-examples.mjs`), TypeScript package | none; the corpus is files that are revised | validate contracts and receipts | files |
| Subgraph (`examples/the-graph-...`) | immutable entities | two event handlers | chain |
| Launch demo, fixture and explorer generators (`examples/`, `explorer/`) | position in the script | one plan through the whole flow, publish a receipt or the ledger | agent, mock or live ports, files |
| Explorer (`explorer/index.html`) | what the page shows, the paste box | `render`, `verifyChain`, `loadPasted`, fetch and its catch | a run that came as a script, was fetched or pasted |
| Published run (`explorer/sample-run.js`) | five receipts of a devnet transfer by the live runner | - | shown by the explorer |

What makes it hard: `simulate`, `sign` and `broadcast` check the lifecycle before an await
and write `this.state` after it; ports throw, also after the transaction was accepted; the
host keeps references to plan, token and state; grants expire and are used once; the
runner is killed and started again, and gives up waiting for answers that come later;
other processes get between a durable store's `has` and `consume`, and an in-memory one
forgets in a restart; the receipts a host holds are the ledger's own; renders overlap at
every hash, and a fetch may fail while a pasted run is on the page; the rule which side
effects need a gate is written twice, and contracts are revised field by field.
`PROJECT.json` lists each hazard at its line.

What makes each part correct:

- agent: nothing is submitted that was not simulated, put to a human by policy,
  approved, and signed under a live unused grant; one submission per grant; terminal
  runs are final; the ledger tells what happened;
- policy: the decision is the strictest any rule demands, whatever the order of the
  guards, and adding instructions never loosens it;
- tokens: bound to a plan, alive at the signature, single use in the life of a store,
  and with no reuse beyond the plan and the lifetime of the grant;
- receipts: the chain verifies at all times, an execution receipt is true, every
  submission has a receipt, an alteration is found where it was made;
- adapters: an answer of a port is the cluster's;
- scripts: they end as their comments announce, sign and submit once, publish only what
  is true and what both validators accept, and leave the same receipts on any port;
- explorer: a badge that gives a verdict gives that of `verify()` on the receipts shown
  under it;
- contracts: an accepted one puts every side effect behind a gate that blocks, and one
  that the corpus accepts is accepted by the package;
- runner: funds are never stranded, one marker per start, reports are true, it ends.

## Modules

| Module | Models |
|---|---|
| `Policy` | `evaluatePlan` and what it is made of, as operators |
| `PolicyReview` (`MCPolicyReview`) | a host composing a plan and having it evaluated |
| `Approval` | tokens, verification, nonce store, as operators |
| `ApprovalDesk` (`MCApprovalDesk`) | several processes that verify tokens, their stores, restarts; uses `Approval` |
| `Receipts` | builder, redaction, ledger, as operators; uses `Approval` |
| `GovernedAgent` (`MCGovernedAgent`) | the agent, its host tasks and its ports; uses `Receipts`; the decisions of the instances come from `Policy` |
| `ApprovalGate` | what the lifecycle promises: stages of a proposal and its effects |
| `GateRefinement` | the mapping under which `GovernedAgent` implements `ApprovalGate` |
| `LiveConnection` | mock and web3 adapters behind `GovernedAgent`'s ports, and the cluster |
| `PublicReceipts` | `toPublicSpecReceipt` and the two validators of receipts; uses `Receipts` |
| `SampleRun` | the published run, and what it means for a ledger to say what it says |
| `HostScripts` (`MCHostScripts`) | demo and generators; composes the agent, the adapters, the rendering and the published run |
| `ReceiptStore` | a ledger whose receipts are written into, exported, cut and reordered; uses `Receipts` |
| `Explorer` (`MCExplorer`) | the page over `ReceiptStore`'s file: how it gets a run, checks it, draws it |
| `DevnetRunner` | the live runner, its key file, the faucet and the cluster |
| `MissionContracts` (`MCMissionContracts`) | both contract validators, and an author who revises a contract |
| `MCParts` | the instance of `PolicyReview`, `ApprovalDesk`, `Explorer` and `MissionContracts`: components that share no state are checked in one run, whose behaviours are those of the four |
| `GovernedAgentProofs`, `HostScriptsProofs`, `ApprovalGateProofs`, `ApprovalDeskProofs`, `ExplorerProofs`, `DevnetRunnerProofs`, `PolicyProofs`, `MissionContractProofs` | theorems |

### How `GovernedAgent` corresponds to the code

`state` is `this.state` (with `run`, the number of the `plan()` call that made the
object); `NoState` is `null`. `ledger`, `nonceStore`, `now` are the fields of that
name. `call[t]` is the port promise task `t` awaits, with the arguments the port was
given. A JavaScript handler runs to its next await without interruption, so

- `plan` and `grantApproval` are one action each (`Plan`, `GrantApproval`);
- `simulate` is `Simulate` and then `SimulateOk`, `SimulateFailed` or `SimulateThrows`;
- `sign` is `SignAccepted` (token verified, nonce consumed, signer called) and then
  `SignReturns` or `SignThrows`, or it is `SignRefused`;
- `broadcast` is `Broadcast`, then `Submit` when the cluster accepts the transaction,
  then `BroadcastReturns`; `BroadcastThrows` is the catch block and happens before
  or after `Submit`.

`sendSigned` gets three things: the plan, its signature, and `signedTx`, which the host
passes to `broadcast()` (`Txs`; named by the plan it carries out, `None` if there is
none). The mock answers for the plan; the web3 adapter sends `signedTx` and looks at
nothing else. `Sendable` are these two, and `submitted` records both what the connection
was handed (plan, signature, grant) and the `bytes` that went out. So
`SubmitMatchesApproval` speaks of the first and holds, and `SubmittedBytesAreApproved`
speaks of the second and does not.

Continuations read and write the state as it is when they run, as `this.state.x = ...`
after the await does. A call in the wrong lifecycle throws and changes nothing: it is a
stuttering step and has no action. `ForceApproved` is what the replay test and the demo
do; `EditPlan` and `EditToken` are writes to the objects the agent keeps by reference: the
plan, and the token's `planHash`, `nonce` and `expiresAt` (not its signature, nor other
fields of `agent.state`). `issued`, `simOK`, `signerCalls`, `submitted` and `confirmed`
record what the outside saw and are read by no handler (nonces are numbered by `issued`).

`BROADCAST`, a value of `Lifecycle`, is assigned nowhere; the diagram of the package
README passes through `SIMULATED` and `BROADCAST` where the code goes from `PLANNED`
to `AWAITING_APPROVAL` and from `SIGNED` to `CONFIRMED`. The model follows the code.

### How `LiveConnection` and `HostScripts` correspond to the code

`rpc[t].await` is the RPC promise the web3 adapter awaits inside the agent's one await:
`simulate` is `Translate`, then `SimulateTransaction`; `sendSigned` is
`SendRawTransaction` (accepted, the answer under way), `GetLatestBlockhash`,
`ConfirmTransaction` and `GetSignatureStatus`, after which the agent's continuation
runs; `SimulateRejects` and `SendRejects` are a throw at any of them, `SendUnsigned` the
throw before any of them, for want of a `signedTx`. Each is a step of
`GovernedAgent` or leaves it alone, which is what `ScriptsAreAgentRuns` says. `fate` is
the cluster's: it runs, runs with an error, or drops what was accepted, whether or not
anybody waits. The mock answers at once.

`Program` lists the calls of each script in order, `at` is the position. A call is taken
by the agent, refused by its lifecycle (`CallBlocked`) or by its token check
(`CallRefused`), or fails in a port (`Rejected`); `Catches` are the demo's two catch
blocks, anything else ends the script with exit 1. The demo is run with the mock and
with the live ports; as it is written its `broadcast()` passes no signed transaction,
and `handsTx` is a copy of it that passes the one of its plan. `WriteFails` is a
`writeFile` of a generator that rejects; the explorer's generator writes two files, and
which of them was written by then is left out.

`sample-run.js` was recorded by the live runner, of a devnet transfer; the generator
that writes to the same name runs another plan on mocks. What can be compared is what
the code promises of both ("the same receipts ... only the ports differ"): steps,
verdicts, modes, states of the approval, and which receipts share a grant and are
chained, in the five receipts of any confirmed run. Texts, intents, instruction classes,
slots and the `live` flag differ and are not part of `RecordedRun`.

### How `ApprovalDesk` corresponds to the code

`Present` is `verifyApprovalToken` up to `nonceStore.has`, `Has` and `ConsumeNonce` are
the two calls of the store. In one process they follow each other; the header of
`NonceStore` announces a durable one with the same interface, and between the calls of a
store other processes share anything may happen. `Restart` empties an in-memory store
(`losses` counts its lives) and abandons a verification under way. Whoever presents a
token may have written another hash, nonce or expiry into it (`Rewritten`).

### How `ReceiptStore` and `Explorer` correspond to the code

`ledger` is `#receipts`; `sealed` remembers what `append` sealed, `written` what the host
wrote since into the objects `append` and `all` return. `Json` is what `JSON.stringify`
keeps of a body: not a field that is undefined, though `stableStringify` hashed it.
`BrokenAt` is `verify()`'s result.

The page gets a run in one of three ways: `ScriptLoads`, or, when `sample-run.js` is
missing (`ScriptMissing` shows the paste box), `FetchArrives` and any number of `Paste`
(which hides the box). `FetchFails` is the catch of the fetch: it shows the box and
overwrites the badge with "load a run", over whatever cards are there by then. Each way
calls `Render`; `HashRow` and `Show` are the rest of `render`, cut at its awaits, one per
receipt, and any number of calls overlap. `Show` is the synchronous end that sets badge
and cards. With a receipt that cannot be drawn (`Undrawable`) it is `ShowThrows`: the
badge is set, then an exception leaves the earlier cards, or the cards before the bad one;
of a fetched run the catch then replaces the badge. `page.judged` remembers which receipts
the badge is about, `page.threw` that drawing them ended so. The two copies of the page
(`packages/...`, `docs/`) are equal.

### How `DevnetRunner` corresponds to the code

`pc` is the await the process is at. Time is counted in the sleeps of the two loops;
`GiveUp` and `PollTimesOut` are their deadlines. The agent calls between funding and
submission are reduced to their outcome: `SimulatedOk`, or `Dies`, for nothing in the
runner catches an exception. `Fund` is an airdrop that arrives or anybody's transfer
to a printed address, at any time, also after the process is gone. `Kill` is an
interrupt at any await. `ClusterDecides` confirms, fails or drops a transaction
whether or not anybody still asks. A write of the key file that throws is swallowed by
the code: `unwritten` remembers such keys.

### How `MissionContracts` corresponds to the code

`CorpusAccepts` is `assertMissionContractShape` (it throws at the first demand that
fails; the model keeps the verdict), `Issues` is `validateMissionContract`. The
revisions are an author's: one field of one entry at a time, new entries harmless. A
mode or class is one the schema lists (`SchemaModes`, `SchemaRiskClasses`) or
"unlisted": neither program compares the value with the list.
`Publish` is the loop over the contract files that lets a draft pass. Ids may be listed
twice, gates overlap or name nothing, `approval_required` be a truthy text: the corpus
validator wants `true`, the package anything truthy. The package does not look at names
that do not resolve, at the graph, at `required`, or at empty lists, and throws where a
section it reads is missing; hence acceptance agrees in one direction only.

### Abstractions

- SHA-256 is injective: the hash of a body holds the body. HMAC is ideal: a signature
  is its payload, which nobody else can produce. Random nonces and keys are fresh.
- Plans are members of `Bodies` with a hash and a decision; amounts and kinds matter
  only in `Policy`. Reasons, summaries, timestamps and the other texts are left out.
- The injected clock does not go back.
- Transactions are named by the plan they carry out; what is in one beyond that is not
  told apart.
- Bodies that cannot be drawn (`Undrawable`) stand for every exception in `render` after
  the badge is set; the page does not tell them apart.
- Texts and dates of a public receipt are one value; its keys are the code's.
- Fees, logs, slots and signature formats of the adapters are left out.
- The recorded hashes of the published run are compared as links, not recomputed.
- In `Policy` an absent `lamports` is 0 and amounts are natural numbers.
- `DevnetRunner` counts no time for the RPC calls themselves.

## Runs

| Run | Question | Result |
|---|---|---|
| `agent_sequential` | What does a host get that awaits each call? | every lifecycle guarantee, unique idempotency keys in a run, `Settles`, and `ApprovalGate` is implemented |
| `agent_concurrent` | What survives two tasks on one agent, and a host that forces the lifecycle and edits plan and token? | the inductive invariant, single use, lifetime and policy bounds, ledger |
| `host_scripts` | Do the scripts, over mock and live ports, do what they announce? | offline they end as announced, everywhere they sign and submit once, publish what is true, and a confirmed run leaves the receipts of the published one |
| `parts`, policy | Is a decision the strictest demanded, also as a plan grows? | yes |
| `parts`, tokens | What is single use across processes, shared stores and restarts? | once per life of a store, once for ever with a durable one; a reuse stays within plan and lifetime |
| `parts`, explorer | What does a verdict on a ledger say after writes, export, cuts, moves, failed fetches and overlapping renders? | `verify()` points at the first alteration; an unnoticed one takes three writes; a badge with a verdict is that verdict; a cut end is not noticed; undefined fields break an export |
| `parts`, contracts | Do the validators agree, and does none of them pass a side effect ungated? | yes, the corpus validator being the stricter, for the modes and classes the schema lists |
| `runner` | Are funds reachable, markers single, failures true; does it end? | yes, but for keys whose write threw |
| `concurrent_broadcast` | "now permitted, exactly once" | violated: two overlapping broadcasts submit twice |
| `concurrent_simulate` | "no broadcast without a successful simulation" | violated: a late answer marks another run |
| `confirm_lost` | "Receipts prove what executed" | violated: a throw after acceptance is receipted as "no broadcast" |
| `runner_poll_timeout` | a confirmed receipt is of a confirmed transaction | violated: no answer counts as confirmed |
| `unapproved_bytes` | "binds approvals + signatures to exact bytes" | violated: the host's `signedTx` is sent whatever was approved |
| `demo_live` | "Run the identical ... flow": only the node can fail a live broadcast | violated: the demo passes no transaction, and the adapter throws before asking the node |
| `unlisted_class` | "default to denied side effects" | violated: a mode or class in no list needs no gate in either validator |

Bounds. *Agent*: two tasks are the least that interleave, and every handler has one await
(two for `broadcast`), so more tasks add no new pair. Two runs, because all confusion is
between a run and its successor; two grants in the sequential run. Four plans cover the
decisions the default profile makes (memo, transfer, above the cap, denied kind); the
concurrent run has one for a human and one above the cap, and the constraint
`MeddlesOnlyAtFirst` keeps edits, forces and the clock to its first plan (one edit and one
force: one of each breaks what a missing check would let through). The clock of
`agent_sequential` goes past the lifetime of a grant given at 0 and reaches the end of one
given at 1. *Desk*: two processes on a durable store and one on its own are the least with
both kinds; two tokens, two hashes, one restart, a clock that passes the lifetime.
*Scripts*: a plan for each way a script can end early (policy denies, simulates only, the
mock finds it malformed), one for mainnet, and the demo's own. The length is the scripts'.
*Explorer*: three receipts have a head, a middle and a genesis; three writes are the
number the property is about, one move of a row; two renders, of which one may be fetched
and one pasted. The constraint `LedgerFirst` lets the page start when the whole ledger is
exported, and exports a ledger only if nothing was written into it: what the page does
with a bad hash is reached by way of an undefined field. The renders are symmetric, and no
liveness is checked there. *Policy*: three instructions of seven (each class, denied kind,
listed and unlisted program, amounts that reach the cap alone, in pairs, and exceed it by
one). *Contracts*: a contract with a read and a send capability, and three edits, which
suffice to move a gate (add, drop) and change what it covers; two of them give a
capability an unlisted class and take its flag. *Bytes*: a host that hands over no
transaction, or that of one plan whatever the run's plan is; in `agent_sequential` too.
*Runner*: three starts with three keys, loops of four and two sleeps, an airdrop every
two: each deadline falls before, at and after each event. The runs may stop at their
bounds, hence `CHECK_DEADLOCK FALSE`.

Fairness. `agent_sequential`: a host that takes the next step of the flow when the agent
is ready (the examples do nothing else), and ports that answer or throw. A simulation
retried for ever without an answer is excluded (strong fairness on its answer). No port
has a timeout in the code, so with a port that never settles a run hangs; that is the
assumption `Settles` makes visible. A human need not grant, `plan` need not be called.
`runner`: the process moves as long as it runs, nothing else is assumed: funds may never
come, the cluster may never decide, nobody need kill it. `host_scripts`: the process runs
and every await of it ends, with an answer or an exception; the cluster need not decide (a
confirmation that never comes ends in the exception web3 throws when the blockhash
expires).

Each passing property has in `PROJECT.json` a variant of a definition, marked
"Plausible defect" where it stands, under which the property fails.

### What the violated runs show

`unapproved_bytes` and `demo_live` are two sides of one thing: the transaction is not
part of what the agent hashes, simulates and signs. The adapter needs `signedTx`, which
the agent never sees before `broadcast()`; a host that passes none gets an exception
(as the demo would), and one that passes another transaction than the approved plan's
gets it sent. With `Txs = {None}` the approved bytes are the only ones that can go out
(`PlanBytesAreApproved`), as long as nobody edits the plan object after the approval:
with one `EditPlan` the property fails on the mock as well. A comparison of `signedTx`
with the plan in `sendSigned`, and a copy of the plan in `plan()`, would remove both.

`unlisted_class`: the JSON schema lists modes and classes, but neither program reads the
schema, and both ask whether a value is in the list of side effects rather than whether
it is outside the list of harmless ones.

In the concurrent ones, `simulate`, `sign` and `broadcast` have no mark for "call under
way". Moving the lifecycle before the await (to a value such as the unused `BROADCAST`)
and keeping the state object in a local variable would remove both concurrent
counterexamples. The same continuation in `sign` can make a fresh run `SIGNED`; an allowed
plan stops at `SIMULATED` because signing asks for a grant whatever the decision; and the
READ branch of `evaluatePlan` cannot be reached (lemma `Decides`). A plan for another
cluster than the profile's gets a reason and goes on to `needs_approval`. The head comment
of the runner says its key is never written to disk, while the code writes it so that
funds survive restarts.

### What the passing runs say that a reader may not expect

- The page may say "load a run" over the cards of a run that was pasted while the fetch
  was failing, and may keep the cards of an earlier run under the badge of one that could
  not be drawn; what it never does is put one run's verdict over another run's cards
  when drawing went well.
- `redact` takes `token_digest` for a secret ("token"), so the digest that receipts are
  meant to store is `[REDACTED]`, in the published run too.
- A write of the runner's key file that fails is swallowed: funds sent to that address
  are stranded once the process is gone.
- A receipt with an undefined field verifies in memory and is broken after export.
- The receipt hash leaves `previous_hash` out. The head therefore does not commit to
  what came before it: body, hash and one link suffice to alter any receipt, and nothing
  has to be recomputed to the end of the chain.
- A public receipt of a mainnet run would be named `mainnet_read_only`; no script
  publishes one that executed, because policy refuses the plan.

## Proofs

All theorems are for every value of the constants that satisfies the named assumptions
of the modules: any number of tasks, plans, grants, receipts, renders, processes or
starts, any decisions a policy makes, any lifetimes and bounds. Every safety invariant,
the action properties and the two refinements that the passing runs check are proved;
what is left to TLC is liveness.

### The agent, whatever the host does (`GovernedAgentProofs`)

With interleaved calls, forced lifecycles and edits:

- `InductiveInvariant`: `IInv = TypeOK /\ RunInv /\ GrantInv /\ SignerInv /\
  ApprovalIsSingleUse /\ SignedOnlyAsGranted`. Plan binding is not inductive alone:
  that the fields of the token in hand are those of a grant after an edit follows
  only from its signature being one of a grant (`GrantInv`); single use needs that
  every nonce seen by the signer is consumed (`SignerInv`); that grants are for plans
  policy put to a human needs that a run keeps the decision on the plan it was started
  with (`RunInv`), though the plan itself may be edited. One lemma per part, one step
  per action.
- `TypeCorrect`, `SingleUse`, `SigningIsGranted`, `SigningIsBounded` follow;
- `LedgerIsFaithful`: the chain verifies and its head tells the lifecycle, by
  induction with `AppendVerifies` (append keeps a chain verified) and `EmitHead`.

### The agent, for a host that awaits its calls

`concurrent_broadcast` and `concurrent_simulate` show that the rest does not hold for
two overlapping calls, so it is proved under `AwaitingHost`: no two tasks, and no edits
of what was handed over (`MaxEdits = 0`). The examples are such hosts; the constants of
`agent_sequential` and `host_scripts` satisfy it. The lifecycle may still be forced, as
the demo does.

- `AwaitInvariant`: `AwaitInv`, on top of `IInv`, has three parts. `RunIntact`: a run
  keeps plan, hash and decision together, and a grant only for that hash and after its
  simulation. `CallsIntact`: a call under way carries what the run holds *now*, so the
  continuation, which writes to `this.state` as it then is, writes to the run that made
  the call. `SignedIntact`: a signed run has not been sent (`Unsent`: its nonce is
  consumed, no submission has it), or its confirmation is awaited (`Sent`). One
  submission per grant is not inductive without the last: a second `broadcast()` is
  stopped by the lifecycle, and after a force by the nonce.
- `NothingUnsimulated`, `SubmissionsAreApproved`, `OneSubmissionPerGrant`,
  `SignedRunsAreApproved`, `ReceiptsAreTrue` follow, forced lifecycle or not. What they
  say of a submission is what the agent handed to its connection; the first two say
  nothing of the bytes a live connection is handed beside it.
- `PlanBytesAreApproved` is about the bytes: with `Txs = {None}`, that is, when no host
  passes a transaction of its own, `SubmittedBytesAreApproved` holds. Without that
  assumption it does not (`unapproved_bytes`). `BytesOrigin` (what went out is the plan
  handed over, or a `signedTx` of `Txs`) is the invariant that separates the two.
- `TerminalsStay` (an action property) and `KeysAreUnique` need that nobody forces the
  lifecycle (`WellBehavedHost`). Keys are unique because a step, once on the ledger, is
  behind the lifecycle (`StepsAreBehind`).
- `AgentImplementsGate`: for such a host every step of the agent is, under
  `GateRefinement`'s mapping, a step of `ApprovalGate` or a stutter; one case per
  action. `AgentKeepsGate` carries `GateIsSafe`, which `ApprovalGateProofs` proves of
  the gate by itself, over to the agent.

### The scripts (`HostScriptsProofs`)

- `ScriptsUseTheAgent`: every behaviour of a script, with mock or live ports, is one of
  `GovernedAgent` (each call is a `HostCalls` step, each answer a `PortAnswers` step,
  every other await a stutter). `ScriptsSignAsGranted` and `ScriptsSubmitAsApproved`
  take over what is proved there.
- `FlowInvariant`: `FlowInv` writes beside each call of a script's program what is true
  when the script is there (`AtPlan` ... `AtEnd`), as one annotates a sequential program.
  It has to speak of the agent, of the RPC the adapter awaits (`Awaits`), of the fate of
  the one transaction (`Out`) and of the receipts so far (`LedgerTells`). One lemma per
  call: whatever can happen there, answer, exception or refusal, leads to a call whose
  assertion then holds or ends the script as announced. The clock and the cluster, which
  move at any time, disturb none of them (`QuietFlow`).
- From it: `ScriptsEndAsAnnounced`, `ScriptsSignOnce`, `AnswersAreTheClusters`,
  `PublicationsAreTrue`, `SameReceiptsOnAllPorts`.

`ScriptAssumption` says of the scripts what their code does: one task that awaits and
edits nothing, and an agent made without a profile, hence plans for mainnet denied
(`DefaultDeniesMainnet` in `PolicyProofs` is that fact of the policy engine).
`BodyAssumption`: a receipt is never the null that the genesis hash stands for.

### The other components

`ApprovalDeskProofs`, for any number of processes and stores: `SingleUsePerLife` and
`ReuseEndsWithExpiry`, from `DeskInv`. Neither is inductive alone: that a nonce is not
accepted twice needs that a store still holds what it accepted in its present life, and
that a reuse is bounded needs that what is on its way to a store already passed the
checks of its own grant (`PresentedIsIssued`: the signature ties the fields).

`ExplorerProofs`, for ledgers of any length, any writes and any number of renders:
`BrokenAtIsFirst` and `ChainDetects` from `StoreInv` (a field differs from what was
sealed only where it was written); `ExportTellsVerdict` from `ExportInv` (what
was exported is JSON of sealed bodies, and of the ledger's rows if nothing was written);
`BadgeIsVerdict` from `PageInv` (the rows checked so far are right about their receipts,
`prev` is the hash the next is compared with, and the marks on the cards of the page are
those of their receipts, whichever render drew them and whatever badge stands above).
`PageIsPrefix` is about the finished
page: of the rows that are not where they were in the file take the first; its link
says which receipt stands before it, and distinct hashes leave one place for it.
`BodiesAssumption`: bodies are records, and none hashes to the genesis.

`DevnetRunnerProofs`, for any number of starts, any deadlines, kills at any await:
`RunnerIsSound`, `NoFundsStranded`, `OneMarker`, `FailuresAreTrue`. `RunnerInv` has a
part about keys (every address shown is in the file or could not be written) and one
about transactions (a process that has not sent yet finds none of its own), proved apart.

`PolicyProofs`, for plans of any length and any profile: `FailClosed` rests on
`Baseline` (no plan is classified below SIGN_AND_BROADCAST).
`GrowthOnlyTightens` is an action property and needs that an instruction more adds its
lamports to `totalLamports` (`TotalGrows`). That is a fact about sums over sequences of
any length; it is proved without an induction rule, by the least length at which it
would fail (`LeastOf`, from the library's well-foundedness of the naturals).
`LamportsAssumption`: amounts and caps are natural numbers.

`MissionContractProofs`: `AcceptedContractsAreGated` and `CorpusValidatorIsStricter`,
for contracts of any size and any number of revisions. The second holds for any values
of mode and class; the first is for contracts that keep to the schema's
(`KeepsToSchema`), and rests on the lemma that among those the validators' lists are the
complement of reading and drafting (`SideEffectsAreAllListed`).

### Only model-checked

`Settles`, `RunEnds` and `ScriptEnds`: liveness under fairness needs ENABLED, which is
out of the prover's reach. The invariants the proofs introduce are checked by TLC where
a run lists them (`IInv`, `RunnerInv`); `FlowInv` and `AwaitInv` hold in `host_scripts`
and `agent_sequential` as well, and the theorems say so for all instances. The violated
runs are counterexamples and need no proof; `AwaitingHost` is the line between them and
the theorems.

## Not modelled

- The subgraph: two handlers that each create an immutable entity from an event; the
  registry contract that would emit the events is not in the repository, and what the
  indexing node does on a reorganisation is not in the code.
- The characters of `planId` (a slug cut at 40): plans with one content share an id.
- What is in a host-built transaction, beyond which plan it carries out.
- Which parts of a file a failed `writeFile` leaves behind.
- `validate-examples.mjs` beyond contracts and receipts: the presence of documents,
  fixtures and words in the repository.
- Schemas, fixtures, markup and documents have no behaviour to model.

## Plan

1. Which of the guarantees for an awaiting host survive two tasks that never overlap two
   calls of the same kind, as an invariant weaker than `AwaitInv`.
2. `ApprovalDesk` over the agent: a token accepted by the agent's `sign` as one life of
   a store, so that the desk's theorems carry over as the gate's do.
3. `AnswersAreTrue` of the adapters under any awaiting host, apart from the scripts.
