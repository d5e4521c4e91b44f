---------------------------- MODULE HostScripts ----------------------------
(***************************************************************************)
(* The scripts that drive the agent: the launch demo                       *)
(* (solana-launch-agent.mjs), offline or wired to the live adapters as its *)
(* last comment describes, and the generators of the corpus fixture and of *)
(* the explorer's data.  A script is a sequence of calls, with two catch   *)
(* blocks in the demo; everything else a call throws ends it with exit 1.  *)
(* A script runs one plan (the demo's, or one a reader puts in its place). *)
(***************************************************************************)
EXTENDS LiveConnection, PublicReceipts, SampleRun

CONSTANTS
    Host,         \* the script's only task
    LaunchPlans,  \* plans the scripts are run with
    ClusterOf     \* plan.cluster of each plan

\* One caller, which awaits its calls and edits nothing it handed over.  The
\* agent is made without a policy profile: the default denies mainnet.
ASSUME ScriptAssumption ==
    /\ Tasks = {Host} /\ MaxEdits = 0
    /\ LaunchPlans \subseteq Bodies /\ LaunchPlans \cup {None} \subseteq Txs
    /\ ClusterOf \in [Bodies -> Clusters]
    /\ \A b \in Bodies : ClusterOf[b] = "mainnet-beta" => Decide[b] = "deny"
\* A receipt is never null.
ASSUME BodyAssumption == None \notin ReceiptBodies

VARIABLES
    script,   \* which script runs
    ports,    \* "mock" or "live"
    handsTx,  \* does broadcast() get a signed transaction (the demo as written: no)
    launch,   \* its plan
    at,       \* position in its program
    exit,     \* "running", "done" (exit 0) or "failed" (exit 1)
    public    \* the public receipt it printed or wrote

choice == << script, ports, handsTx, launch >>
agentVars == << vars, adapters >>
scriptVars == << agentVars, choice, at, exit, public >>

\* Calls of each script, in order.
DemoProgram == << "plan", "simulate", "earlySign", "grant", "sign", "broadcast",
                  "force", "replay", "verify", "publish" >>
FixtureProgram == << "plan", "simulate", "grant", "sign", "broadcast", "verify", "publish" >>
ExplorerProgram == << "plan", "simulate", "grant", "sign", "broadcast", "verify", "publish" >>

Program == [demo |-> DemoProgram, fixture |-> FixtureProgram, explorer |-> ExplorerProgram]

Step == Program[script][at]

ScriptInit ==
    /\ Init /\ AdaptersInit
    /\ script \in DOMAIN Program /\ ports \in {"mock", "live"} /\ launch \in LaunchPlans
    /\ ports = "live" => script = "demo"
    /\ handsTx \in BOOLEAN /\ (handsTx => ports = "live")
    /\ at = 1 /\ exit = "running" /\ public = None

Stays == UNCHANGED << at, exit, public >>
Advances == at' = at + 1 /\ UNCHANGED << exit, public >>
Dies == exit' = "failed" /\ UNCHANGED << at, public >>

\* Plausible defect: the replay check is not guarded by a catch.
CatchesEarlySignOnly(governanceError) == Step = "earlySign" /\ governanceError

\* The demo's catch blocks: around the early sign for a GovernanceError, around
\* the replay for anything.
Catches(governanceError) == (Step = "earlySign" /\ governanceError) \/ Step = "replay"

\* Plausible defect: a call that was caught is made again.
ThrowsAndRetries(governanceError) == IF Catches(governanceError) THEN Stays ELSE Dies

Throws(governanceError) == IF Catches(governanceError) THEN Advances ELSE Dies

-----------------------------------------------------------------------------
(* Calls *)

SignSteps == {"earlySign", "sign", "replay"}

CallPlan == Step = "plan" /\ Plan(Host, launch) /\ Advances

CallGrant == Step = "grant" /\ (\E ttl \in Ttls : GrantApproval(Host, ttl)) /\ Advances

\* A call that goes on to await a port.
CallAwaits ==
    /\ \/ Step = "simulate" /\ Simulate(Host)
       \/ Step \in SignSteps /\ SignAccepted(Host)
       \/ Step = "broadcast" /\ Broadcast(Host, IF handsTx THEN launch ELSE None)
    /\ Stays

\* A call the lifecycle does not allow: GovernanceError, nothing changed.
CallBlocked ==
    /\ HostIdle(Host)
    /\ \/ Step = "simulate" /\ ~AssertState(Simulatable)
       \/ Step = "grant" /\ ~AssertState({"AWAITING_APPROVAL"})
       \/ Step \in SignSteps /\ ~AssertState({"APPROVED"})
    /\ Throws(TRUE)
    /\ UNCHANGED vars

CallRefused == Step \in SignSteps /\ SignRefused(Host) /\ Throws(TRUE)

\* agent.state.lifecycle = 'APPROVED'
ForceStep == Step = "force" /\ ForceApproved /\ Advances

\* Only the fixture generator insists on a verified chain.
Verify ==
    /\ Step = "verify"
    /\ IF script = "fixture" /\ ~VerifyChain(ledger) THEN Dies ELSE Advances
    /\ UNCHANGED vars

BroadcastReceipts == {i \in 1..Len(ledger) : ledger[i].body.step = "broadcast"}

\* The first broadcast receipt, rendered; the explorer gets the whole ledger, which
\* stays in its files.  Rendering undefined throws.
Publish ==
    /\ Step = "publish"
    /\ IF script = "explorer" THEN exit' = "done" /\ UNCHANGED << at, public >>
       ELSE IF BroadcastReceipts = {} THEN Dies
       ELSE LET first == CHOOSE i \in BroadcastReceipts : \A j \in BroadcastReceipts : i <= j
            IN  /\ public' = ToPublicSpecReceipt(ledger[first].body, ClusterOf[launch])
                /\ exit' = "done" /\ UNCHANGED at
    /\ UNCHANGED vars

\* A generator's writeFile rejects, nothing of the file or some of it written.
WriteFails == Step = "publish" /\ script # "demo" /\ Dies /\ UNCHANGED vars

-----------------------------------------------------------------------------
(* Answers *)

Resolved ==
    /\ \/ ports = "mock" /\ MockResolves(Host)
       \/ ports = "live" /\ LiveResolves(Host)
    /\ Advances

Rejected == ports = "live" /\ LiveRejects(Host) /\ Throws(FALSE)

Waits ==
    /\ \/ ports = "mock" /\ MockAccepts(Host)
       \/ ports = "live" /\ LiveWaits(Host)
    /\ Stays

-----------------------------------------------------------------------------
Calls == CallPlan \/ CallGrant \/ CallAwaits \/ CallBlocked \/ CallRefused
           \/ ForceStep \/ Verify \/ Publish \/ WriteFails

ScriptStep ==
    /\ exit = "running"
    /\ (Calls /\ UNCHANGED adapters) \/ Resolved \/ Rejected \/ Waits
    /\ UNCHANGED choice

\* Offline, the injected clock moves a second per reading: minutes short of the
\* lifetime of a grant.
LiveTick == ports = "live" /\ Tick /\ UNCHANGED << adapters, choice, at, exit, public >>

ClusterStep == Cluster /\ UNCHANGED << choice, at, exit, public >>

ScriptNext == ScriptStep \/ LiveTick \/ ClusterStep

\* The process runs, and every await of it ends, with an answer or an exception.
ScriptSpec == ScriptInit /\ [][ScriptNext]_scriptVars /\ WF_scriptVars(ScriptStep)

-----------------------------------------------------------------------------
\* Every script ends by itself, whatever the ports do.
ScriptEnds == <>(exit # "running")

\* README, "runs offline by default ... reproducible anywhere": with the mock
\* ports a script completes when its plan is one for a human to approve and
\* simulates well, unless it cannot write its file, and never with another plan.
RunsEndAsAnnounced ==
    exit # "running" /\ ports = "mock" =>
        IF Decide[launch] = "needs_approval" /\ launch \notin Malformed
        THEN exit = "done" \/ (Step = "publish" /\ script # "demo")
        ELSE exit = "failed"

\* "To run a REAL devnet action: ... Run the identical plan->simulate->approve->sign->
\* broadcast flow ... Only the ports differ" (last comment of the demo): what ends a
\* script at its broadcast is a failure of the cluster's node.
OnlyTheNodeFailsABroadcast ==
    [][ Step = "broadcast" /\ exit' # exit => SendRejects(Host) ]_scriptVars

\* "SIGN + BROADCAST - now permitted, exactly once": of the three sign() calls of
\* the demo one reaches the signer, and no script submits twice.
OneSignaturePerScript == Len(signerCalls) <= 1 /\ Len(submitted) <= 1

\* What a script shows to the public passes both validators, claims an execution
\* exactly when the cluster executed the transaction, and never one on mainnet
\* (whose public name, mainnet_read_only, would contradict it).
PublishedIsTrue ==
    public # None =>
        /\ AssertReceiptShape(public) /\ ValidateAgentReceipt(public)
        /\ public.authority.mode = "execute_with_human_approval"
              <=> \E k \in 1..Len(fate) : fate[k] = "executed"
        /\ public.authority.mode = "execute_with_human_approval"
              => public.workflow.environment # "mainnet_read_only"

\* "The same approval gate, the same receipts ... Only the ports differ": the receipts of
\* a confirmed run, with mock ports or live ones, say what those of the published devnet
\* run say (which the live runner made, of another plan), under one grant and chained in
\* the same way.
PortsLeaveTheSameReceipts ==
    exit = "done" /\ state.broadcast = "confirmed" =>
        IsRecordedRun(SubSeq(ledger, 1, Len(RecordedRun)))

\* Scripts use the agent through its calls only: every behaviour of a script is
\* one of the agent, and has its guarantees.
ScriptsAreAgentRuns == Spec

-----------------------------------------------------------------------------
(* Why these hold: what is true at each point of a script *)

\* The run is that of the script's plan, and stands there.
Runs(lifecycle) ==
    /\ state.plan = launch /\ state.planHash = HashPlan[launch]
    /\ state.decision = Decide[launch] /\ state.lifecycle = lifecycle

Ungranted == issued = << >> /\ state.approval = NoToken
Unsigned == nonceStore = {} /\ signerCalls = << >>
Unsubmitted == submitted = << >> /\ fate = << >> /\ confirmed = {}

\* The one grant is in hand, and it was due.
Granted ==
    /\ Len(issued) = 1 /\ state.approval = issued[1]
    /\ issued[1].signature = CanonicalApprovalPayload(issued[1])
    /\ Decide[launch] = "needs_approval" /\ state.simulation = "ok"
    /\ ports = "mock" => launch \notin Malformed

\* It was used.
Signed == Granted /\ nonceStore = {1} /\ Len(signerCalls) = 1

\* The transaction is out; offline, it is executed.
Out ==
    /\ Len(submitted) = 1 /\ Len(fate) = 1
    /\ IF ports = "mock" THEN fate[1] = "executed" ELSE handsTx

RpcTypes ==
    [await : {"none", "simulateTransaction", "getLatestBlockhash", "confirmTransaction",
              "getSignatureStatus"},
     tx : Nat, err : BOOLEAN]

\* The agent awaits nothing, or the answer to one of those calls; and the web3
\* adapter, if it is that, the cluster's answer about the one transaction.
Awaits(ops) ==
    LET c == call[Host]
        r == rpc[Host]
    IN  /\ c.op \in ops /\ rpc \in [Tasks -> RpcTypes]
        /\ c.op = "send" => (c.tx # None <=> handsTx)
        /\ r.await = "simulateTransaction" => c.op = "simulate" /\ ports = "live"
        /\ r.await \in {"getLatestBlockhash", "confirmTransaction", "getSignatureStatus"}
              <=> c.op = "confirm" /\ ports = "live"
        /\ c.op = "confirm" /\ ports = "live" => r.tx = 1
        /\ IF r.await = "getSignatureStatus"
           THEN fate[1] = IF r.err THEN "errored" ELSE "executed"
           ELSE r.err = FALSE

\* Nothing went wrong so far.
GoesWell ==
    /\ Decide[launch] = "needs_approval"
    /\ state.simulation # "failed" /\ state.broadcast # "failed"

\* The i-th receipt is about the i-th step; as long as all goes well, it says what
\* that of the published run says.
Tells(i) ==
    LET r == ledger[i].body IN
    /\ r.step = RecordedRun[i].step /\ r.receipt_id = i
    /\ GoesWell =>
          /\ \A f \in DOMAIN RecordedRun[i] \ Drawn : r[f] = RecordedRun[i][f]
          /\ r.grant_id = IF i <= 2 THEN 0 ELSE 1

LedgerTells(n) == Len(ledger) >= n /\ \A i \in 1..n : Tells(i)

AtPlan ==
    /\ state = NoState /\ ledger = << >>
    /\ Ungranted /\ Unsigned /\ Unsubmitted /\ Awaits({"idle"})

AtSimulate ==
    /\ Runs(AfterPlan(Decide[launch])) /\ state.simulation = "null" /\ state.broadcast = "null"
    /\ Ungranted /\ Unsigned /\ Unsubmitted /\ Awaits({"idle", "simulate"})
    /\ Len(ledger) = 1 /\ LedgerTells(1)

\* The demo's early sign changes nothing.
AtGrant ==
    /\ Decide[launch] # "deny" /\ state.broadcast = "null"
    /\ \/ /\ state.simulation = "ok" /\ Runs(AfterSimulation(Decide[launch]))
          /\ ports = "mock" => launch \notin Malformed
       \/ /\ state.simulation = "failed" /\ Runs("FAILED")
          /\ ports = "mock" => launch \in Malformed
    /\ Ungranted /\ Unsigned /\ Unsubmitted /\ Awaits({"idle"})
    /\ Len(ledger) = 2 /\ LedgerTells(2)

AtSign ==
    /\ Runs("APPROVED") /\ state.broadcast = "null"
    /\ Granted /\ Unsubmitted /\ Awaits({"idle", "sign"})
    /\ IF call[Host].op = "idle" THEN Unsigned ELSE Signed
    /\ Len(ledger) = 3 /\ LedgerTells(3)

AtBroadcast ==
    /\ Runs("SIGNED") /\ state.broadcast = "null"
    /\ Signed /\ Awaits({"idle", "send", "confirm"})
    /\ IF call[Host].op = "confirm" THEN Out /\ confirmed = {} ELSE Unsubmitted
    /\ Len(ledger) = 4 /\ LedgerTells(4)

\* The answer to the broadcast is in, and recorded.
BroadcastDone ==
    /\ state.plan = launch /\ Signed /\ Out /\ Awaits({"idle"})
    /\ state.broadcast \in {"confirmed", "failed"}
    /\ fate[1] = IF state.broadcast = "confirmed" THEN "executed" ELSE "errored"
    /\ LedgerTells(5)
    /\ ledger[5].body.mode = "execute_with_human_approval" <=> state.broadcast = "confirmed"
    /\ ledger[5].body.policy_decision = "needs_approval"

AtForce == BroadcastDone /\ Len(ledger) = 5

AtReplay == AtForce /\ state.lifecycle = "APPROVED"

\* In the demo, after the refused replay.
AtEnd ==
    /\ BroadcastDone
    /\ \/ Len(ledger) = 5
       \/ Len(ledger) = 6 /\ script = "demo" /\ ledger[6].body.step = "sign"

Standing ==
    /\ Step = "plan" => AtPlan
    /\ Step = "simulate" => AtSimulate
    /\ Step \in {"earlySign", "grant"} => AtGrant
    /\ Step = "sign" => AtSign
    /\ Step = "broadcast" => AtBroadcast
    /\ Step = "force" => AtForce
    /\ Step = "replay" => AtReplay
    /\ Step \in {"verify", "publish"} => AtEnd

\* What a script was started with.
ChoiceInv ==
    /\ script \in DOMAIN Program /\ ports \in {"mock", "live"} /\ launch \in LaunchPlans
    /\ ports = "live" => script = "demo"
    /\ handsTx \in BOOLEAN /\ (handsTx => ports = "live")

FlowInv ==
    /\ ChoiceInv /\ at \in 1..Len(Program[script])
    /\ exit \in {"running", "done", "failed"}
    /\ IF exit = "running" THEN Standing /\ public = None
       ELSE /\ HostIdle(Host)
            /\ exit = "done" => Step = "publish" /\ AtEnd
    /\ exit # "done" => public = None
    /\ ports = "mock" => now = 0
    /\ fate \in Seq({"pending", "executed", "errored", "dropped"})
    /\ Len(fate) = Len(submitted)
    /\ RunsEndAsAnnounced /\ OneSignaturePerScript /\ AnswersAreTrue
    /\ PublishedIsTrue /\ PortsLeaveTheSameReceipts

=============================================================================
