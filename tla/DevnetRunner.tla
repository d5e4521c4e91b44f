---------------------------- MODULE DevnetRunner ----------------------------
(***************************************************************************)
(* live-devnet-runner.mjs: a process that loads or makes its key, waits    *)
(* for funds, takes one marker transfer through the governed lifecycle and *)
(* reports it; it can be killed and started again.  Its awaits are the     *)
(* steps; the synchronous flow through the agent in between (plan, the     *)
(* refused sign, the grant, sign) is GovernedAgent's and only its outcome  *)
(* is kept.  Time is counted in the sleeps of the two waiting loops.       *)
(***************************************************************************)
EXTENDS Naturals, Sequences

CONSTANTS
    Keys,           \* keypairs Keypair.generate() can draw
    NoKey,
    WaitLimit,      \* FUND_WAIT_MS, in sleeps of waitForFunds
    AirdropEvery,   \* 30 s, in sleeps of waitForFunds
    PollLimit,      \* pollSig's window, in sleeps of pollSig
    WritesCanFail,  \* may writeFileSync throw (no such directory, disk full)
    MaxRuns         \* bound: starts of the process

ASSUME RunnerAssumption ==
    /\ NoKey \notin Keys
    /\ {WaitLimit, AirdropEvery, PollLimit, MaxRuns} \subseteq Nat
    /\ WritesCanFail \in BOOLEAN

VARIABLES
    file,         \* the key in KEYPAIR_FILE
    unwritten,    \* keys whose write to KEYPAIR_FILE threw
    pc,           \* the await the process is at, "down" when there is none
    kp,           \* the key of the process
    waited,       \* sleeps since waitForFunds began
    nextAirdrop,  \* when the next airdrop is due
    polls,        \* sleeps since pollSig began
    runs,         \* starts so far
    shown,        \* addresses printed so far
    funded,       \* addresses with a balance
    txs,          \* transactions the cluster accepted, with their fate
    reports       \* broadcast receipts printed, of which transaction

disk == << file, unwritten >>
world == << shown, funded, txs >>
runnerVars == << disk, pc, kp, waited, nextAirdrop, polls, runs, world, reports >>

TypeOK ==
    /\ file \in Keys \cup {NoKey} /\ kp \in Keys \cup {NoKey}
    /\ pc \in {"down", "funding", "balance", "simulating", "building", "polling"}
    /\ {waited, nextAirdrop, polls, runs} \subseteq Nat
    /\ shown \subseteq Keys /\ funded \subseteq shown /\ unwritten \subseteq shown
    /\ txs \in Seq([run : Nat, status : {"processing", "confirmed", "failed", "dropped"}])
    /\ reports \in Seq([tx : 1..Len(txs), status : {"confirmed", "failed"}])

RunnerInit ==
    /\ file = NoKey /\ kp = NoKey /\ pc = "down"
    /\ waited = 0 /\ nextAirdrop = 0 /\ polls = 0 /\ runs = 0
    /\ unwritten = {} /\ shown = {} /\ funded = {} /\ txs = << >> /\ reports = << >>

-----------------------------------------------------------------------------
(* Start *)

Begin(k) ==
    /\ pc = "down"
    /\ runs < MaxRuns
    /\ runs' = runs + 1
    /\ kp' = k /\ shown' = shown \cup {k}
    /\ pc' = "funding"
    /\ waited' = 0 /\ nextAirdrop' = 0 /\ polls' = 0
    /\ UNCHANGED << funded, txs, reports >>

LoadKey == file # NoKey /\ Begin(file) /\ UNCHANGED disk

\* Plausible defect: the file is not looked for before a key is made.
GenerateKeyAlways(k) ==
    /\ k \notin shown
    /\ Begin(k)
    /\ file' = k
    /\ UNCHANGED unwritten

\* A write that throws is ignored.
GenerateKey(k) ==
    /\ file = NoKey
    /\ k \notin shown
    /\ Begin(k)
    /\ \/ file' = k /\ UNCHANGED unwritten
       \/ WritesCanFail /\ UNCHANGED file /\ unwritten' = unwritten \cup {k}

-----------------------------------------------------------------------------
(* waitForFunds *)

Exit == pc' = "down" /\ UNCHANGED << disk, kp, waited, nextAirdrop, polls, runs >>

\* Not funded within the window: exit 2.
GiveUp == pc = "funding" /\ waited >= WaitLimit /\ Exit /\ UNCHANGED << world, reports >>

\* The request may be refused; its funds, if any, arrive when they do (Fund).
RequestAirdrop ==
    /\ pc = "funding" /\ waited < WaitLimit /\ waited >= nextAirdrop
    /\ nextAirdrop' = waited + AirdropEvery
    /\ pc' = "balance"
    /\ UNCHANGED << disk, kp, waited, polls, runs, world, reports >>

NoAirdropDue ==
    /\ pc = "funding" /\ waited < WaitLimit /\ waited < nextAirdrop
    /\ pc' = "balance"
    /\ UNCHANGED << disk, kp, waited, nextAirdrop, polls, runs, world, reports >>

Funded ==
    /\ pc = "balance" /\ kp \in funded
    /\ pc' = "simulating"
    /\ UNCHANGED << disk, kp, waited, nextAirdrop, polls, runs, world, reports >>

\* Plausible defect: the window starts again with every iteration.
SleepRestartsWindow ==
    /\ pc = "balance"
    /\ pc' = "funding"
    /\ UNCHANGED << disk, kp, waited, nextAirdrop, polls, runs, world, reports >>

\* No balance, or getBalance threw, which counts as none.
Sleep ==
    /\ pc = "balance"
    /\ waited' = waited + 1
    /\ pc' = "funding"
    /\ UNCHANGED << disk, kp, nextAirdrop, polls, runs, world, reports >>

-----------------------------------------------------------------------------
(* The marker transfer *)

\* agent.simulate() found it ok; grant and sign follow without a port call.
SimulatedOk ==
    /\ pc = "simulating"
    /\ pc' = "building"
    /\ UNCHANGED << disk, kp, waited, nextAirdrop, polls, runs, world, reports >>

\* The simulation failed (grantApproval then throws) or a port threw: nothing
\* catches it, and the process ends.
Dies == pc \in {"simulating", "building"} /\ Exit /\ UNCHANGED << world, reports >>

\* agent.broadcast(): sendRawTransaction accepted the transaction built for it.
Sent ==
    /\ pc = "building"
    /\ txs' = Append(txs, [run |-> runs, status |-> "processing"])
    /\ pc' = "polling" /\ polls' = 0
    /\ UNCHANGED << disk, kp, waited, nextAirdrop, runs, shown, funded, reports >>

\* It was accepted but the answer got lost: broadcast() throws, the process ends.
SentUnanswered ==
    /\ pc = "building"
    /\ txs' = Append(txs, [run |-> runs, status |-> "processing"])
    /\ Exit
    /\ UNCHANGED << shown, funded, reports >>

\* The agent records the result, and the receipt is printed.
Report(status) ==
    /\ reports' = Append(reports, [tx |-> Len(txs), status |-> status])
    /\ Exit

PollAnswers ==
    /\ pc = "polling" /\ polls < PollLimit
    /\ txs[Len(txs)].status \in {"confirmed", "failed"}
    /\ Report(txs[Len(txs)].status)
    /\ UNCHANGED world

\* Not there yet, or getSignatureStatuses threw.
PollAgain ==
    /\ pc = "polling" /\ polls < PollLimit
    /\ polls' = polls + 1
    /\ UNCHANGED << disk, pc, kp, waited, nextAirdrop, runs, world, reports >>

\* Plausible defect: a transaction not seen confirmed counts as failed.
PollTimesOutFailed ==
    /\ pc = "polling" /\ polls >= PollLimit
    /\ Report("failed")
    /\ UNCHANGED world

\* Plausible defect: a transaction not seen confirmed is sent again.
PollTimesOutResends ==
    /\ pc = "polling" /\ polls >= PollLimit
    /\ pc' = "building"
    /\ UNCHANGED << disk, kp, waited, nextAirdrop, polls, runs, world, reports >>

\* pollSig returned null; s?.err is undefined.
PollTimesOut ==
    /\ pc = "polling" /\ polls >= PollLimit
    /\ Report("confirmed")
    /\ UNCHANGED world

-----------------------------------------------------------------------------
(* The world *)

Kill == pc # "down" /\ Exit /\ UNCHANGED << world, reports >>

\* An airdrop arrives, or somebody funds a printed address.
Fund(k) ==
    /\ k \in shown
    /\ funded' = funded \cup {k}
    /\ UNCHANGED << disk, pc, kp, waited, nextAirdrop, polls, runs, shown, txs, reports >>

\* The cluster confirms a transaction, runs it with an error, or drops it when
\* its blockhash expires.
ClusterDecides(i, status) ==
    /\ txs[i].status = "processing"
    /\ txs' = [txs EXCEPT ![i].status = status]
    /\ UNCHANGED << disk, pc, kp, waited, nextAirdrop, polls, runs, shown, funded,
                    reports >>

Process ==
    \/ GiveUp \/ RequestAirdrop \/ NoAirdropDue \/ Funded \/ Sleep
    \/ SimulatedOk \/ Dies \/ Sent \/ SentUnanswered
    \/ PollAnswers \/ PollAgain \/ PollTimesOut

RunnerNext ==
    \/ LoadKey \/ (\E k \in Keys : GenerateKey(k))
    \/ Process \/ Kill
    \/ \E k \in Keys : Fund(k)
    \/ \E i \in 1..Len(txs), s \in {"confirmed", "failed", "dropped"} : ClusterDecides(i, s)

\* Every await of the process is answered; nothing else has to happen.
RunnerSpec == RunnerInit /\ [][RunnerNext]_runnerVars /\ WF_runnerVars(Process)

-----------------------------------------------------------------------------
\* "A stable devnet address that survives restarts, so funds can never be
\* stranded by an exited process": whoever has funds is the running process or
\* the key the next one loads, or else its key is one that could not be written;
\* the error of that write is swallowed, and the claim does not hold for it.
FundsReachable ==
    \A k \in funded : k = file \/ (pc # "down" /\ k = kp) \/ k \in unwritten

\* A broadcast receipt that says confirmed is of a transaction the cluster
\* confirmed ("Receipts prove what executed", README).
ConfirmedReportsAreTrue ==
    \A i \in 1..Len(reports) :
        reports[i].status = "confirmed" => txs[reports[i].tx].status = "confirmed"

\* A receipt that says failed is of a transaction that did fail, and not of one
\* that was only slow.
FailedReportsAreTrue ==
    \A i \in 1..Len(reports) :
        reports[i].status = "failed" => txs[reports[i].tx].status = "failed"

\* One start of the runner moves lamports at most once, however long the cluster
\* keeps it waiting.
OneMarkerPerRun == \A i, j \in 1..Len(txs) : txs[i].run = txs[j].run => i = j

\* Why these hold.  Every address ever printed is the one in the file or one whose
\* write threw, and a process holds such a key; a process that has not sent yet
\* finds no transaction of its own start on the cluster, and one that polls finds
\* its own at the end.  Inductive with the three above.
RunnerInv ==
    /\ TypeOK
    /\ \A k \in shown : k = file \/ k \in unwritten
    /\ file # NoKey => file \in shown
    /\ pc # "down" => kp \in shown
    /\ \A i \in 1..Len(txs) : txs[i].run <= runs
    /\ pc \in {"funding", "balance", "simulating", "building"} =>
          \A i \in 1..Len(txs) : txs[i].run < runs
    /\ pc = "polling" => Len(txs) > 0
    /\ OneMarkerPerRun /\ FailedReportsAreTrue

\* The runner ends by itself, funded or not, confirmed or not.
RunEnds == pc # "down" ~> pc = "down"

=============================================================================
