---------------------------- MODULE GovernedAgent ----------------------------
(***************************************************************************)
(* GovernedSolanaAgent of kit.mjs: one agent object, driven by a host.     *)
(*                                                                         *)
(* The host is a set of Tasks (concurrent callers).  A task awaits every   *)
(* call it makes, so with one task the agent is used the way the README    *)
(* and the examples use it, and with two tasks the calls interleave at     *)
(* their awaits.  JavaScript runs a handler up to its next await without   *)
(* interruption: simulate, sign and broadcast are each an action up to     *)
(* the port call and an action for what follows the port's answer; what    *)
(* follows reads and writes this.state as it is THEN.                      *)
(*                                                                         *)
(* issued, simOK, signerCalls, submitted and confirmed record what the      *)
(* outside world saw; no action reads them except to number nonces.        *)
(***************************************************************************)
EXTENDS Integers, Sequences, FiniteSets, Receipts

CONSTANTS
    Tasks,      \* concurrent callers of the host program
    Bodies,     \* contents a transaction plan can have
    Hashes,     \* values hashPlan can take
    HashPlan,   \* hashPlan, a function on Bodies
    Decide,     \* evaluatePlan under the injected policy: the decision
    Ttls,       \* lifetimes the human gives a grant
    Txs,        \* transactions a host hands to broadcast(), named by the plan they
                \* carry out; None where it hands none
    MaxPlans,   \* bound: plan() calls
    MaxGrants,  \* bound: grantApproval() calls
    MaxTime,    \* bound: the injected clock
    MaxEdits,   \* bound: host edits of objects the agent holds by reference
    MaxForces   \* bound: host writes state.lifecycle = APPROVED

Decisions == {"allow", "simulate_only", "needs_approval", "deny"}

ASSUME HashAssumption ==
    /\ HashPlan \in [Bodies -> Hashes]
    /\ \A a, b \in Bodies : HashPlan[a] = HashPlan[b] => a = b
ASSUME DecideAssumption == Decide \in [Bodies -> Decisions]
ASSUME NoneAssumption == None \notin Bodies /\ None \notin Hashes
ASSUME TxsAssumption == Txs # {} /\ Txs \subseteq Bodies \cup {None}
ASSUME BoundsAssumption ==
    /\ Ttls \subseteq Nat
    /\ {MaxPlans, MaxGrants, MaxTime, MaxEdits, MaxForces} \subseteq Nat

VARIABLES
    state,        \* this.state; run numbers the plan() call that made it
    ledger,       \* this.ledger
    nonceStore,   \* this.nonceStore: consumed nonces
    now,          \* this.now()
    call,         \* the port call each task is awaiting
    issued,       \* tokens as issued, in order; the nonce is the position
    simOK,        \* runs and hashes whose simulation the port found ok
    signerCalls,  \* calls of signer.sign
    submitted,    \* sendSigned calls the cluster accepted a transaction from: the plan and
                  \* signature the port was handed, and the bytes it sent
    confirmed,    \* nonces of the submissions the cluster confirmed
    edits, forces \* how often the host interfered

outside == << issued, simOK, signerCalls, submitted, confirmed >>
interference == << edits, forces >>
vars == << state, ledger, nonceStore, now, call, outside, interference >>

-----------------------------------------------------------------------------
(* Types *)

Lifecycle == {"none", "PLANNED", "SIMULATED", "AWAITING_APPROVAL", "APPROVED",
              "SIGNED", "CONFIRMED", "REJECTED", "FAILED"}

Payloads == [planHash : Hashes, nonce : Nat \ {0}, expiresAt : Nat]
Tokens == [planHash : Hashes, nonce : Nat \ {0}, expiresAt : Nat, signature : Payloads]

StateType ==
    [run : Nat, lifecycle : Lifecycle, plan : Bodies \cup {None},
     planHash : Hashes \cup {None}, decision : Decisions \cup {"none"},
     simulation : {"null", "ok", "failed"}, approval : Tokens \cup {NoToken},
     signature : Hashes \cup {None}, broadcast : {"null", "confirmed", "failed"}]

CallType ==
    [op : {"idle", "simulate", "sign", "send", "confirm"}, run : Nat,
     plan : Bodies \cup {None}, hash : Hashes \cup {None}, nonce : Nat,
     tx : Bodies \cup {None}]

Idle == [op |-> "idle", run |-> 0, plan |-> None, hash |-> None, nonce |-> 0, tx |-> None]

NoState ==
    [run |-> 0, lifecycle |-> "none", plan |-> None, planHash |-> None,
     decision |-> "none", simulation |-> "null", approval |-> NoToken,
     signature |-> None, broadcast |-> "null"]

Steps == {"plan", "simulate", "await_approval", "sign", "broadcast"}
Statuses == {"prepared", "simulated", "succeeded", "failed", "rejected", "needs_human_review"}
Failures == {"null", "policy_denied", "simulation_failed", "approval_invalid",
             "broadcast_failed", "broadcast_error"}
ReceiptBodies ==
    [receipt_id : Nat, step : Steps, status : Statuses, plan : Bodies \cup {None},
     policy_decision : Decisions \cup {"none"},
     mode : {"execute_with_human_approval", "prepare", "simulate"}, grant_id : Nat,
     approval_state : {"not_required", "approved", "required"},
     token_digest : {"absent", "digest", "redacted"},
     simulation_status : {"simulated_ok", "simulation_failed", "not_simulated"},
     broadcast : BOOLEAN, failure : Failures, human_review_required : BOOLEAN]
Digests == [sha256 : ReceiptBodies \cup {None}]
SealedReceipts ==
    [body : ReceiptBodies, previous_hash : Digests, receipt_hash : Digests]

\* Every variable has its type; in particular state.lifecycle is one of the
\* values of Lifecycle and every receipt one the schema knows.
TypeOK ==
    /\ state \in StateType
    /\ ledger \in Seq(SealedReceipts)
    /\ nonceStore \subseteq Nat
    /\ now \in Nat
    /\ call \in [Tasks -> CallType]
    /\ issued \in Seq(Tokens)
    /\ simOK \subseteq [run : Nat, hash : Hashes]
    /\ signerCalls \in Seq([nonce : Nat, hash : Hashes, at : Nat])
    /\ submitted \in Seq([run : Nat, plan : Bodies, signature : Hashes \cup {None},
                          nonce : Nat, bytes : Bodies])
    /\ confirmed \subseteq Nat
    /\ edits \in Nat /\ forces \in Nat

-----------------------------------------------------------------------------
(* Helpers of the handlers *)

HostIdle(t) == call[t].op = "idle"

AssertState(allowed) == state.lifecycle \in allowed

Terminal == {"CONFIRMED", "REJECTED", "FAILED"}

\* state.approval is set (and its granted flag is true whenever it is).
HasGrant(st) == st.approval.nonce # 0

\* #emit: append the receipt of a step taken in state st.  token is NoToken
\* when the caller passes no approval; granted is the flag it passes with it.
Emit(st, step, status, token, granted, broadcast, failure) ==
    ledger' = AppendReceipt(ledger,
                BuildStepReceipt(Len(ledger) + 1,
                    [step |-> step, status |-> status, plan |-> st.plan,
                     decision |-> st.decision, simulation |-> st.simulation,
                     token |-> token, granted |-> granted,
                     broadcast |-> broadcast, failure |-> failure]))

\* Plausible defect: every simulated plan goes to the human.
AfterAnySimulation(decision) == "AWAITING_APPROVAL"

\* Where a successful simulation leaves the lifecycle.
AfterSimulation(decision) ==
    IF decision = "needs_approval" THEN "AWAITING_APPROVAL" ELSE "SIMULATED"

AfterPlan(decision) == IF decision = "deny" THEN "REJECTED" ELSE "PLANNED"

\* Plausible defect: a refused transaction counts as a confirmed one.
AfterAnyBroadcast(confirmation) == "CONFIRMED"

AfterBroadcast(confirmation) ==
    IF confirmation = "failed" THEN "FAILED" ELSE "CONFIRMED"

-----------------------------------------------------------------------------
Init ==
    /\ state = NoState
    /\ ledger = << >>
    /\ nonceStore = {}
    /\ now = 0
    /\ call = [t \in Tasks |-> Idle]
    /\ issued = << >>
    /\ simOK = {}
    /\ signerCalls = << >>
    /\ submitted = << >>
    /\ confirmed = {}
    /\ edits = 0 /\ forces = 0

\* The clock the host injects moves on.
Tick ==
    /\ now < MaxTime
    /\ now' = now + 1
    /\ UNCHANGED << state, ledger, nonceStore, call, outside, interference >>

-----------------------------------------------------------------------------
(* plan(): no guard on the lifecycle; this.state is replaced. *)

Plan(t, b) ==
    /\ HostIdle(t)
    /\ state.run < MaxPlans
    /\ LET d  == Decide[b]
           st == [NoState EXCEPT !.run = state.run + 1, !.lifecycle = AfterPlan(d),
                                 !.plan = b, !.planHash = HashPlan[b], !.decision = d]
       IN  /\ state' = st
           /\ Emit(st, "plan", IF d = "deny" THEN "rejected" ELSE "prepared",
                   NoToken, FALSE, "null",
                   IF d = "deny" THEN "policy_denied" ELSE "null")
    /\ UNCHANGED << nonceStore, now, call, outside, interference >>

-----------------------------------------------------------------------------
(* simulate() *)

\* Plausible defect: a failed run may be simulated again, as the receipt's
\* recovery hint (fix_instructions_and_resimulate) would suggest.
SimulatableAlsoFailed == {"PLANNED", "FAILED"}

Simulatable == {"PLANNED"}

\* Up to connection.simulate(this.state.plan).
Simulate(t) ==
    /\ HostIdle(t)
    /\ AssertState(Simulatable)
    /\ call' = [call EXCEPT ![t] = [Idle EXCEPT !.op = "simulate", !.run = state.run,
                                                !.plan = state.plan]]
    /\ UNCHANGED << state, ledger, nonceStore, now, outside, interference >>

\* The port found the transaction ok: whatever this.state is now, it becomes
\* simulated.
SimulateOk(t) ==
    /\ call[t].op = "simulate"
    /\ LET lc == AfterSimulation(state.decision)
           st == [state EXCEPT !.simulation = "ok", !.lifecycle = lc]
       IN  /\ state' = st
           /\ Emit(st, "simulate",
                   IF lc = "AWAITING_APPROVAL" THEN "needs_human_review" ELSE "simulated",
                   NoToken, FALSE, "null", "null")
    /\ simOK' = simOK \cup {[run |-> call[t].run, hash |-> HashPlan[call[t].plan]]}
    /\ call' = [call EXCEPT ![t] = Idle]
    /\ UNCHANGED << nonceStore, now, issued, signerCalls, submitted,
                    confirmed, interference >>

\* Plausible defect: a failed simulation is reported but does not stop the run.
SimulateFailedContinues(t) ==
    /\ call[t].op = "simulate"
    /\ LET st == [state EXCEPT !.simulation = "failed",
                               !.lifecycle = AfterSimulation(state.decision)]
       IN  /\ state' = st
           /\ Emit(st, "simulate", "failed", NoToken, FALSE, "null", "simulation_failed")
    /\ call' = [call EXCEPT ![t] = Idle]
    /\ UNCHANGED << nonceStore, now, outside, interference >>

\* The port found that the transaction would fail.
SimulateFailed(t) ==
    /\ call[t].op = "simulate"
    /\ LET st == [state EXCEPT !.simulation = "failed", !.lifecycle = "FAILED"]
       IN  /\ state' = st
           /\ Emit(st, "simulate", "failed", NoToken, FALSE, "null", "simulation_failed")
    /\ call' = [call EXCEPT ![t] = Idle]
    /\ UNCHANGED << nonceStore, now, outside, interference >>

\* The port threw (no connection, translate failed): nothing is recorded.
SimulateThrows(t) ==
    /\ call[t].op = "simulate"
    /\ call' = [call EXCEPT ![t] = Idle]
    /\ UNCHANGED << state, ledger, nonceStore, now, outside, interference >>

-----------------------------------------------------------------------------
(* grantApproval(): synchronous; the human's grant. *)

GrantApproval(t, ttl) ==
    /\ HostIdle(t)
    /\ Len(issued) < MaxGrants
    /\ AssertState({"AWAITING_APPROVAL"})
    /\ LET token == IssueApprovalToken(state.planHash, Len(issued) + 1, ttl, now)
           st    == [state EXCEPT !.approval = token, !.lifecycle = "APPROVED"]
       IN  /\ issued' = Append(issued, token)
           /\ state' = st
           /\ Emit(st, "await_approval", "prepared", token, TRUE, "null", "null")
    /\ UNCHANGED << nonceStore, now, call, simOK, signerCalls, submitted,
                    confirmed, interference >>

-----------------------------------------------------------------------------
(* sign() *)

Verdict == VerifyApprovalToken(state.approval, state.planHash, now, nonceStore)

\* The token is valid: its nonce is consumed and signer.sign is called, all
\* before the await.
SignAccepted(t) ==
    /\ HostIdle(t)
    /\ state.lifecycle = "APPROVED"
    /\ Verdict = "valid"
    /\ nonceStore' = Consume(nonceStore, state.approval.nonce)
    /\ signerCalls' = Append(signerCalls, [nonce |-> state.approval.nonce,
                                           hash |-> state.planHash, at |-> now])
    /\ call' = [call EXCEPT ![t] = [Idle EXCEPT !.op = "sign", !.run = state.run,
                                                !.hash = state.planHash]]
    /\ UNCHANGED << state, ledger, now, issued, simOK, submitted,
                    confirmed, interference >>

\* Plausible defect: the refusal throws before it is recorded.
SignRefusedSilently(t) ==
    /\ HostIdle(t)
    /\ state.lifecycle = "APPROVED"
    /\ Verdict # "valid"
    /\ UNCHANGED vars

\* Plausible defect: the run is rejected but leaves no receipt.
SignRefusedUnrecorded(t) ==
    /\ HostIdle(t)
    /\ state.lifecycle = "APPROVED"
    /\ Verdict # "valid"
    /\ state' = [state EXCEPT !.lifecycle = "REJECTED"]
    /\ UNCHANGED << ledger, nonceStore, now, call, outside, interference >>

\* The token is not valid: the run is rejected and the refusal recorded.
SignRefused(t) ==
    /\ HostIdle(t)
    /\ state.lifecycle = "APPROVED"
    /\ Verdict # "valid"
    /\ LET st == [state EXCEPT !.lifecycle = "REJECTED"]
       IN  /\ state' = st
           /\ Emit(st, "sign", "rejected", state.approval, FALSE, "null", "approval_invalid")
    /\ UNCHANGED << nonceStore, now, call, outside, interference >>

\* The signature arrives: it goes to whatever this.state is now.
SignReturns(t) ==
    /\ call[t].op = "sign"
    /\ LET st == [state EXCEPT !.signature = call[t].hash, !.lifecycle = "SIGNED"]
       IN  /\ state' = st
           /\ Emit(st, "sign", "prepared", st.approval, HasGrant(st), "null", "null")
    /\ call' = [call EXCEPT ![t] = Idle]
    /\ UNCHANGED << nonceStore, now, outside, interference >>

\* The signer threw: the nonce is spent, the lifecycle stays, no receipt.
SignThrows(t) ==
    /\ call[t].op = "sign"
    /\ call' = [call EXCEPT ![t] = Idle]
    /\ UNCHANGED << state, ledger, nonceStore, now, outside, interference >>

-----------------------------------------------------------------------------
(* broadcast() and the sendSigned port *)

\* Plausible defect: the guard forgets that signing comes first.
BroadcastableAlsoApproved == {"APPROVED", "SIGNED"}

Broadcastable == {"SIGNED"}

\* Up to connection.sendSigned(this.state.plan, this.state.signature, signedTx); the
\* transaction is the host's, and the agent passes it on unseen.
Broadcast(t, tx) ==
    /\ HostIdle(t)
    /\ AssertState(Broadcastable)
    /\ call' = [call EXCEPT ![t] =
          [op |-> "send", run |-> state.run, plan |-> state.plan,
           hash |-> state.signature, nonce |-> state.approval.nonce, tx |-> tx]]
    /\ UNCHANGED << state, ledger, nonceStore, now, outside, interference >>

\* What a port has to send: the mock takes the plan for the transaction, the web3
\* adapter sends the host's and looks at neither plan nor signature.
Sendable(t) == {call[t].plan} \cup ({call[t].tx} \ {None})

\* The cluster accepted what the port sent; its confirmation is under way.
Submit(t, bytes) ==
    /\ call[t].op = "send"
    /\ submitted' = Append(submitted, [run |-> call[t].run, plan |-> call[t].plan,
                                       signature |-> call[t].hash, nonce |-> call[t].nonce,
                                       bytes |-> bytes])
    /\ call' = [call EXCEPT ![t].op = "confirm"]
    /\ UNCHANGED << state, ledger, nonceStore, now, issued, simOK, signerCalls,
                    confirmed, interference >>

\* sendSigned resolved: the cluster confirmed the transaction, or ran it and
\* reported an error.
BroadcastReturns(t, confirmation) ==
    /\ call[t].op = "confirm"
    /\ LET lc == AfterBroadcast(confirmation)
           st == [state EXCEPT !.broadcast = confirmation, !.lifecycle = lc]
       IN  /\ state' = st
           /\ Emit(st, "broadcast", IF lc = "CONFIRMED" THEN "succeeded" ELSE "failed",
                   st.approval, HasGrant(st), confirmation,
                   IF lc = "FAILED" THEN "broadcast_failed" ELSE "null")
    /\ confirmed' = IF confirmation = "confirmed" THEN confirmed \cup {call[t].nonce}
                                                  ELSE confirmed
    /\ call' = [call EXCEPT ![t] = Idle]
    /\ UNCHANGED << nonceStore, now, issued, simOK, signerCalls,
                    submitted, interference >>

\* Plausible defect: the error is rethrown and the run left where it was.
BroadcastThrowsUnrecorded(t) ==
    /\ call[t].op \in {"send", "confirm"}
    /\ call' = [call EXCEPT ![t] = Idle]
    /\ UNCHANGED << state, ledger, nonceStore, now, outside, interference >>

\* sendSigned threw, before the transaction was accepted or after it: the
\* catch block cannot tell.
BroadcastThrows(t) ==
    /\ call[t].op \in {"send", "confirm"}
    /\ LET st == [state EXCEPT !.lifecycle = "FAILED"]
       IN  /\ state' = st
           /\ Emit(st, "broadcast", "failed", st.approval, HasGrant(st), "null",
                   "broadcast_error")
    /\ call' = [call EXCEPT ![t] = Idle]
    /\ UNCHANGED << nonceStore, now, outside, interference >>

-----------------------------------------------------------------------------
(* The host writes objects it shares with the agent. *)

\* state.lifecycle = APPROVED, as the replay test and the demo do.
ForceApproved ==
    /\ forces < MaxForces
    /\ HasGrant(state)
    /\ state' = [state EXCEPT !.lifecycle = "APPROVED"]
    /\ forces' = forces + 1
    /\ UNCHANGED << ledger, nonceStore, now, call, edits, outside >>

\* The plan object handed to plan() is kept by reference and edited.
EditPlan(b) ==
    /\ edits < MaxEdits
    /\ state.run > 0
    /\ state' = [state EXCEPT !.plan = b]
    /\ edits' = edits + 1
    /\ UNCHANGED << ledger, nonceStore, now, call, forces, outside >>

\* The token object grantApproval returned is state.approval.token and edited.
EditToken(h, n, e) ==
    /\ edits < MaxEdits
    /\ HasGrant(state)
    /\ state' = [state EXCEPT !.approval.planHash = h, !.approval.nonce = n,
                              !.approval.expiresAt = e]
    /\ edits' = edits + 1
    /\ UNCHANGED << ledger, nonceStore, now, call, forces, outside >>

HostEdits ==
    \/ \E b \in Bodies : EditPlan(b)
    \/ \E h \in Hashes, n \in 1..(MaxGrants + 1), e \in 0..(MaxTime + 1) : EditToken(h, n, e)

-----------------------------------------------------------------------------
HostCalls(t) ==
    \/ \E b \in Bodies : Plan(t, b)
    \/ Simulate(t)
    \/ \E ttl \in Ttls : GrantApproval(t, ttl)
    \/ SignAccepted(t)
    \/ SignRefused(t)
    \/ \E tx \in Txs : Broadcast(t, tx)

PortAnswers(t) ==
    \/ SimulateOk(t)
    \/ SimulateFailed(t)
    \/ SimulateThrows(t)
    \/ SignReturns(t)
    \/ SignThrows(t)
    \/ \E bytes \in Sendable(t) : Submit(t, bytes)
    \/ \E c \in {"confirmed", "failed"} : BroadcastReturns(t, c)
    \/ BroadcastThrows(t)

Next ==
    \/ \E t \in Tasks : HostCalls(t) \/ PortAnswers(t)
    \/ Tick
    \/ ForceApproved
    \/ HostEdits

Spec == Init /\ [][Next]_vars

\* The host takes the next step of the flow whenever the agent is ready for it,
\* and every port call is answered; a simulation that keeps throwing and is
\* retried for ever is excluded.  No fairness on plan(), the human's grant, the
\* clock, the edits.
FairSpec ==
    /\ Spec
    /\ \A t \in Tasks :
        /\ WF_vars(Simulate(t))
        /\ WF_vars(SignAccepted(t) \/ SignRefused(t))
        /\ WF_vars(\E tx \in Txs : Broadcast(t, tx))
        /\ WF_vars(PortAnswers(t))
        /\ SF_vars(SimulateOk(t) \/ SimulateFailed(t))

-----------------------------------------------------------------------------
(* Safety under any interleaving and with a meddling host *)

\* Single use (policy.mjs: "single-use nonce anti-replay"): no two calls of
\* signer.sign were made on the same approval token, however many sign() calls
\* overlap and however often the lifecycle is forced back to APPROVED.
ApprovalIsSingleUse ==
    \A i, j \in 1..Len(signerCalls) :
        signerCalls[i].nonce = signerCalls[j].nonce => i = j

\* Plan binding and TTL: what the signer was asked to sign is what a human
\* granted, under the nonce of that grant and within its lifetime, even if the
\* token object was edited between grantApproval and sign.
SignedOnlyAsGranted ==
    \A i \in 1..Len(signerCalls) :
        LET c == signerCalls[i] IN
        /\ c.nonce \in 1..Len(issued)
        /\ c.hash = issued[c.nonce].planHash
        /\ c.at <= issued[c.nonce].expiresAt

\* The signer is only ever asked to sign plans that policy put to a human:
\* never a denied, simulate-only or allowed one.
PolicyBoundsSigning ==
    \A i \in 1..Len(signerCalls) :
        \E b \in Bodies : HashPlan[b] = signerCalls[i].hash
                          /\ Decide[b] = "needs_approval"

\* verifyReceipts() answers verified in every reachable state, also while calls
\* are under way.
ChainVerifies == VerifyChain(ledger)

\* The lifecycle a receipt reports.
ReportedLifecycle(r) ==
    CASE r.step = "plan"           -> IF r.status = "rejected" THEN "REJECTED" ELSE "PLANNED"
      [] r.step = "simulate"       -> CASE r.status = "failed"    -> "FAILED"
                                        [] r.status = "simulated" -> "SIMULATED"
                                        [] OTHER                  -> "AWAITING_APPROVAL"
      [] r.step = "await_approval" -> "APPROVED"
      [] r.step = "sign"           -> IF r.status = "rejected" THEN "REJECTED" ELSE "SIGNED"
      [] r.step = "broadcast"      -> IF r.status = "succeeded" THEN "CONFIRMED" ELSE "FAILED"

\* kit.mjs, invariant 3, "every state transition appends a hash-chained receipt":
\* the head of the ledger always tells the lifecycle the agent is in, and the
\* decision it is under, whichever task's answer came last.  (Unless the host
\* forced the lifecycle.)
LedgerTellsLifecycle ==
    forces = 0 /\ state.run > 0 =>
        /\ ledger # << >>
        /\ LET r == ledger[Len(ledger)].body
           IN  /\ ReportedLifecycle(r) = state.lifecycle
               /\ r.policy_decision = state.decision

-----------------------------------------------------------------------------
(* Why these hold: an inductive invariant *)

\* h is the hash of a plan about which policy decided d.
DecidedFor(h, d) == \E b \in Bodies : HashPlan[b] = h /\ Decide[b] = d

\* A started run holds a plan and the decision on the plan it was started with;
\* only a started run has a grant or calls under way; a call holds what it sends.
RunInv ==
    /\ state.lifecycle # "none" =>
          state.plan \in Bodies /\ DecidedFor(state.planHash, state.decision)
    /\ HasGrant(state) => state.lifecycle # "none"
    /\ \A t \in Tasks :
          /\ call[t].op # "idle" => state.lifecycle # "none"
          /\ call[t].op \in {"simulate", "send", "confirm"} => call[t].plan \in Bodies
          /\ call[t].op = "sign" => call[t].hash \in Hashes

\* Grants are given only for plans policy put to a human, and the signature on
\* the token in hand is the one of a grant, whatever became of its fields.
GrantInv ==
    /\ state.lifecycle = "AWAITING_APPROVAL" => state.decision = "needs_approval"
    /\ \A k \in 1..Len(issued) :
          issued[k].nonce = k /\ DecidedFor(issued[k].planHash, "needs_approval")
    /\ HasGrant(state) =>
          \E k \in 1..Len(issued) :
              state.approval.signature = CanonicalApprovalPayload(issued[k])

\* The nonce of every signer call is consumed.
SignerInv ==
    \A i \in 1..Len(signerCalls) : signerCalls[i].nonce \in nonceStore

IInv == TypeOK /\ RunInv /\ GrantInv /\ SignerInv /\ ApprovalIsSingleUse
          /\ SignedOnlyAsGranted

-----------------------------------------------------------------------------
(* Safety for a host that awaits one call before it makes the next *)

\* kit.mjs, invariant 1, "no broadcast without a successful simulation": the plan a
\* transaction was submitted for was simulated ok, in the same run.
SubmitOnlySimulated ==
    \A i \in 1..Len(submitted) :
        [run |-> submitted[i].run, hash |-> HashPlan[submitted[i].plan]] \in simOK

\* What the agent hands to its connection when a transaction is submitted is what was
\* approved: the plan a human granted, under the consumed nonce of that grant, and the
\* signature of that plan.
SubmitMatchesApproval ==
    \A i \in 1..Len(submitted) :
        LET s == submitted[i] IN
        /\ s.nonce \in 1..Len(issued) /\ s.nonce \in nonceStore
        /\ HashPlan[s.plan] = issued[s.nonce].planHash
        /\ s.signature = issued[s.nonce].planHash

\* One grant, at most one transaction on the cluster ("SIGN + BROADCAST - now
\* permitted, exactly once", solana-launch-agent.mjs).
SubmitOncePerGrant ==
    \A i, j \in 1..Len(submitted) : submitted[i].nonce = submitted[j].nonce => i = j

\* A run marked SIGNED carries its own, consumed, approval and the signature of
\* its own plan (kit.mjs, invariant 2).
SignedRunIsApproved ==
    state.lifecycle = "SIGNED" =>
        /\ HasGrant(state)
        /\ state.approval.planHash = state.planHash
        /\ state.approval.nonce \in nonceStore
        /\ state.signature = state.planHash

\* A run that was confirmed, rejected or failed never moves again; only plan()
\* starts another.
TerminalIsFinal ==
    [][ state.lifecycle \in Terminal /\ state'.run = state.run
            => state'.lifecycle = state.lifecycle ]_vars

\* A receipt in mode execute_with_human_approval is true: its grant was issued
\* for that plan and consumed, the plan was simulated, the cluster confirmed a
\* submission made for it under that grant, and no other such receipt cites the grant.
ExecutionReceiptsAreTrue ==
    \A i \in 1..Len(ledger) :
        LET r == ledger[i].body IN
        r.mode = "execute_with_human_approval" =>
            /\ r.approval_state = "approved" /\ r.simulation_status = "simulated_ok"
            /\ r.grant_id \in nonceStore \cap confirmed
            /\ \E k \in 1..Len(submitted) :
                  submitted[k].nonce = r.grant_id /\ submitted[k].plan = r.plan
            /\ \A j \in 1..Len(ledger) :
                  ledger[j].body.mode = r.mode /\ ledger[j].body.grant_id = r.grant_id
                      => i = j

\* idempotency_key is planId.step: within a run no two receipts share one, so a
\* consumer that drops a repeated key loses nothing of that run.  (A second run
\* of the same plan repeats all of them.)
IdempotencyKeysAreUnique ==
    \A i, j \in 1..Len(ledger) :
        i < j /\ ledger[i].body.step = ledger[j].body.step
            => \E k \in (i + 1)..j : ledger[k].body.step = "plan"

-----------------------------------------------------------------------------
(* Why these hold: what such a host adds to the inductive invariant *)

\* One call at a time, and nothing handed to the agent is edited afterwards.
AwaitingHost == (\A s, t \in Tasks : s = t) /\ MaxEdits = 0

\* And the lifecycle is left to the agent.
WellBehavedHost == AwaitingHost /\ MaxForces = 0

\* The simulation of the current plan came back ok.
Simulated ==
    /\ state.simulation = "ok"
    /\ [run |-> state.run, hash |-> state.planHash] \in simOK

\* The run has the plan, hash and decision it was started with, and a grant only
\* for that hash and after the simulation.
RunIntact ==
    /\ state.lifecycle # "none" =>
          HashPlan[state.plan] = state.planHash /\ Decide[state.plan] = state.decision
    /\ state.lifecycle = "PLANNED" => ~HasGrant(state)
    /\ state.lifecycle \in {"APPROVED", "SIGNED"} => HasGrant(state)
    /\ state.lifecycle = "AWAITING_APPROVAL" => Simulated
    /\ HasGrant(state) =>
          /\ Simulated
          /\ state.approval.planHash = state.planHash
          /\ state.approval.nonce \in 1..Len(issued)
          /\ issued[state.approval.nonce].planHash = state.planHash

\* The nonces transactions were sent under.
SentNonces == {submitted[i].nonce : i \in 1..Len(submitted)}

\* The grant in hand is spent on a signature, but not on a transaction yet.
Unsent == HasGrant(state) /\ state.approval.nonce \in nonceStore \ SentNonces

\* The plan of the run was sent under the grant in hand; the answer is out.
Sent ==
    /\ HasGrant(state) /\ state.approval.nonce \notin confirmed
    /\ \E i \in 1..Len(submitted) : /\ submitted[i].nonce = state.approval.nonce
                                    /\ submitted[i].plan = state.plan

\* A call carries what the run holds while it is awaited, and the lifecycle waits
\* for its answer (unless forced).
CallIntact(c) ==
    /\ c.op \in {"simulate", "send"} => c.run = state.run /\ c.plan = state.plan
    /\ c.op = "simulate" => state.lifecycle = "PLANNED"
    /\ c.op = "sign" =>
          state.lifecycle = "APPROVED" /\ c.hash = state.planHash /\ Unsent
    /\ c.op = "send" => c.hash = state.planHash /\ Unsent
    /\ c.op = "confirm" => Sent
    /\ c.op \in {"send", "confirm"} =>
          /\ c.nonce = state.approval.nonce
          /\ state.lifecycle = "SIGNED" \/ forces > 0

\* A signed run was not sent, unless it is being confirmed.
SignedIntact ==
    state.lifecycle = "SIGNED" =>
        /\ state.signature = state.planHash
        /\ Unsent \/ \E t \in Tasks : call[t].op = "confirm"

CallsIntact == \A t \in Tasks : CallIntact(call[t])

AwaitInv ==
    /\ RunIntact /\ SignedIntact /\ CallsIntact
    /\ confirmed \subseteq SentNonces
    /\ SubmitOnlySimulated /\ SubmitMatchesApproval /\ SubmitOncePerGrant

\* Where the lifecycle of a run stands as long as a step may still be taken.
Ahead(step) ==
    CASE step = "simulate"       -> {"PLANNED"}
      [] step = "await_approval" -> {"PLANNED", "AWAITING_APPROVAL"}
      [] step = "sign"           -> {"PLANNED", "AWAITING_APPROVAL", "APPROVED"}
      [] step = "broadcast"      -> {"PLANNED", "AWAITING_APPROVAL", "APPROVED", "SIGNED"}
      [] step = "plan"           -> {}

\* The ledger has a receipt of that step of the current run.
Taken(step) ==
    \E i \in 1..Len(ledger) :
        /\ ledger[i].body.step = step
        /\ \A k \in (i + 1)..Len(ledger) : ledger[k].body.step # "plan"

\* No step is ahead again once it was taken (unless the lifecycle is forced).
StepsAreBehind == \A step \in Steps : Taken(step) => state.lifecycle \notin Ahead(step)

-----------------------------------------------------------------------------
(* What nothing binds *)

\* kit.mjs on hashPlan, "binds approvals + signatures to exact bytes": the bytes that
\* reached the cluster are those of the plan a human approved.
SubmittedBytesAreApproved ==
    \A i \in 1..Len(submitted) :
        /\ submitted[i].nonce \in 1..Len(issued)
        /\ HashPlan[submitted[i].bytes] = issued[submitted[i].nonce].planHash

-----------------------------------------------------------------------------
(* What the receipts leave out *)

Quiet == \A t \in Tasks : HostIdle(t)

\* "Receipts prove what executed": when no call is under way, every transaction
\* on the cluster has a receipt that says it was broadcast.
ReceiptsCoverSubmissions ==
    Quiet => \A k \in 1..Len(submitted) :
                 \E i \in 1..Len(ledger) :
                     /\ ledger[i].body.broadcast
                     /\ ledger[i].body.grant_id = submitted[k].nonce

-----------------------------------------------------------------------------
(* Liveness *)

\* A run under way comes to rest: looked at only (SIMULATED), waiting for the
\* human, or in a terminal state.  It never hangs half-way, even if the signer
\* fails after the nonce is spent or the grant expires before it is used.
Settles ==
    state.lifecycle \in {"PLANNED", "APPROVED", "SIGNED"}
        ~> state.lifecycle \in Terminal \cup {"SIMULATED", "AWAITING_APPROVAL"}

=============================================================================
