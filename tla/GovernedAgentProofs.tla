------------------------ MODULE GovernedAgentProofs ------------------------
(***************************************************************************)
(* What holds of the governed agent for every set of tasks, plans and      *)
(* bounds.                                                                 *)
(*                                                                         *)
(* Whatever the interleaving, and however the host meddles with what it    *)
(* shares with the agent: IInv is inductive.  Its type part is TypeStep,   *)
(* RunInv is RunStep, GrantInv is GrantStep, and the three statements      *)
(* about the signer's calls are SignerStep, where ValidVerdict tells what  *)
(* the token checks establish: the signature ties every field of the token *)
(* in hand to the grant it was issued by (GrantInv), whoever edited it.    *)
(*                                                                         *)
(* For a host that awaits each call and edits nothing (AwaitingHost), also *)
(* if it forces the lifecycle: AwaitInv is inductive together with IInv    *)
(* (AwaitStep), and the execution receipts stay true (ReceiptsStep).       *)
(*                                                                         *)
(* For a host that leaves the lifecycle to the agent (WellBehavedHost):    *)
(* steps are taken in order and once (LedgerMoves, StepsStep), and each is *)
(* a step of ApprovalGate (GateStep).                                      *)
(***************************************************************************)
EXTENDS GateRefinement, SequenceTheorems, TLAPS

\* A receipt sealed into the ledger is typed.
LEMMA EmitTyped ==
    ASSUME ledger \in Seq(SealedReceipts), NEW st \in StateType, NEW step \in Steps,
           NEW status \in Statuses, NEW token \in Tokens \cup {NoToken},
           NEW granted \in BOOLEAN, NEW broadcast \in {"null", "confirmed", "failed"},
           NEW failure \in Failures,
           Emit(st, step, status, token, granted, broadcast, failure)
    PROVE  ledger' \in Seq(SealedReceipts)
<1> DEFINE args == [step |-> step, status |-> status, plan |-> st.plan,
                    decision |-> st.decision, simulation |-> st.simulation,
                    token |-> token, granted |-> granted,
                    broadcast |-> broadcast, failure |-> failure]
           body == BuildStepReceipt(Len(ledger) + 1, args)
<1>1. token.nonce \in Nat
  BY DEF Tokens, NoToken
<1>2. body \in ReceiptBodies
  <2>1. Mode(args) \in {"execute_with_human_approval", "prepare", "simulate"}
    BY DEF Mode
  <2>2. ApprovalState(args) \in {"not_required", "approved", "required"}
    BY DEF ApprovalState
  <2>3. SimulationStatus(args) \in {"simulated_ok", "simulation_failed", "not_simulated"}
    BY DEF SimulationStatus
  <2>4. Len(ledger) + 1 \in Nat
    OBVIOUS
  <2>5. st.plan \in Bodies \cup {None} /\ st.decision \in Decisions \cup {"none"}
    BY DEF StateType
  <2> QED
    BY <1>1, <2>1, <2>2, <2>3, <2>4, <2>5 DEF BuildStepReceipt, ReceiptBodies
<1>3. Redact(body) \in ReceiptBodies
  BY <1>2 DEF Redact, ReceiptBodies
<1>4. HeadHash(ledger) \in Digests
  <2>1. CASE ledger = << >>
    BY <2>1 DEF HeadHash, GenesisHash, Digests
  <2>2. CASE ledger # << >>
    <3>1. Len(ledger) \in 1..Len(ledger)
      BY <2>2
    <3>2. ledger[Len(ledger)] \in SealedReceipts
      BY <3>1
    <3> QED
      BY <2>2, <3>2 DEF HeadHash, SealedReceipts
  <2> QED
    BY <2>1, <2>2
<1>5. Seal(ledger, body) \in SealedReceipts
  BY <1>3, <1>4 DEF Seal, SealedReceipts, HashReceiptBody, Digests
<1> QED
  BY <1>5 DEF Emit, AppendReceipt

\* The receipt of a step that passes this.state.approval along.
LEMMA EmitApprovalTyped ==
    ASSUME ledger \in Seq(SealedReceipts), NEW st \in StateType, NEW step \in Steps,
           NEW status \in Statuses, NEW broadcast \in {"null", "confirmed", "failed"},
           NEW failure \in Failures,
           Emit(st, step, status, st.approval, HasGrant(st), broadcast, failure)
    PROVE  ledger' \in Seq(SealedReceipts)
<1>1. st.approval \in Tokens \cup {NoToken}
  BY DEF StateType
<1>2. HasGrant(st) \in BOOLEAN
  BY DEF HasGrant
<1> QED
  BY <1>1, <1>2, EmitTyped

\* The invariant holds when the agent is made.
LEMMA InitIInv == Init => IInv
<1> SUFFICES ASSUME Init PROVE IInv
  OBVIOUS
<1>1. NoState \in StateType
  BY DEF NoState, StateType, Lifecycle
<1>2. Idle \in CallType
  BY DEF Idle, CallType
<1>3. TypeOK
  BY <1>1, <1>2 DEF Init, TypeOK
<1>4. RunInv
  BY DEF Init, RunInv, NoState, NoToken, HasGrant, Idle
<1>5. GrantInv
  BY DEF Init, GrantInv, NoState, NoToken, HasGrant
<1>6. SignerInv /\ ApprovalIsSingleUse /\ SignedOnlyAsGranted
  BY DEF Init, SignerInv, ApprovalIsSingleUse, SignedOnlyAsGranted
<1> QED
  BY <1>3, <1>4, <1>5, <1>6 DEF IInv

\* No step leads back to a run not started.
LEMMA AfterTypes ==
    \A x : /\ AfterPlan(x) \in Lifecycle /\ AfterPlan(x) # "none"
           /\ AfterSimulation(x) \in Lifecycle /\ AfterSimulation(x) # "none"
           /\ AfterBroadcast(x) \in Lifecycle /\ AfterBroadcast(x) # "none"
BY DEF AfterPlan, AfterSimulation, AfterBroadcast, Lifecycle

\* Tokens are typed, and distinct from the null token.
LEMMA TokenFacts ==
    /\ NoToken \notin Tokens
    /\ \A st \in StateType : /\ st.approval \in Tokens \cup {NoToken}
                             /\ HasGrant(st) <=> st.approval \in Tokens
BY DEF NoToken, Tokens, StateType, HasGrant

\* A task that awaits nothing.
LEMMA IdleTyped == Idle \in CallType /\ Idle.op = "idle"
BY DEF Idle, CallType

\* A call record put in place of a task's call.
LEMMA CallTyped ==
    ASSUME call \in [Tasks -> CallType], NEW t \in Tasks, NEW c \in CallType,
           call' = [call EXCEPT ![t] = c]
    PROVE  /\ call' \in [Tasks -> CallType]
           /\ call'[t] = c
           /\ \A u \in Tasks \ {t} : call'[u] = call[u]
OBVIOUS

-----------------------------------------------------------------------------
(* Every step preserves the types. *)

\* One step per action; a handler's state and receipt are typed before its variables.
LEMMA TypeStep ==
    ASSUME IInv, [Next]_vars
    PROVE  TypeOK'
<1> USE BoundsAssumption, HashAssumption, DecideAssumption, AfterTypes, IdleTyped
<1>0. TypeOK /\ RunInv /\ GrantInv
  BY DEF IInv
<1>1. ASSUME NEW t \in Tasks, NEW b \in Bodies, Plan(t, b) PROVE TypeOK'
  <2> DEFINE d == Decide[b]
             st == [NoState EXCEPT !.run = state.run + 1, !.lifecycle = AfterPlan(d),
                                   !.plan = b, !.planHash = HashPlan[b], !.decision = d]
  <2>1. st \in StateType
    <3>1. d \in Decisions /\ HashPlan[b] \in Hashes /\ AfterPlan(d) \in Lifecycle
      OBVIOUS
    <3>2. state.run + 1 \in Nat
      BY <1>0 DEF TypeOK, StateType
    <3>3. NoState \in StateType
      BY DEF NoState, StateType, Lifecycle
    <3> HIDE DEF d
    <3> QED
      BY <3>1, <3>2, <3>3 DEF StateType
  <2>2. ledger' \in Seq(SealedReceipts)
    <3> DEFINE status == IF d = "deny" THEN "rejected" ELSE "prepared"
               fail == IF d = "deny" THEN "policy_denied" ELSE "null"
    <3>1. Emit(st, "plan", status, NoToken, FALSE, "null", fail)
      BY <1>1 DEF Plan
    <3>2. status \in Statuses /\ fail \in Failures /\ "plan" \in Steps
      BY DEF Statuses, Failures, Steps
    <3> HIDE DEF st, status, fail
    <3> QED
      BY <1>0, <2>1, <3>1, <3>2, EmitTyped DEF TypeOK
  <2> QED
    BY <1>0, <1>1, <2>1, <2>2 DEF Plan, TypeOK, outside, interference
<1>2. ASSUME NEW t \in Tasks, Simulate(t) PROVE TypeOK'
  <2> DEFINE c == [Idle EXCEPT !.op = "simulate", !.run = state.run, !.plan = state.plan]
  <2>1. c \in CallType
    BY <1>0 DEF TypeOK, StateType, CallType
  <2>2. call' \in [Tasks -> CallType]
    BY <1>0, <1>2, <2>1, CallTyped DEF Simulate, TypeOK
  <2> QED
    BY <1>0, <1>2, <2>2 DEF Simulate, TypeOK, outside, interference
<1>3. ASSUME NEW t \in Tasks, SimulateOk(t) PROVE TypeOK'
  <2> DEFINE lc == AfterSimulation(state.decision)
             st == [state EXCEPT !.simulation = "ok", !.lifecycle = lc]
             status == IF lc = "AWAITING_APPROVAL" THEN "needs_human_review" ELSE "simulated"
  <2>1. st \in StateType
    BY <1>0 DEF TypeOK, StateType
  <2>2. status \in Statuses /\ "simulate" \in Steps /\ "null" \in Failures
    BY DEF Statuses, Steps, Failures
  <2>3. Emit(st, "simulate", status, NoToken, FALSE, "null", "null")
    BY <1>3 DEF SimulateOk
  <2>4. ledger' \in Seq(SealedReceipts)
    <3> HIDE DEF st, status
    <3> QED
      BY <1>0, <2>1, <2>2, <2>3, EmitTyped DEF TypeOK
  <2>5. simOK' \subseteq [run : Nat, hash : Hashes]
    <3>1. call[t].plan \in Bodies /\ call[t].run \in Nat
      BY <1>0, <1>3 DEF SimulateOk, RunInv, TypeOK, CallType
    <3> QED
      BY <1>0, <1>3, <3>1 DEF SimulateOk, TypeOK
  <2>6. call' \in [Tasks -> CallType]
    BY <1>0, <1>3, CallTyped DEF SimulateOk, TypeOK
  <2> QED
    BY <1>0, <1>3, <2>1, <2>4, <2>5, <2>6 DEF SimulateOk, TypeOK, interference
<1>4. ASSUME NEW t \in Tasks, SimulateFailed(t) PROVE TypeOK'
  <2> DEFINE st == [state EXCEPT !.simulation = "failed", !.lifecycle = "FAILED"]
  <2>1. st \in StateType
    BY <1>0, <1>4 DEF SimulateFailed, TypeOK, StateType, Lifecycle
  <2>2. "failed" \in Statuses /\ "simulate" \in Steps /\ "simulation_failed" \in Failures
    BY DEF Statuses, Steps, Failures
  <2>3. Emit(st, "simulate", "failed", NoToken, FALSE, "null", "simulation_failed")
    BY <1>4 DEF SimulateFailed
  <2>4. ledger' \in Seq(SealedReceipts)
    <3> HIDE DEF st
    <3> QED
      BY <1>0, <2>1, <2>2, <2>3, EmitTyped DEF TypeOK
  <2>5. call' \in [Tasks -> CallType]
    BY <1>0, <1>4, CallTyped DEF SimulateFailed, TypeOK
  <2> QED
    BY <1>0, <1>4, <2>1, <2>4, <2>5 DEF SimulateFailed, TypeOK, outside, interference
<1>5. ASSUME NEW t \in Tasks, SimulateThrows(t) PROVE TypeOK'
  <2>1. call' \in [Tasks -> CallType]
    BY <1>0, <1>5, CallTyped DEF SimulateThrows, TypeOK
  <2> QED
    BY <1>0, <1>5, <2>1 DEF SimulateThrows, TypeOK, outside, interference
<1>11. ASSUME NEW t \in Tasks, SignThrows(t) PROVE TypeOK'
  <2>1. call' \in [Tasks -> CallType]
    BY <1>0, <1>11, CallTyped DEF SignThrows, TypeOK
  <2> QED
    BY <1>0, <1>11, <2>1 DEF SignThrows, TypeOK, outside, interference
<1>6. ASSUME NEW t \in Tasks, NEW ttl \in Ttls, GrantApproval(t, ttl) PROVE TypeOK'
  <2> DEFINE token == IssueApprovalToken(state.planHash, Len(issued) + 1, ttl, now)
             st    == [state EXCEPT !.approval = token, !.lifecycle = "APPROVED"]
  <2>1. token \in Tokens
    <3>1. state.planHash \in Hashes
      BY <1>0, <1>6 DEF GrantApproval, AssertState, RunInv, DecidedFor
    <3>2. Len(issued) + 1 \in Nat \ {0}
      BY <1>0 DEF TypeOK
    <3>3. now + ttl \in Nat
      BY <1>0 DEF TypeOK
    <3> QED
      BY <3>1, <3>2, <3>3 DEF IssueApprovalToken, CanonicalApprovalPayload, Tokens, Payloads
  <2>2. st \in StateType
    <3> HIDE DEF token
    <3> QED
      BY <1>0, <2>1 DEF TypeOK, StateType, Lifecycle
  <2>3. "prepared" \in Statuses /\ "await_approval" \in Steps /\ "null" \in Failures
    BY DEF Statuses, Steps, Failures
  <2>4. Emit(st, "await_approval", "prepared", token, TRUE, "null", "null")
    BY <1>6 DEF GrantApproval
  <2>5. ledger' \in Seq(SealedReceipts)
    <3> HIDE DEF st, token
    <3> QED
      BY <1>0, <2>1, <2>2, <2>3, <2>4, EmitTyped DEF TypeOK
  <2>6. issued' \in Seq(Tokens) /\ state' = st
    BY <1>0, <1>6, <2>1 DEF GrantApproval, TypeOK
  <2> HIDE DEF st
  <2> QED
    BY <1>0, <1>6, <2>2, <2>5, <2>6 DEF GrantApproval, TypeOK, interference
<1>7. ASSUME NEW t \in Tasks, SignAccepted(t) PROVE TypeOK'
  <2> DEFINE c == [Idle EXCEPT !.op = "sign", !.run = state.run, !.hash = state.planHash]
             s == [nonce |-> state.approval.nonce, hash |-> state.planHash, at |-> now]
  <2>1. state.approval.nonce \in Nat /\ state.planHash \in Hashes
    BY <1>0, <1>7 DEF SignAccepted, TypeOK, StateType, Tokens, NoToken, RunInv, DecidedFor
  <2>2. c \in CallType
    BY <1>0, <2>1 DEF TypeOK, StateType, CallType
  <2>3. call' \in [Tasks -> CallType]
    BY <1>0, <1>7, <2>2, CallTyped DEF SignAccepted, TypeOK
  <2>4. nonceStore' \subseteq Nat
    BY <1>0, <1>7, <2>1 DEF SignAccepted, Consume, TypeOK
  <2>5. s \in [nonce : Nat, hash : Hashes, at : Nat]
    BY <1>0, <2>1 DEF TypeOK
  <2>6. signerCalls' \in Seq([nonce : Nat, hash : Hashes, at : Nat])
    BY <1>0, <1>7, <2>5 DEF SignAccepted, TypeOK
  <2> QED
    BY <1>0, <1>7, <2>3, <2>4, <2>6 DEF SignAccepted, TypeOK, interference
<1>8. ASSUME NEW t \in Tasks, SignRefused(t) PROVE TypeOK'
  <2> DEFINE st == [state EXCEPT !.lifecycle = "REJECTED"]
  <2>1. st \in StateType
    BY <1>0, <1>8 DEF SignRefused, TypeOK, StateType, Lifecycle
  <2>2. "rejected" \in Statuses /\ "sign" \in Steps /\ "approval_invalid" \in Failures
    BY DEF Statuses, Steps, Failures
  <2>3. Emit(st, "sign", "rejected", state.approval, FALSE, "null", "approval_invalid")
    BY <1>8 DEF SignRefused
  <2>4. ledger' \in Seq(SealedReceipts)
    <3>1. state.approval \in Tokens \cup {NoToken} /\ st.approval \in Tokens \cup {NoToken}
      BY <1>0, <2>1 DEF TypeOK, StateType
    <3>2. HasGrant(st) \in BOOLEAN
      BY DEF HasGrant
    <3> HIDE DEF st
    <3> QED
      BY <1>0, <2>1, <2>2, <2>3, <3>1, <3>2, EmitTyped DEF TypeOK
  <2> QED
    BY <1>0, <1>8, <2>1, <2>4 DEF SignRefused, TypeOK, outside, interference
<1>9. ASSUME NEW t \in Tasks, SignReturns(t) PROVE TypeOK'
  <2> DEFINE st == [state EXCEPT !.signature = call[t].hash, !.lifecycle = "SIGNED"]
  <2>1. st \in StateType
    BY <1>0, <1>9 DEF SignReturns, TypeOK, StateType, Lifecycle, CallType
  <2>2. "prepared" \in Statuses /\ "sign" \in Steps /\ "null" \in Failures
    BY DEF Statuses, Steps, Failures
  <2>3. Emit(st, "sign", "prepared", st.approval, HasGrant(st), "null", "null")
    BY <1>9 DEF SignReturns
  <2>4. ledger' \in Seq(SealedReceipts)
    <3>1. ledger \in Seq(SealedReceipts)
      BY <1>0 DEF TypeOK
    <3> HIDE DEF st
    <3> QED
      BY <2>1, <2>2, <2>3, <3>1, EmitApprovalTyped
  <2>5. call' \in [Tasks -> CallType]
    BY <1>0, <1>9, CallTyped DEF SignReturns, TypeOK
  <2> QED
    BY <1>0, <1>9, <2>1, <2>4, <2>5 DEF SignReturns, TypeOK, outside, interference
<1>10. ASSUME NEW t \in Tasks, NEW tx \in Txs, Broadcast(t, tx) PROVE TypeOK'
  <2> DEFINE c == [op |-> "send", run |-> state.run, plan |-> state.plan,
                   hash |-> state.signature, nonce |-> state.approval.nonce, tx |-> tx]
  <2>1. state.approval.nonce \in Nat
    BY <1>0 DEF TypeOK, StateType, Tokens, NoToken
  <2>2. c \in CallType
    BY <1>0, <2>1, TxsAssumption DEF TypeOK, StateType, CallType
  <2>3. call' \in [Tasks -> CallType]
    BY <1>0, <1>10, <2>2, CallTyped DEF Broadcast, TypeOK
  <2> QED
    BY <1>0, <1>10, <2>3 DEF Broadcast, TypeOK, outside, interference
<1>12. ASSUME NEW t \in Tasks, NEW bytes \in Sendable(t), Submit(t, bytes) PROVE TypeOK'
  <2>1. call' \in [Tasks -> CallType]
    BY <1>0, <1>12 DEF Submit, TypeOK, CallType
  <2>2. call[t].plan \in Bodies /\ call[t] \in CallType
    BY <1>0, <1>12 DEF Submit, RunInv, TypeOK
  <2>3. bytes \in Bodies
    BY <2>2 DEF Sendable, CallType
  <2>4. submitted' \in Seq([run : Nat, plan : Bodies, signature : Hashes \cup {None},
                            nonce : Nat, bytes : Bodies])
    BY <1>0, <1>12, <2>2, <2>3 DEF Submit, TypeOK, CallType
  <2> QED
    BY <1>0, <1>12, <2>1, <2>4 DEF Submit, TypeOK, interference
<1>13. ASSUME NEW t \in Tasks, NEW r \in {"confirmed", "failed"}, BroadcastReturns(t, r)
       PROVE TypeOK'
  <2> DEFINE lc == AfterBroadcast(r)
             st == [state EXCEPT !.broadcast = r, !.lifecycle = lc]
             status == IF lc = "CONFIRMED" THEN "succeeded" ELSE "failed"
             fail == IF lc = "FAILED" THEN "broadcast_failed" ELSE "null"
  <2>1. st \in StateType
    BY <1>0 DEF TypeOK, StateType
  <2>2. status \in Statuses /\ "broadcast" \in Steps /\ fail \in Failures
    BY DEF Statuses, Steps, Failures
  <2>3. Emit(st, "broadcast", status, st.approval, HasGrant(st), r, fail)
    BY <1>13 DEF BroadcastReturns
  <2>4. ledger' \in Seq(SealedReceipts)
    <3>1. ledger \in Seq(SealedReceipts)
      BY <1>0 DEF TypeOK
    <3> HIDE DEF st, status, fail
    <3> QED
      BY <2>1, <2>2, <2>3, <3>1, EmitApprovalTyped
  <2>5. call' \in [Tasks -> CallType]
    BY <1>0, <1>13, CallTyped DEF BroadcastReturns, TypeOK
  <2>6. confirmed' \subseteq Nat
    BY <1>0, <1>13 DEF BroadcastReturns, TypeOK, CallType
  <2> QED
    BY <1>0, <1>13, <2>1, <2>4, <2>5, <2>6 DEF BroadcastReturns, TypeOK, interference
<1>14. ASSUME NEW t \in Tasks, BroadcastThrows(t) PROVE TypeOK'
  <2> DEFINE st == [state EXCEPT !.lifecycle = "FAILED"]
  <2>1. st \in StateType
    BY <1>0, <1>14 DEF BroadcastThrows, TypeOK, StateType, Lifecycle
  <2>2. "failed" \in Statuses /\ "broadcast" \in Steps /\ "broadcast_error" \in Failures
    BY DEF Statuses, Steps, Failures
  <2>3. Emit(st, "broadcast", "failed", st.approval, HasGrant(st), "null", "broadcast_error")
    BY <1>14 DEF BroadcastThrows
  <2>4. ledger' \in Seq(SealedReceipts)
    <3>1. ledger \in Seq(SealedReceipts)
      BY <1>0 DEF TypeOK
    <3> HIDE DEF st
    <3> QED
      BY <2>1, <2>2, <2>3, <3>1, EmitApprovalTyped
  <2>5. call' \in [Tasks -> CallType]
    BY <1>0, <1>14, CallTyped DEF BroadcastThrows, TypeOK
  <2> QED
    BY <1>0, <1>14, <2>1, <2>4, <2>5 DEF BroadcastThrows, TypeOK, outside, interference
<1>15. CASE Tick
  BY <1>0, <1>15 DEF Tick, TypeOK, outside, interference
<1>16. CASE ForceApproved
  <2>1. state' \in StateType
    BY <1>0, <1>16 DEF ForceApproved, TypeOK, StateType, Lifecycle
  <2>2. forces' \in Nat
    BY <1>0, <1>16 DEF ForceApproved, TypeOK
  <2> QED
    BY <1>0, <1>16, <2>1, <2>2 DEF ForceApproved, TypeOK, outside
<1>17. ASSUME NEW b \in Bodies, EditPlan(b) PROVE TypeOK'
  <2>1. state' \in StateType
    BY <1>0, <1>17 DEF EditPlan, TypeOK, StateType
  <2>2. edits' \in Nat
    BY <1>0, <1>17 DEF EditPlan, TypeOK
  <2> QED
    BY <1>0, <1>17, <2>1, <2>2 DEF EditPlan, TypeOK, outside
<1>18. ASSUME NEW h \in Hashes, NEW n \in 1..(MaxGrants + 1), NEW e \in 0..(MaxTime + 1),
              EditToken(h, n, e)
       PROVE TypeOK'
  <2>1. state \in StateType /\ state.approval \in Tokens
    BY <1>0, <1>18, TokenFacts DEF EditToken, TypeOK
  <2>2. [state.approval EXCEPT !.planHash = h, !.nonce = n, !.expiresAt = e] \in Tokens
    <3>1. n \in Nat \ {0} /\ e \in Nat
      <4>1. MaxGrants \in Nat /\ MaxTime \in Nat
        OBVIOUS
      <4> QED
        BY <4>1
    <3> QED
      BY <2>1, <3>1 DEF Tokens
  <2>3. state' = [state EXCEPT !.approval =
                     [state.approval EXCEPT !.planHash = h, !.nonce = n, !.expiresAt = e]]
    BY <1>18, <2>1 DEF EditToken, StateType, Tokens
  <2>4. state' \in StateType
    BY <2>1, <2>2, <2>3 DEF StateType
  <2>5. edits' \in Nat
    BY <1>0, <1>18 DEF EditToken, TypeOK
  <2> QED
    BY <1>0, <1>18, <2>4, <2>5 DEF EditToken, TypeOK, outside
<1>19. CASE UNCHANGED vars
  BY <1>0, <1>19 DEF vars, TypeOK, outside, interference
<1> QED
  BY <1>1, <1>2, <1>3, <1>4, <1>5, <1>6, <1>7, <1>8, <1>9, <1>10, <1>11, <1>12, <1>13,
     <1>14, <1>15, <1>16, <1>17, <1>18, <1>19 DEF Next, HostCalls, PortAnswers, HostEdits

-----------------------------------------------------------------------------
(* Every step preserves RunInv. *)

\* A step of a started run that keeps its plan's decision and makes no call.
LEMMA RunKept ==
    ASSUME RunInv, state.lifecycle # "none", state'.lifecycle # "none",
           state'.plan \in Bodies, state'.planHash = state.planHash,
           state'.decision = state.decision,
           \A u \in Tasks : call'[u] = call[u] \/ call'[u].op = "idle"
    PROVE  RunInv'
BY DEF RunInv, DecidedFor

\* A step that makes or moves on the call of a started run.
LEMMA CallMade ==
    ASSUME RunInv, state' = state, state.lifecycle # "none", NEW t \in Tasks,
           call'[t].op \in {"simulate", "send", "confirm"} => call'[t].plan \in Bodies,
           call'[t].op = "sign" => call'[t].hash \in Hashes,
           \A u \in Tasks \ {t} : call'[u] = call[u]
    PROVE  RunInv'
BY DEF RunInv, DecidedFor, HasGrant

\* Each handler keeps the plan's decision with the run, and a call what it sends.
LEMMA RunStep ==
    ASSUME IInv, [Next]_vars
    PROVE  RunInv'
<1> USE IdleTyped
<1>0. TypeOK /\ RunInv /\ call \in [Tasks -> CallType] /\ state \in StateType
  BY DEF IInv, TypeOK
<1>1. ASSUME NEW t \in Tasks, NEW b \in Bodies, Plan(t, b) PROVE RunInv'
  <2>1. /\ state'.plan = b /\ state'.planHash = HashPlan[b] /\ state'.decision = Decide[b]
        /\ state'.lifecycle # "none"
    BY <1>1, AfterTypes DEF Plan, NoState
  <2>2. call' = call
    BY <1>1 DEF Plan
  <2> QED
    BY <1>0, <2>1, <2>2 DEF RunInv, DecidedFor
<1>2. ASSUME NEW t \in Tasks, Simulate(t) PROVE RunInv'
  <2>1. state.lifecycle # "none" /\ state.plan \in Bodies
    BY <1>0, <1>2 DEF Simulate, AssertState, Simulatable, RunInv
  <2> DEFINE c == [Idle EXCEPT !.op = "simulate", !.run = state.run, !.plan = state.plan]
  <2>2. c.op = "simulate" /\ c.plan = state.plan
    BY DEF Idle
  <2>3. call' = [call EXCEPT ![t] = c] /\ state' = state
    BY <1>2 DEF Simulate
  <2>4. call'[t] = c /\ \A u \in Tasks \ {t} : call'[u] = call[u]
    BY <1>0, <2>3
  <2> HIDE DEF c
  <2> QED
    BY <1>0, <2>1, <2>2, <2>3, <2>4, CallMade
<1>3. ASSUME NEW t \in Tasks, SimulateOk(t) PROVE RunInv'
  <2>1. state.lifecycle # "none"
    BY <1>0, <1>3 DEF SimulateOk, RunInv
  <2>2. /\ state'.plan = state.plan /\ state'.planHash = state.planHash
        /\ state'.decision = state.decision /\ state'.lifecycle # "none"
    BY <1>0, <1>3, AfterTypes DEF SimulateOk, StateType
  <2>3. \A u \in Tasks : call'[u] = call[u] \/ call'[u].op = "idle"
    BY <1>0, <1>3 DEF SimulateOk
  <2> QED
    BY <1>0, <2>1, <2>2, <2>3, RunKept DEF RunInv
<1>4. ASSUME NEW t \in Tasks, SimulateFailed(t) PROVE RunInv'
  <2>1. state.lifecycle # "none"
    BY <1>0, <1>4 DEF SimulateFailed, RunInv
  <2>2. /\ state'.plan = state.plan /\ state'.planHash = state.planHash
        /\ state'.decision = state.decision /\ state'.lifecycle # "none"
    BY <1>0, <1>4, <2>1, AfterTypes DEF SimulateFailed, StateType
  <2>3. \A u \in Tasks : call'[u] = call[u] \/ call'[u].op = "idle"
    BY <1>0, <1>4 DEF SimulateFailed
  <2> QED
    BY <1>0, <2>1, <2>2, <2>3, RunKept DEF RunInv
<1>5. ASSUME NEW t \in Tasks, SimulateThrows(t) PROVE RunInv'
  <2>1. state.lifecycle # "none"
    BY <1>0, <1>5 DEF SimulateThrows, RunInv
  <2>2. /\ state'.plan = state.plan /\ state'.planHash = state.planHash
        /\ state'.decision = state.decision /\ state'.lifecycle # "none"
    BY <1>0, <1>5, <2>1, AfterTypes DEF SimulateThrows, StateType
  <2>3. \A u \in Tasks : call'[u] = call[u] \/ call'[u].op = "idle"
    BY <1>0, <1>5 DEF SimulateThrows
  <2> QED
    BY <1>0, <2>1, <2>2, <2>3, RunKept DEF RunInv
<1>6. ASSUME NEW t \in Tasks, NEW ttl \in Ttls, GrantApproval(t, ttl) PROVE RunInv'
  <2>1. state.lifecycle # "none"
    BY <1>0, <1>6 DEF GrantApproval, RunInv, AssertState
  <2>2. /\ state'.plan = state.plan /\ state'.planHash = state.planHash
        /\ state'.decision = state.decision /\ state'.lifecycle # "none"
    BY <1>0, <1>6, <2>1, AfterTypes DEF GrantApproval, StateType
  <2>3. \A u \in Tasks : call'[u] = call[u] \/ call'[u].op = "idle"
    BY <1>0, <1>6 DEF GrantApproval
  <2> QED
    BY <1>0, <2>1, <2>2, <2>3, RunKept DEF RunInv
<1>7. ASSUME NEW t \in Tasks, SignAccepted(t) PROVE RunInv'
  <2>1. state.lifecycle # "none" /\ state.planHash \in Hashes
    BY <1>0, <1>7, HashAssumption DEF SignAccepted, RunInv, DecidedFor
  <2> DEFINE c == [Idle EXCEPT !.op = "sign", !.run = state.run, !.hash = state.planHash]
  <2>2. c.op = "sign" /\ c.hash = state.planHash
    BY DEF Idle
  <2>3. call' = [call EXCEPT ![t] = c] /\ state' = state
    BY <1>7 DEF SignAccepted
  <2>4. call'[t] = c /\ \A u \in Tasks \ {t} : call'[u] = call[u]
    BY <1>0, <2>3
  <2> HIDE DEF c
  <2> QED
    BY <1>0, <2>1, <2>2, <2>3, <2>4, CallMade
<1>8. ASSUME NEW t \in Tasks, SignRefused(t) PROVE RunInv'
  <2>1. state.lifecycle # "none"
    BY <1>0, <1>8 DEF SignRefused, RunInv
  <2>2. /\ state'.plan = state.plan /\ state'.planHash = state.planHash
        /\ state'.decision = state.decision /\ state'.lifecycle # "none"
    BY <1>0, <1>8, <2>1, AfterTypes DEF SignRefused, StateType
  <2>3. \A u \in Tasks : call'[u] = call[u] \/ call'[u].op = "idle"
    BY <1>0, <1>8 DEF SignRefused
  <2> QED
    BY <1>0, <2>1, <2>2, <2>3, RunKept DEF RunInv
<1>9. ASSUME NEW t \in Tasks, SignReturns(t) PROVE RunInv'
  <2>1. state.lifecycle # "none"
    BY <1>0, <1>9 DEF SignReturns, RunInv
  <2>2. /\ state'.plan = state.plan /\ state'.planHash = state.planHash
        /\ state'.decision = state.decision /\ state'.lifecycle # "none"
    BY <1>0, <1>9, <2>1, AfterTypes DEF SignReturns, StateType
  <2>3. \A u \in Tasks : call'[u] = call[u] \/ call'[u].op = "idle"
    BY <1>0, <1>9 DEF SignReturns
  <2> QED
    BY <1>0, <2>1, <2>2, <2>3, RunKept DEF RunInv
<1>10. ASSUME NEW t \in Tasks, NEW tx \in Txs, Broadcast(t, tx) PROVE RunInv'
  <2>1. state.lifecycle # "none" /\ state.plan \in Bodies
    BY <1>0, <1>10 DEF Broadcast, AssertState, Broadcastable, RunInv
  <2>2. /\ state' = state /\ call'[t].op = "send" /\ call'[t].plan = state.plan
        /\ \A u \in Tasks \ {t} : call'[u] = call[u]
    BY <1>0, <1>10 DEF Broadcast
  <2> QED
    BY <1>0, <2>1, <2>2, CallMade
<1>11. ASSUME NEW t \in Tasks, SignThrows(t) PROVE RunInv'
  <2>1. state.lifecycle # "none"
    BY <1>0, <1>11 DEF SignThrows, RunInv
  <2>2. /\ state'.plan = state.plan /\ state'.planHash = state.planHash
        /\ state'.decision = state.decision /\ state'.lifecycle # "none"
    BY <1>0, <1>11, <2>1, AfterTypes DEF SignThrows, StateType
  <2>3. \A u \in Tasks : call'[u] = call[u] \/ call'[u].op = "idle"
    BY <1>0, <1>11 DEF SignThrows
  <2> QED
    BY <1>0, <2>1, <2>2, <2>3, RunKept DEF RunInv
<1>12. ASSUME NEW t \in Tasks, NEW bytes \in Sendable(t), Submit(t, bytes) PROVE RunInv'
  <2>1. state.lifecycle # "none" /\ call[t].plan \in Bodies /\ call[t] \in CallType
    BY <1>0, <1>12 DEF Submit, RunInv
  <2>2. /\ state' = state /\ call'[t].op = "confirm" /\ call'[t].plan = call[t].plan
        /\ \A u \in Tasks \ {t} : call'[u] = call[u]
    BY <1>0, <1>12, <2>1 DEF Submit, CallType
  <2> QED
    BY <1>0, <2>1, <2>2, CallMade
<1>13. ASSUME NEW t \in Tasks, NEW r \in {"confirmed", "failed"}, BroadcastReturns(t, r)
       PROVE RunInv'
  <2>1. state.lifecycle # "none"
    BY <1>0, <1>13 DEF BroadcastReturns, RunInv
  <2>2. /\ state'.plan = state.plan /\ state'.planHash = state.planHash
        /\ state'.decision = state.decision /\ state'.lifecycle # "none"
    BY <1>0, <1>13, <2>1, AfterTypes DEF BroadcastReturns, StateType
  <2>3. \A u \in Tasks : call'[u] = call[u] \/ call'[u].op = "idle"
    BY <1>0, <1>13 DEF BroadcastReturns
  <2> QED
    BY <1>0, <2>1, <2>2, <2>3, RunKept DEF RunInv
<1>14. ASSUME NEW t \in Tasks, BroadcastThrows(t) PROVE RunInv'
  <2>1. state.lifecycle # "none"
    BY <1>0, <1>14 DEF BroadcastThrows, RunInv
  <2>2. /\ state'.plan = state.plan /\ state'.planHash = state.planHash
        /\ state'.decision = state.decision /\ state'.lifecycle # "none"
    BY <1>0, <1>14, <2>1, AfterTypes DEF BroadcastThrows, StateType
  <2>3. \A u \in Tasks : call'[u] = call[u] \/ call'[u].op = "idle"
    BY <1>0, <1>14 DEF BroadcastThrows
  <2> QED
    BY <1>0, <2>1, <2>2, <2>3, RunKept DEF RunInv
<1>15. CASE Tick
  BY <1>0, <1>15 DEF Tick, RunInv, HasGrant
<1>16. CASE ForceApproved
  <2>1. state.lifecycle # "none"
    BY <1>0, <1>16 DEF ForceApproved, RunInv
  <2>2. /\ state'.plan = state.plan /\ state'.planHash = state.planHash
        /\ state'.decision = state.decision /\ state'.lifecycle # "none"
    BY <1>0, <1>16, <2>1, AfterTypes DEF ForceApproved, StateType
  <2>3. \A u \in Tasks : call'[u] = call[u] \/ call'[u].op = "idle"
    BY <1>0, <1>16 DEF ForceApproved
  <2> QED
    BY <1>0, <2>1, <2>2, <2>3, RunKept DEF RunInv
<1>17. ASSUME NEW b \in Bodies, EditPlan(b) PROVE RunInv'
  <2>1. /\ state'.plan = b /\ state'.planHash = state.planHash
        /\ state'.decision = state.decision /\ state'.lifecycle = state.lifecycle
        /\ state'.approval = state.approval /\ call' = call
    BY <1>0, <1>17 DEF EditPlan, StateType
  <2> QED
    BY <1>0, <2>1 DEF RunInv, HasGrant
<1>18. ASSUME NEW h \in Hashes, NEW n \in 1..(MaxGrants + 1), NEW e \in 0..(MaxTime + 1),
              EditToken(h, n, e)
       PROVE RunInv'
  <2>1. state.lifecycle # "none"
    BY <1>0, <1>18 DEF EditToken, RunInv
  <2>2. /\ state'.plan = state.plan /\ state'.planHash = state.planHash
        /\ state'.decision = state.decision /\ state'.lifecycle # "none"
    BY <1>0, <1>18, <2>1, AfterTypes DEF EditToken, StateType
  <2>3. \A u \in Tasks : call'[u] = call[u] \/ call'[u].op = "idle"
    BY <1>0, <1>18 DEF EditToken
  <2> QED
    BY <1>0, <2>1, <2>2, <2>3, RunKept DEF RunInv
<1>19. CASE UNCHANGED vars
  BY <1>0, <1>19 DEF vars, RunInv, HasGrant
<1> QED
  BY <1>1, <1>2, <1>3, <1>4, <1>5, <1>6, <1>7, <1>8, <1>9, <1>10, <1>11, <1>12, <1>13,
     <1>14, <1>15, <1>16, <1>17, <1>18, <1>19 DEF Next, HostCalls, PortAnswers, HostEdits

-----------------------------------------------------------------------------
(* Every step preserves GrantInv. *)

\* A step that grants nothing and leaves the signature of the token in hand.
LEMMA GrantKept ==
    ASSUME GrantInv, issued' = issued,
           HasGrant(state)' => /\ HasGrant(state)
                               /\ state'.approval.signature = state.approval.signature,
           state'.lifecycle = "AWAITING_APPROVAL" => state'.decision = "needs_approval"
    PROVE  GrantInv'
BY DEF GrantInv, CanonicalApprovalPayload, DecidedFor

\* Only grantApproval makes grants, and only under needs_approval; an edit of the
\* token leaves its signature.
LEMMA GrantStep ==
    ASSUME IInv, [Next]_vars
    PROVE  GrantInv'
<1>0. RunInv /\ GrantInv /\ state \in StateType /\ issued \in Seq(Tokens)
  BY DEF IInv, TypeOK
<1>1. ASSUME NEW t \in Tasks, NEW b \in Bodies, Plan(t, b) PROVE GrantInv'
  <2>1. state'.approval = NoToken /\ state'.lifecycle # "AWAITING_APPROVAL"
    BY <1>1 DEF Plan, NoState, AfterPlan
  <2>2. issued' = issued
    BY <1>1 DEF Plan, outside
  <2> QED
    BY <1>0, <2>1, <2>2, GrantKept DEF HasGrant, NoToken
<1>2. ASSUME NEW t \in Tasks, Simulate(t) PROVE GrantInv'
  BY <1>0, <1>2, GrantKept DEF Simulate, outside, HasGrant, GrantInv
<1>3. ASSUME NEW t \in Tasks, SimulateOk(t) PROVE GrantInv'
  <2>1. /\ state'.approval = state.approval /\ state'.decision = state.decision
        /\ state'.lifecycle = AfterSimulation(state.decision) /\ issued' = issued
    BY <1>0, <1>3 DEF SimulateOk, StateType
  <2> QED
    BY <1>0, <2>1, GrantKept DEF HasGrant, AfterSimulation
<1>4. ASSUME NEW t \in Tasks, SimulateFailed(t) PROVE GrantInv'
  <2>1. state'.approval = state.approval /\ state'.lifecycle # "AWAITING_APPROVAL"
    BY <1>0, <1>4 DEF SimulateFailed, StateType, AfterBroadcast
  <2> QED
    BY <1>0, <1>4, <2>1, GrantKept DEF SimulateFailed, outside, HasGrant
<1>5. ASSUME NEW t \in Tasks, SimulateThrows(t) PROVE GrantInv'
  BY <1>0, <1>5, GrantKept DEF SimulateThrows, outside, HasGrant, GrantInv
<1>6. ASSUME NEW t \in Tasks, NEW ttl \in Ttls, GrantApproval(t, ttl) PROVE GrantInv'
  <2> DEFINE token == IssueApprovalToken(state.planHash, Len(issued) + 1, ttl, now)
  <2>1. /\ token.nonce = Len(issued) + 1 /\ token.planHash = state.planHash
        /\ token.signature = CanonicalApprovalPayload(token)
    BY DEF IssueApprovalToken, CanonicalApprovalPayload
  <2>2. /\ issued' = Append(issued, token)
        /\ state'.approval = token /\ state'.lifecycle = "APPROVED"
    BY <1>0, <1>6 DEF GrantApproval, StateType
  <2>3. DecidedFor(state.planHash, "needs_approval")
    BY <1>0, <1>6 DEF GrantApproval, AssertState, GrantInv, RunInv
  <2> HIDE DEF token
  <2>4. /\ Len(issued') = Len(issued) + 1 /\ issued'[Len(issued) + 1] = token
        /\ \A k \in 1..Len(issued) : issued'[k] = issued[k]
    BY <1>0, <2>2
  <2>5. \A k \in 1..Len(issued') :
            issued'[k].nonce = k /\ DecidedFor(issued'[k].planHash, "needs_approval")
    <3> SUFFICES ASSUME NEW k \in 1..Len(issued')
                 PROVE  /\ issued'[k].nonce = k
                        /\ DecidedFor(issued'[k].planHash, "needs_approval")
      OBVIOUS
    <3>1. CASE k \in 1..Len(issued)
      BY <1>0, <2>4, <3>1 DEF GrantInv
    <3>2. CASE k = Len(issued) + 1
      BY <2>1, <2>3, <2>4, <3>2
    <3> QED
      BY <1>0, <2>4, <3>1, <3>2
  <2>6. Len(issued') \in 1..Len(issued')
    BY <1>0, <2>4
  <2>7. state'.approval.signature = CanonicalApprovalPayload(issued'[Len(issued')])
    BY <2>1, <2>2, <2>4
  <2> QED
    BY <2>2, <2>5, <2>6, <2>7 DEF GrantInv, CanonicalApprovalPayload, DecidedFor
<1>7. ASSUME NEW t \in Tasks, SignAccepted(t) PROVE GrantInv'
  BY <1>0, <1>7, GrantKept DEF SignAccepted, outside, HasGrant, GrantInv
<1>8. ASSUME NEW t \in Tasks, SignRefused(t) PROVE GrantInv'
  <2>1. state'.approval = state.approval /\ state'.lifecycle # "AWAITING_APPROVAL"
    BY <1>0, <1>8 DEF SignRefused, StateType, AfterBroadcast
  <2> QED
    BY <1>0, <1>8, <2>1, GrantKept DEF SignRefused, outside, HasGrant
<1>9. ASSUME NEW t \in Tasks, SignReturns(t) PROVE GrantInv'
  <2>1. state'.approval = state.approval /\ state'.lifecycle # "AWAITING_APPROVAL"
    BY <1>0, <1>9 DEF SignReturns, StateType, AfterBroadcast
  <2> QED
    BY <1>0, <1>9, <2>1, GrantKept DEF SignReturns, outside, HasGrant
<1>10. ASSUME NEW t \in Tasks, NEW tx \in Txs, Broadcast(t, tx) PROVE GrantInv'
  BY <1>0, <1>10, GrantKept DEF Broadcast, outside, HasGrant, GrantInv
<1>11. ASSUME NEW t \in Tasks, SignThrows(t) PROVE GrantInv'
  BY <1>0, <1>11, GrantKept DEF SignThrows, outside, HasGrant, GrantInv
<1>12. ASSUME NEW t \in Tasks, NEW bytes \in Sendable(t), Submit(t, bytes) PROVE GrantInv'
  BY <1>0, <1>12, GrantKept DEF Submit, outside, HasGrant, GrantInv
<1>13. ASSUME NEW t \in Tasks, NEW r \in {"confirmed", "failed"}, BroadcastReturns(t, r)
       PROVE GrantInv'
  <2>1. state'.approval = state.approval /\ state'.lifecycle # "AWAITING_APPROVAL"
    BY <1>0, <1>13 DEF BroadcastReturns, StateType, AfterBroadcast
  <2> QED
    BY <1>0, <1>13, <2>1, GrantKept DEF BroadcastReturns, outside, HasGrant
<1>14. ASSUME NEW t \in Tasks, BroadcastThrows(t) PROVE GrantInv'
  <2>1. state'.approval = state.approval /\ state'.lifecycle # "AWAITING_APPROVAL"
    BY <1>0, <1>14 DEF BroadcastThrows, StateType, AfterBroadcast
  <2> QED
    BY <1>0, <1>14, <2>1, GrantKept DEF BroadcastThrows, outside, HasGrant
<1>15. CASE Tick
  BY <1>0, <1>15, GrantKept DEF Tick, outside, HasGrant, GrantInv
<1>16. CASE ForceApproved
  <2>1. state'.approval = state.approval /\ state'.lifecycle # "AWAITING_APPROVAL"
    BY <1>0, <1>16 DEF ForceApproved, StateType, AfterBroadcast
  <2> QED
    BY <1>0, <1>16, <2>1, GrantKept DEF ForceApproved, outside, HasGrant
<1>17. ASSUME NEW b \in Bodies, EditPlan(b) PROVE GrantInv'
  <2>1. /\ state'.approval = state.approval /\ state'.lifecycle = state.lifecycle
        /\ state'.decision = state.decision /\ issued' = issued
    BY <1>0, <1>17 DEF EditPlan, outside, StateType
  <2> QED
    BY <1>0, <2>1, GrantKept DEF HasGrant, GrantInv
<1>18. ASSUME NEW h \in Hashes, NEW n \in 1..(MaxGrants + 1), NEW e \in 0..(MaxTime + 1),
              EditToken(h, n, e)
       PROVE GrantInv'
  <2>1. state.approval \in Tokens /\ HasGrant(state)
    BY <1>0, <1>18, TokenFacts DEF EditToken
  <2>2. /\ state'.approval.signature = state.approval.signature
        /\ state'.lifecycle = state.lifecycle /\ state'.decision = state.decision
        /\ issued' = issued
    BY <1>0, <1>18, <2>1 DEF EditToken, outside, StateType, Tokens
  <2> QED
    BY <1>0, <2>1, <2>2, GrantKept DEF GrantInv
<1>19. CASE UNCHANGED vars
  BY <1>0, <1>19, GrantKept DEF vars, outside, HasGrant, GrantInv
<1> QED
  BY <1>1, <1>2, <1>3, <1>4, <1>5, <1>6, <1>7, <1>8, <1>9, <1>10, <1>11, <1>12, <1>13,
     <1>14, <1>15, <1>16, <1>17, <1>18, <1>19 DEF Next, HostCalls, PortAnswers, HostEdits

-----------------------------------------------------------------------------
(* The signer is called by SignAccepted alone, grants are given by GrantApproval *)
(* alone.                                                                        *)

\* Every other action leaves the signer's calls and the nonce store alone.
LEMMA OnlySignAccepted ==
    ASSUME [Next]_vars
    PROVE  \/ \E t \in Tasks : SignAccepted(t)
           \/ UNCHANGED << signerCalls, nonceStore >>
BY DEF Next, HostCalls, PortAnswers, HostEdits, Plan, Simulate, SimulateOk, SimulateFailed,
       SimulateThrows, GrantApproval, SignRefused, SignReturns, SignThrows, Broadcast,
       Submit, BroadcastReturns, BroadcastThrows, Tick, ForceApproved, EditPlan, EditToken,
       outside, vars

\* Every other action leaves the grants alone.
LEMMA OnlyGrantApproval ==
    ASSUME IInv, [Next]_vars
    PROVE  /\ Len(issued') \in Nat /\ Len(issued) <= Len(issued')
           /\ \A k \in 1..Len(issued) : issued'[k] = issued[k]
<1>0. issued \in Seq(Tokens)
  BY DEF IInv, TypeOK
<1>1. ASSUME NEW t \in Tasks, NEW ttl \in Ttls, GrantApproval(t, ttl)
      PROVE  /\ Len(issued') \in Nat /\ Len(issued) <= Len(issued')
             /\ \A k \in 1..Len(issued) : issued'[k] = issued[k]
  <2> DEFINE token == IssueApprovalToken(state.planHash, Len(issued) + 1, ttl, now)
  <2>1. issued' = Append(issued, token)
    BY <1>1 DEF GrantApproval
  <2> HIDE DEF token
  <2> QED
    BY <1>0, <2>1
<1>2. \/ \E t \in Tasks, ttl \in Ttls : GrantApproval(t, ttl)
      \/ issued' = issued
  BY DEF Next, HostCalls, PortAnswers, HostEdits, Plan, Simulate, SimulateOk,
         SimulateFailed, SimulateThrows, SignAccepted, SignRefused, SignReturns, SignThrows,
         Broadcast, Submit, BroadcastReturns, BroadcastThrows, Tick, ForceApproved,
         EditPlan, EditToken, outside, vars
<1> QED
  BY <1>0, <1>1, <1>2

\* What a valid verdict means: the fields are the ones of a grant, still alive and
\* not used before.
LEMMA ValidVerdict ==
    ASSUME IInv, NEW t \in Tasks, SignAccepted(t)
    PROVE  /\ state.approval.nonce \in 1..Len(issued)
           /\ state.approval.nonce \notin nonceStore
           /\ state.planHash = issued[state.approval.nonce].planHash
           /\ now <= issued[state.approval.nonce].expiresAt
<1>0. /\ RunInv /\ GrantInv /\ state \in StateType /\ issued \in Seq(Tokens)
      /\ now \in Nat
  BY DEF IInv, TypeOK
<1>1. /\ state.approval.planHash = state.planHash
      /\ ~(now > state.approval.expiresAt)
      /\ state.approval.signature = CanonicalApprovalPayload(state.approval)
      /\ state.approval.nonce \notin nonceStore
  BY DEF SignAccepted, Verdict, VerifyApprovalToken
<1>2. state.planHash \in Hashes
  BY <1>0, HashAssumption DEF SignAccepted, RunInv, DecidedFor
<1>3. state.approval \in Tokens
  BY <1>0, <1>1, <1>2, NoneAssumption DEF StateType, NoToken
<1>4. HasGrant(state)
  BY <1>0, <1>3, TokenFacts
<1>5. PICK k \in 1..Len(issued) :
          state.approval.signature = CanonicalApprovalPayload(issued[k])
  BY <1>0, <1>4 DEF GrantInv
<1>6. issued[k] \in Tokens /\ issued[k].nonce = k
  BY <1>0, <1>5 DEF GrantInv
<1>7. /\ state.approval.planHash = issued[k].planHash
      /\ state.approval.nonce = issued[k].nonce
      /\ state.approval.expiresAt = issued[k].expiresAt
  BY <1>1, <1>5 DEF CanonicalApprovalPayload
<1> QED
  BY <1>0, <1>1, <1>3, <1>5, <1>6, <1>7 DEF Tokens

\* A new signer call has a nonce no earlier call had, and the fields of its grant.
LEMMA SignerStep ==
    ASSUME IInv, [Next]_vars
    PROVE  SignerInv' /\ ApprovalIsSingleUse' /\ SignedOnlyAsGranted'
<1>0. /\ signerCalls \in Seq([nonce : Nat, hash : Hashes, at : Nat])
      /\ SignerInv /\ ApprovalIsSingleUse /\ SignedOnlyAsGranted
  BY DEF IInv, TypeOK
<1>1. CASE UNCHANGED << signerCalls, nonceStore >>
  <2>1. SignerInv' /\ ApprovalIsSingleUse'
    BY <1>0, <1>1 DEF SignerInv, ApprovalIsSingleUse
  <2>2. SignedOnlyAsGranted'
    <3> SUFFICES ASSUME NEW i \in 1..Len(signerCalls)
                 PROVE  LET c == signerCalls[i] IN
                        /\ c.nonce \in 1..Len(issued')
                        /\ c.hash = issued'[c.nonce].planHash
                        /\ c.at <= issued'[c.nonce].expiresAt
      BY <1>1 DEF SignedOnlyAsGranted
    <3> DEFINE c == signerCalls[i]
    <3>1. /\ c.nonce \in 1..Len(issued) /\ c.hash = issued[c.nonce].planHash
          /\ c.at <= issued[c.nonce].expiresAt
      BY <1>0 DEF SignedOnlyAsGranted
    <3>2. issued'[c.nonce] = issued[c.nonce] /\ c.nonce \in 1..Len(issued')
      <4>1. Len(issued) \in Nat
        BY DEF IInv, TypeOK
      <4> QED
        BY <3>1, <4>1, OnlyGrantApproval
    <3> QED
      BY <3>1, <3>2
  <2> QED
    BY <2>1, <2>2
<1>2. ASSUME NEW t \in Tasks, SignAccepted(t)
      PROVE  SignerInv' /\ ApprovalIsSingleUse' /\ SignedOnlyAsGranted'
  <2> DEFINE n == state.approval.nonce
             c == [nonce |-> n, hash |-> state.planHash, at |-> now]
  <2>1. /\ signerCalls' = Append(signerCalls, c) /\ nonceStore' = nonceStore \cup {n}
        /\ issued' = issued
    BY <1>2 DEF SignAccepted, Consume
  <2>2. /\ n \in 1..Len(issued) /\ n \notin nonceStore
        /\ c.hash = issued[n].planHash /\ c.at <= issued[n].expiresAt
    BY <1>2, ValidVerdict
  <2>3. c.nonce = n
    OBVIOUS
  <2> HIDE DEF n, c
  <2>4. /\ Len(signerCalls') = Len(signerCalls) + 1
        /\ signerCalls'[Len(signerCalls) + 1] = c
        /\ \A i \in 1..Len(signerCalls) : signerCalls'[i] = signerCalls[i]
        /\ \A i \in 1..Len(signerCalls') : i \in 1..Len(signerCalls) \/ i = Len(signerCalls) + 1
    BY <1>0, <2>1
  <2>5. SignerInv'
    BY <1>0, <2>1, <2>3, <2>4 DEF SignerInv
  <2>6. ApprovalIsSingleUse'
    <3> SUFFICES ASSUME NEW i \in 1..Len(signerCalls'), NEW j \in 1..Len(signerCalls'),
                        signerCalls'[i].nonce = signerCalls'[j].nonce
                 PROVE  i = j
      BY DEF ApprovalIsSingleUse
    <3>1. \A k \in 1..Len(signerCalls) : signerCalls'[k].nonce \in nonceStore
      BY <1>0, <2>4 DEF SignerInv
    <3>2. CASE i \in 1..Len(signerCalls) /\ j \in 1..Len(signerCalls)
      BY <1>0, <2>4, <3>2 DEF ApprovalIsSingleUse
    <3>3. CASE i = Len(signerCalls) + 1 \/ j = Len(signerCalls) + 1
      BY <2>2, <2>3, <2>4, <3>1, <3>3
    <3> QED
      BY <2>4, <3>2, <3>3
  <2>7. SignedOnlyAsGranted'
    BY <1>0, <2>1, <2>2, <2>3, <2>4 DEF SignedOnlyAsGranted
  <2> QED
    BY <2>5, <2>6, <2>7
<1> QED
  BY <1>1, <1>2, OnlySignAccepted

-----------------------------------------------------------------------------
(* The ledger: what #emit leaves at its head. *)

\* The new head tells step, status and decision; it is sealed by append.
LEMMA EmitHead ==
    ASSUME ledger \in Seq(SealedReceipts), NEW st, NEW step, NEW status, NEW token,
           NEW granted, NEW broadcast, NEW failure,
           Emit(st, step, status, token, granted, broadcast, failure)
    PROVE  /\ \E body : ledger' = AppendReceipt(ledger, body)
           /\ ledger' # << >>
           /\ ledger'[Len(ledger')].body.step = step
           /\ ledger'[Len(ledger')].body.status = status
           /\ ledger'[Len(ledger')].body.policy_decision = st.decision
<1> DEFINE args == [step |-> step, status |-> status, plan |-> st.plan,
                    decision |-> st.decision, simulation |-> st.simulation,
                    token |-> token, granted |-> granted,
                    broadcast |-> broadcast, failure |-> failure]
           body == BuildStepReceipt(Len(ledger) + 1, args)
           sealed == Seal(ledger, body)
<1>1. ledger' = AppendReceipt(ledger, body) /\ ledger' = Append(ledger, sealed)
  BY DEF Emit, AppendReceipt
<1>2. /\ sealed.body.step = step /\ sealed.body.status = status
      /\ sealed.body.policy_decision = st.decision
  BY DEF Seal, Redact, BuildStepReceipt
<1> HIDE DEF sealed, body
<1>3. Len(ledger') = Len(ledger) + 1 /\ ledger'[Len(ledger) + 1] = sealed /\ ledger' # << >>
  BY <1>1
<1> QED
  BY <1>1, <1>2, <1>3

\* Appending keeps a verified chain verified.
LEMMA AppendVerifies ==
    ASSUME NEW chain \in Seq(SealedReceipts), VerifyChain(chain), NEW body
    PROVE  VerifyChain(AppendReceipt(chain, body))
<1> DEFINE sealed == Seal(chain, body)
           longer == Append(chain, sealed)
<1>1. /\ sealed.previous_hash = HeadHash(chain)
      /\ sealed.receipt_hash = HashReceiptBody(sealed.body)
  BY DEF Seal
<1> HIDE DEF sealed
<1>2. /\ Len(longer) = Len(chain) + 1 /\ longer[Len(chain) + 1] = sealed
      /\ \A i \in 1..Len(chain) : longer[i] = chain[i]
      /\ Len(chain) \in Nat
  OBVIOUS
<1> HIDE DEF longer
<1>3. VerifyChain(longer)
  <2> SUFFICES ASSUME NEW i \in 1..Len(longer)
               PROVE  /\ longer[i].previous_hash =
                            IF i = 1 THEN GenesisHash ELSE longer[i - 1].receipt_hash
                      /\ longer[i].receipt_hash = HashReceiptBody(longer[i].body)
    BY DEF VerifyChain
  <2>1. CASE i \in 1..Len(chain)
    <3>1. i # 1 => i - 1 \in 1..Len(chain)
      BY <1>2, <2>1
    <3> QED
      BY <1>2, <2>1, <3>1 DEF VerifyChain
  <2>2. CASE i = Len(chain) + 1
    <3>1. CASE chain = << >>
      <4>1. i = 1
        BY <1>2, <2>2, <3>1
      <4> QED
        BY <1>1, <1>2, <2>2, <3>1, <4>1 DEF HeadHash
    <3>2. CASE chain # << >>
      <4>1. Len(chain) \in 1..Len(chain) /\ i # 1 /\ i - 1 = Len(chain)
        BY <1>2, <2>2, <3>2
      <4>2. longer[i - 1] = chain[Len(chain)]
        BY <1>2, <4>1
      <4> QED
        BY <1>1, <1>2, <2>2, <3>2, <4>1, <4>2 DEF HeadHash
    <3> QED
      BY <3>1, <3>2
  <2> QED
    BY <1>2, <2>1, <2>2
<1> QED
  BY <1>3 DEF AppendReceipt, longer, sealed

\* A step leaves the ledger and the lifecycle alone, or emits the receipt of the
\* lifecycle it sets.
LEMMA LedgerStep ==
    ASSUME IInv, [Next]_vars, ChainVerifies, LedgerTellsLifecycle
    PROVE  ChainVerifies' /\ LedgerTellsLifecycle'
<1>0. /\ ledger \in Seq(SealedReceipts) /\ state \in StateType /\ RunInv /\ forces \in Nat
  BY DEF IInv, TypeOK
<1> DEFINE Told(step, status) ==
              /\ \E body : ledger' = AppendReceipt(ledger, body)
              /\ ledger' # << >>
              /\ ledger'[Len(ledger')].body.step = step
              /\ ledger'[Len(ledger')].body.status = status
              /\ ledger'[Len(ledger')].body.policy_decision = state'.decision
           Kept == ledger' = ledger /\ state' = state /\ forces' = forces
<1>1. ASSUME Kept PROVE ChainVerifies' /\ LedgerTellsLifecycle'
  BY <1>1 DEF ChainVerifies, LedgerTellsLifecycle, ReportedLifecycle
<1>2. ASSUME NEW step, NEW status, Told(step, status),
             ReportedLifecycle([step |-> step, status |-> status]) = state'.lifecycle
      PROVE  ChainVerifies' /\ LedgerTellsLifecycle'
  <2>1. ChainVerifies'
    BY <1>0, <1>2, AppendVerifies DEF ChainVerifies
  <2>2. LedgerTellsLifecycle'
    BY <1>2 DEF LedgerTellsLifecycle, ReportedLifecycle
  <2> QED
    BY <2>1, <2>2
<1> HIDE DEF Told, Kept
<1>3. ASSUME NEW t \in Tasks, NEW b \in Bodies, Plan(t, b)
      PROVE ChainVerifies' /\ LedgerTellsLifecycle'
  <2> DEFINE d == Decide[b]
             st == [NoState EXCEPT !.run = state.run + 1, !.lifecycle = AfterPlan(d),
                                   !.plan = b, !.planHash = HashPlan[b], !.decision = d]
             status == IF d = "deny" THEN "rejected" ELSE "prepared"
             fail == IF d = "deny" THEN "policy_denied" ELSE "null"
  <2>1. Emit(st, "plan", status, NoToken, FALSE, "null", fail) /\ state' = st
    BY <1>3 DEF Plan
  <2>2. Told("plan", status)
    <3> HIDE DEF st, status, fail
    <3> QED
      BY <1>0, <2>1, EmitHead DEF Told
  <2>3. ReportedLifecycle([step |-> "plan", status |-> status]) = state'.lifecycle
    BY <1>0, <2>1 DEF ReportedLifecycle, StateType, NoState, AfterPlan
  <2> QED
    BY <1>2, <2>2, <2>3
<1>4. ASSUME NEW t \in Tasks, SimulateOk(t)
      PROVE ChainVerifies' /\ LedgerTellsLifecycle'
  <2> DEFINE lc == AfterSimulation(state.decision)
             st == [state EXCEPT !.simulation = "ok", !.lifecycle = lc]
             status == IF lc = "AWAITING_APPROVAL" THEN "needs_human_review" ELSE "simulated"
  <2>1. Emit(st, "simulate", status, NoToken, FALSE, "null", "null") /\ state' = st
    BY <1>4 DEF SimulateOk
  <2>2. Told("simulate", status)
    <3> HIDE DEF st, status
    <3> QED
      BY <1>0, <2>1, EmitHead DEF Told
  <2>3. ReportedLifecycle([step |-> "simulate", status |-> status]) = state'.lifecycle
    BY <1>0, <2>1 DEF ReportedLifecycle, StateType, AfterSimulation
  <2> QED
    BY <1>2, <2>2, <2>3
<1>5. ASSUME NEW t \in Tasks, SimulateFailed(t)
      PROVE ChainVerifies' /\ LedgerTellsLifecycle'
  <2> DEFINE st == [state EXCEPT !.simulation = "failed", !.lifecycle = "FAILED"]
  <2>1. Emit(st, "simulate", "failed", NoToken, FALSE, "null", "simulation_failed") /\ state' = st
    BY <1>5 DEF SimulateFailed
  <2>2. Told("simulate", "failed")
    <3> HIDE DEF st
    <3> QED
      BY <1>0, <2>1, EmitHead DEF Told
  <2>3. ReportedLifecycle([step |-> "simulate", status |-> "failed"]) = state'.lifecycle
    BY <1>0, <2>1 DEF ReportedLifecycle, StateType
  <2> QED
    BY <1>2, <2>2, <2>3
<1>6. ASSUME NEW t \in Tasks, NEW ttl \in Ttls, GrantApproval(t, ttl)
      PROVE ChainVerifies' /\ LedgerTellsLifecycle'
  <2> DEFINE token == IssueApprovalToken(state.planHash, Len(issued) + 1, ttl, now)
             st    == [state EXCEPT !.approval = token, !.lifecycle = "APPROVED"]
  <2>1. Emit(st, "await_approval", "prepared", token, TRUE, "null", "null") /\ state' = st
    BY <1>6 DEF GrantApproval
  <2>2. Told("await_approval", "prepared")
    <3> HIDE DEF st, token
    <3> QED
      BY <1>0, <2>1, EmitHead DEF Told
  <2>3. ReportedLifecycle([step |-> "await_approval", status |-> "prepared"]) = state'.lifecycle
    BY <1>0, <2>1 DEF ReportedLifecycle, StateType
  <2> QED
    BY <1>2, <2>2, <2>3
<1>7. ASSUME NEW t \in Tasks, SignRefused(t)
      PROVE ChainVerifies' /\ LedgerTellsLifecycle'
  <2> DEFINE st == [state EXCEPT !.lifecycle = "REJECTED"]
  <2>1. Emit(st, "sign", "rejected", state.approval, FALSE, "null", "approval_invalid") /\ state' = st
    BY <1>7 DEF SignRefused
  <2>2. Told("sign", "rejected")
    <3> HIDE DEF st
    <3> QED
      BY <1>0, <2>1, EmitHead DEF Told
  <2>3. ReportedLifecycle([step |-> "sign", status |-> "rejected"]) = state'.lifecycle
    BY <1>0, <2>1 DEF ReportedLifecycle, StateType
  <2> QED
    BY <1>2, <2>2, <2>3
<1>8. ASSUME NEW t \in Tasks, SignReturns(t)
      PROVE ChainVerifies' /\ LedgerTellsLifecycle'
  <2> DEFINE st == [state EXCEPT !.signature = call[t].hash, !.lifecycle = "SIGNED"]
  <2>1. Emit(st, "sign", "prepared", st.approval, HasGrant(st), "null", "null") /\ state' = st
    BY <1>8 DEF SignReturns
  <2>2. Told("sign", "prepared")
    <3> HIDE DEF st
    <3> QED
      BY <1>0, <2>1, EmitHead DEF Told
  <2>3. ReportedLifecycle([step |-> "sign", status |-> "prepared"]) = state'.lifecycle
    BY <1>0, <2>1 DEF ReportedLifecycle, StateType
  <2> QED
    BY <1>2, <2>2, <2>3
<1>9. ASSUME NEW t \in Tasks, NEW r \in {"confirmed", "failed"}, BroadcastReturns(t, r)
      PROVE ChainVerifies' /\ LedgerTellsLifecycle'
  <2> DEFINE lc == AfterBroadcast(r)
             st == [state EXCEPT !.broadcast = r, !.lifecycle = lc]
             status == IF lc = "CONFIRMED" THEN "succeeded" ELSE "failed"
             fail == IF lc = "FAILED" THEN "broadcast_failed" ELSE "null"
  <2>1. Emit(st, "broadcast", status, st.approval, HasGrant(st), r, fail) /\ state' = st
    BY <1>9 DEF BroadcastReturns
  <2>2. Told("broadcast", status)
    <3> HIDE DEF st, status, fail
    <3> QED
      BY <1>0, <2>1, EmitHead DEF Told
  <2>3. ReportedLifecycle([step |-> "broadcast", status |-> status]) = state'.lifecycle
    BY <1>0, <2>1 DEF ReportedLifecycle, StateType, AfterBroadcast
  <2> QED
    BY <1>2, <2>2, <2>3
<1>10. ASSUME NEW t \in Tasks, BroadcastThrows(t)
      PROVE ChainVerifies' /\ LedgerTellsLifecycle'
  <2> DEFINE st == [state EXCEPT !.lifecycle = "FAILED"]
  <2>1. Emit(st, "broadcast", "failed", st.approval, HasGrant(st), "null", "broadcast_error") /\ state' = st
    BY <1>10 DEF BroadcastThrows
  <2>2. Told("broadcast", "failed")
    <3> HIDE DEF st
    <3> QED
      BY <1>0, <2>1, EmitHead DEF Told
  <2>3. ReportedLifecycle([step |-> "broadcast", status |-> "failed"]) = state'.lifecycle
    BY <1>0, <2>1 DEF ReportedLifecycle, StateType
  <2> QED
    BY <1>2, <2>2, <2>3
<1>11. ASSUME NEW t \in Tasks,
              \/ Simulate(t) \/ SimulateThrows(t) \/ SignAccepted(t) \/ SignThrows(t)
              \/ (\E tx \in Txs : Broadcast(t, tx))
              \/ (\E bytes \in Sendable(t) : Submit(t, bytes))
       PROVE ChainVerifies' /\ LedgerTellsLifecycle'
  BY <1>1, <1>11 DEF Kept, Simulate, SimulateThrows, SignAccepted, SignThrows, Broadcast,
     Submit, interference
<1>12. CASE Tick \/ UNCHANGED vars
  BY <1>1, <1>12 DEF Kept, Tick, vars, interference
<1>13. CASE ForceApproved
  BY <1>0, <1>13 DEF ForceApproved, ChainVerifies, LedgerTellsLifecycle
<1>14. ASSUME ledger' = ledger, state'.lifecycle = state.lifecycle,
              state'.decision = state.decision, state'.run = state.run, forces' = forces
       PROVE ChainVerifies' /\ LedgerTellsLifecycle'
  BY <1>14 DEF ChainVerifies, LedgerTellsLifecycle, ReportedLifecycle
<1>15. ASSUME NEW b \in Bodies, EditPlan(b)
       PROVE ChainVerifies' /\ LedgerTellsLifecycle'
  BY <1>0, <1>14, <1>15 DEF EditPlan, StateType
<1>16. ASSUME NEW h \in Hashes, NEW n \in 1..(MaxGrants + 1), NEW e \in 0..(MaxTime + 1),
              EditToken(h, n, e)
       PROVE ChainVerifies' /\ LedgerTellsLifecycle'
  BY <1>0, <1>14, <1>16 DEF EditToken, StateType
<1> QED
  BY <1>3, <1>4, <1>5, <1>6, <1>7, <1>8, <1>9, <1>10, <1>11, <1>12, <1>13, <1>15, <1>16
  DEF Next, HostCalls, PortAnswers, HostEdits

-----------------------------------------------------------------------------
(* A host that awaits each call: AwaitInv is inductive together with IInv. *)

\* A step that leaves the run its plan, hash, decision and grant.
KeepsRun ==
    /\ state'.run = state.run /\ state'.plan = state.plan
    /\ state'.planHash = state.planHash /\ state'.decision = state.decision
    /\ state'.approval = state.approval

\* What was simulated or consumed stays so.
LEMMA OutsideGrows ==
    ASSUME [Next]_vars
    PROVE  simOK \subseteq simOK' /\ nonceStore \subseteq nonceStore'
BY DEF Next, HostCalls, PortAnswers, HostEdits, Plan, Simulate, SimulateOk, SimulateFailed,
       SimulateThrows, GrantApproval, SignAccepted, SignRefused, SignReturns, SignThrows,
       Broadcast, Submit, BroadcastReturns, BroadcastThrows, Tick, ForceApproved, EditPlan,
       EditToken, outside, vars, Consume

\* The submissions keep their backing when none is added.
LEMMA SubmittedKept ==
    ASSUME IInv, AwaitInv, [Next]_vars, submitted' = submitted, confirmed' = confirmed
    PROVE  /\ confirmed' \subseteq SentNonces'
           /\ SubmitOnlySimulated' /\ SubmitMatchesApproval' /\ SubmitOncePerGrant'
<1>1. simOK \subseteq simOK' /\ nonceStore \subseteq nonceStore'
  BY OutsideGrows
<1>2. /\ Len(issued) \in Nat /\ Len(issued') \in Nat /\ Len(issued) <= Len(issued')
      /\ \A k \in 1..Len(issued) : issued'[k] = issued[k]
  BY OnlyGrantApproval DEF IInv, TypeOK
<1>3. confirmed' \subseteq SentNonces'
  BY DEF AwaitInv, SentNonces
<1>4. SubmitOnlySimulated' /\ SubmitOncePerGrant'
  BY <1>1 DEF AwaitInv, SubmitOnlySimulated, SubmitOncePerGrant
<1>5. SubmitMatchesApproval'
  <2> SUFFICES ASSUME NEW i \in 1..Len(submitted)
               PROVE  LET s == submitted[i] IN
                      /\ s.nonce \in 1..Len(issued') /\ s.nonce \in nonceStore'
                      /\ HashPlan[s.plan] = issued'[s.nonce].planHash
                      /\ s.signature = issued'[s.nonce].planHash
    BY DEF SubmitMatchesApproval
  <2> DEFINE s == submitted[i]
  <2>1. /\ s.nonce \in 1..Len(issued) /\ s.nonce \in nonceStore
        /\ HashPlan[s.plan] = issued[s.nonce].planHash
        /\ s.signature = issued[s.nonce].planHash
    BY DEF AwaitInv, SubmitMatchesApproval
  <2> QED
    BY <1>1, <1>2, <2>1
<1> QED
  BY <1>3, <1>4, <1>5

\* A run that goes on towards signing, or ends, stays intact.
LEMMA RunStaysIntact ==
    ASSUME RunIntact, KeepsRun, state.lifecycle # "none",
           simOK \subseteq simOK', issued' = issued,
           HasGrant(state) => state'.simulation = state.simulation,
           state'.lifecycle \in {"APPROVED", "SIGNED"} => HasGrant(state),
           state'.lifecycle = "PLANNED" => state.lifecycle = "PLANNED",
           state'.lifecycle = "AWAITING_APPROVAL" => Simulated'
    PROVE  RunIntact'
BY DEF RunIntact, KeepsRun, Simulated, HasGrant

\* Nor does a step that leaves the run alone harm it.
LEMMA RunLeftIntact ==
    ASSUME RunIntact, state' = state, simOK \subseteq simOK', issued' = issued
    PROVE  RunIntact'
BY DEF RunIntact, Simulated, HasGrant

\* A call that ends without a word, or the passing of time.
LEMMA QuietStep ==
    ASSUME RunIntact, SignedIntact, CallsIntact, UNCHANGED << state, issued, outside, forces >>,
           nonceStore' = nonceStore,
           \A u \in Tasks : call'[u] = call[u]
                            \/ (call'[u].op = "idle" /\ call[u].op # "confirm")
    PROVE  RunIntact' /\ SignedIntact' /\ CallsIntact'
<1>1. RunIntact'
  BY RunLeftIntact DEF outside
<1>2. Unsent' = Unsent /\ Sent' = Sent
  BY DEF Unsent, Sent, SentNonces, HasGrant, outside
<1>3. SignedIntact'
  BY <1>2 DEF SignedIntact
<1>4. CallsIntact'
  BY <1>2 DEF CallsIntact, CallIntact
<1> QED
  BY <1>1, <1>3, <1>4

\* plan() starts a run that has nothing of the one before.
LEMMA PlanAwait ==
    ASSUME AwaitingHost, IInv, AwaitInv, NEW t \in Tasks, NEW b \in Bodies, Plan(t, b)
    PROVE  RunIntact' /\ SignedIntact' /\ CallsIntact'
<1>1. /\ state'.plan = b /\ state'.planHash = HashPlan[b] /\ state'.decision = Decide[b]
      /\ state'.lifecycle \in {"PLANNED", "REJECTED"} /\ state'.approval = NoToken
  BY DEF Plan, NoState, AfterPlan
<1>2. ~HasGrant(state')
  BY <1>1 DEF HasGrant, NoToken
<1>3. \A u \in Tasks : call'[u].op = "idle"
  BY DEF AwaitingHost, Plan, HostIdle
<1> QED
  BY <1>1, <1>2, <1>3 DEF RunIntact, SignedIntact, CallsIntact, CallIntact, HasGrant

\* simulate() up to the port.
LEMMA SimulateAwait ==
    ASSUME AwaitingHost, IInv, AwaitInv, NEW t \in Tasks, Simulate(t)
    PROVE  RunIntact' /\ SignedIntact' /\ CallsIntact'
<1>1. /\ state' = state /\ state.lifecycle = "PLANNED" /\ issued' = issued /\ simOK' = simOK
  BY DEF Simulate, AssertState, Simulatable, outside
<1> DEFINE c == [Idle EXCEPT !.op = "simulate", !.run = state.run, !.plan = state.plan]
<1>2. c.op = "simulate" /\ c.run = state.run /\ c.plan = state.plan
  BY DEF Idle
<1>3. call' = [call EXCEPT ![t] = c] /\ call \in [Tasks -> CallType]
  BY DEF Simulate, IInv, TypeOK
<1> HIDE DEF c
<1>4. call'[t] = c /\ \A u \in Tasks : u = t
  BY <1>3 DEF AwaitingHost
<1>5. RunIntact'
  BY <1>1, RunLeftIntact DEF AwaitInv
<1>6. SignedIntact' /\ CallsIntact'
  BY <1>1, <1>2, <1>4 DEF SignedIntact, CallsIntact, CallIntact
<1> QED
  BY <1>5, <1>6

\* A simulation that came back ok is of the plan of the run.
LEMMA SimulateOkAwait ==
    ASSUME AwaitingHost, IInv, AwaitInv, NEW t \in Tasks, SimulateOk(t)
    PROVE  RunIntact' /\ SignedIntact' /\ CallsIntact'
<1>0. state \in StateType /\ call \in [Tasks -> CallType] /\ RunIntact /\ CallsIntact
  BY DEF IInv, TypeOK, AwaitInv
<1>1. /\ state.lifecycle = "PLANNED" /\ ~HasGrant(state)
      /\ call[t].run = state.run /\ call[t].plan = state.plan
      /\ HashPlan[state.plan] = state.planHash
  BY <1>0 DEF SimulateOk, CallsIntact, CallIntact, RunIntact
<1>2. /\ KeepsRun /\ state'.simulation = "ok"
      /\ state'.lifecycle \in {"AWAITING_APPROVAL", "SIMULATED"}
  BY <1>0 DEF SimulateOk, KeepsRun, StateType, AfterSimulation
<1>3. /\ simOK' = simOK \cup {[run |-> state.run, hash |-> state.planHash]}
      /\ issued' = issued
  BY <1>1 DEF SimulateOk
<1>4. Simulated'
  BY <1>2, <1>3 DEF Simulated, KeepsRun
<1>5. \A u \in Tasks : call'[u].op = "idle"
  BY <1>0, IdleTyped DEF AwaitingHost, SimulateOk
<1>6. RunIntact'
  BY <1>0, <1>1, <1>2, <1>3, <1>4, RunStaysIntact
<1>7. SignedIntact' /\ CallsIntact'
  BY <1>2, <1>5 DEF SignedIntact, CallsIntact, CallIntact
<1> QED
  BY <1>6, <1>7

\* A failed simulation comes before any grant.
LEMMA SimulateFailedAwait ==
    ASSUME AwaitingHost, IInv, AwaitInv, NEW t \in Tasks, SimulateFailed(t)
    PROVE  RunIntact' /\ SignedIntact' /\ CallsIntact'
<1>0. state \in StateType /\ call \in [Tasks -> CallType] /\ RunIntact /\ CallsIntact
  BY DEF IInv, TypeOK, AwaitInv
<1>1. state.lifecycle = "PLANNED" /\ ~HasGrant(state)
  BY <1>0 DEF SimulateFailed, CallsIntact, CallIntact, RunIntact
<1>2. KeepsRun /\ state'.lifecycle = "FAILED"
  BY <1>0 DEF SimulateFailed, KeepsRun, StateType
<1>3. simOK' = simOK /\ issued' = issued
  BY DEF SimulateFailed, outside
<1>5. \A u \in Tasks : call'[u].op = "idle"
  BY <1>0, IdleTyped DEF AwaitingHost, SimulateFailed
<1>6. RunIntact'
  BY <1>0, <1>1, <1>2, <1>3, RunStaysIntact
<1>7. SignedIntact' /\ CallsIntact'
  BY <1>2, <1>5 DEF SignedIntact, CallsIntact, CallIntact
<1> QED
  BY <1>6, <1>7

\* The grant is for the simulated hash, under the next nonce.
LEMMA GrantAwait ==
    ASSUME AwaitingHost, IInv, AwaitInv, NEW t \in Tasks, NEW ttl \in Ttls,
           GrantApproval(t, ttl)
    PROVE  RunIntact' /\ SignedIntact' /\ CallsIntact'
<1> DEFINE token == IssueApprovalToken(state.planHash, Len(issued) + 1, ttl, now)
<1>0. state \in StateType /\ issued \in Seq(Tokens) /\ RunIntact
  BY DEF IInv, TypeOK, AwaitInv
<1>1. token.planHash = state.planHash /\ token.nonce = Len(issued) + 1
  BY DEF IssueApprovalToken
<1>2. /\ issued' = Append(issued, token) /\ simOK' = simOK
      /\ state' = [state EXCEPT !.approval = token, !.lifecycle = "APPROVED"]
  BY DEF GrantApproval
<1> HIDE DEF token
<1>3. /\ state'.approval = token /\ state'.lifecycle = "APPROVED"
      /\ state'.plan = state.plan /\ state'.planHash = state.planHash
      /\ state'.decision = state.decision /\ state'.run = state.run
      /\ state'.simulation = state.simulation
  BY <1>0, <1>2 DEF StateType
<1>4. Len(issued') = Len(issued) + 1 /\ issued'[Len(issued) + 1] = token /\ Len(issued) \in Nat
  BY <1>0, <1>2
<1>5. Simulated /\ HashPlan[state.plan] = state.planHash /\ Decide[state.plan] = state.decision
  BY <1>0 DEF GrantApproval, AssertState, RunIntact
<1>6. HasGrant(state')
  BY <1>1, <1>3, <1>4 DEF HasGrant
<1>7. Simulated'
  BY <1>2, <1>3, <1>5 DEF Simulated
<1>8. RunIntact'
  <2>1. Len(issued) + 1 \in 1..Len(issued')
    BY <1>4
  <2> QED
    BY <1>1, <1>3, <1>4, <1>5, <1>6, <1>7, <2>1 DEF RunIntact
<1>9. \A u \in Tasks : call'[u].op = "idle"
  BY DEF AwaitingHost, GrantApproval, HostIdle
<1>10. SignedIntact' /\ CallsIntact'
  BY <1>3, <1>9 DEF SignedIntact, CallsIntact, CallIntact
<1> QED
  BY <1>8, <1>10

\* sign() up to the port: the nonce was not consumed before, so nothing was sent
\* under it.
LEMMA SignAcceptedAwait ==
    ASSUME AwaitingHost, IInv, AwaitInv, NEW t \in Tasks, SignAccepted(t)
    PROVE  RunIntact' /\ SignedIntact' /\ CallsIntact'
<1>1. /\ state' = state /\ state.lifecycle = "APPROVED" /\ issued' = issued /\ simOK' = simOK
      /\ submitted' = submitted /\ nonceStore' = nonceStore \cup {state.approval.nonce}
  BY DEF SignAccepted, Consume
<1> DEFINE c == [Idle EXCEPT !.op = "sign", !.run = state.run, !.hash = state.planHash]
<1>2. c.op = "sign" /\ c.hash = state.planHash
  BY DEF Idle
<1>3. call' = [call EXCEPT ![t] = c] /\ call \in [Tasks -> CallType]
  BY DEF SignAccepted, IInv, TypeOK
<1> HIDE DEF c
<1>4. call'[t] = c /\ \A u \in Tasks : u = t
  BY <1>3 DEF AwaitingHost
<1>5. RunIntact'
  BY <1>1, RunLeftIntact DEF AwaitInv
<1>6. state.approval.nonce \notin SentNonces
  BY ValidVerdict DEF AwaitInv, SubmitMatchesApproval, SentNonces
<1>7. Unsent'
  BY <1>1, <1>6 DEF Unsent, SentNonces, HasGrant, AwaitInv, RunIntact
<1>8. SignedIntact' /\ CallsIntact'
  BY <1>1, <1>2, <1>4, <1>7 DEF SignedIntact, CallsIntact, CallIntact
<1> QED
  BY <1>5, <1>8

\* A refused sign() ends the run.
LEMMA SignRefusedAwait ==
    ASSUME AwaitingHost, IInv, AwaitInv, NEW t \in Tasks, SignRefused(t)
    PROVE  RunIntact' /\ SignedIntact' /\ CallsIntact'
<1>0. state \in StateType /\ RunIntact
  BY DEF IInv, TypeOK, AwaitInv
<1>1. /\ KeepsRun /\ state'.lifecycle = "REJECTED" /\ state.lifecycle = "APPROVED"
      /\ state'.simulation = state.simulation
  BY <1>0 DEF SignRefused, KeepsRun, StateType
<1>2. simOK' = simOK /\ issued' = issued
  BY DEF SignRefused, outside
<1>3. \A u \in Tasks : call'[u].op = "idle"
  BY DEF AwaitingHost, SignRefused, HostIdle
<1>4. RunIntact'
  BY <1>0, <1>1, <1>2, RunStaysIntact
<1>5. SignedIntact' /\ CallsIntact'
  BY <1>1, <1>3 DEF SignedIntact, CallsIntact, CallIntact
<1> QED
  BY <1>4, <1>5

\* The signature is the one of the run's hash, and unsent.
LEMMA SignReturnsAwait ==
    ASSUME AwaitingHost, IInv, AwaitInv, NEW t \in Tasks, SignReturns(t)
    PROVE  RunIntact' /\ SignedIntact' /\ CallsIntact'
<1>0. state \in StateType /\ call \in [Tasks -> CallType] /\ RunIntact /\ CallsIntact
  BY DEF IInv, TypeOK, AwaitInv
<1>1. state.lifecycle = "APPROVED" /\ call[t].hash = state.planHash /\ Unsent
  BY <1>0 DEF SignReturns, CallsIntact, CallIntact
<1>2. /\ KeepsRun /\ state'.lifecycle = "SIGNED" /\ state'.signature = call[t].hash
      /\ state'.simulation = state.simulation
  BY <1>0 DEF SignReturns, KeepsRun, StateType
<1>3. simOK' = simOK /\ issued' = issued /\ submitted' = submitted /\ nonceStore' = nonceStore
  BY DEF SignReturns, outside
<1>4. \A u \in Tasks : call'[u].op = "idle"
  BY <1>0, IdleTyped DEF AwaitingHost, SignReturns
<1>5. RunIntact'
  BY <1>0, <1>1, <1>2, <1>3, RunStaysIntact DEF Unsent
<1>6. Unsent'
  BY <1>1, <1>2, <1>3 DEF Unsent, KeepsRun, SentNonces, HasGrant
<1>7. SignedIntact' /\ CallsIntact'
  BY <1>1, <1>2, <1>4, <1>6 DEF SignedIntact, CallsIntact, CallIntact, KeepsRun
<1> QED
  BY <1>5, <1>7

\* broadcast() up to the port: the call carries run, plan, signature and nonce.
LEMMA BroadcastAwait ==
    ASSUME AwaitingHost, IInv, AwaitInv, NEW t \in Tasks, NEW tx \in Txs, Broadcast(t, tx)
    PROVE  RunIntact' /\ SignedIntact' /\ CallsIntact'
<1>0. call \in [Tasks -> CallType] /\ RunIntact /\ SignedIntact
  BY DEF IInv, TypeOK, AwaitInv
<1>1. /\ state' = state /\ state.lifecycle = "SIGNED" /\ issued' = issued /\ simOK' = simOK
      /\ submitted' = submitted /\ nonceStore' = nonceStore /\ forces' = forces
  BY DEF Broadcast, AssertState, Broadcastable, outside, interference
<1>2. /\ call'[t].op = "send" /\ call'[t].run = state.run /\ call'[t].plan = state.plan
      /\ call'[t].hash = state.signature /\ call'[t].nonce = state.approval.nonce
  BY <1>0 DEF Broadcast
<1>3. \A u \in Tasks : u = t
  BY DEF AwaitingHost
<1>4. state.signature = state.planHash /\ Unsent
  BY <1>0, <1>1, <1>3 DEF SignedIntact, Broadcast, HostIdle
<1>5. Unsent'
  BY <1>1, <1>4 DEF Unsent, SentNonces, HasGrant
<1>6. RunIntact'
  BY <1>0, <1>1, RunLeftIntact
<1>7. SignedIntact' /\ CallsIntact'
  BY <1>1, <1>2, <1>3, <1>4, <1>5 DEF SignedIntact, CallsIntact, CallIntact
<1> QED
  BY <1>6, <1>7

\* What the cluster accepts: the new entry, and the entries before it.
LEMMA SubmitAppends ==
    ASSUME IInv, NEW t \in Tasks, NEW bytes \in Sendable(t), Submit(t, bytes)
    PROVE  /\ Len(submitted) \in Nat /\ Len(submitted') = Len(submitted) + 1
           /\ \A i \in 1..Len(submitted) : submitted'[i] = submitted[i]
           /\ submitted'[Len(submitted) + 1].run = call[t].run
           /\ submitted'[Len(submitted) + 1].plan = call[t].plan
           /\ submitted'[Len(submitted) + 1].signature = call[t].hash
           /\ submitted'[Len(submitted) + 1].nonce = call[t].nonce
           /\ submitted'[Len(submitted) + 1].bytes = bytes
           /\ \A i \in 1..Len(submitted') : i \in 1..Len(submitted) \/ i = Len(submitted) + 1
<1> DEFINE s == [run |-> call[t].run, plan |-> call[t].plan, signature |-> call[t].hash,
                 nonce |-> call[t].nonce, bytes |-> bytes]
<1>1. /\ submitted \in Seq([run : Nat, plan : Bodies, signature : Hashes \cup {None},
                            nonce : Nat, bytes : Bodies])
      /\ submitted' = Append(submitted, s)
  BY DEF IInv, TypeOK, Submit
<1>2. /\ s.run = call[t].run /\ s.plan = call[t].plan
      /\ s.signature = call[t].hash /\ s.nonce = call[t].nonce /\ s.bytes = bytes
  OBVIOUS
<1> HIDE DEF s
<1>3. /\ Len(submitted) \in Nat /\ Len(submitted') = Len(submitted) + 1
      /\ \A i \in 1..Len(submitted) : submitted'[i] = submitted[i]
      /\ submitted'[Len(submitted) + 1] = s
  BY <1>1
<1> QED
  BY <1>2, <1>3

\* A submission is the plan of the run, simulated, signed and granted; no other has
\* its nonce.
LEMMA SubmitAwait ==
    ASSUME AwaitingHost, IInv, AwaitInv, NEW t \in Tasks, NEW bytes \in Sendable(t), Submit(t, bytes)
    PROVE  AwaitInv'
<1> DEFINE n == Len(submitted) + 1
<1>0. /\ call \in [Tasks -> CallType] /\ RunIntact /\ SignedIntact /\ CallsIntact
      /\ confirmed \subseteq SentNonces /\ RunInv
      /\ SubmitOnlySimulated /\ SubmitMatchesApproval /\ SubmitOncePerGrant
  BY DEF IInv, TypeOK, AwaitInv
<1>1. /\ state' = state /\ issued' = issued /\ simOK' = simOK /\ nonceStore' = nonceStore
      /\ confirmed' = confirmed /\ forces' = forces
  BY DEF Submit, interference
<1>2. \A u \in Tasks : u = t
  BY DEF AwaitingHost
<1>3. /\ call[t].run = state.run /\ call[t].plan = state.plan
      /\ call[t].hash = state.planHash /\ call[t].nonce = state.approval.nonce /\ Unsent
      /\ (state.lifecycle = "SIGNED" \/ forces > 0)
  BY <1>0 DEF Submit, CallsIntact, CallIntact
<1>4. /\ Len(submitted) \in Nat /\ Len(submitted') = n
      /\ \A i \in 1..Len(submitted) : submitted'[i] = submitted[i]
      /\ submitted'[n].run = state.run /\ submitted'[n].plan = state.plan
      /\ submitted'[n].signature = state.planHash
      /\ submitted'[n].nonce = state.approval.nonce
      /\ \A i \in 1..Len(submitted') : i \in 1..Len(submitted) \/ i = n
  BY <1>3, SubmitAppends
<1>5. /\ HasGrant(state) /\ state.lifecycle # "none" /\ Simulated
      /\ HashPlan[state.plan] = state.planHash
      /\ state.approval.nonce \in 1..Len(issued)
      /\ issued[state.approval.nonce].planHash = state.planHash
      /\ state.approval.nonce \in nonceStore
      /\ state.approval.nonce \notin SentNonces
  BY <1>0, <1>3 DEF Unsent, RunInv, RunIntact
<1>6. /\ call'[t].op = "confirm" /\ call'[t].nonce = call[t].nonce
  <2>1. call' = [call EXCEPT ![t] = [call[t] EXCEPT !.op = "confirm"]]
    BY DEF Submit
  <2> QED
    BY <1>0, <2>1 DEF CallType
<1> HIDE DEF n
<1>7. n \in 1..Len(submitted')
  BY <1>4 DEF n
<1>8. Sent'
  <2>1. state.approval.nonce \notin confirmed
    BY <1>0, <1>5
  <2>2. HasGrant(state)'
    BY <1>1, <1>5 DEF HasGrant
  <2> QED
    BY <1>1, <1>4, <1>7, <2>1, <2>2 DEF Sent
<1>9. RunIntact'
  BY <1>0, <1>1, RunLeftIntact
<1>10. SignedIntact'
  BY <1>0, <1>1, <1>6 DEF SignedIntact
<1>11. CallsIntact'
  BY <1>1, <1>2, <1>3, <1>6, <1>8 DEF CallsIntact, CallIntact
<1>12. SentNonces \subseteq SentNonces'
  <2>1. \A i \in 1..Len(submitted) : i \in 1..Len(submitted')
    BY <1>4 DEF n
  <2> QED
    BY <1>4, <2>1 DEF SentNonces
<1>13. SubmitOnlySimulated'
  BY <1>0, <1>1, <1>4, <1>5 DEF SubmitOnlySimulated, Simulated
<1>14. SubmitMatchesApproval'
  BY <1>0, <1>1, <1>4, <1>5 DEF SubmitMatchesApproval
<1>15. SubmitOncePerGrant'
  <2> SUFFICES ASSUME NEW i \in 1..Len(submitted'), NEW j \in 1..Len(submitted'),
                      submitted'[i].nonce = submitted'[j].nonce
               PROVE  i = j
    BY DEF SubmitOncePerGrant
  <2>1. \A k \in 1..Len(submitted) : submitted'[k].nonce \in SentNonces
    BY <1>4 DEF SentNonces
  <2>2. CASE i \in 1..Len(submitted) /\ j \in 1..Len(submitted)
    BY <1>0, <1>4, <2>2 DEF SubmitOncePerGrant
  <2>3. CASE i = n \/ j = n
    BY <1>4, <1>5, <2>1, <2>3
  <2> QED
    BY <1>4, <2>2, <2>3
<1> QED
  BY <1>0, <1>1, <1>9, <1>10, <1>11, <1>12, <1>13, <1>14, <1>15 DEF AwaitInv

\* The answer of the cluster ends the run; a confirmed nonce was sent.
LEMMA BroadcastReturnsAwait ==
    ASSUME AwaitingHost, IInv, AwaitInv, NEW t \in Tasks,
           NEW r \in {"confirmed", "failed"}, BroadcastReturns(t, r), [Next]_vars
    PROVE  AwaitInv'
<1>0. /\ state \in StateType /\ call \in [Tasks -> CallType] /\ RunIntact /\ CallsIntact
      /\ RunInv /\ confirmed \subseteq SentNonces
      /\ SubmitOnlySimulated /\ SubmitMatchesApproval /\ SubmitOncePerGrant
  BY DEF IInv, TypeOK, AwaitInv
<1>1. /\ KeepsRun /\ state'.lifecycle \in {"CONFIRMED", "FAILED"}
      /\ state'.simulation = state.simulation
  BY <1>0 DEF BroadcastReturns, KeepsRun, StateType, AfterBroadcast
<1>2. /\ simOK' = simOK /\ issued' = issued /\ submitted' = submitted
      /\ nonceStore' = nonceStore /\ confirmed' \subseteq confirmed \cup {call[t].nonce}
  BY DEF BroadcastReturns
<1>3. \A u \in Tasks : call'[u].op = "idle"
  BY <1>0, IdleTyped DEF AwaitingHost, BroadcastReturns
<1>4. state.lifecycle # "none" /\ Sent /\ call[t].nonce = state.approval.nonce
  BY <1>0 DEF BroadcastReturns, CallsIntact, CallIntact, RunInv
<1>5. RunIntact'
  BY <1>0, <1>1, <1>2, <1>4, RunStaysIntact
<1>6. SignedIntact' /\ CallsIntact'
  BY <1>1, <1>3 DEF SignedIntact, CallsIntact, CallIntact
<1>7. confirmed' \subseteq SentNonces'
  BY <1>0, <1>2, <1>4 DEF Sent, SentNonces
<1>8. SubmitOnlySimulated' /\ SubmitMatchesApproval' /\ SubmitOncePerGrant'
  BY <1>0, <1>2 DEF SubmitOnlySimulated, SubmitMatchesApproval, SubmitOncePerGrant
<1> QED
  BY <1>5, <1>6, <1>7, <1>8 DEF AwaitInv

\* An exception from sendSigned ends the run too.
LEMMA BroadcastThrowsAwait ==
    ASSUME AwaitingHost, IInv, AwaitInv, NEW t \in Tasks, BroadcastThrows(t)
    PROVE  RunIntact' /\ SignedIntact' /\ CallsIntact'
<1>0. /\ state \in StateType /\ call \in [Tasks -> CallType] /\ RunIntact /\ RunInv
  BY DEF IInv, TypeOK, AwaitInv
<1>1. /\ KeepsRun /\ state'.lifecycle = "FAILED" /\ state'.simulation = state.simulation
  BY <1>0 DEF BroadcastThrows, KeepsRun, StateType
<1>2. /\ simOK' = simOK /\ issued' = issued
  BY DEF BroadcastThrows, outside
<1>3. \A u \in Tasks : call'[u].op = "idle"
  BY <1>0, IdleTyped DEF AwaitingHost, BroadcastThrows
<1>4. state.lifecycle # "none"
  BY <1>0 DEF BroadcastThrows, RunInv
<1>5. RunIntact'
  BY <1>0, <1>1, <1>2, <1>4, RunStaysIntact
<1>6. SignedIntact' /\ CallsIntact'
  BY <1>1, <1>3 DEF SignedIntact, CallsIntact, CallIntact
<1> QED
  BY <1>5, <1>6

\* Forcing the lifecycle back to APPROVED brings no second transaction: the calls
\* in flight are as they were, and a spent grant stays spent.
LEMMA ForceAwait ==
    ASSUME AwaitingHost, IInv, AwaitInv, ForceApproved
    PROVE  RunIntact' /\ SignedIntact' /\ CallsIntact'
<1>0. /\ state \in StateType /\ RunIntact /\ CallsIntact /\ RunInv /\ forces \in Nat
  BY DEF IInv, TypeOK, AwaitInv
<1>1. /\ KeepsRun /\ state'.lifecycle = "APPROVED" /\ HasGrant(state)
      /\ state'.simulation = state.simulation
  BY <1>0 DEF ForceApproved, KeepsRun, StateType
<1>2. /\ simOK' = simOK /\ issued' = issued /\ submitted' = submitted /\ confirmed' = confirmed
      /\ nonceStore' = nonceStore /\ call' = call /\ forces' = forces + 1
  BY DEF ForceApproved, outside
<1>3. state.lifecycle \notin {"none", "PLANNED"}
  BY <1>0, <1>1 DEF RunInv, RunIntact
<1>4. RunIntact'
  BY <1>0, <1>1, <1>2, <1>3, RunStaysIntact
<1>5. Unsent' = Unsent /\ Sent' = Sent
  BY <1>1, <1>2 DEF Unsent, Sent, SentNonces, HasGrant, KeepsRun
<1>6. forces' > 0
  BY <1>0, <1>2
<1>7. CallsIntact'
  BY <1>0, <1>1, <1>2, <1>3, <1>5, <1>6 DEF CallsIntact, CallIntact, KeepsRun
<1>8. SignedIntact'
  BY <1>1 DEF SignedIntact
<1> QED
  BY <1>4, <1>7, <1>8

\* One step per action.
LEMMA AwaitStep ==
    ASSUME AwaitingHost, IInv, AwaitInv, [Next]_vars
    PROVE  AwaitInv'
<1>1. ASSUME UNCHANGED << submitted, confirmed >>, RunIntact', SignedIntact', CallsIntact'
      PROVE  AwaitInv'
  BY <1>1, SubmittedKept DEF AwaitInv
<1>2. ASSUME NEW t \in Tasks, NEW b \in Bodies, Plan(t, b) PROVE AwaitInv'
  BY <1>1, <1>2, PlanAwait DEF Plan, outside
<1>3. ASSUME NEW t \in Tasks, Simulate(t) PROVE AwaitInv'
  BY <1>1, <1>3, SimulateAwait DEF Simulate, outside
<1>4. ASSUME NEW t \in Tasks, SimulateOk(t) PROVE AwaitInv'
  BY <1>1, <1>4, SimulateOkAwait DEF SimulateOk
<1>5. ASSUME NEW t \in Tasks, SimulateFailed(t) PROVE AwaitInv'
  BY <1>1, <1>5, SimulateFailedAwait DEF SimulateFailed, outside
<1>6. ASSUME NEW t \in Tasks, NEW ttl \in Ttls, GrantApproval(t, ttl) PROVE AwaitInv'
  BY <1>1, <1>6, GrantAwait DEF GrantApproval
<1>7. ASSUME NEW t \in Tasks, SignAccepted(t) PROVE AwaitInv'
  BY <1>1, <1>7, SignAcceptedAwait DEF SignAccepted
<1>8. ASSUME NEW t \in Tasks, SignRefused(t) PROVE AwaitInv'
  BY <1>1, <1>8, SignRefusedAwait DEF SignRefused, outside
<1>9. ASSUME NEW t \in Tasks, SignReturns(t) PROVE AwaitInv'
  BY <1>1, <1>9, SignReturnsAwait DEF SignReturns, outside
<1>10. ASSUME NEW t \in Tasks, NEW tx \in Txs, Broadcast(t, tx) PROVE AwaitInv'
  BY <1>1, <1>10, BroadcastAwait DEF Broadcast, outside
<1>11. ASSUME NEW t \in Tasks, NEW bytes \in Sendable(t), Submit(t, bytes) PROVE AwaitInv'
  BY <1>11, SubmitAwait
<1>12. ASSUME NEW t \in Tasks, NEW r \in {"confirmed", "failed"}, BroadcastReturns(t, r)
       PROVE AwaitInv'
  BY <1>12, BroadcastReturnsAwait
<1>13. ASSUME NEW t \in Tasks, BroadcastThrows(t) PROVE AwaitInv'
  BY <1>1, <1>13, BroadcastThrowsAwait DEF BroadcastThrows, outside
<1>14. CASE ForceApproved
  BY <1>1, <1>14, ForceAwait DEF ForceApproved, outside
<1>15. ASSUME NEW t \in Tasks, SimulateThrows(t) \/ SignThrows(t) PROVE AwaitInv'
  <2>1. /\ UNCHANGED << state, nonceStore, issued, outside, forces >>
        /\ call' = [call EXCEPT ![t] = Idle] /\ call[t].op # "confirm"
        /\ call \in [Tasks -> CallType]
    BY <1>15 DEF SimulateThrows, SignThrows, outside, interference, IInv, TypeOK
  <2>2. \A u \in Tasks : call'[u] = call[u]
                         \/ (call'[u].op = "idle" /\ call[u].op # "confirm")
    BY <2>1, IdleTyped
  <2> QED
    BY <1>1, <2>1, <2>2, QuietStep DEF AwaitInv, outside
<1>16. CASE Tick \/ UNCHANGED vars
  <2>1. UNCHANGED << state, nonceStore, call, issued, outside, forces >>
    BY <1>16 DEF Tick, vars, outside, interference
  <2> QED
    BY <1>1, <2>1, QuietStep DEF AwaitInv, outside
<1>17. ~HostEdits
  <2>1. ~(edits < MaxEdits)
    BY DEF AwaitingHost, IInv, TypeOK
  <2> QED
    BY <2>1, Zenon DEF HostEdits, EditPlan, EditToken
<1> QED
  BY <1>2, <1>3, <1>4, <1>5, <1>6, <1>7, <1>8, <1>9, <1>10, <1>11, <1>12, <1>13,
     <1>14, <1>15, <1>16, <1>17 DEF Next, HostCalls, PortAnswers

-----------------------------------------------------------------------------
(* What such a host's ledger says. *)

\* What #emit appends, field by field.
LEMMA EmitAppends ==
    ASSUME ledger \in Seq(SealedReceipts), NEW st, NEW step, NEW status, NEW token,
           NEW granted, NEW broadcast, NEW failure,
           Emit(st, step, status, token, granted, broadcast, failure)
    PROVE  LET new == ledger'[Len(ledger) + 1].body IN
           /\ Len(ledger) \in Nat /\ Len(ledger') = Len(ledger) + 1
           /\ \A i \in 1..Len(ledger) : ledger'[i] = ledger[i]
           /\ new.step = step /\ new.plan = st.plan /\ new.grant_id = token.nonce
           /\ new.mode = "execute_with_human_approval"
                 => status = "succeeded" /\ broadcast # "null"
           /\ st.simulation = "ok" => new.simulation_status = "simulated_ok"
<1> DEFINE args == [step |-> step, status |-> status, plan |-> st.plan,
                    decision |-> st.decision, simulation |-> st.simulation,
                    token |-> token, granted |-> granted,
                    broadcast |-> broadcast, failure |-> failure]
           body == BuildStepReceipt(Len(ledger) + 1, args)
           sealed == Seal(ledger, body)
<1>1. ledger' = Append(ledger, sealed)
  BY DEF Emit, AppendReceipt
<1>2. /\ sealed.body.step = step /\ sealed.body.plan = st.plan
      /\ sealed.body.grant_id = token.nonce /\ sealed.body.mode = Mode(args)
      /\ sealed.body.simulation_status = SimulationStatus(args)
  BY DEF Seal, Redact, BuildStepReceipt
<1>3. Mode(args) = "execute_with_human_approval" => status = "succeeded" /\ broadcast # "null"
  BY DEF Mode
<1>4. st.simulation = "ok" => SimulationStatus(args) = "simulated_ok"
  BY DEF SimulationStatus
<1> HIDE DEF sealed, body, args
<1>5. /\ Len(ledger) \in Nat /\ Len(ledger') = Len(ledger) + 1
      /\ \A i \in 1..Len(ledger) : ledger'[i] = ledger[i]
      /\ ledger'[Len(ledger) + 1] = sealed
  BY <1>1
<1> QED
  BY <1>2, <1>3, <1>4, <1>5

\* A receipt under a grant reports it approved.
LEMMA EmitApproved ==
    ASSUME ledger \in Seq(SealedReceipts), NEW st, NEW step, NEW status, NEW token,
           token.nonce # 0, NEW broadcast, NEW failure,
           Emit(st, step, status, token, TRUE, broadcast, failure)
    PROVE  ledger'[Len(ledger) + 1].body.approval_state = "approved"
<1> DEFINE args == [step |-> step, status |-> status, plan |-> st.plan,
                    decision |-> st.decision, simulation |-> st.simulation,
                    token |-> token, granted |-> TRUE,
                    broadcast |-> broadcast, failure |-> failure]
           sealed == Seal(ledger, BuildStepReceipt(Len(ledger) + 1, args))
<1>1. ledger' = Append(ledger, sealed)
  BY DEF Emit, AppendReceipt
<1>2. sealed.body.approval_state = ApprovalState(args)
  BY DEF Seal, Redact, BuildStepReceipt
<1>3. ApprovalState(args) = "approved"
  BY DEF ApprovalState, HasApproval
<1> HIDE DEF sealed, args
<1> QED
  BY <1>1, <1>2, <1>3

\* The ledger grows by a receipt of that step.
Recorded(step) ==
    /\ Len(ledger) \in Nat /\ Len(ledger') = Len(ledger) + 1
    /\ \A i \in 1..Len(ledger) : ledger'[i] = ledger[i]
    /\ ledger'[Len(ledger) + 1].body.step = step

\* The lifecycle moves past the step, and never back before one it was past.
MovesPast(step) ==
    /\ state.lifecycle \in Ahead(step) /\ state'.lifecycle \notin Ahead(step)
    /\ \A s \in Steps : state.lifecycle \notin Ahead(s) => state'.lifecycle \notin Ahead(s)

\* The moves the handlers make.
LEMMA LegalMoves ==
    /\ state.lifecycle = "PLANNED"
       /\ state'.lifecycle \in {"SIMULATED", "AWAITING_APPROVAL", "FAILED"}
          => MovesPast("simulate")
    /\ state.lifecycle = "AWAITING_APPROVAL" /\ state'.lifecycle = "APPROVED"
          => MovesPast("await_approval")
    /\ state.lifecycle = "APPROVED" /\ state'.lifecycle \in {"SIGNED", "REJECTED"}
          => MovesPast("sign")
    /\ state.lifecycle = "SIGNED" /\ state'.lifecycle \in {"CONFIRMED", "FAILED"}
          => MovesPast("broadcast")
BY DEF MovesPast, Ahead, Steps

\* The receipt just appended claims an execution.
ClaimsExecution == ledger'[Len(ledger) + 1].body.mode = "execute_with_human_approval"

\* A step of the agent leaves the ledger alone, or records one step of the flow;
\* only a confirmation is recorded as an execution.
LEMMA LedgerMoves ==
    ASSUME AwaitingHost, IInv, AwaitInv, [Next]_vars
    PROVE  \/ ledger' = ledger /\ (state'.lifecycle = state.lifecycle \/ forces' > 0)
           \/ \E step \in Steps :
                 /\ Recorded(step)
                 /\ IF step = "plan" THEN state'.run # state.run
                                     ELSE MovesPast(step) \/ forces > 0
                 /\ ClaimsExecution => \E t \in Tasks : BroadcastReturns(t, "confirmed")
<1> DEFINE Claim == \/ ledger' = ledger /\ (state'.lifecycle = state.lifecycle \/ forces' > 0)
                    \/ \E step \in Steps :
                          /\ Recorded(step)
                          /\ IF step = "plan" THEN state'.run # state.run
                                              ELSE MovesPast(step) \/ forces > 0
                          /\ ClaimsExecution => \E t \in Tasks : BroadcastReturns(t, "confirmed")
<1>0. /\ ledger \in Seq(SealedReceipts) /\ state \in StateType /\ CallsIntact
      /\ forces \in Nat /\ edits \in Nat
  BY DEF IInv, TypeOK, AwaitInv
<1>1. ASSUME NEW step \in Steps, Recorded(step),
             IF step = "plan" THEN state'.run # state.run ELSE MovesPast(step) \/ forces > 0,
             ClaimsExecution => \E t \in Tasks : BroadcastReturns(t, "confirmed")
      PROVE  Claim
  BY <1>1
<1>2. ASSUME ledger' = ledger, state'.lifecycle = state.lifecycle \/ forces' > 0
      PROVE  Claim
  BY <1>2
<1> HIDE DEF Claim
<1>3. ASSUME NEW t \in Tasks, NEW b \in Bodies, Plan(t, b) PROVE Claim
  <2> DEFINE d == Decide[b]
             st == [NoState EXCEPT !.run = state.run + 1, !.lifecycle = AfterPlan(d),
                                   !.plan = b, !.planHash = HashPlan[b], !.decision = d]
             status == IF d = "deny" THEN "rejected" ELSE "prepared"
             fail == IF d = "deny" THEN "policy_denied" ELSE "null"
  <2>1. Emit(st, "plan", status, NoToken, FALSE, "null", fail) /\ status # "succeeded"
    BY <1>3 DEF Plan
  <2>2. state'.run # state.run
    BY <1>0, <1>3 DEF Plan, NoState, StateType
  <2> HIDE DEF st, status, fail
  <2>3. Recorded("plan") /\ ~ClaimsExecution
    BY <1>0, <2>1, EmitAppends DEF Recorded, ClaimsExecution
  <2> QED
    BY <1>1, <2>2, <2>3 DEF Steps
<1>4. ASSUME NEW t \in Tasks, SimulateOk(t) PROVE Claim
  <2> DEFINE lc == AfterSimulation(state.decision)
             st == [state EXCEPT !.simulation = "ok", !.lifecycle = lc]
             status == IF lc = "AWAITING_APPROVAL" THEN "needs_human_review" ELSE "simulated"
  <2>1. Emit(st, "simulate", status, NoToken, FALSE, "null", "null") /\ status # "succeeded"
    BY <1>4 DEF SimulateOk
  <2>2. state.lifecycle = "PLANNED" /\ state'.lifecycle \in {"SIMULATED", "AWAITING_APPROVAL"}
    BY <1>0, <1>4 DEF SimulateOk, StateType, AfterSimulation, CallsIntact, CallIntact
  <2> HIDE DEF st, status
  <2>3. Recorded("simulate") /\ ~ClaimsExecution
    BY <1>0, <2>1, EmitAppends DEF Recorded, ClaimsExecution
  <2>4. MovesPast("simulate")
    BY <2>2, LegalMoves
  <2> QED
    BY <1>1, <2>3, <2>4 DEF Steps
<1>5. ASSUME NEW t \in Tasks, SimulateFailed(t) PROVE Claim
  <2> DEFINE st == [state EXCEPT !.simulation = "failed", !.lifecycle = "FAILED"]
  <2>1. Emit(st, "simulate", "failed", NoToken, FALSE, "null", "simulation_failed")
    BY <1>5 DEF SimulateFailed
  <2>2. state.lifecycle = "PLANNED" /\ state'.lifecycle = "FAILED"
    BY <1>0, <1>5 DEF SimulateFailed, StateType, CallsIntact, CallIntact
  <2> HIDE DEF st
  <2>3. Recorded("simulate") /\ ~ClaimsExecution
    BY <1>0, <2>1, EmitAppends DEF Recorded, ClaimsExecution
  <2>4. MovesPast("simulate")
    BY <2>2, LegalMoves
  <2> QED
    BY <1>1, <2>3, <2>4 DEF Steps
<1>6. ASSUME NEW t \in Tasks, NEW ttl \in Ttls, GrantApproval(t, ttl) PROVE Claim
  <2> DEFINE token == IssueApprovalToken(state.planHash, Len(issued) + 1, ttl, now)
             st    == [state EXCEPT !.approval = token, !.lifecycle = "APPROVED"]
  <2>1. /\ Emit(st, "await_approval", "prepared", token, TRUE, "null", "null")
        /\ state' = st /\ state.lifecycle = "AWAITING_APPROVAL"
    BY <1>6 DEF GrantApproval, AssertState
  <2>2. state'.lifecycle = "APPROVED"
    BY <1>0, <2>1 DEF StateType
  <2> HIDE DEF st, token
  <2>3. Recorded("await_approval") /\ ~ClaimsExecution
    BY <1>0, <2>1, EmitAppends DEF Recorded, ClaimsExecution
  <2>4. MovesPast("await_approval")
    BY <2>1, <2>2, LegalMoves
  <2> QED
    BY <1>1, <2>3, <2>4 DEF Steps
<1>7. ASSUME NEW t \in Tasks, SignRefused(t) PROVE Claim
  <2> DEFINE st == [state EXCEPT !.lifecycle = "REJECTED"]
  <2>1. Emit(st, "sign", "rejected", state.approval, FALSE, "null", "approval_invalid")
    BY <1>7 DEF SignRefused
  <2>2. state.lifecycle = "APPROVED" /\ state'.lifecycle = "REJECTED"
    BY <1>0, <1>7 DEF SignRefused, StateType
  <2> HIDE DEF st
  <2>3. Recorded("sign") /\ ~ClaimsExecution
    BY <1>0, <2>1, EmitAppends DEF Recorded, ClaimsExecution
  <2>4. MovesPast("sign")
    BY <2>2, LegalMoves
  <2> QED
    BY <1>1, <2>3, <2>4 DEF Steps
<1>8. ASSUME NEW t \in Tasks, SignReturns(t) PROVE Claim
  <2> DEFINE st == [state EXCEPT !.signature = call[t].hash, !.lifecycle = "SIGNED"]
  <2>1. Emit(st, "sign", "prepared", st.approval, HasGrant(st), "null", "null")
    BY <1>8 DEF SignReturns
  <2>2. state.lifecycle = "APPROVED" /\ state'.lifecycle = "SIGNED"
    BY <1>0, <1>8 DEF SignReturns, StateType, CallsIntact, CallIntact
  <2> HIDE DEF st
  <2>3. Recorded("sign") /\ ~ClaimsExecution
    BY <1>0, <2>1, EmitAppends DEF Recorded, ClaimsExecution
  <2>4. MovesPast("sign")
    BY <2>2, LegalMoves
  <2> QED
    BY <1>1, <2>3, <2>4 DEF Steps
<1>9. ASSUME NEW t \in Tasks, NEW r \in {"confirmed", "failed"}, BroadcastReturns(t, r)
      PROVE  Claim
  <2> DEFINE lc == AfterBroadcast(r)
             st == [state EXCEPT !.broadcast = r, !.lifecycle = lc]
             status == IF lc = "CONFIRMED" THEN "succeeded" ELSE "failed"
             fail == IF lc = "FAILED" THEN "broadcast_failed" ELSE "null"
  <2>1. Emit(st, "broadcast", status, st.approval, HasGrant(st), r, fail)
    BY <1>9 DEF BroadcastReturns
  <2>2. state.lifecycle = "SIGNED" \/ forces > 0
    BY <1>0, <1>9 DEF BroadcastReturns, CallsIntact, CallIntact
  <2>3. state'.lifecycle \in {"CONFIRMED", "FAILED"}
    BY <1>0, <1>9 DEF BroadcastReturns, StateType, AfterBroadcast
  <2>4. status = "succeeded" => r = "confirmed"
    BY DEF AfterBroadcast
  <2> HIDE DEF st, status, fail
  <2>5. Recorded("broadcast") /\ (ClaimsExecution => r = "confirmed")
    BY <1>0, <2>1, <2>4, EmitAppends DEF Recorded, ClaimsExecution
  <2>6. MovesPast("broadcast") \/ forces > 0
    BY <2>2, <2>3, LegalMoves
  <2> QED
    BY <1>1, <1>9, <2>5, <2>6 DEF Steps
<1>10. ASSUME NEW t \in Tasks, BroadcastThrows(t) PROVE Claim
  <2> DEFINE st == [state EXCEPT !.lifecycle = "FAILED"]
  <2>1. Emit(st, "broadcast", "failed", st.approval, HasGrant(st), "null", "broadcast_error")
    BY <1>10 DEF BroadcastThrows
  <2>2. state.lifecycle = "SIGNED" \/ forces > 0
    BY <1>0, <1>10 DEF BroadcastThrows, CallsIntact, CallIntact
  <2>3. state'.lifecycle = "FAILED"
    BY <1>0, <1>10 DEF BroadcastThrows, StateType
  <2> HIDE DEF st
  <2>4. Recorded("broadcast") /\ ~ClaimsExecution
    BY <1>0, <2>1, EmitAppends DEF Recorded, ClaimsExecution
  <2>5. MovesPast("broadcast") \/ forces > 0
    BY <2>2, <2>3, LegalMoves
  <2> QED
    BY <1>1, <2>4, <2>5 DEF Steps
<1>11. ASSUME NEW t \in Tasks,
              \/ Simulate(t) \/ SimulateThrows(t) \/ SignAccepted(t) \/ SignThrows(t)
              \/ (\E tx \in Txs : Broadcast(t, tx))
              \/ (\E bytes \in Sendable(t) : Submit(t, bytes))
       PROVE  Claim
  BY <1>2, <1>11 DEF Simulate, SimulateThrows, SignAccepted, SignThrows, Broadcast, Submit
<1>12. ASSUME Tick \/ UNCHANGED vars PROVE Claim
  BY <1>2, <1>12 DEF Tick, vars
<1>13. ASSUME ForceApproved PROVE Claim
  BY <1>0, <1>2, <1>13 DEF ForceApproved
<1>14. ~HostEdits
  <2>1. ~(edits < MaxEdits)
    BY <1>0 DEF AwaitingHost
  <2> QED
    BY <2>1, Zenon DEF HostEdits, EditPlan, EditToken
<1>15. ASSUME NEW t \in Tasks, HostCalls(t) PROVE Claim
  BY <1>3, <1>6, <1>7, <1>11, <1>15 DEF HostCalls
<1>16. ASSUME NEW t \in Tasks, PortAnswers(t) PROVE Claim
  BY <1>4, <1>5, <1>8, <1>9, <1>10, <1>11, <1>16 DEF PortAnswers
<1>17. Claim
  BY <1>12, <1>13, <1>14, <1>15, <1>16 DEF Next
<1> QED
  BY <1>17 DEF Claim

\* What the cluster accepted or confirmed stays so.
LEMMA SubmittedGrows ==
    ASSUME IInv, [Next]_vars
    PROVE  /\ confirmed \subseteq confirmed'
           /\ \A k \in 1..Len(submitted) : k \in 1..Len(submitted')
                                           /\ submitted'[k] = submitted[k]
<1>1. confirmed \subseteq confirmed'
  BY DEF Next, HostCalls, PortAnswers, HostEdits, Plan, Simulate, SimulateOk,
         SimulateFailed, SimulateThrows, GrantApproval, SignAccepted, SignRefused,
         SignReturns, SignThrows, Broadcast, Submit, BroadcastReturns, BroadcastThrows,
         Tick, ForceApproved, EditPlan, EditToken, outside, vars
<1>2. (\E t \in Tasks : \E bytes \in Sendable(t) : Submit(t, bytes)) \/ submitted' = submitted
  BY DEF Next, HostCalls, PortAnswers, HostEdits, Plan, Simulate, SimulateOk,
         SimulateFailed, SimulateThrows, GrantApproval, SignAccepted, SignRefused,
         SignReturns, SignThrows, Broadcast, Submit, BroadcastReturns, BroadcastThrows,
         Tick, ForceApproved, EditPlan, EditToken, outside, vars
<1>3. ASSUME NEW t \in Tasks, NEW bytes \in Sendable(t), Submit(t, bytes)
      PROVE  \A k \in 1..Len(submitted) : k \in 1..Len(submitted') /\ submitted'[k] = submitted[k]
  <2>1. /\ Len(submitted) \in Nat /\ Len(submitted') = Len(submitted) + 1
        /\ \A i \in 1..Len(submitted) : submitted'[i] = submitted[i]
    BY <1>3, SubmitAppends
  <2> QED
    BY <2>1
<1> QED
  BY <1>1, <1>2, <1>3

\* What an execution receipt says about the outside world.
Backed(r) ==
    /\ r.approval_state = "approved" /\ r.simulation_status = "simulated_ok"
    /\ r.grant_id \in nonceStore \cap confirmed
    /\ \E k \in 1..Len(submitted) : submitted[k].nonce = r.grant_id /\ submitted[k].plan = r.plan

\* The receipt of a confirmation: the run is simulated and approved, its plan was sent
\* under the grant in hand, and no confirmation of that grant is recorded yet.
LEMMA ConfirmationBacked ==
    ASSUME AwaitingHost, IInv, AwaitInv, [Next]_vars, NEW t \in Tasks,
           BroadcastReturns(t, "confirmed"), NEW n, n = Len(ledger) + 1
    PROVE  Backed(ledger[n].body)' /\ ledger'[n].body.grant_id \notin confirmed
<1> DEFINE lc == AfterBroadcast("confirmed")
           st == [state EXCEPT !.broadcast = "confirmed", !.lifecycle = lc]
           status == IF lc = "CONFIRMED" THEN "succeeded" ELSE "failed"
           fail == IF lc = "FAILED" THEN "broadcast_failed" ELSE "null"
<1>0. /\ ledger \in Seq(SealedReceipts) /\ state \in StateType /\ RunIntact /\ CallsIntact
      /\ SubmitMatchesApproval
  BY DEF IInv, TypeOK, AwaitInv
<1>1. st.approval = state.approval /\ st.plan = state.plan /\ st.simulation = state.simulation
  BY <1>0 DEF StateType
<1>2. Sent /\ call[t].nonce = state.approval.nonce
  BY <1>0 DEF BroadcastReturns, CallsIntact, CallIntact
<1>3. HasGrant(state) /\ state.simulation = "ok"
  BY <1>0, <1>2 DEF Sent, RunIntact, Simulated
<1>4. /\ submitted' = submitted /\ nonceStore' = nonceStore
      /\ confirmed' = confirmed \cup {state.approval.nonce}
  BY <1>2 DEF BroadcastReturns
<1>5. HasGrant(st) /\ st.approval.nonce # 0 /\ st.simulation = "ok"
  BY <1>1, <1>3 DEF HasGrant
<1>6. Emit(st, "broadcast", status, st.approval, HasGrant(st), "confirmed", fail)
  BY DEF BroadcastReturns
<1> HIDE DEF st, status, fail
<1>7. Emit(st, "broadcast", status, st.approval, TRUE, "confirmed", fail)
  BY <1>5, <1>6, Zenon
<1>8. /\ ledger'[n].body.plan = st.plan /\ ledger'[n].body.grant_id = st.approval.nonce
      /\ ledger'[n].body.approval_state = "approved"
      /\ ledger'[n].body.simulation_status = "simulated_ok"
  <2>1. ledger'[n].body.plan = st.plan
    BY <1>0, <1>7, EmitAppends
  <2>2. ledger'[n].body.grant_id = st.approval.nonce
    <3> DEFINE token == st.approval
    <3>1. Emit(st, "broadcast", status, token, TRUE, "confirmed", fail)
      BY <1>7
    <3> HIDE DEF token
    <3>2. ledger'[n].body.grant_id = token.nonce
      BY <1>0, <3>1, EmitAppends
    <3> QED
      BY <3>2 DEF token
  <2>3. ledger'[n].body.simulation_status = "simulated_ok"
    BY <1>0, <1>5, <1>7, EmitAppends
  <2>4. ledger'[n].body.approval_state = "approved"
    BY <1>0, <1>5, <1>7, EmitApproved
  <2> QED
    BY <2>1, <2>2, <2>3, <2>4
<1>9. /\ ledger'[n].body.plan = state.plan /\ ledger'[n].body.grant_id = state.approval.nonce
      /\ ledger'[n].body.approval_state = "approved"
      /\ ledger'[n].body.simulation_status = "simulated_ok"
  BY <1>1, <1>8
<1>10. PICK k \in 1..Len(submitted) :
          submitted[k].nonce = state.approval.nonce /\ submitted[k].plan = state.plan
  BY <1>2 DEF Sent
<1>11. state.approval.nonce \in nonceStore /\ state.approval.nonce \notin confirmed
  BY <1>0, <1>2, <1>10 DEF Sent, SubmitMatchesApproval
<1>12. Backed(ledger[n].body)'
  BY <1>4, <1>9, <1>10, <1>11 DEF Backed
<1> QED
  BY <1>9, <1>11, <1>12

\* Receipts that were true stay true, and a new execution receipt is.
LEMMA ReceiptsStep ==
    ASSUME AwaitingHost, IInv, AwaitInv, [Next]_vars, ExecutionReceiptsAreTrue
    PROVE  ExecutionReceiptsAreTrue'
<1> DEFINE Exec(i) == ledger[i].body.mode = "execute_with_human_approval"
<1>1. ASSUME NEW r, Backed(r) PROVE Backed(r)'
  BY <1>1, OutsideGrows, SubmittedGrows DEF Backed
<1>2. /\ \A i \in 1..Len(ledger) : Exec(i) => Backed(ledger[i].body)
      /\ \A i, j \in 1..Len(ledger) :
            Exec(i) /\ Exec(j) /\ ledger[j].body.grant_id = ledger[i].body.grant_id => i = j
  BY DEF ExecutionReceiptsAreTrue, Backed
<1>3. ASSUME \A i \in 1..Len(ledger') : Exec(i)' => Backed(ledger[i].body)',
             \A i, j \in 1..Len(ledger') :
                Exec(i)' /\ Exec(j)' /\ ledger'[j].body.grant_id = ledger'[i].body.grant_id => i = j
      PROVE  ExecutionReceiptsAreTrue'
  BY <1>3 DEF ExecutionReceiptsAreTrue, Backed
<1>4. CASE ledger' = ledger
  <2>1. \A i \in 1..Len(ledger) : Exec(i) => Backed(ledger[i].body)'
    <3> SUFFICES ASSUME NEW i \in 1..Len(ledger), Exec(i) PROVE Backed(ledger[i].body)'
      OBVIOUS
    <3> DEFINE r == ledger[i].body
    <3>1. Backed(r)
      BY <1>2
    <3> QED
      BY <1>1, <1>4, <3>1 DEF Backed
  <2> QED
    BY <1>2, <1>3, <1>4, <2>1
<1>5. ASSUME NEW step, Recorded(step),
             ClaimsExecution => \E t \in Tasks : BroadcastReturns(t, "confirmed")
      PROVE  ExecutionReceiptsAreTrue'
  <2>1. PICK n : n = Len(ledger) + 1
    OBVIOUS
  <2>2. /\ Len(ledger) \in Nat /\ Len(ledger') = n
        /\ \A i \in 1..Len(ledger) : ledger'[i] = ledger[i]
        /\ \A i \in 1..Len(ledger') : i \in 1..Len(ledger) \/ i = n
    BY <1>5, <2>1 DEF Recorded
  <2>3. Exec(n)' => Backed(ledger[n].body)' /\ ledger'[n].body.grant_id \notin confirmed
    <3> SUFFICES ASSUME Exec(n)'
                 PROVE  Backed(ledger[n].body)' /\ ledger'[n].body.grant_id \notin confirmed
      OBVIOUS
    <3>1. PICK t \in Tasks : BroadcastReturns(t, "confirmed")
      BY <1>5, <2>1 DEF ClaimsExecution
    <3> QED
      BY <2>1, <3>1, ConfirmationBacked
  <2>4. ASSUME NEW i \in 1..Len(ledger), Exec(i)'
        PROVE  Backed(ledger[i].body)' /\ ledger'[i].body.grant_id \in confirmed
    <3> DEFINE r == ledger[i].body
    <3>1. Backed(r) /\ ledger'[i].body = r
      BY <1>2, <2>2, <2>4
    <3> QED
      BY <1>1, <3>1 DEF Backed
  <2>5. \A i \in 1..Len(ledger') : Exec(i)' => Backed(ledger[i].body)'
    <3> SUFFICES ASSUME NEW i \in 1..Len(ledger'), Exec(i)' PROVE Backed(ledger[i].body)'
      OBVIOUS
    <3>1. CASE i \in 1..Len(ledger)
      BY <2>4, <3>1
    <3>2. CASE i = n
      BY <2>3, <3>2
    <3> QED
      BY <2>2, <3>1, <3>2
  <2>6. ASSUME NEW i \in 1..Len(ledger'), NEW j \in 1..Len(ledger'), Exec(i)', Exec(j)',
               ledger'[j].body.grant_id = ledger'[i].body.grant_id
        PROVE  i = j
    <3>1. CASE i \in 1..Len(ledger) /\ j \in 1..Len(ledger)
      BY <1>2, <2>2, <2>6, <3>1
    <3>2. CASE i = n /\ j \in 1..Len(ledger)
      BY <2>3, <2>4, <2>6, <3>2
    <3>3. CASE i \in 1..Len(ledger) /\ j = n
      BY <2>3, <2>4, <2>6, <3>3
    <3> QED
      BY <2>2, <3>1, <3>2, <3>3
  <2> QED
    BY <1>3, <2>5, <2>6
<1> QED
  BY <1>4, <1>5, LedgerMoves

-----------------------------------------------------------------------------
(* A host that also leaves the lifecycle alone: no step is taken twice in a run. *)

\* The lifecycle is never forced.
LEMMA NeverForced ==
    ASSUME WellBehavedHost, IInv, [Next]_vars, forces = 0
    PROVE  forces' = 0 /\ ~ForceApproved
<1>1. ~ForceApproved
  BY DEF ForceApproved, WellBehavedHost
<1>2. ForceApproved \/ forces' = forces
  BY DEF Next, HostCalls, PortAnswers, HostEdits, Plan, Simulate, SimulateOk,
         SimulateFailed, SimulateThrows, GrantApproval, SignAccepted, SignRefused,
         SignReturns, SignThrows, Broadcast, Submit, BroadcastReturns, BroadcastThrows,
         Tick, EditPlan, EditToken, interference, vars
<1> QED
  BY <1>1, <1>2

\* A recorded step leaves its place behind and repeats no key of the run.
LEMMA StepsStep ==
    ASSUME WellBehavedHost, IInv, AwaitInv, [Next]_vars, forces = 0,
           StepsAreBehind, IdempotencyKeysAreUnique
    PROVE  StepsAreBehind' /\ IdempotencyKeysAreUnique'
<1> DEFINE StepOf(i) == ledger[i].body.step
<1>0. AwaitingHost /\ forces' = 0
  BY NeverForced DEF WellBehavedHost
<1>1. CASE ledger' = ledger /\ state'.lifecycle = state.lifecycle
  BY <1>1 DEF StepsAreBehind, Taken, IdempotencyKeysAreUnique
<1>2. ASSUME NEW step \in Steps, Recorded(step), step # "plan" => MovesPast(step)
      PROVE  StepsAreBehind' /\ IdempotencyKeysAreUnique'
  <2>1. PICK n : n = Len(ledger) + 1
    OBVIOUS
  <2>2. /\ Len(ledger) \in Nat /\ n \in Nat /\ Len(ledger') = n
        /\ StepOf(n)' = step
        /\ \A i \in 1..Len(ledger) : StepOf(i)' = StepOf(i)
        /\ \A i \in 1..Len(ledger') : i \in 1..Len(ledger) \/ i = n
    BY <1>2, <2>1 DEF Recorded
  <2>3. ASSUME NEW i \in 1..Len(ledger), \A k \in (i + 1)..n : StepOf(k)' # "plan"
        PROVE  Taken(StepOf(i)) /\ step # "plan"
    <3>1. step # "plan"
      BY <2>1, <2>2, <2>3
    <3>2. \A k \in (i + 1)..Len(ledger) : StepOf(k) # "plan"
      <4> SUFFICES ASSUME NEW k \in (i + 1)..Len(ledger) PROVE StepOf(k) # "plan"
        OBVIOUS
      <4>1. k \in 1..Len(ledger) /\ k \in (i + 1)..n
        BY <2>1, <2>2
      <4> QED
        BY <2>2, <2>3, <4>1
    <3> QED
      BY <3>1, <3>2 DEF Taken
  <2>4. StepsAreBehind'
    <3> SUFFICES ASSUME NEW s \in Steps, NEW i \in 1..Len(ledger'), StepOf(i)' = s,
                        \A k \in (i + 1)..Len(ledger') : StepOf(k)' # "plan"
                 PROVE  state'.lifecycle \notin Ahead(s)
      BY DEF StepsAreBehind, Taken
    <3>1. CASE i = n /\ step = "plan"
      BY <2>2, <3>1 DEF Ahead
    <3>2. CASE i = n /\ step # "plan"
      BY <1>2, <2>2, <3>2 DEF MovesPast
    <3>3. CASE i \in 1..Len(ledger)
      <4>1. Taken(s) /\ step # "plan"
        BY <2>2, <2>3, <3>3
      <4> QED
        BY <1>2, <4>1 DEF StepsAreBehind, MovesPast
    <3> QED
      BY <2>2, <3>1, <3>2, <3>3
  <2>5. IdempotencyKeysAreUnique'
    <3> SUFFICES ASSUME NEW i \in 1..Len(ledger'), NEW j \in 1..Len(ledger'),
                        i < j, StepOf(i)' = StepOf(j)'
                 PROVE  \E k \in (i + 1)..j : StepOf(k)' = "plan"
      BY DEF IdempotencyKeysAreUnique
    <3>1. i \in 1..Len(ledger)
      BY <2>1, <2>2
    <3>2. CASE j \in 1..Len(ledger)
      <4>1. PICK k \in (i + 1)..j : StepOf(k) = "plan"
        BY <2>2, <3>1, <3>2 DEF IdempotencyKeysAreUnique
      <4>2. k \in 1..Len(ledger)
        BY <2>2, <3>1, <3>2
      <4> QED
        BY <2>2, <4>1, <4>2
    <3>3. CASE j = n
      <4> SUFFICES ASSUME \A k \in (i + 1)..n : StepOf(k)' # "plan" PROVE FALSE
        BY <3>3
      <4>1. Taken(step) /\ step # "plan"
        BY <2>2, <2>3, <3>1, <3>3
      <4> QED
        BY <1>2, <4>1 DEF StepsAreBehind, MovesPast
    <3> QED
      BY <2>2, <3>2, <3>3
  <2> QED
    BY <2>4, <2>5
<1> QED
  BY <1>0, <1>1, <1>2, LedgerMoves

\* Only plan() leads out of a terminal state.
LEMMA TerminalStep ==
    ASSUME WellBehavedHost, IInv, AwaitInv, [Next]_vars, forces = 0,
           state.lifecycle \in Terminal, state'.run = state.run
    PROVE  state'.lifecycle = state.lifecycle
<1>1. AwaitingHost /\ forces' = 0
  BY NeverForced DEF WellBehavedHost
<1>2. ASSUME NEW step \in Steps, MovesPast(step)
      PROVE  FALSE
  BY <1>2 DEF MovesPast, Ahead, Steps, Terminal
<1> QED
  BY <1>1, <1>2, LedgerMoves

-----------------------------------------------------------------------------
(* The agent implements ApprovalGate, step by step. *)

\* Stage by stage.
LEMMA StageOf ==
    /\ state.lifecycle = "none" => Stage = "none"
    /\ state.lifecycle = "PLANNED" => Stage = "proposed"
    /\ state.lifecycle = "SIMULATED" => Stage = "viewed"
    /\ state.lifecycle = "AWAITING_APPROVAL" => Stage = "reviewable"
    /\ state.lifecycle = "APPROVED" => Stage = "authorised"
    /\ state.lifecycle = "SIGNED" => Stage = IF UnderWay THEN "sent" ELSE "armed"
    /\ state.lifecycle = "CONFIRMED" => Stage = "done"
    /\ state.lifecycle \in {"REJECTED", "FAILED"} => Stage = "blocked"
BY DEF Stage

\* The same after a step.
LEMMA StageAfter ==
    /\ state'.lifecycle = "PLANNED" => Stage' = "proposed"
    /\ state'.lifecycle = "SIMULATED" => Stage' = "viewed"
    /\ state'.lifecycle = "AWAITING_APPROVAL" => Stage' = "reviewable"
    /\ state'.lifecycle = "APPROVED" => Stage' = "authorised"
    /\ state'.lifecycle = "SIGNED" => Stage' = IF UnderWay' THEN "sent" ELSE "armed"
    /\ state'.lifecycle = "CONFIRMED" => Stage' = "done"
    /\ state'.lifecycle \in {"REJECTED", "FAILED"} => Stage' = "blocked"
BY DEF Stage

\* Agent steps the gate does not see.
LEMMA GateStutters ==
    ASSUME state' = state, submitted' = submitted, UnderWay' <=> UnderWay
    PROVE  UNCHANGED Gate!gateVars
<1>1. Stage' = Stage
  BY DEF Stage
<1>2. Effects' = Effects
  BY DEF Effects
<1> QED
  BY <1>1, <1>2 DEF Gate!gateVars

\* Agent steps that move the stage only.
LEMMA GateMoves ==
    ASSUME KeepsRun, submitted' = submitted, NEW from, NEW to, Stage = from, Stage' = to
    PROVE  Gate!Move(from, to)
<1>1. Effects' = Effects
  BY DEF Effects
<1> QED
  BY <1>1 DEF Gate!Move, KeepsRun

\* A hash was decided the way its plan was.
LEMMA HashesOfDecisions ==
    ASSUME NEW b \in Bodies, NEW d
    PROVE  HashPlan[b] \in HashesDecided(d) <=> Decide[b] = d
BY HashAssumption DEF HashesDecided

\* A function on 1..n + 1 that agrees with one on 1..n is that sequence with one more
\* element.
LEMMA OneMore ==
    ASSUME NEW S, NEW n \in Nat, NEW s, s = [i \in 1..n |-> s[i]],
           NEW q, q = [i \in 1..(n + 1) |-> q[i]],
           \A i \in 1..n : s[i] \in S, \A i \in 1..n : q[i] = s[i], q[n + 1] \in S
    PROVE  q = Append(s, q[n + 1])
<1> DEFINE a == Append(s, q[n + 1])
<1>1. \A i \in 1..(n + 1) : i \in 1..n \/ i = n + 1
  OBVIOUS
<1>2. s \in Seq(S) /\ Len(s) = n
  OBVIOUS
<1>3. \A i \in 1..(n + 1) : q[i] \in S
  BY <1>1
<1>4. q \in Seq(S) /\ Len(q) = n + 1
  BY <1>3
<1>5. /\ a \in Seq(S) /\ Len(a) = n + 1 /\ a[n + 1] = q[n + 1]
      /\ \A i \in 1..n : a[i] = s[i]
  BY <1>2, AppendProperties
<1>6. \A i \in 1..(n + 1) : q[i] = a[i]
  BY <1>1, <1>5
<1> QED
  BY <1>4, <1>5, <1>6, SeqEqual

\* Every step of the agent is one of the gate: plan() proposes, a simulation tries out,
\* the grant authorises, the signature arms, what the cluster accepts is the effect,
\* its answer finishes; whatever ends the run blocks; the rest the gate does not see.
LEMMA GateStep ==
    ASSUME WellBehavedHost, IInv, AwaitInv, [Next]_vars, forces = 0
    PROVE  Gate!GateNext \/ UNCHANGED Gate!gateVars
<1> DEFINE Claim == Gate!GateNext \/ UNCHANGED Gate!gateVars
<1>0. /\ AwaitingHost /\ state \in StateType /\ call \in [Tasks -> CallType]
      /\ RunIntact /\ SignedIntact /\ CallsIntact /\ RunInv /\ edits \in Nat
      /\ \A s, t \in Tasks : s = t
  BY DEF WellBehavedHost, AwaitingHost, IInv, TypeOK, AwaitInv
<1>1. ASSUME UNCHANGED Gate!gateVars PROVE Claim
  BY <1>1
<1>2. ASSUME NEW from \in {"proposed", "authorised", "armed", "sent"},
             Gate!Move(from, "blocked")
      PROVE  Claim
  BY <1>2 DEF Gate!GateNext, Gate!Block
<1>3. ASSUME NEW t \in Tasks, NEW b \in Bodies, Plan(t, b) PROVE Claim
  <2>1. /\ state'.run = state.run + 1 /\ state'.planHash = HashPlan[b]
        /\ state'.lifecycle = AfterPlan(Decide[b]) /\ state.run < MaxPlans
        /\ submitted' = submitted
    BY <1>3 DEF Plan, NoState, outside
  <2>2. Stage # "sent"
    <3>1. ~UnderWay
      BY <1>0, <1>3 DEF UnderWay, Plan, HostIdle
    <3>2. state.lifecycle \in Lifecycle
      BY <1>0 DEF StateType
    <3> QED
      BY <3>1, <3>2, StageOf DEF Lifecycle
  <2>3. Stage' = IF HashPlan[b] \in HashesDecided("deny") THEN "blocked" ELSE "proposed"
    BY <2>1, StageAfter, HashesOfDecisions DEF AfterPlan
  <2>4. Effects' = Effects
    BY <2>1 DEF Effects
  <2>5. Gate!Propose(HashPlan[b])
    BY <2>1, <2>2, <2>3, <2>4 DEF Gate!Propose
  <2> QED
    BY <2>5, HashAssumption DEF Gate!GateNext
<1>4. ASSUME NEW t \in Tasks, SimulateOk(t) PROVE Claim
  <2>1. /\ KeepsRun /\ submitted' = submitted
        /\ state'.lifecycle = AfterSimulation(state.decision)
    BY <1>0, <1>4 DEF SimulateOk, KeepsRun, StateType
  <2>2. /\ state.lifecycle = "PLANNED" /\ state.plan \in Bodies
        /\ state.planHash = HashPlan[state.plan] /\ state.decision = Decide[state.plan]
    BY <1>0, <1>4 DEF SimulateOk, CallsIntact, CallIntact, RunIntact, RunInv
  <2> DEFINE to == IF state.planHash \in HashesDecided("needs_approval")
                   THEN "reviewable" ELSE "viewed"
  <2>3. Stage = "proposed" /\ Stage' = to
    BY <2>1, <2>2, StageOf, StageAfter, HashesOfDecisions DEF AfterSimulation
  <2>4. Gate!Move("proposed", to)
    BY <2>1, <2>3, GateMoves
  <2> QED
    BY <2>4 DEF Gate!GateNext, Gate!TryOut
<1>5. ASSUME NEW t \in Tasks, SimulateFailed(t) PROVE Claim
  <2>1. KeepsRun /\ submitted' = submitted /\ state'.lifecycle = "FAILED"
    BY <1>0, <1>5 DEF SimulateFailed, KeepsRun, StateType, outside
  <2>2. state.lifecycle = "PLANNED"
    BY <1>0, <1>5 DEF SimulateFailed, CallsIntact, CallIntact
  <2>3. Gate!Move("proposed", "blocked")
    BY <2>1, <2>2, StageOf, StageAfter, GateMoves
  <2> QED
    BY <1>2, <2>3
<1>6. ASSUME NEW t \in Tasks, NEW ttl \in Ttls, GrantApproval(t, ttl) PROVE Claim
  <2> DEFINE token == IssueApprovalToken(state.planHash, Len(issued) + 1, ttl, now)
  <2>1. /\ state' = [state EXCEPT !.approval = token, !.lifecycle = "APPROVED"]
        /\ state.lifecycle = "AWAITING_APPROVAL" /\ submitted' = submitted
    BY <1>6 DEF GrantApproval, AssertState
  <2> HIDE DEF token
  <2>2. /\ state'.run = state.run /\ state'.planHash = state.planHash
        /\ state'.lifecycle = "APPROVED"
    BY <1>0, <2>1 DEF StateType
  <2>3. Effects' = Effects
    BY <2>1 DEF Effects
  <2>4. Stage = "reviewable" /\ Stage' = "authorised"
    BY <2>1, <2>2, StageOf, StageAfter
  <2>5. Gate!Authorise
    BY <2>2, <2>3, <2>4 DEF Gate!Authorise, Gate!Move
  <2> QED
    BY <2>5 DEF Gate!GateNext
<1>7. ASSUME NEW t \in Tasks, SignRefused(t) PROVE Claim
  <2>1. /\ KeepsRun /\ submitted' = submitted /\ state'.lifecycle = "REJECTED"
        /\ state.lifecycle = "APPROVED"
    BY <1>0, <1>7 DEF SignRefused, KeepsRun, StateType, outside
  <2>2. Gate!Move("authorised", "blocked")
    BY <2>1, StageOf, StageAfter, GateMoves
  <2> QED
    BY <1>2, <2>2
<1>8. ASSUME NEW t \in Tasks, SignReturns(t) PROVE Claim
  <2>1. /\ KeepsRun /\ submitted' = submitted /\ state'.lifecycle = "SIGNED"
        /\ state.lifecycle = "APPROVED"
    BY <1>0, <1>8
    DEF SignReturns, KeepsRun, StateType, outside, CallsIntact, CallIntact
  <2>2. ~UnderWay'
    BY <1>0, <1>8, IdleTyped DEF SignReturns, UnderWay
  <2>3. Gate!Move("authorised", "armed")
    BY <2>1, <2>2, StageOf, StageAfter, GateMoves
  <2> QED
    BY <2>3 DEF Gate!GateNext, Gate!Arm
<1>9. ASSUME NEW t \in Tasks, NEW bytes \in Sendable(t), Submit(t, bytes) PROVE Claim
  <2> DEFINE n == Len(submitted) + 1
             e == [round |-> state.run, proposal |-> state.planHash]
  <2>1. state' = state /\ state.lifecycle = "SIGNED" /\ ~UnderWay
    BY <1>0, <1>9 DEF Submit, UnderWay, CallsIntact, CallIntact
  <2>2. UnderWay'
    <3>1. call' = [call EXCEPT ![t] = [call[t] EXCEPT !.op = "confirm"]]
      BY <1>9 DEF Submit
    <3>2. call'[t].op = "confirm"
      BY <1>0, <3>1 DEF CallType
    <3> QED
      BY <3>2 DEF UnderWay
  <2>3. /\ call[t].run = state.run /\ call[t].plan = state.plan
        /\ HashPlan[state.plan] = state.planHash
    BY <1>0, <1>9, <2>1 DEF Submit, CallsIntact, CallIntact, RunIntact
  <2>4. /\ Len(submitted) \in Nat /\ Len(submitted') = n
        /\ \A i \in 1..Len(submitted) : submitted'[i] = submitted[i]
        /\ submitted'[n].run = state.run /\ submitted'[n].plan = state.plan
    BY <1>9, <2>3, SubmitAppends
  <2>5. Effects' = Append(Effects, e)
    <3>1. /\ Effects = [i \in 1..Len(submitted) |-> Effects[i]]
          /\ \A i \in 1..Len(submitted) :
                Effects[i] = [round |-> submitted[i].run,
                              proposal |-> HashPlan[submitted[i].plan]]
      BY DEF Effects
    <3>2. /\ Effects' = [i \in 1..n |-> Effects'[i]]
          /\ \A i \in 1..n :
                Effects'[i] = [round |-> submitted'[i].run,
                               proposal |-> HashPlan[submitted'[i].plan]]
      BY <2>4 DEF Effects
    <3>3. \A i \in 1..Len(submitted) : Effects'[i] = Effects[i]
      BY <2>4, <3>1, <3>2
    <3>4. Effects'[n] = e
      BY <2>3, <2>4, <3>2
    <3> HIDE DEF e
    <3>5. Effects' = Append(Effects, Effects'[n])
      BY <2>4, <3>1, <3>2, <3>3, OneMore
    <3> QED
      BY <3>4, <3>5
  <2>6. Stage = "armed" /\ Stage' = "sent"
    BY <2>1, <2>2, StageOf, StageAfter
  <2>7. Gate!Effect
    BY <2>1, <2>5, <2>6 DEF Gate!Effect
  <2> QED
    BY <2>7 DEF Gate!GateNext
<1>10. ASSUME NEW t \in Tasks, NEW r \in {"confirmed", "failed"}, BroadcastReturns(t, r)
       PROVE  Claim
  <2>1. /\ KeepsRun /\ submitted' = submitted /\ state'.lifecycle \in {"CONFIRMED", "FAILED"}
    BY <1>0, <1>10 DEF BroadcastReturns, KeepsRun, StateType, AfterBroadcast
  <2>2. state.lifecycle = "SIGNED" /\ UnderWay
    BY <1>0, <1>10 DEF BroadcastReturns, CallsIntact, CallIntact, UnderWay
  <2>3. Gate!Move("sent", "done") \/ Gate!Move("sent", "blocked")
    BY <2>1, <2>2, StageOf, StageAfter, GateMoves
  <2> QED
    BY <1>2, <2>3 DEF Gate!GateNext, Gate!Finish
<1>11. ASSUME NEW t \in Tasks, BroadcastThrows(t) PROVE Claim
  <2>1. KeepsRun /\ submitted' = submitted /\ state'.lifecycle = "FAILED"
    BY <1>0, <1>11 DEF BroadcastThrows, KeepsRun, StateType, outside
  <2>2. state.lifecycle = "SIGNED"
    BY <1>0, <1>11 DEF BroadcastThrows, CallsIntact, CallIntact
  <2>3. Gate!Move("sent", "blocked") \/ Gate!Move("armed", "blocked")
    BY <2>1, <2>2, StageOf, StageAfter, GateMoves
  <2> QED
    BY <1>2, <2>3
<1>12. ASSUME NEW t \in Tasks,
              \/ Simulate(t) \/ SimulateThrows(t) \/ SignAccepted(t) \/ SignThrows(t)
              \/ (\E tx \in Txs : Broadcast(t, tx))
       PROVE  Claim
  <2>1. state' = state /\ submitted' = submitted
    BY <1>12 DEF Simulate, SimulateThrows, SignAccepted, SignThrows, Broadcast, outside
  <2>2. ~UnderWay
    BY <1>0, <1>12
    DEF Simulate, SimulateThrows, SignAccepted, SignThrows, Broadcast, UnderWay, HostIdle
  <2>3. ~UnderWay'
    <3>1. call'[t].op # "confirm"
      <4>1. CASE Simulate(t)
        BY <1>0, <4>1 DEF Simulate, Idle
      <4>2. CASE SimulateThrows(t) \/ SignThrows(t)
        BY <1>0, <4>2, IdleTyped DEF SimulateThrows, SignThrows
      <4>3. CASE SignAccepted(t)
        BY <1>0, <4>3 DEF SignAccepted, Idle
      <4>4. CASE \E tx \in Txs : Broadcast(t, tx)
        BY <1>0, <4>4 DEF Broadcast
      <4> QED
        BY <1>12, <4>1, <4>2, <4>3, <4>4
    <3> QED
      BY <1>0, <3>1 DEF UnderWay
  <2>4. UnderWay' <=> UnderWay
    BY <2>2, <2>3
  <2> QED
    BY <1>1, <2>1, <2>4, GateStutters
<1>13. ASSUME Tick \/ UNCHANGED vars PROVE Claim
  BY <1>1, <1>13, GateStutters DEF Tick, vars, outside, UnderWay
<1>14. ~HostEdits
  <2>1. ~(edits < MaxEdits)
    BY <1>0 DEF AwaitingHost
  <2> QED
    BY <2>1, Zenon DEF HostEdits, EditPlan, EditToken
<1> HIDE DEF Claim
<1>15. ASSUME NEW t \in Tasks, HostCalls(t) PROVE Claim
  BY <1>3, <1>6, <1>7, <1>12, <1>15 DEF HostCalls
<1>16. ASSUME NEW t \in Tasks, PortAnswers(t) PROVE Claim
  BY <1>4, <1>5, <1>8, <1>9, <1>10, <1>11, <1>12, <1>16 DEF PortAnswers
<1>17. Claim
  BY <1>13, <1>14, <1>15, <1>16, NeverForced DEF Next
<1> QED
  BY <1>17 DEF Claim

-----------------------------------------------------------------------------
(* The invariant, and what follows from it. *)

\* IInv holds in every reachable state, for any number of tasks, plans, grants and
\* edits.
THEOREM InductiveInvariant == Spec => []IInv
<1>1. IInv /\ [Next]_vars => IInv'
  BY TypeStep, RunStep, GrantStep, SignerStep DEF IInv
<1> QED
  BY <1>1, InitIInv, PTL DEF Spec

\* Every variable keeps its type.
THEOREM TypeCorrect == Spec => []TypeOK
<1>1. IInv => TypeOK
  BY DEF IInv
<1> QED
  BY <1>1, InductiveInvariant, PTL

\* Single use of approvals: however the calls of the tasks interleave at their
\* awaits and whatever the host does to the lifecycle and the token, no grant is
\* good for two signatures.
THEOREM SingleUse == Spec => []ApprovalIsSingleUse
<1>1. IInv => ApprovalIsSingleUse
  BY DEF IInv
<1> QED
  BY <1>1, InductiveInvariant, PTL

\* Plan binding and lifetime of approvals.
THEOREM SigningIsGranted == Spec => []SignedOnlyAsGranted
<1>1. IInv => SignedOnlyAsGranted
  BY DEF IInv
<1> QED
  BY <1>1, InductiveInvariant, PTL

\* The signer signs only plans policy put to a human.
THEOREM SigningIsBounded == Spec => []PolicyBoundsSigning
<1>1. IInv => PolicyBoundsSigning
  BY DEF IInv, GrantInv, SignedOnlyAsGranted, PolicyBoundsSigning, DecidedFor
<1> QED
  BY <1>1, InductiveInvariant, PTL

\* Receipt integrity: verifyReceipts() succeeds in every state, and the head of the
\* ledger tells the lifecycle unless the host forced it.
THEOREM LedgerIsFaithful == Spec => [](ChainVerifies /\ LedgerTellsLifecycle)
<1>1. Init => ChainVerifies /\ LedgerTellsLifecycle
  BY DEF Init, ChainVerifies, VerifyChain, LedgerTellsLifecycle, NoState
<1>2. IInv /\ [Next]_vars /\ ChainVerifies /\ LedgerTellsLifecycle
        => ChainVerifies' /\ LedgerTellsLifecycle'
  BY LedgerStep
<1> QED
  BY <1>1, <1>2, InductiveInvariant, PTL DEF Spec

-----------------------------------------------------------------------------
(* What follows for a host that awaits its calls. *)

\* AwaitInv is inductive for a host that awaits its calls and edits nothing, plans and
\* bounds whatever they are, and the execution receipts are true with it.
THEOREM AwaitInvariant ==
    ASSUME AwaitingHost
    PROVE  Spec => [](AwaitInv /\ ExecutionReceiptsAreTrue)
<1>1. Init => AwaitInv /\ ExecutionReceiptsAreTrue
  <2> SUFFICES ASSUME Init PROVE AwaitInv /\ ExecutionReceiptsAreTrue
    OBVIOUS
  <2>1. RunIntact /\ SignedIntact
    BY DEF Init, RunIntact, SignedIntact, NoState, NoToken, HasGrant
  <2>2. CallsIntact
    BY DEF Init, CallsIntact, CallIntact, Idle
  <2>3. confirmed \subseteq SentNonces
    BY DEF Init
  <2>4. SubmitOnlySimulated /\ SubmitMatchesApproval /\ SubmitOncePerGrant
    BY DEF Init, SubmitOnlySimulated, SubmitMatchesApproval, SubmitOncePerGrant
  <2>5. ExecutionReceiptsAreTrue
    BY DEF Init, ExecutionReceiptsAreTrue
  <2> QED
    BY <2>1, <2>2, <2>3, <2>4, <2>5 DEF AwaitInv
<1>2. IInv /\ AwaitInv /\ ExecutionReceiptsAreTrue /\ [Next]_vars
         => AwaitInv' /\ ExecutionReceiptsAreTrue'
  BY AwaitStep, ReceiptsStep
<1> QED
  BY <1>1, <1>2, InductiveInvariant, PTL DEF Spec

\* No broadcast without a successful simulation of the same bytes in the same run, even
\* if the lifecycle is forced.
THEOREM NothingUnsimulated == ASSUME AwaitingHost PROVE Spec => []SubmitOnlySimulated
<1>1. AwaitInv => SubmitOnlySimulated
  BY DEF AwaitInv
<1> QED
  BY <1>1, AwaitInvariant, PTL

Unforced == forces = 0

\* The lifecycle is never forced.
LEMMA LifecycleUnforced == ASSUME WellBehavedHost PROVE Spec => []Unforced
<1>1. Init => Unforced
  BY DEF Init, Unforced
<1>2. IInv /\ Unforced /\ [Next]_vars => Unforced'
  BY NeverForced DEF Unforced
<1> QED
  BY <1>1, <1>2, InductiveInvariant, PTL DEF Spec

\* Left alone, a confirmed, rejected or failed run stays so: no late answer revives it.
THEOREM TerminalsStay == ASSUME WellBehavedHost PROVE Spec => TerminalIsFinal
<1>0. AwaitingHost
  BY DEF WellBehavedHost
<1>1. IInv /\ AwaitInv /\ Unforced /\ [Next]_vars
        => [state.lifecycle \in Terminal /\ state'.run = state.run
               => state'.lifecycle = state.lifecycle]_vars
  BY TerminalStep DEF Unforced
<1>2. Spec => []AwaitInv
  BY <1>0, AwaitInvariant, PTL
<1> QED
  BY <1>1, <1>2, LifecycleUnforced, InductiveInvariant, PTL DEF Spec, TerminalIsFinal

\* Left alone, no step is recorded twice in a run.
THEOREM KeysAreUnique == ASSUME WellBehavedHost PROVE Spec => []IdempotencyKeysAreUnique
<1>0. AwaitingHost
  BY DEF WellBehavedHost
<1>1. Init => StepsAreBehind /\ IdempotencyKeysAreUnique
  BY DEF Init, StepsAreBehind, Taken, IdempotencyKeysAreUnique
<1>2. IInv /\ AwaitInv /\ Unforced /\ StepsAreBehind /\ IdempotencyKeysAreUnique
        /\ [Next]_vars => StepsAreBehind' /\ IdempotencyKeysAreUnique'
  BY StepsStep DEF Unforced
<1>3. Spec => []AwaitInv
  BY <1>0, AwaitInvariant, PTL
<1> QED
  BY <1>1, <1>2, <1>3, LifecycleUnforced, InductiveInvariant, PTL DEF Spec

\* The connection is handed the plan a human approved, with the signature on it and under
\* a consumed nonce, even if the lifecycle is forced.  What it sends is up to the port.
THEOREM SubmissionsAreApproved == ASSUME AwaitingHost PROVE Spec => []SubmitMatchesApproval
<1>1. AwaitInv => SubmitMatchesApproval
  BY DEF AwaitInv
<1> QED
  BY <1>1, AwaitInvariant, PTL

\* Where the bytes on the cluster come from: the plan handed over, or the host.
BytesOrigin ==
    /\ \A t \in Tasks : call[t].tx \in Txs \cup {None}
    /\ \A i \in 1..Len(submitted) :
          submitted[i].bytes = submitted[i].plan \/ submitted[i].bytes \in Txs \ {None}

\* No step makes them from anything else.
LEMMA BytesStep ==
    ASSUME IInv, BytesOrigin, [Next]_vars
    PROVE  BytesOrigin'
<1>0. call \in [Tasks -> CallType]
  BY DEF IInv, TypeOK
<1> DEFINE Handed == \A t \in Tasks : call[t].tx \in Txs \cup {None}
           Origin == \A i \in 1..Len(submitted) :
                        submitted[i].bytes = submitted[i].plan
                          \/ submitted[i].bytes \in Txs \ {None}
<1>1. ASSUME NEW t \in Tasks, NEW tx \in Txs, Broadcast(t, tx) PROVE Handed' /\ Origin'
  BY <1>0, <1>1 DEF Broadcast, BytesOrigin, outside
<1>2. ASSUME NEW t \in Tasks, NEW bytes \in Sendable(t), Submit(t, bytes)
      PROVE  Handed' /\ Origin'
  <2>1. call' = [call EXCEPT ![t] = [call[t] EXCEPT !.op = "confirm"]]
    BY <1>2 DEF Submit
  <2>2. Handed'
    BY <1>0, <2>1 DEF BytesOrigin, CallType
  <2>3. bytes = call[t].plan \/ bytes \in Txs \ {None}
    BY DEF Sendable, BytesOrigin
  <2>4. /\ Len(submitted) \in Nat /\ Len(submitted') = Len(submitted) + 1
        /\ \A i \in 1..Len(submitted) : submitted'[i] = submitted[i]
        /\ submitted'[Len(submitted) + 1].plan = call[t].plan
        /\ submitted'[Len(submitted) + 1].bytes = bytes
        /\ \A i \in 1..Len(submitted') : i \in 1..Len(submitted) \/ i = Len(submitted) + 1
    BY <1>2, SubmitAppends
  <2>5. Origin'
    BY <2>3, <2>4 DEF BytesOrigin
  <2> QED
    BY <2>2, <2>5
<1>3. ASSUME NEW t \in Tasks,
             \/ Simulate(t) \/ SimulateOk(t) \/ SimulateFailed(t) \/ SimulateThrows(t)
             \/ SignAccepted(t) \/ SignReturns(t) \/ SignThrows(t)
             \/ (\E c \in {"confirmed", "failed"} : BroadcastReturns(t, c))
             \/ BroadcastThrows(t)
      PROVE  Handed' /\ Origin'
  <2>1. submitted' = submitted
    BY <1>3 DEF Simulate, SimulateOk, SimulateFailed, SimulateThrows, SignAccepted,
       SignReturns, SignThrows, BroadcastReturns, BroadcastThrows, outside
  <2>2. \A u \in Tasks : call'[u].tx \in {call[u].tx, None}
    <3>1. CASE \/ SimulateOk(t) \/ SimulateFailed(t) \/ SimulateThrows(t) \/ SignReturns(t)
               \/ SignThrows(t) \/ (\E c \in {"confirmed", "failed"} : BroadcastReturns(t, c))
               \/ BroadcastThrows(t)
      <4>1. call' = [call EXCEPT ![t] = Idle]
        BY <3>1 DEF SimulateOk, SimulateFailed, SimulateThrows, SignReturns, SignThrows,
           BroadcastReturns, BroadcastThrows
      <4>2. Idle.tx = None
        BY DEF Idle
      <4> QED
        BY <1>0, <4>1, <4>2
    <3>2. CASE Simulate(t)
      BY <1>0, <3>2 DEF Simulate, Idle
    <3>3. CASE SignAccepted(t)
      BY <1>0, <3>3 DEF SignAccepted, Idle
    <3> QED
      BY <1>3, <3>1, <3>2, <3>3
  <2> QED
    BY <2>1, <2>2 DEF BytesOrigin
<1>4. ASSUME UNCHANGED << call, submitted >> PROVE Handed' /\ Origin'
  BY <1>4 DEF BytesOrigin
<1>5. ASSUME NEW t \in Tasks, HostCalls(t) PROVE Handed' /\ Origin'
  BY <1>1, <1>3, <1>4, <1>5 DEF HostCalls, Plan, GrantApproval, SignRefused, outside
<1>6. ASSUME NEW t \in Tasks, PortAnswers(t) PROVE Handed' /\ Origin'
  BY <1>2, <1>3, <1>6 DEF PortAnswers
<1>7. ASSUME Tick \/ ForceApproved \/ HostEdits \/ UNCHANGED vars PROVE Handed' /\ Origin'
  BY <1>4, <1>7 DEF Tick, ForceApproved, HostEdits, EditPlan, EditToken, vars, outside
<1> QED
  BY <1>5, <1>6, <1>7 DEF Next, BytesOrigin

\* The binding the source promises ("binds approvals + signatures to exact bytes") holds
\* of a host that hands broadcast() no transaction of its own, so that the port can only
\* send the plan: the mock connection, not the web3 one.
THEOREM PlanBytesAreApproved ==
    ASSUME AwaitingHost, Txs = {None}
    PROVE  Spec => []SubmittedBytesAreApproved
<1>1. Init => BytesOrigin
  BY DEF Init, BytesOrigin, Idle
<1>2. BytesOrigin /\ AwaitInv => SubmittedBytesAreApproved
  BY DEF BytesOrigin, AwaitInv, SubmitMatchesApproval, SubmittedBytesAreApproved
<1> QED
  BY <1>1, <1>2, BytesStep, AwaitInvariant, InductiveInvariant, PTL DEF Spec

\* No grant is good for two transactions, even if the lifecycle is forced.
THEOREM OneSubmissionPerGrant == ASSUME AwaitingHost PROVE Spec => []SubmitOncePerGrant
<1>1. AwaitInv => SubmitOncePerGrant
  BY DEF AwaitInv
<1> QED
  BY <1>1, AwaitInvariant, PTL

\* A receipt in mode execute_with_human_approval tells the truth, and is the only one
\* of its grant, even if the lifecycle is forced.
THEOREM ReceiptsAreTrue == ASSUME AwaitingHost PROVE Spec => []ExecutionReceiptsAreTrue
BY AwaitInvariant, PTL

\* A run marked SIGNED has a grant of its own for its own hash, consumed, and the
\* signature of that hash.
THEOREM SignedRunsAreApproved == ASSUME AwaitingHost PROVE Spec => []SignedRunIsApproved
<1>1. IInv /\ AwaitInv => SignedRunIsApproved
  <2> SUFFICES ASSUME IInv, AwaitInv, state.lifecycle = "SIGNED" PROVE
       /\ HasGrant(state) /\ state.approval.planHash = state.planHash
       /\ state.approval.nonce \in nonceStore /\ state.signature = state.planHash
    BY DEF SignedRunIsApproved
  <2>1. /\ HasGrant(state) /\ state.approval.planHash = state.planHash
        /\ state.signature = state.planHash
    BY DEF AwaitInv, RunIntact, SignedIntact
  <2>2. CASE Unsent
    BY <2>1, <2>2 DEF Unsent
  <2>3. CASE Sent
    BY <2>1, <2>3 DEF Sent, AwaitInv, SubmitMatchesApproval
  <2>4. Unsent \/ Sent
    BY DEF AwaitInv, SignedIntact, CallsIntact, CallIntact
  <2> QED
    BY <2>1, <2>2, <2>3, <2>4
<1> QED
  BY <1>1, AwaitInvariant, InductiveInvariant, PTL

\* The agent, left alone between its calls, implements the gate: every behaviour of it,
\* seen through Stage and Effects, is one of ApprovalGate.
THEOREM AgentImplementsGate == ASSUME WellBehavedHost PROVE Spec => ImplementsGate
<1>0. AwaitingHost
  BY DEF WellBehavedHost
<1>1. Init => Gate!GateInit
  BY DEF Init, Gate!GateInit, Stage, Effects, NoState
<1>2. IInv /\ AwaitInv /\ Unforced /\ [Next]_vars => [Gate!GateNext]_(Gate!gateVars)
  BY GateStep DEF Unforced
<1>3. Spec => []AwaitInv
  BY <1>0, AwaitInvariant, PTL
<1> QED
  BY <1>1, <1>2, <1>3, LifecycleUnforced, InductiveInvariant, PTL
  DEF Spec, ImplementsGate, Gate!GateSpec

\* What is proved of the gate.
GateProofs == INSTANCE ApprovalGateProofs WITH
    Proposals  <- Hashes,
    Reviewable <- HashesDecided("needs_approval"),
    Forbidden  <- HashesDecided("deny"),
    Nothing    <- None,
    MaxRounds  <- MaxPlans,
    round      <- state.run,
    proposal   <- state.planHash,
    stage      <- Stage,
    effects    <- Effects

\* Hence the gate's promise is the agent's: every transaction on the cluster is of a
\* plan policy put to a human, and no run has two.
THEOREM AgentKeepsGate == ASSUME WellBehavedHost PROVE Spec => []Gate!EffectsAreAuthorised
<1>1. ImplementsGate => GateProofs!GateSpec
  <2>1. Gate!GateInit => GateProofs!GateInit
    BY DEF Gate!GateInit, GateProofs!GateInit
  <2>2. [Gate!GateNext]_(Gate!gateVars) => [GateProofs!GateNext]_(GateProofs!gateVars)
    BY DEF Gate!gateVars, GateProofs!gateVars, Gate!GateNext, GateProofs!GateNext,
           Gate!Propose, GateProofs!Propose, Gate!Move, GateProofs!Move,
           Gate!TryOut, GateProofs!TryOut, Gate!Authorise, GateProofs!Authorise,
           Gate!Arm, GateProofs!Arm, Gate!Effect, GateProofs!Effect,
           Gate!Finish, GateProofs!Finish, Gate!Block, GateProofs!Block
  <2> QED
    BY <2>1, <2>2, PTL DEF ImplementsGate, Gate!GateSpec, GateProofs!GateSpec
<1>2. GateProofs!EffectsAreAuthorised => Gate!EffectsAreAuthorised
  BY DEF GateProofs!EffectsAreAuthorised, Gate!EffectsAreAuthorised
<1>3. GateProofs!GateSpec => []GateProofs!EffectsAreAuthorised
  BY GateProofs!GateIsSafe
<1> QED
  BY <1>1, <1>2, <1>3, AgentImplementsGate, PTL

=============================================================================
