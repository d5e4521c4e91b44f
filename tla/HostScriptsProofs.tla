------------------------- MODULE HostScriptsProofs -------------------------
(***************************************************************************)
(* What a script does to the agent is what the agent allows any host to    *)
(* do: whatever the ports, plans and bounds, a script's behaviour is one   *)
(* of GovernedAgent, and what is proved there holds of it.                 *)
(*                                                                         *)
(* What the scripts themselves promise follows from FlowInv, which says    *)
(* for each point of a script's program what is true there.  There is one  *)
(* lemma per point: every action that can be taken there leads to a point  *)
(* whose assertion then holds, or ends the script as announced.            *)
(***************************************************************************)
EXTENDS HostScripts, GovernedAgentProofs

\* A call of the script is a call of the agent, or leaves the agent alone.
LEMMA CallsAreHostCalls ==
    ASSUME Calls, launch \in LaunchPlans
    PROVE  HostCalls(Host) \/ ForceApproved \/ UNCHANGED vars
<1>0. launch \in Bodies /\ launch \in Txs
  BY ScriptAssumption
<1>1. CASE CallPlan
  BY <1>0, <1>1 DEF CallPlan, HostCalls
<1>2. CASE CallGrant
  BY <1>2 DEF CallGrant, HostCalls
<1>3. CASE CallAwaits
  <2>1. (IF handsTx THEN launch ELSE None) \in Txs
    BY <1>0, ScriptAssumption
  <2> QED
    BY <1>3, <2>1 DEF CallAwaits, HostCalls
<1>4. CASE CallBlocked
  BY <1>4 DEF CallBlocked
<1>5. CASE CallRefused
  BY <1>5 DEF CallRefused, HostCalls
<1>6. CASE ForceStep
  BY <1>6 DEF ForceStep
<1>7. CASE Verify
  BY <1>7 DEF Verify
<1>8. CASE Publish \/ WriteFails
  BY <1>8 DEF Publish, WriteFails
<1> QED
  BY <1>1, <1>2, <1>3, <1>4, <1>5, <1>6, <1>7, <1>8 DEF Calls

\* What the mock or the live adapter answers is an answer of the port, and its
\* awaits in between, but for the submission, leave the agent alone.
LEMMA AnswersArePortAnswers ==
    ASSUME Resolved \/ Rejected \/ Waits
    PROVE  PortAnswers(Host) \/ UNCHANGED vars
<1>1. CASE Resolved
  <2>1. CASE MockResolves(Host)
    BY <2>1 DEF MockResolves, MockSimulate, MockConfirms, MockSigns, PortAnswers
  <2>2. CASE LiveResolves(Host)
    <3>1. CASE GetSignatureStatus(Host)
      <4> DEFINE c == IF rpc[Host].err THEN "failed" ELSE "confirmed"
      <4>1. BroadcastReturns(Host, c)
        BY <3>1 DEF GetSignatureStatus
      <4>2. c \in {"confirmed", "failed"}
        OBVIOUS
      <4> QED
        BY <4>1, <4>2 DEF PortAnswers
    <3> QED
      BY <2>2, <3>1 DEF LiveResolves, SimulateTransaction, LiveSigns, PortAnswers
  <2> QED
    BY <1>1, <2>1, <2>2 DEF Resolved
<1>2. CASE Rejected
  BY <1>2 DEF Rejected, LiveRejects, SimulateRejects, SendUnsigned, SendRejects, LiveSignRejects,
              PortAnswers
<1>3. CASE Waits
  BY <1>3 DEF Waits, MockAccepts, LiveWaits, Translate, GetLatestBlockhash, Moves,
              ConfirmTransaction, SendRawTransaction, Sendable, PortAnswers
<1> QED
  BY <1>1, <1>2, <1>3

\* A step of a script, of the clock or of the cluster is a step of the agent.
LEMMA ScriptStepIsAgentStep ==
    ASSUME launch \in LaunchPlans, [ScriptNext]_scriptVars
    PROVE  [Next]_vars /\ launch' \in LaunchPlans
<1>1. CASE ScriptStep
  <2>1. Host \in Tasks
    BY ScriptAssumption
  <2>2. HostCalls(Host) \/ PortAnswers(Host) \/ ForceApproved \/ UNCHANGED vars
    BY <1>1, CallsAreHostCalls, AnswersArePortAnswers DEF ScriptStep
  <2> QED
    BY <1>1, <2>1, <2>2 DEF ScriptStep, choice, Next
<1>2. CASE LiveTick
  BY <1>2 DEF LiveTick, choice, Next
<1>3. CASE ClusterStep
  BY <1>3 DEF ClusterStep, Cluster, ClusterRuns, choice
<1>4. CASE UNCHANGED scriptVars
  BY <1>4 DEF scriptVars, agentVars, choice
<1> QED
  BY <1>1, <1>2, <1>3, <1>4 DEF ScriptNext

\* The demo and both generators use the agent through its calls only: the
\* scripts' program implements the agent's specification.
THEOREM ScriptsUseTheAgent == ScriptSpec => ScriptsAreAgentRuns
<1>1. ScriptInit => Init /\ launch \in LaunchPlans
  BY DEF ScriptInit
<1>2. launch \in LaunchPlans /\ [ScriptNext]_scriptVars => [Next]_vars /\ (launch \in LaunchPlans)'
  BY ScriptStepIsAgentStep
<1> QED
  BY <1>1, <1>2, PTL DEF ScriptSpec, ScriptsAreAgentRuns, Spec

\* Hence whatever a script does, its signatures are each under a grant of their
\* own, as granted, and for plans policy put to a human.
THEOREM ScriptsSignAsGranted ==
    ScriptSpec => [](ApprovalIsSingleUse /\ SignedOnlyAsGranted /\ PolicyBoundsSigning)
<1>1. ScriptSpec => Spec
  BY ScriptsUseTheAgent DEF ScriptsAreAgentRuns
<1> QED
  BY <1>1, SingleUse, SigningIsGranted, SigningIsBounded, PTL

-----------------------------------------------------------------------------
(* What the receipts tell *)

\* What the receipt of a step says of it: the fields Emit sets for every receipt,
\* and those that tell whether a granted approval came with it.
Says(r, st, step, status, token, broadcast, failure) ==
    /\ r.receipt_id = Len(ledger) + 1 /\ r.step = step /\ r.status = status
    /\ r.policy_decision = st.decision /\ r.grant_id = token.nonce
    /\ r.broadcast = (broadcast # "null") /\ r.failure = failure
    /\ r.mode = IF status = "succeeded" /\ broadcast # "null"
                THEN "execute_with_human_approval"
                ELSE IF token.nonce # 0 THEN "prepare" ELSE "simulate"
    /\ r.token_digest = IF token.nonce = 0 THEN "absent" ELSE "redacted"
    /\ r.simulation_status = CASE st.simulation = "ok" -> "simulated_ok"
                               [] st.simulation = "failed" -> "simulation_failed"
                               [] OTHER -> "not_simulated"

\* Without a granted approval.
SaysUngranted(r, st, token) ==
    /\ r.approval_state = IF token.nonce = 0 THEN "not_required" ELSE "required"
    /\ r.human_review_required = (st.decision = "needs_approval")

\* With one.
SaysGranted(r, token) ==
    /\ r.approval_state = IF token.nonce = 0 THEN "not_required" ELSE "approved"
    /\ r.human_review_required = FALSE

\* A receipt without a granted approval.
LEMMA UngrantedSays ==
    ASSUME ledger \in Seq(SealedReceipts), NEW st, NEW step, NEW status, NEW token,
           NEW broadcast, NEW failure,
           Emit(st, step, status, token, FALSE, broadcast, failure)
    PROVE  LET r == ledger'[Len(ledger) + 1].body IN
           /\ Says(r, st, step, status, token, broadcast, failure)
           /\ SaysUngranted(r, st, token)
           /\ Len(ledger') = Len(ledger) + 1
           /\ \A i \in 1..Len(ledger) : ledger'[i] = ledger[i]
<1> DEFINE args == [step |-> step, status |-> status, plan |-> st.plan,
                    decision |-> st.decision, simulation |-> st.simulation,
                    token |-> token, granted |-> FALSE,
                    broadcast |-> broadcast, failure |-> failure]
           sealed == Seal(ledger, BuildStepReceipt(Len(ledger) + 1, args))
           r == sealed.body
<1>1. ledger' = Append(ledger, sealed)
  BY DEF Emit, AppendReceipt
<1>2. /\ Says(r, st, step, status, token, broadcast, failure)
      /\ SaysUngranted(r, st, token)
  BY DEF Says, SaysUngranted, Seal, Redact, BuildStepReceipt, Mode, ApprovalState,
         SimulationStatus, HasApproval
<1> HIDE DEF sealed, args
<1>3. /\ ledger'[Len(ledger) + 1] = sealed /\ Len(ledger') = Len(ledger) + 1
      /\ \A i \in 1..Len(ledger) : ledger'[i] = ledger[i]
  BY <1>1
<1> QED
  BY <1>2, <1>3

\* A receipt with one.
LEMMA GrantedSays ==
    ASSUME ledger \in Seq(SealedReceipts), NEW st, NEW step, NEW status, NEW token,
           NEW broadcast, NEW failure,
           Emit(st, step, status, token, TRUE, broadcast, failure)
    PROVE  LET r == ledger'[Len(ledger) + 1].body IN
           /\ Says(r, st, step, status, token, broadcast, failure)
           /\ SaysGranted(r, token)
           /\ Len(ledger') = Len(ledger) + 1
           /\ \A i \in 1..Len(ledger) : ledger'[i] = ledger[i]
<1> DEFINE args == [step |-> step, status |-> status, plan |-> st.plan,
                    decision |-> st.decision, simulation |-> st.simulation,
                    token |-> token, granted |-> TRUE,
                    broadcast |-> broadcast, failure |-> failure]
           sealed == Seal(ledger, BuildStepReceipt(Len(ledger) + 1, args))
           r == sealed.body
<1>1. ledger' = Append(ledger, sealed)
  BY DEF Emit, AppendReceipt
<1>2. /\ Says(r, st, step, status, token, broadcast, failure)
      /\ SaysGranted(r, token)
  BY DEF Says, SaysGranted, Seal, Redact, BuildStepReceipt, Mode, ApprovalState,
         SimulationStatus, HasApproval
<1> HIDE DEF sealed, args
<1>3. /\ ledger'[Len(ledger) + 1] = sealed /\ Len(ledger') = Len(ledger) + 1
      /\ \A i \in 1..Len(ledger) : ledger'[i] = ledger[i]
  BY <1>1
<1> QED
  BY <1>2, <1>3

\* The fields of a receipt that have the same value in every run.
Fixed == {"step", "status", "policy_decision", "mode", "approval_state", "token_digest",
          "simulation_status", "broadcast", "failure", "human_review_required"}

\* Every recorded receipt has these fields, besides those drawn anew in each run.
LEMMA RecordedFields == \A i \in 1..5 : DOMAIN RecordedRun[i] \ Drawn = Fixed
<1>1. DOMAIN RecordedPlan \ Drawn = Fixed
  BY DEF RecordedPlan, Drawn, Fixed
<1>2. DOMAIN RecordedSimulate \ Drawn = Fixed
  BY DEF RecordedSimulate, Drawn, Fixed
<1>3. DOMAIN RecordedApproval \ Drawn = Fixed
  BY DEF RecordedApproval, Drawn, Fixed
<1>4. DOMAIN RecordedSign \ Drawn = Fixed
  BY DEF RecordedSign, Drawn, Fixed
<1>5. DOMAIN RecordedBroadcast \ Drawn = Fixed
  BY DEF RecordedBroadcast, Drawn, Fixed
<1> QED
  BY <1>1, <1>2, <1>3, <1>4, <1>5 DEF RecordedRun

\* Two receipts that agree on these.
SameFields(r, s) ==
    /\ r.step = s.step /\ r.status = s.status /\ r.policy_decision = s.policy_decision
    /\ r.mode = s.mode /\ r.approval_state = s.approval_state
    /\ r.token_digest = s.token_digest /\ r.simulation_status = s.simulation_status
    /\ r.broadcast = s.broadcast /\ r.failure = s.failure
    /\ r.human_review_required = s.human_review_required

\* A receipt tells its step if its fields are the recorded ones.
LEMMA FieldsTell ==
    ASSUME NEW i \in 1..5,
           ledger'[i].body.step = RecordedRun[i].step, ledger'[i].body.receipt_id = i,
           GoesWell' => /\ SameFields(ledger'[i].body, RecordedRun[i])
                        /\ ledger'[i].body.grant_id = IF i <= 2 THEN 0 ELSE 1
    PROVE  Tells(i)'
<1> DEFINE r == ledger'[i].body
           s == RecordedRun[i]
<1>1. DOMAIN s \ Drawn = Fixed
  BY RecordedFields
<1>2. ASSUME SameFields(r, s), NEW f \in Fixed PROVE r[f] = s[f]
  <2> HIDE DEF r, s
  <2> QED
    BY <1>2 DEF SameFields, Fixed
<1> QED
  BY <1>1, <1>2 DEF Tells

\* An earlier receipt tells what it told.
LEMMA KeptTells ==
    ASSUME NEW i \in Nat, Tells(i), ledger'[i] = ledger[i], GoesWell' => GoesWell
    PROVE  Tells(i)'
  BY DEF Tells

\* One more receipt.
LEMMA TellsMore ==
    ASSUME NEW n \in Nat, Len(ledger) = n, LedgerTells(n), ledger \in Seq(SealedReceipts),
           Len(ledger') = n + 1, \A i \in 1..n : ledger'[i] = ledger[i],
           GoesWell' => GoesWell, Tells(n + 1)'
    PROVE  LedgerTells(n + 1)'
<1>1. ASSUME NEW i \in 1..n PROVE Tells(i)'
  <2>1. Tells(i) /\ ledger'[i] = ledger[i] /\ i \in Nat
    BY DEF LedgerTells
  <2> QED
    BY <2>1, KeptTells
<1>2. \A i \in 1..(n + 1) : i \in 1..n \/ i = n + 1
  OBVIOUS
<1> QED
  BY <1>1, <1>2 DEF LedgerTells

\* The receipts of the five steps, one by one.
LEMMA TellsPlan ==
    ASSUME ledger \in Seq(SealedReceipts), Len(ledger) = 0, NEW st, NEW status, NEW token,
           NEW failure, NEW broadcast,
           Emit(st, "plan", status, token, FALSE, broadcast, failure),
           GoesWell' => /\ st.decision = "needs_approval" /\ status = "prepared"
                        /\ failure = "null" /\ st.simulation = "null"
                        /\ broadcast = "null" /\ token.nonce = 0,
           LedgerTells(0), GoesWell' => GoesWell
    PROVE  Len(ledger') = 1 /\ LedgerTells(1)'
<1> DEFINE q == ledger'[Len(ledger) + 1].body
           s == RecordedRun[1]
<1>1. Says(q, st, "plan", status, token, broadcast, failure) /\ SaysUngranted(q, st, token)
  BY UngrantedSays
<1>8. Len(ledger') = Len(ledger) + 1 /\ \A j \in 1..Len(ledger) : ledger'[j] = ledger[j]
  BY UngrantedSays
<1>7. Len(ledger') = 1 /\ \A j \in 1..0 : ledger'[j] = ledger[j]
  BY <1>8
<1>2. q = ledger'[1].body
  OBVIOUS
<1>3. s = RecordedPlan
  BY DEF RecordedRun
<1> HIDE DEF q, s
<1>4. q.step = s.step /\ q.receipt_id = 1
  BY <1>1, <1>3 DEF Says, RecordedPlan
<1>5. ASSUME GoesWell' PROVE SameFields(q, s) /\ q.grant_id = 0
  <2>1. /\ q.status = s.status /\ q.policy_decision = s.policy_decision
        /\ q.failure = s.failure /\ q.grant_id = 0
    BY <1>1, <1>3, <1>5 DEF Says, RecordedPlan
  <2>2. q.mode = s.mode /\ q.token_digest = s.token_digest
    BY <1>1, <1>3, <1>5 DEF Says, RecordedPlan
  <2>3. q.approval_state = s.approval_state
    BY <1>1, <1>3, <1>5 DEF SaysUngranted, RecordedPlan
  <2>4. q.simulation_status = s.simulation_status
    BY <1>1, <1>3, <1>5 DEF Says, RecordedPlan
  <2>5. q.broadcast = s.broadcast
    BY <1>1, <1>3, <1>5 DEF Says, RecordedPlan
  <2>6. q.human_review_required = s.human_review_required
    BY <1>1, <1>3, <1>5 DEF SaysUngranted, RecordedPlan
  <2> QED
    BY <1>4, <2>1, <2>2, <2>3, <2>4, <2>5, <2>6 DEF SameFields
<1>6. Tells(1)'
  BY <1>2, <1>4, <1>5, FieldsTell DEF s
<1> QED
  BY <1>6, <1>7, TellsMore

\* That of the simulation.
LEMMA TellsSimulate ==
    ASSUME ledger \in Seq(SealedReceipts), Len(ledger) = 1, NEW st, NEW status, NEW token,
           NEW failure, NEW broadcast,
           Emit(st, "simulate", status, token, FALSE, broadcast, failure),
           GoesWell' => /\ st.decision = "needs_approval" /\ status = "needs_human_review"
                        /\ failure = "null" /\ st.simulation = "ok"
                        /\ broadcast = "null" /\ token.nonce = 0,
           LedgerTells(1), GoesWell' => GoesWell
    PROVE  Len(ledger') = 2 /\ LedgerTells(2)'
<1> DEFINE q == ledger'[Len(ledger) + 1].body
           s == RecordedRun[2]
<1>1. Says(q, st, "simulate", status, token, broadcast, failure) /\ SaysUngranted(q, st, token)
  BY UngrantedSays
<1>8. Len(ledger') = Len(ledger) + 1 /\ \A j \in 1..Len(ledger) : ledger'[j] = ledger[j]
  BY UngrantedSays
<1>7. Len(ledger') = 2 /\ \A j \in 1..1 : ledger'[j] = ledger[j]
  BY <1>8
<1>2. q = ledger'[2].body
  OBVIOUS
<1>3. s = RecordedSimulate
  BY DEF RecordedRun
<1> HIDE DEF q, s
<1>4. q.step = s.step /\ q.receipt_id = 2
  BY <1>1, <1>3 DEF Says, RecordedSimulate
<1>5. ASSUME GoesWell' PROVE SameFields(q, s) /\ q.grant_id = 0
  <2>1. /\ q.status = s.status /\ q.policy_decision = s.policy_decision
        /\ q.failure = s.failure /\ q.grant_id = 0
    BY <1>1, <1>3, <1>5 DEF Says, RecordedSimulate
  <2>2. q.mode = s.mode /\ q.token_digest = s.token_digest
    BY <1>1, <1>3, <1>5 DEF Says, RecordedSimulate
  <2>3. q.approval_state = s.approval_state
    BY <1>1, <1>3, <1>5 DEF SaysUngranted, RecordedSimulate
  <2>4. q.simulation_status = s.simulation_status
    BY <1>1, <1>3, <1>5 DEF Says, RecordedSimulate
  <2>5. q.broadcast = s.broadcast
    BY <1>1, <1>3, <1>5 DEF Says, RecordedSimulate
  <2>6. q.human_review_required = s.human_review_required
    BY <1>1, <1>3, <1>5 DEF SaysUngranted, RecordedSimulate
  <2> QED
    BY <1>4, <2>1, <2>2, <2>3, <2>4, <2>5, <2>6 DEF SameFields
<1>6. Tells(2)'
  BY <1>2, <1>4, <1>5, FieldsTell DEF s
<1> QED
  BY <1>6, <1>7, TellsMore

\* That of the grant.
LEMMA TellsApproval ==
    ASSUME ledger \in Seq(SealedReceipts), Len(ledger) = 2, NEW st, NEW status, NEW token,
           NEW failure, NEW broadcast,
           Emit(st, "await_approval", status, token, TRUE, broadcast, failure),
           GoesWell' => /\ st.decision = "needs_approval" /\ status = "prepared"
                        /\ failure = "null" /\ st.simulation = "ok"
                        /\ broadcast = "null" /\ token.nonce = 1,
           LedgerTells(2), GoesWell' => GoesWell
    PROVE  Len(ledger') = 3 /\ LedgerTells(3)'
<1> DEFINE q == ledger'[Len(ledger) + 1].body
           s == RecordedRun[3]
<1>1. Says(q, st, "await_approval", status, token, broadcast, failure) /\ SaysGranted(q, token)
  BY GrantedSays
<1>8. Len(ledger') = Len(ledger) + 1 /\ \A j \in 1..Len(ledger) : ledger'[j] = ledger[j]
  BY GrantedSays
<1>7. Len(ledger') = 3 /\ \A j \in 1..2 : ledger'[j] = ledger[j]
  BY <1>8
<1>2. q = ledger'[3].body
  OBVIOUS
<1>3. s = RecordedApproval
  BY DEF RecordedRun
<1> HIDE DEF q, s
<1>4. q.step = s.step /\ q.receipt_id = 3
  BY <1>1, <1>3 DEF Says, RecordedApproval
<1>5. ASSUME GoesWell' PROVE SameFields(q, s) /\ q.grant_id = 1
  <2>1. /\ q.status = s.status /\ q.policy_decision = s.policy_decision
        /\ q.failure = s.failure /\ q.grant_id = 1
    BY <1>1, <1>3, <1>5 DEF Says, RecordedApproval
  <2>2. q.mode = s.mode /\ q.token_digest = s.token_digest
    BY <1>1, <1>3, <1>5 DEF Says, RecordedApproval
  <2>3. q.approval_state = s.approval_state
    BY <1>1, <1>3, <1>5 DEF SaysGranted, RecordedApproval
  <2>4. q.simulation_status = s.simulation_status
    BY <1>1, <1>3, <1>5 DEF Says, RecordedApproval
  <2>5. q.broadcast = s.broadcast
    BY <1>1, <1>3, <1>5 DEF Says, RecordedApproval
  <2>6. q.human_review_required = s.human_review_required
    BY <1>1, <1>3, <1>5 DEF SaysGranted, RecordedApproval
  <2> QED
    BY <1>4, <2>1, <2>2, <2>3, <2>4, <2>5, <2>6 DEF SameFields
<1>6. Tells(3)'
  BY <1>2, <1>4, <1>5, FieldsTell DEF s
<1> QED
  BY <1>6, <1>7, TellsMore

\* That of the signature.
LEMMA TellsSign ==
    ASSUME ledger \in Seq(SealedReceipts), Len(ledger) = 3, NEW st, NEW status, NEW token,
           NEW failure, NEW broadcast,
           Emit(st, "sign", status, token, TRUE, broadcast, failure),
           GoesWell' => /\ st.decision = "needs_approval" /\ status = "prepared"
                        /\ failure = "null" /\ st.simulation = "ok"
                        /\ broadcast = "null" /\ token.nonce = 1,
           LedgerTells(3), GoesWell' => GoesWell
    PROVE  Len(ledger') = 4 /\ LedgerTells(4)'
<1> DEFINE q == ledger'[Len(ledger) + 1].body
           s == RecordedRun[4]
<1>1. Says(q, st, "sign", status, token, broadcast, failure) /\ SaysGranted(q, token)
  BY GrantedSays
<1>8. Len(ledger') = Len(ledger) + 1 /\ \A j \in 1..Len(ledger) : ledger'[j] = ledger[j]
  BY GrantedSays
<1>7. Len(ledger') = 4 /\ \A j \in 1..3 : ledger'[j] = ledger[j]
  BY <1>8
<1>2. q = ledger'[4].body
  OBVIOUS
<1>3. s = RecordedSign
  BY DEF RecordedRun
<1> HIDE DEF q, s
<1>4. q.step = s.step /\ q.receipt_id = 4
  BY <1>1, <1>3 DEF Says, RecordedSign
<1>5. ASSUME GoesWell' PROVE SameFields(q, s) /\ q.grant_id = 1
  <2>1. /\ q.status = s.status /\ q.policy_decision = s.policy_decision
        /\ q.failure = s.failure /\ q.grant_id = 1
    BY <1>1, <1>3, <1>5 DEF Says, RecordedSign
  <2>2. q.mode = s.mode /\ q.token_digest = s.token_digest
    BY <1>1, <1>3, <1>5 DEF Says, RecordedSign
  <2>3. q.approval_state = s.approval_state
    BY <1>1, <1>3, <1>5 DEF SaysGranted, RecordedSign
  <2>4. q.simulation_status = s.simulation_status
    BY <1>1, <1>3, <1>5 DEF Says, RecordedSign
  <2>5. q.broadcast = s.broadcast
    BY <1>1, <1>3, <1>5 DEF Says, RecordedSign
  <2>6. q.human_review_required = s.human_review_required
    BY <1>1, <1>3, <1>5 DEF SaysGranted, RecordedSign
  <2> QED
    BY <1>4, <2>1, <2>2, <2>3, <2>4, <2>5, <2>6 DEF SameFields
<1>6. Tells(4)'
  BY <1>2, <1>4, <1>5, FieldsTell DEF s
<1> QED
  BY <1>6, <1>7, TellsMore

\* That of the broadcast.
LEMMA TellsBroadcast ==
    ASSUME ledger \in Seq(SealedReceipts), Len(ledger) = 4, NEW st, NEW status, NEW token,
           NEW failure, NEW broadcast,
           Emit(st, "broadcast", status, token, TRUE, broadcast, failure),
           GoesWell' => /\ st.decision = "needs_approval" /\ status = "succeeded"
                        /\ failure = "null" /\ st.simulation = "ok"
                        /\ broadcast = "confirmed" /\ token.nonce = 1,
           LedgerTells(4), GoesWell' => GoesWell
    PROVE  Len(ledger') = 5 /\ LedgerTells(5)'
<1> DEFINE q == ledger'[Len(ledger) + 1].body
           s == RecordedRun[5]
<1>1. Says(q, st, "broadcast", status, token, broadcast, failure) /\ SaysGranted(q, token)
  BY GrantedSays
<1>8. Len(ledger') = Len(ledger) + 1 /\ \A j \in 1..Len(ledger) : ledger'[j] = ledger[j]
  BY GrantedSays
<1>7. Len(ledger') = 5 /\ \A j \in 1..4 : ledger'[j] = ledger[j]
  BY <1>8
<1>2. q = ledger'[5].body
  OBVIOUS
<1>3. s = RecordedBroadcast
  BY DEF RecordedRun
<1> HIDE DEF q, s
<1>4. q.step = s.step /\ q.receipt_id = 5
  BY <1>1, <1>3 DEF Says, RecordedBroadcast
<1>5. ASSUME GoesWell' PROVE SameFields(q, s) /\ q.grant_id = 1
  <2>1. /\ q.status = s.status /\ q.policy_decision = s.policy_decision
        /\ q.failure = s.failure /\ q.grant_id = 1
    BY <1>1, <1>3, <1>5 DEF Says, RecordedBroadcast
  <2>2. q.mode = s.mode /\ q.token_digest = s.token_digest
    BY <1>1, <1>3, <1>5 DEF Says, RecordedBroadcast
  <2>3. q.approval_state = s.approval_state
    BY <1>1, <1>3, <1>5 DEF SaysGranted, RecordedBroadcast
  <2>4. q.simulation_status = s.simulation_status
    BY <1>1, <1>3, <1>5 DEF Says, RecordedBroadcast
  <2>5. q.broadcast = s.broadcast
    BY <1>1, <1>3, <1>5 DEF Says, RecordedBroadcast
  <2>6. q.human_review_required = s.human_review_required
    BY <1>1, <1>3, <1>5 DEF SaysGranted, RecordedBroadcast
  <2> QED
    BY <1>4, <2>1, <2>2, <2>3, <2>4, <2>5, <2>6 DEF SameFields
<1>6. Tells(5)'
  BY <1>2, <1>4, <1>5, FieldsTell DEF s
<1> QED
  BY <1>6, <1>7, TellsMore

-----------------------------------------------------------------------------
(* From one point of the script to the next *)

\* Nothing is awaited, or a call the agent just made.
LEMMA AwaitsCall ==
    ASSUME TypeOK, NEW ops, Awaits({"idle"}), rpc' = rpc, NEW c,
           call' = [call EXCEPT ![Host] = c], c.op \in ops \ {"confirm"},
           c.op = "send" => (c.tx # None <=> handsTx')
    PROVE  Awaits(ops)'
<1>1. call'[Host] = c
  BY ScriptAssumption DEF TypeOK
<1>2. call[Host].op = "idle"
  BY DEF Awaits
<1> QED
  BY <1>1, <1>2 DEF Awaits

\* From one point of the script to the next: plan().
LEMMA PlanFlow ==
    ASSUME TypeOK, ChoiceInv, UNCHANGED choice, UNCHANGED adapters, AtPlan,
           Plan(Host, launch)
    PROVE  AtSimulate'
<1> DEFINE d == Decide[launch]
           st == [NoState EXCEPT !.run = state.run + 1, !.lifecycle = AfterPlan(d),
                                 !.plan = launch, !.planHash = HashPlan[launch], !.decision = d]
           status == IF d = "deny" THEN "rejected" ELSE "prepared"
           failure == IF d = "deny" THEN "policy_denied" ELSE "null"
<1>1. /\ state' = st /\ Emit(st, "plan", status, NoToken, FALSE, "null", failure)
      /\ UNCHANGED << nonceStore, now, call, outside, interference >>
  BY DEF Plan
<1>2. /\ st.plan = launch /\ st.planHash = HashPlan[launch] /\ st.decision = d
      /\ st.lifecycle = AfterPlan(d) /\ st.simulation = "null" /\ st.broadcast = "null"
      /\ st.approval = NoToken
  BY DEF NoState
<1>3. ledger \in Seq(SealedReceipts) /\ Len(ledger) = 0
  BY DEF TypeOK, AtPlan
<1>4. (GoesWell' => d = "needs_approval") /\ (GoesWell' => GoesWell)
  BY DEF GoesWell, choice, AtPlan, NoState
<1>5. d = "needs_approval" => status = "prepared" /\ failure = "null"
  OBVIOUS
<1>6. NoToken.nonce = 0
  BY DEF NoToken
<1> HIDE DEF st, status, failure, d
<1>7. LedgerTells(0)
  BY <1>3 DEF LedgerTells
<1>8. Len(ledger') = 1 /\ LedgerTells(1)'
  BY <1>1, <1>2, <1>3, <1>4, <1>5, <1>6, <1>7, TellsPlan
<1>10. Runs(AfterPlan(Decide[launch]))'
  BY <1>1, <1>2 DEF Runs, choice, d
<1>11. Awaits({"idle", "simulate"})'
  BY <1>1 DEF AtPlan, Awaits, adapters, choice
<1> QED
  BY <1>1, <1>2, <1>8, <1>10, <1>11
     DEF AtPlan, AtSimulate, Ungranted, Unsigned, Unsubmitted, adapters, outside

\* simulate(), up to the port.
LEMMA SimulateFlow ==
    ASSUME TypeOK, ChoiceInv, UNCHANGED choice, UNCHANGED adapters, AtSimulate,
           Simulate(Host)
    PROVE  AtSimulate'
<1> DEFINE c == [Idle EXCEPT !.op = "simulate", !.run = state.run, !.plan = state.plan]
<1>1. /\ call' = [call EXCEPT ![Host] = c]
      /\ UNCHANGED << state, ledger, nonceStore, now, outside, interference >>
      /\ call[Host].op = "idle"
  BY DEF Simulate, HostIdle
<1>2. c.op = "simulate"
  BY DEF Idle
<1> HIDE DEF c
<1>3. Awaits({"idle"}) /\ rpc' = rpc
  BY <1>1 DEF AtSimulate, Awaits, adapters
<1>4. Awaits({"idle", "simulate"})'
  BY <1>1, <1>2, <1>3, AwaitsCall
<1>5. LedgerTells(1)'
  BY <1>1 DEF AtSimulate, LedgerTells, Tells, GoesWell, choice
<1> QED
  BY <1>1, <1>4, <1>5
     DEF AtSimulate, Runs, Ungranted, Unsigned, Unsubmitted, adapters, outside, choice

\* In the web3 adapter, up to the cluster's RPC node.
LEMMA TranslateFlow ==
    ASSUME TypeOK, ChoiceInv, UNCHANGED choice, ports = "live", AtSimulate,
           Translate(Host)
    PROVE  AtSimulate'
<1>1. /\ call[Host].op = "simulate" /\ rpc[Host].await = "none"
      /\ rpc' = [rpc EXCEPT ![Host].await = "simulateTransaction"]
      /\ UNCHANGED << vars, fate >>
  BY DEF Translate, Moves
<1>2. /\ rpc \in [Tasks -> RpcTypes] /\ Host \in Tasks
      /\ rpc[Host].err = FALSE
  BY <1>1, ScriptAssumption DEF AtSimulate, Awaits
<1>3. /\ rpc' \in [Tasks -> RpcTypes]
      /\ rpc'[Host].await = "simulateTransaction" /\ rpc'[Host].err = FALSE
  <2> DEFINE r == [rpc[Host] EXCEPT !.await = "simulateTransaction"]
  <2>1. rpc' = [rpc EXCEPT ![Host] = r]
    BY <1>1
  <2>2. rpc[Host] \in RpcTypes
    BY <1>2
  <2>3. r \in RpcTypes
    BY <2>2 DEF RpcTypes
  <2>4. r.await = "simulateTransaction" /\ r.err = rpc[Host].err
    BY <2>2 DEF RpcTypes
  <2> HIDE DEF r
  <2>5. rpc' \in [Tasks -> RpcTypes] /\ rpc'[Host] = r
    BY <1>2, <2>1, <2>3
  <2> QED
    BY <1>2, <2>4, <2>5
<1>4. call' = call
  BY <1>1 DEF vars
<1>6. Awaits({"idle", "simulate"})'
  BY <1>1, <1>3, <1>4 DEF Awaits, choice
<1>5. LedgerTells(1)'
  BY <1>1 DEF AtSimulate, LedgerTells, Tells, GoesWell, choice, vars
<1> QED
  BY <1>1, <1>6, <1>5
     DEF AtSimulate, Runs, Ungranted, Unsigned, Unsubmitted, outside, choice, vars

\* The port call is answered, and the adapter at rest.
AtRest == rpc \in [Tasks -> RpcTypes] /\ rpc[Host].await = "none" /\ rpc[Host].err = FALSE

\* Then the agent awaits nothing.
LEMMA RestAwaits ==
    ASSUME TypeOK, call' = [call EXCEPT ![Host] = Idle], AtRest'
    PROVE  Awaits({"idle"})'
<1>1. call'[Host] = Idle
  BY ScriptAssumption DEF TypeOK
<1>2. Idle.op = "idle"
  BY DEF Idle
<1> QED
  BY <1>1, <1>2 DEF Awaits, AtRest

\* The web3 adapter is at rest once it answered.
LEMMA AnswerRests ==
    ASSUME NEW ops, Awaits(ops), Answered(Host)
    PROVE  AtRest'
<1>1. NoRpc \in RpcTypes /\ NoRpc.await = "none" /\ NoRpc.err = FALSE
  BY DEF NoRpc, RpcTypes
<1>2. rpc' \in [Tasks -> RpcTypes] /\ rpc'[Host] = NoRpc
  BY <1>1, ScriptAssumption DEF Awaits, Answered
<1> QED
  BY <1>1, <1>2 DEF AtRest

\* It was, if the call is one it does not await the cluster for.
LEMMA QuietRests ==
    ASSUME NEW ops, Awaits(ops), rpc' = rpc,
           ports = "mock" \/ call[Host].op \in {"idle", "sign", "send"}
    PROVE  AtRest'
<1>1. rpc[Host] \in RpcTypes
  BY ScriptAssumption DEF Awaits
<1>2. rpc[Host].await = "none" /\ rpc[Host].err = FALSE
  BY <1>1 DEF Awaits, RpcTypes
<1> QED
  BY <1>2 DEF Awaits, AtRest

\* The simulation is answered.
LEMMA SimulatedFlow ==
    ASSUME TypeOK, AwaitInv, ChoiceInv, UNCHANGED choice, AtSimulate, fate' = fate, AtRest',
           \/ SimulateOk(Host) /\ (ports = "mock" => launch \notin Malformed)
           \/ SimulateFailed(Host) /\ (ports = "mock" => launch \in Malformed)
    PROVE  AtGrant'
<1> DEFINE d == Decide[launch]
<1>1. call[Host].op = "simulate" /\ Host \in Tasks
  BY ScriptAssumption DEF SimulateOk, SimulateFailed
<1>2. d # "deny"
  <2>1. state.lifecycle = "PLANNED"
    BY <1>1 DEF AwaitInv, CallsIntact, CallIntact
  <2> QED
    BY <2>1 DEF AtSimulate, Runs, AfterPlan
<1>3. ledger \in Seq(SealedReceipts) /\ Len(ledger) = 1 /\ LedgerTells(1)
  BY DEF TypeOK, AtSimulate
<1>4. GoesWell' => GoesWell /\ d = "needs_approval"
  BY DEF GoesWell, choice, AtSimulate
<1>5. NoToken.nonce = 0
  BY DEF NoToken
<1>6. state \in StateType /\ state.plan = launch /\ state.planHash = HashPlan[launch]
        /\ state.decision = d /\ state.broadcast = "null" /\ state.approval = NoToken
  BY DEF TypeOK, AtSimulate, Runs, Ungranted
<1>7. CASE SimulateOk(Host) /\ (ports = "mock" => launch \notin Malformed)
  <2> DEFINE lc == AfterSimulation(state.decision)
             st == [state EXCEPT !.simulation = "ok", !.lifecycle = lc]
             status == IF lc = "AWAITING_APPROVAL" THEN "needs_human_review" ELSE "simulated"
  <2>1. /\ state' = st /\ Emit(st, "simulate", status, NoToken, FALSE, "null", "null")
        /\ UNCHANGED << nonceStore, now, issued, signerCalls, submitted, confirmed >>
        /\ call' = [call EXCEPT ![Host] = Idle]
    BY <1>7 DEF SimulateOk
  <2>2. /\ st.plan = launch /\ st.planHash = HashPlan[launch] /\ st.decision = d
        /\ st.lifecycle = lc /\ st.simulation = "ok" /\ st.broadcast = "null"
        /\ st.approval = NoToken
    BY <1>6 DEF StateType
  <2>3. d = "needs_approval" => status = "needs_human_review"
    BY <1>6 DEF AfterSimulation
  <2>4. lc = AfterSimulation(d)
    BY <1>6
  <2> HIDE DEF lc, st, status
  <2>5. Len(ledger') = 2 /\ LedgerTells(2)'
    BY <1>3, <1>4, <1>5, <2>1, <2>2, <2>3, TellsSimulate
  <2>6. Runs(AfterSimulation(Decide[launch]))'
    BY <2>1, <2>2, <2>4 DEF Runs, choice
  <2>7. Awaits({"idle"})'
    BY <2>1, RestAwaits
  <2> QED
    BY <1>2, <1>7, <2>1, <2>2, <2>5, <2>6, <2>7
       DEF AtSimulate, AtGrant, Ungranted, Unsigned, Unsubmitted, choice
<1>8. CASE SimulateFailed(Host) /\ (ports = "mock" => launch \in Malformed)
  <2> DEFINE st == [state EXCEPT !.simulation = "failed", !.lifecycle = "FAILED"]
  <2>1. /\ state' = st
        /\ Emit(st, "simulate", "failed", NoToken, FALSE, "null", "simulation_failed")
        /\ UNCHANGED << nonceStore, now, issued, signerCalls, submitted, confirmed >>
        /\ call' = [call EXCEPT ![Host] = Idle]
    BY <1>8 DEF SimulateFailed, outside
  <2>2. /\ st.plan = launch /\ st.planHash = HashPlan[launch] /\ st.decision = d
        /\ st.lifecycle = "FAILED" /\ st.simulation = "failed" /\ st.broadcast = "null"
        /\ st.approval = NoToken
    BY <1>6 DEF StateType
  <2> HIDE DEF st
  <2>3. ~GoesWell'
    BY <2>1, <2>2 DEF GoesWell
  <2>5. Len(ledger') = 2 /\ LedgerTells(2)'
    BY <1>3, <1>4, <2>1, <2>3, TellsSimulate
  <2>6. Runs("FAILED")'
    BY <2>1, <2>2 DEF Runs, choice
  <2>7. Awaits({"idle"})'
    BY <2>1, RestAwaits
  <2> QED
    BY <1>2, <1>8, <2>1, <2>2, <2>5, <2>6, <2>7
       DEF AtSimulate, AtGrant, Ungranted, Unsigned, Unsubmitted, choice
<1> QED
  BY <1>7, <1>8

\* The human grants.
LEMMA GrantFlow ==
    ASSUME TypeOK, ChoiceInv, UNCHANGED choice, UNCHANGED adapters, AtGrant,
           NEW ttl \in Ttls, GrantApproval(Host, ttl)
    PROVE  AtSign'
<1> DEFINE token == IssueApprovalToken(state.planHash, Len(issued) + 1, ttl, now)
           st == [state EXCEPT !.approval = token, !.lifecycle = "APPROVED"]
<1>1. /\ state.lifecycle = "AWAITING_APPROVAL"
      /\ issued' = Append(issued, token) /\ state' = st
      /\ Emit(st, "await_approval", "prepared", token, TRUE, "null", "null")
      /\ UNCHANGED << nonceStore, now, call, simOK, signerCalls, submitted,
                      confirmed, interference >>
  BY DEF GrantApproval, AssertState
<1>2. state.simulation = "ok" /\ Decide[launch] = "needs_approval"
        /\ (ports = "mock" => launch \notin Malformed)
  BY <1>1 DEF AtGrant, Runs, AfterSimulation
<1>3. state \in StateType /\ state.plan = launch /\ state.planHash = HashPlan[launch]
        /\ state.decision = Decide[launch] /\ state.broadcast = "null" /\ issued = << >>
  BY DEF TypeOK, AtGrant, Runs, Ungranted
<1>4. /\ token.nonce = 1 /\ token.planHash = HashPlan[launch]
      /\ token.signature = CanonicalApprovalPayload(token)
  BY <1>3 DEF IssueApprovalToken, CanonicalApprovalPayload
<1>5. /\ st.plan = launch /\ st.planHash = HashPlan[launch] /\ st.decision = Decide[launch]
      /\ st.lifecycle = "APPROVED" /\ st.simulation = "ok" /\ st.broadcast = "null"
      /\ st.approval = token
  BY <1>2, <1>3 DEF StateType
<1>6. ledger \in Seq(SealedReceipts) /\ Len(ledger) = 2 /\ LedgerTells(2)
  BY DEF TypeOK, AtGrant
<1> HIDE DEF token, st
<1>7. GoesWell' => GoesWell
  BY <1>1, <1>2, <1>3 DEF GoesWell, choice
<1>8. Len(ledger') = 3 /\ LedgerTells(3)'
  BY <1>1, <1>2, <1>4, <1>5, <1>6, <1>7, TellsApproval
<1>9. Len(issued') = 1 /\ issued'[1] = token
  BY <1>1, <1>3
<1>10. Granted'
  BY <1>1, <1>2, <1>4, <1>5, <1>9 DEF Granted, choice
<1>11. Runs("APPROVED")'
  BY <1>1, <1>5 DEF Runs, choice
<1>12. Awaits({"idle", "sign"})' /\ call'[Host].op = "idle"
  BY <1>1 DEF AtGrant, Awaits, adapters, choice
<1> QED
  BY <1>1, <1>5, <1>8, <1>10, <1>11, <1>12
     DEF AtGrant, AtSign, Unsigned, Unsubmitted, adapters, choice

\* What the grant in hand is.
LEMMA GrantFacts ==
    ASSUME TypeOK, GrantInv, Granted
    PROVE  /\ state.approval \in Tokens /\ state.approval.nonce = 1 /\ HasGrant(state)
           /\ state.approval.signature = CanonicalApprovalPayload(state.approval)
<1>1. issued[1] \in Tokens
  <2>1. issued \in Seq(Tokens) /\ 1 \in 1..Len(issued)
    BY DEF TypeOK, Granted
  <2> QED
    BY <2>1
<1>2. issued[1].nonce = 1
  BY DEF GrantInv, Granted
<1> QED
  BY <1>1, <1>2 DEF Granted, HasGrant

\* sign(), up to the signer.
LEMMA SignFlow ==
    ASSUME TypeOK, GrantInv, ChoiceInv, UNCHANGED choice, UNCHANGED adapters, AtSign,
           SignAccepted(Host)
    PROVE  AtSign'
<1> DEFINE c == [Idle EXCEPT !.op = "sign", !.run = state.run, !.hash = state.planHash]
           s == [nonce |-> state.approval.nonce, hash |-> state.planHash, at |-> now]
<1>1. /\ call' = [call EXCEPT ![Host] = c] /\ signerCalls' = Append(signerCalls, s)
      /\ nonceStore' = nonceStore \cup {state.approval.nonce} /\ call[Host].op = "idle"
      /\ UNCHANGED << state, ledger, now, issued, simOK, submitted, confirmed >>
  BY DEF SignAccepted, HostIdle, Consume
<1>2. c.op = "sign"
  BY DEF Idle
<1>3. nonceStore = {} /\ signerCalls = << >> /\ state.approval.nonce = 1
  BY <1>1, GrantFacts DEF AtSign, Unsigned
<1> HIDE DEF c, s
<1>4. Awaits({"idle", "sign"})' /\ call'[Host].op = "sign"
  <2>1. Awaits({"idle"}) /\ rpc' = rpc
    BY <1>1 DEF AtSign, Awaits, adapters
  <2> QED
    BY <1>1, <1>2, <2>1, AwaitsCall, ScriptAssumption DEF TypeOK
<1>5. Signed'
  BY <1>1, <1>3 DEF AtSign, Signed, Granted, choice
<1>6. LedgerTells(3)'
  BY <1>1 DEF AtSign, LedgerTells, Tells, GoesWell, choice
<1> QED
  BY <1>1, <1>4, <1>5, <1>6 DEF AtSign, Runs, Signed, Unsubmitted, adapters, choice

\* The signature is there.
LEMMA SignedFlow ==
    ASSUME TypeOK, GrantInv, ChoiceInv, UNCHANGED choice, UNCHANGED adapters, AtSign,
           SignReturns(Host)
    PROVE  AtBroadcast'
<1> DEFINE st == [state EXCEPT !.signature = call[Host].hash, !.lifecycle = "SIGNED"]
<1>1. /\ state' = st /\ Emit(st, "sign", "prepared", st.approval, HasGrant(st), "null", "null")
      /\ call' = [call EXCEPT ![Host] = Idle] /\ call[Host].op = "sign"
      /\ UNCHANGED << nonceStore, now, outside, interference >>
  BY DEF SignReturns
<1>2. /\ state \in StateType /\ state.plan = launch /\ state.planHash = HashPlan[launch]
      /\ state.decision = Decide[launch] /\ state.broadcast = "null"
      /\ state.simulation = "ok" /\ Decide[launch] = "needs_approval" /\ Signed
  BY <1>1 DEF TypeOK, AtSign, Runs, Granted, Signed
<1>3. /\ st.plan = launch /\ st.planHash = HashPlan[launch] /\ st.decision = Decide[launch]
      /\ st.lifecycle = "SIGNED" /\ st.simulation = "ok" /\ st.broadcast = "null"
      /\ st.approval = state.approval
  BY <1>2 DEF StateType
<1>4. st.approval.nonce = 1 /\ HasGrant(st) = TRUE
  BY <1>2, <1>3, GrantFacts DEF Signed, HasGrant
<1>5. ledger \in Seq(SealedReceipts) /\ Len(ledger) = 3 /\ LedgerTells(3)
  BY DEF TypeOK, AtSign
<1> HIDE DEF st
<1>6. Emit(st, "sign", "prepared", st.approval, TRUE, "null", "null")
  BY <1>1, <1>4
<1>7. GoesWell' => GoesWell
  BY <1>1, <1>2, <1>3 DEF GoesWell, choice
<1>8. Len(ledger') = 4 /\ LedgerTells(4)'
  BY <1>2, <1>3, <1>4, <1>5, <1>6, <1>7, TellsSign
<1>9. Signed'
  BY <1>1, <1>2, <1>3 DEF Signed, Granted, outside, choice
<1>10. Awaits({"idle"})'
  <2>1. AtRest'
    BY <1>1, QuietRests DEF AtSign, adapters
  <2> QED
    BY <1>1, <2>1, RestAwaits
<1>11. Awaits({"idle", "send", "confirm"})' /\ call'[Host].op = "idle"
  BY <1>10 DEF Awaits
<1>12. Runs("SIGNED")'
  BY <1>1, <1>3 DEF Runs, choice
<1> QED
  BY <1>1, <1>3, <1>8, <1>9, <1>11, <1>12 DEF AtSign, AtBroadcast, Unsubmitted, adapters, outside

\* broadcast(), up to the port.
LEMMA BroadcastFlow ==
    ASSUME TypeOK, GrantInv, ChoiceInv, UNCHANGED choice, UNCHANGED adapters, AtBroadcast,
           Broadcast(Host, IF handsTx THEN launch ELSE None)
    PROVE  AtBroadcast'
<1> DEFINE c == [op |-> "send", run |-> state.run, plan |-> state.plan,
                 hash |-> state.signature, nonce |-> state.approval.nonce,
                 tx |-> IF handsTx THEN launch ELSE None]
<1>1. /\ call' = [call EXCEPT ![Host] = c] /\ call[Host].op = "idle"
      /\ UNCHANGED << state, ledger, nonceStore, now, outside, interference >>
  BY DEF Broadcast, HostIdle
<1>2. c.op = "send" /\ (c.tx # None <=> handsTx')
  BY ScriptAssumption, NoneAssumption DEF choice, ChoiceInv
<1> HIDE DEF c
<1>4. Awaits({"idle", "send", "confirm"})' /\ call'[Host].op = "send"
  <2>1. Awaits({"idle"}) /\ rpc' = rpc
    BY <1>1 DEF AtBroadcast, Awaits, adapters
  <2> QED
    BY <1>1, <1>2, <2>1, AwaitsCall, ScriptAssumption DEF TypeOK
<1>6. LedgerTells(4)'
  BY <1>1 DEF AtBroadcast, LedgerTells, Tells, GoesWell, choice
<1> QED
  BY <1>1, <1>4, <1>6
     DEF AtBroadcast, Runs, Signed, Granted, Unsubmitted, adapters, outside, choice

\* The mock executes what it is sent; the web3 adapter has the cluster's answer
\* to wait for.
LEMMA SubmitFlow ==
    ASSUME TypeOK, GrantInv, ChoiceInv, UNCHANGED choice, AtBroadcast,
           \/ ports = "mock" /\ MockAccepts(Host)
           \/ handsTx /\ SendRawTransaction(Host)
    PROVE  AtBroadcast'
<1>0. PICK bytes : Submit(Host, bytes)
  BY DEF MockAccepts, SendRawTransaction
<1> DEFINE s == [run |-> call[Host].run, plan |-> call[Host].plan,
                 signature |-> call[Host].hash, nonce |-> call[Host].nonce, bytes |-> bytes]
<1>1. /\ call[Host].op = "send" /\ submitted' = Append(submitted, s)
      /\ call' = [call EXCEPT ![Host].op = "confirm"]
      /\ UNCHANGED << state, ledger, nonceStore, now, issued, simOK, signerCalls,
                      confirmed, interference >>
  BY <1>0 DEF Submit
<1>2. submitted = << >> /\ fate = << >> /\ confirmed = {}
  BY <1>1 DEF AtBroadcast, Unsubmitted
<1>3. call'[Host].op = "confirm"
  BY <1>1, ScriptAssumption DEF TypeOK, CallType
<1>4. rpc \in [Tasks -> RpcTypes] /\ Host \in Tasks
  BY ScriptAssumption DEF AtBroadcast, Awaits
<1> HIDE DEF s
<1>5. Len(submitted') = 1
  BY <1>1, <1>2
<1>6. LedgerTells(4)'
  BY <1>1 DEF AtBroadcast, LedgerTells, Tells, GoesWell, choice
<1>7. CASE ports = "mock" /\ MockAccepts(Host)
  <2>1. fate' = Append(fate, "executed") /\ rpc' = rpc
    BY <1>7 DEF MockAccepts
  <2>2. Out'
    BY <1>2, <1>5, <1>7, <2>1 DEF Out, choice
  <2>3. Awaits({"idle", "send", "confirm"})'
    BY <1>3, <1>7, <2>1 DEF AtBroadcast, Awaits, choice
  <2> QED
    BY <1>1, <1>2, <1>3, <1>6, <2>2, <2>3
       DEF AtBroadcast, Runs, Signed, Granted, choice
<1>8. CASE handsTx /\ SendRawTransaction(Host)
  <2> DEFINE r == [await |-> "getLatestBlockhash", tx |-> Len(submitted) + 1, err |-> FALSE]
  <2>1. fate' = Append(fate, "pending") /\ rpc' = [rpc EXCEPT ![Host] = r]
    BY <1>8 DEF SendRawTransaction
  <2>2. r \in RpcTypes /\ r.await = "getLatestBlockhash" /\ r.tx = 1 /\ r.err = FALSE
    BY <1>2 DEF RpcTypes
  <2> HIDE DEF r
  <2>3. rpc' \in [Tasks -> RpcTypes] /\ rpc'[Host] = r
    BY <1>4, <2>1, <2>2
  <2>4. ports = "live"
    BY <1>8 DEF ChoiceInv
  <2>5. Out'
    BY <1>2, <1>5, <1>8, <2>1, <2>4 DEF Out, choice
  <2>6. Awaits({"idle", "send", "confirm"})'
    BY <1>3, <2>2, <2>3, <2>4 DEF Awaits, choice
  <2> QED
    BY <1>1, <1>2, <1>3, <1>6, <2>5, <2>6
       DEF AtBroadcast, Runs, Signed, Granted, choice
<1> QED
  BY <1>7, <1>8

\* The web3 adapter's awaits on the way.
LEMMA LiveFlow ==
    ASSUME TypeOK, ChoiceInv, UNCHANGED choice, ports = "live", AtBroadcast,
           GetLatestBlockhash(Host) \/ ConfirmTransaction(Host)
    PROVE  AtBroadcast'
<1>1. Host \in Tasks /\ rpc \in [Tasks -> RpcTypes] /\ rpc[Host] \in RpcTypes
  BY ScriptAssumption DEF AtBroadcast, Awaits
<1>2. UNCHANGED << vars, fate >>
  BY DEF GetLatestBlockhash, ConfirmTransaction, Moves
<1>3. rpc[Host].await \in {"getLatestBlockhash", "confirmTransaction"}
  BY DEF GetLatestBlockhash, ConfirmTransaction, Moves
<1>4. call[Host].op = "confirm" /\ rpc[Host].tx = 1 /\ rpc[Host].err = FALSE
  BY <1>3 DEF AtBroadcast, Awaits
<1>5. Awaits({"idle", "send", "confirm"})'
  <2>1. CASE GetLatestBlockhash(Host)
    <3> DEFINE r == [rpc[Host] EXCEPT !.await = "confirmTransaction"]
    <3>1. rpc' = [rpc EXCEPT ![Host] = r]
      BY <1>1, <2>1 DEF GetLatestBlockhash, Moves
    <3>2. r \in RpcTypes /\ r.await = "confirmTransaction" /\ r.tx = 1 /\ r.err = FALSE
      BY <1>1, <1>4 DEF RpcTypes
    <3> HIDE DEF r
    <3>3. rpc' \in [Tasks -> RpcTypes] /\ rpc'[Host] = r
      BY <1>1, <3>1, <3>2
    <3>4. call' = call
      BY <1>2 DEF vars
    <3> QED
      BY <1>4, <3>2, <3>3, <3>4 DEF Awaits, choice
  <2>2. CASE ConfirmTransaction(Host)
    <3> DEFINE e == fate[rpc[Host].tx] = "errored"
               r == [rpc[Host] EXCEPT !.await = "getSignatureStatus", !.err = e]
    <3>1. rpc' = [rpc EXCEPT ![Host] = r] /\ fate[1] \in {"executed", "errored"}
      BY <1>1, <1>4, <2>2 DEF ConfirmTransaction
    <3>2. r \in RpcTypes /\ r.await = "getSignatureStatus" /\ r.tx = 1
      BY <1>1, <1>4 DEF RpcTypes
    <3>5. r.err = (fate[1] = "errored")
      BY <1>1, <1>4 DEF RpcTypes
    <3> HIDE DEF r
    <3>3. rpc' \in [Tasks -> RpcTypes] /\ rpc'[Host] = r
      BY <1>1, <3>1, <3>2
    <3>4. call' = call /\ fate' = fate
      BY <1>2 DEF vars
    <3>6. fate'[1] = IF rpc'[Host].err THEN "errored" ELSE "executed"
      BY <3>1, <3>3, <3>4, <3>5
    <3> QED
      BY <1>4, <3>2, <3>3, <3>4, <3>6 DEF Awaits, choice
  <2> QED
    BY <2>1, <2>2
<1>6. LedgerTells(4)'
  BY <1>2 DEF AtBroadcast, LedgerTells, Tells, GoesWell, choice, vars
<1> QED
  BY <1>2, <1>5, <1>6
     DEF AtBroadcast, Runs, Signed, Granted, Unsubmitted, Out, choice, vars, outside

\* The broadcast is answered.
LEMMA AnsweredFlow ==
    ASSUME TypeOK, GrantInv, ChoiceInv, UNCHANGED choice, AtBroadcast, fate' = fate, AtRest',
           NEW c \in {"confirmed", "failed"}, BroadcastReturns(Host, c),
           fate[1] = IF c = "confirmed" THEN "executed" ELSE "errored"
    PROVE  AtForce'
<1> DEFINE lc == AfterBroadcast(c)
           st == [state EXCEPT !.broadcast = c, !.lifecycle = lc]
           status == IF lc = "CONFIRMED" THEN "succeeded" ELSE "failed"
           failure == IF lc = "FAILED" THEN "broadcast_failed" ELSE "null"
<1>1. /\ state' = st
      /\ Emit(st, "broadcast", status, st.approval, HasGrant(st), c, failure)
      /\ call' = [call EXCEPT ![Host] = Idle] /\ call[Host].op = "confirm"
      /\ UNCHANGED << nonceStore, now, issued, simOK, signerCalls, submitted, interference >>
  BY DEF BroadcastReturns
<1>2. /\ state \in StateType /\ state.plan = launch /\ state.simulation = "ok"
      /\ state.decision = Decide[launch] /\ state.broadcast = "null"
      /\ Decide[launch] = "needs_approval" /\ Signed /\ Out
  BY <1>1 DEF TypeOK, AtBroadcast, Runs, Signed, Granted
<1>3. /\ st.plan = launch /\ st.decision = "needs_approval" /\ st.simulation = "ok"
      /\ st.broadcast = c /\ st.approval = state.approval
  BY <1>2 DEF StateType
<1>4. st.approval.nonce = 1 /\ HasGrant(st) = TRUE
  BY <1>2, <1>3, GrantFacts DEF Signed, HasGrant
<1>5. ledger \in Seq(SealedReceipts) /\ Len(ledger) = 4 /\ LedgerTells(4)
  BY DEF TypeOK, AtBroadcast
<1>6. /\ c = "confirmed" => status = "succeeded" /\ failure = "null"
      /\ c = "failed" => status = "failed"
  BY DEF AfterBroadcast
<1> HIDE DEF st, lc, status, failure
<1>7. Emit(st, "broadcast", status, st.approval, TRUE, c, failure)
  BY <1>1, <1>4
<1>8. GoesWell' => GoesWell /\ c = "confirmed"
  BY <1>1, <1>2, <1>3 DEF GoesWell, choice
<1>9. Len(ledger') = 5 /\ LedgerTells(5)'
  BY <1>3, <1>4, <1>5, <1>6, <1>7, <1>8, TellsBroadcast
<1>10. /\ ledger'[5].body.mode = "execute_with_human_approval" <=> c = "confirmed"
       /\ ledger'[5].body.policy_decision = "needs_approval"
  <2> DEFINE q == ledger'[Len(ledger) + 1].body
  <2>1. Says(q, st, "broadcast", status, st.approval, c, failure)
    BY <1>5, <1>7, GrantedSays
  <2>2. q = ledger'[5].body
    BY <1>5
  <2> HIDE DEF q
  <2>3. q.mode = "execute_with_human_approval" <=> c = "confirmed"
    BY <1>6, <2>1 DEF Says
  <2>4. q.policy_decision = "needs_approval"
    BY <1>3, <2>1 DEF Says
  <2> QED
    BY <2>2, <2>3, <2>4
<1>11. Signed' /\ Out'
  BY <1>1, <1>2, <1>3 DEF Signed, Granted, Out, choice
<1>12. Awaits({"idle"})'
  BY <1>1, RestAwaits
<1> QED
  BY <1>1, <1>3, <1>9, <1>10, <1>11, <1>12 DEF AtForce, BroadcastDone, choice

\* A receipt past the fifth changes nothing about those before it.
LEMMA DoneStays ==
    ASSUME UNCHANGED choice, BroadcastDone, Signed', Out', Awaits({"idle"})',
           state'.plan = state.plan, state'.simulation = state.simulation,
           state'.broadcast = state.broadcast, fate'[1] = fate[1],
           Len(ledger') \in Nat, Len(ledger') >= Len(ledger), Len(ledger) \in Nat,
           \A i \in 1..Len(ledger) : ledger'[i] = ledger[i]
    PROVE  BroadcastDone'
<1>1. GoesWell' => GoesWell
  BY DEF GoesWell, choice
<1>2. Len(ledger) >= 5 /\ \A i \in 1..5 : Tells(i)
  BY DEF BroadcastDone, LedgerTells
<1>3. \A i \in 1..5 : ledger'[i] = ledger[i] /\ i \in Nat
  BY <1>2
<1>4. \A i \in 1..5 : Tells(i)'
  BY <1>1, <1>2, <1>3, KeptTells
<1>5. LedgerTells(5)'
  BY <1>2, <1>4 DEF LedgerTells
<1>6. ledger'[5] = ledger[5] /\ launch' = launch
  BY <1>3 DEF choice
<1>7. state'.plan = launch'
  BY <1>6 DEF BroadcastDone
<1>8. /\ state'.broadcast \in {"confirmed", "failed"}
      /\ fate'[1] = IF state'.broadcast = "confirmed" THEN "executed" ELSE "errored"
  BY DEF BroadcastDone
<1>9. /\ ledger'[5].body.mode = "execute_with_human_approval" <=> state'.broadcast = "confirmed"
      /\ ledger'[5].body.policy_decision = "needs_approval"
  BY <1>6 DEF BroadcastDone
<1>10. Signed' /\ Out' /\ Awaits({"idle"})'
  OBVIOUS
<1> QED
  BY ONLY <1>5, <1>7, <1>8, <1>9, <1>10 DEF BroadcastDone

\* The demo writes the lifecycle back.
LEMMA ForceFlow ==
    ASSUME TypeOK, ChoiceInv, UNCHANGED choice, UNCHANGED adapters, AtForce, ForceApproved
    PROVE  AtReplay'
<1> DEFINE st == [state EXCEPT !.lifecycle = "APPROVED"]
<1>1. state' = st /\ UNCHANGED << ledger, nonceStore, now, call, edits, outside >>
  BY DEF ForceApproved
<1>2. state \in StateType
  BY DEF TypeOK
<1>3. /\ st.plan = state.plan /\ st.simulation = state.simulation /\ st.lifecycle = "APPROVED"
      /\ st.broadcast = state.broadcast /\ st.approval = state.approval
  BY <1>2 DEF StateType
<1> HIDE DEF st
<1>4. Signed' /\ Out' /\ Awaits({"idle"})'
  BY <1>1, <1>3
     DEF AtForce, BroadcastDone, Signed, Granted, Out, Awaits, adapters, choice, outside
<1>5. Len(ledger) \in Nat
  BY DEF TypeOK
<1>7. fate' = fate /\ ledger' = ledger /\ BroadcastDone
  BY <1>1 DEF AtForce, adapters
<1>8. /\ Len(ledger') \in Nat /\ Len(ledger') >= Len(ledger)
      /\ \A i \in 1..Len(ledger) : ledger'[i] = ledger[i]
  BY <1>5, <1>7
<1>6. BroadcastDone'
  BY <1>1, <1>3, <1>4, <1>5, <1>7, <1>8, DoneStays
<1> QED
  BY <1>1, <1>3, <1>6 DEF AtForce, AtReplay

\* The replay is refused: the nonce is used.
LEMMA ReplayFlow ==
    ASSUME TypeOK, ChoiceInv, UNCHANGED choice, UNCHANGED adapters, AtReplay,
           SignRefused(Host), script = "demo"
    PROVE  AtEnd'
<1> DEFINE st == [state EXCEPT !.lifecycle = "REJECTED"]
           token == state.approval
<1>1. /\ state' = st /\ Emit(st, "sign", "rejected", token, FALSE, "null", "approval_invalid")
      /\ UNCHANGED << nonceStore, now, call, outside, interference >>
  BY DEF SignRefused
<1>2. state \in StateType /\ ledger \in Seq(SealedReceipts) /\ Len(ledger) = 5
  BY DEF TypeOK, AtReplay, AtForce
<1>3. /\ st.plan = state.plan /\ st.simulation = state.simulation
      /\ st.broadcast = state.broadcast /\ st.approval = state.approval
  BY <1>2 DEF StateType
<1> HIDE DEF st
<1>4. Signed' /\ Out' /\ Awaits({"idle"})'
  BY <1>1, <1>3
     DEF AtReplay, AtForce, BroadcastDone, Signed, Granted, Out, Awaits, adapters, choice,
         outside
<1>5. /\ Len(ledger') = Len(ledger) + 1
      /\ \A i \in 1..Len(ledger) : ledger'[i] = ledger[i]
      /\ Says(ledger'[Len(ledger) + 1].body, st, "sign", "rejected", token, "null",
              "approval_invalid")
  BY <1>1, <1>2, UngrantedSays
<1>6. Len(ledger') = 6 /\ ledger'[6].body.step = "sign"
  BY <1>2, <1>5 DEF Says
<1>7. BroadcastDone'
  BY <1>1, <1>2, <1>3, <1>4, <1>5, <1>6, DoneStays DEF AtReplay, AtForce, adapters
<1> QED
  BY <1>6, <1>7 DEF AtEnd, choice

\* No second signature: at that point the token is refused.
LEMMA ReplayIsRefused ==
    ASSUME TypeOK, GrantInv, AtReplay
    PROVE  Verdict # "valid" /\ AssertState({"APPROVED"}) /\ HostIdle(Host)
<1>1. state.approval.nonce \in nonceStore
  BY GrantFacts DEF AtReplay, AtForce, BroadcastDone, Signed
<1> QED
  BY <1>1 DEF Verdict, VerifyApprovalToken, AtReplay, AtForce, BroadcastDone, Awaits,
              AssertState, HostIdle

-----------------------------------------------------------------------------
(* What the clock and the cluster do meanwhile *)

\* What can become of a transaction.
Fates == {"pending", "executed", "errored", "dropped"}

\* What the clock and the cluster leave alone; a transaction that was run stays so.
Apart ==
    /\ UNCHANGED << state, ledger, nonceStore, call, outside, rpc, choice >>
    /\ fate' \in Seq(Fates) /\ Len(fate') = Len(fate)
    /\ \A k \in 1..Len(fate) : fate[k] # "pending" => fate'[k] = fate[k]

\* They keep what the ledger tells.
LEMMA ApartKeepsLedger ==
    ASSUME Apart, NEW n, LedgerTells(n)
    PROVE  LedgerTells(n)'
  BY DEF Apart, LedgerTells, Tells, GoesWell, choice

\* Nothing comes to be submitted by them.
LEMMA ApartUnsubmitted ==
    ASSUME Apart, fate \in Seq(Fates), Unsubmitted
    PROVE  Unsubmitted'
<1>1. fate' \in Seq(Fates) /\ Len(fate') = 0
  BY DEF Apart, Unsubmitted
<1>2. fate' = << >>
  BY <1>1
<1> QED
  BY <1>2 DEF Apart, Unsubmitted, outside

\* What is out stays out.
LEMMA ApartOut ==
    ASSUME Apart, ChoiceInv, fate \in Seq(Fates), Out
    PROVE  Out'
<1>1. Len(fate') = 1
  BY DEF Apart, Out
<1>2. ports = "mock" => fate'[1] = "executed"
  BY DEF Apart, Out
<1> QED
  BY <1>1, <1>2 DEF Apart, Out, outside, choice

\* What is awaited stays awaited.
LEMMA ApartAwaits ==
    ASSUME Apart, NEW ops, Awaits(ops),
           rpc[Host].await = "getSignatureStatus" => Len(fate) = 1
    PROVE  Awaits(ops)'
<1>1. rpc[Host].await = "getSignatureStatus" => fate'[1] = fate[1]
  BY DEF Apart, Awaits
<1> QED
  BY <1>1 DEF Apart, Awaits, choice

\* And the rest is the agent's, which they do not touch.
LEMMA ApartSame ==
    ASSUME Apart
    PROVE  /\ Signed' = Signed /\ Granted' = Granted /\ Unsigned' = Unsigned
           /\ Ungranted' = Ungranted /\ \A lc : Runs(lc)' = Runs(lc)
  BY DEF Apart, Signed, Granted, Unsigned, Ungranted, Runs, outside, choice

\* So the script stands where it stood.
LEMMA ApartStands ==
    ASSUME Apart, ChoiceInv, fate \in Seq(Fates)
    PROVE  /\ AtPlan => AtPlan'
           /\ AtSimulate => AtSimulate'
           /\ AtGrant => AtGrant'
           /\ AtSign => AtSign'
           /\ AtBroadcast => AtBroadcast'
           /\ AtForce => AtForce'
           /\ AtReplay => AtReplay'
           /\ AtEnd => AtEnd'
<1> USE ApartKeepsLedger, ApartUnsubmitted, ApartOut
<1>0. \A ops : Awaits(ops) /\ call[Host].op # "confirm" => Awaits(ops)'
  <2>1. ASSUME NEW ops, Awaits(ops), call[Host].op # "confirm" PROVE Awaits(ops)'
    BY <2>1, ApartAwaits DEF Awaits
  <2> QED
    BY <2>1
<1>1. AtPlan => AtPlan'
  BY <1>0, ApartSame DEF AtPlan, Awaits, Apart
<1>2. AtSimulate => AtSimulate'
  BY <1>0, ApartSame DEF AtSimulate, Awaits, Apart, choice, Runs
<1>3. AtGrant => AtGrant'
  BY <1>0, ApartSame DEF AtGrant, Awaits, Apart, choice, Runs
<1>4. ASSUME AtSign PROVE AtSign'
  <2>1. Awaits({"idle", "sign"})'
    BY <1>0, <1>4 DEF AtSign, Awaits
  <2>2. call' = call /\ ledger' = ledger /\ state' = state
    BY DEF Apart
  <2>3. IF call'[Host].op = "idle" THEN Unsigned' ELSE Signed'
    BY <1>4, <2>2, ApartSame DEF AtSign
  <2>4. LedgerTells(3)' /\ Granted' /\ Runs("APPROVED")' /\ Unsubmitted'
    BY <1>4, ApartSame DEF AtSign
  <2> QED
    BY <1>4, <2>1, <2>2, <2>3, <2>4 DEF AtSign
<1>5. ASSUME AtBroadcast PROVE AtBroadcast'
  <2>1. rpc[Host].await = "getSignatureStatus" => Len(fate) = 1
    BY <1>5 DEF AtBroadcast, Awaits, Out
  <2>2. Awaits({"idle", "send", "confirm"})'
    BY <1>5, <2>1, ApartAwaits DEF AtBroadcast
  <2>3. call' = call /\ confirmed' = confirmed /\ ledger' = ledger /\ state' = state
    BY DEF Apart, outside
  <2>4. IF call'[Host].op = "confirm" THEN Out' /\ confirmed' = {} ELSE Unsubmitted'
    BY <1>5, <2>3 DEF AtBroadcast
  <2>5. LedgerTells(4)' /\ Signed' /\ Runs("SIGNED")'
    BY <1>5, ApartSame DEF AtBroadcast
  <2> QED
    BY <1>5, <2>2, <2>3, <2>4, <2>5 DEF AtBroadcast
<1>6. BroadcastDone => BroadcastDone'
  <2> SUFFICES ASSUME BroadcastDone PROVE BroadcastDone'
    OBVIOUS
  <2>1. Signed' /\ Out' /\ Awaits({"idle"})'
    BY <1>0, ApartSame DEF BroadcastDone, Awaits
  <2>2. fate'[1] = fate[1]
    BY DEF BroadcastDone, Out, Apart
  <2>3. state' = state /\ ledger' = ledger /\ UNCHANGED choice
    BY DEF Apart
  <2>4. LedgerTells(5)'
    BY DEF BroadcastDone
  <2> QED
    BY <2>1, <2>2, <2>3, <2>4 DEF BroadcastDone, choice
<1>7. AtForce => AtForce'
  BY <1>6 DEF AtForce, Apart
<1>8. AtReplay => AtReplay'
  BY <1>7 DEF AtReplay, Apart
<1>9. AtEnd => AtEnd'
  BY <1>6 DEF AtEnd, Apart, choice
<1> QED
  BY <1>1, <1>2, <1>3, <1>4, <1>5, <1>7, <1>8, <1>9

\* The clock, the cluster and stuttering.
LEMMA QuietFlow ==
    ASSUME FlowInv, Apart, UNCHANGED << at, exit, public >>, ports = "mock" => now' = now
    PROVE  FlowInv'
<1>1. ChoiceInv /\ fate \in Seq(Fates) /\ Len(fate) = Len(submitted)
  BY DEF FlowInv, Fates
<1>2. Step' = Step /\ ChoiceInv' /\ UNCHANGED << script, ports, handsTx, launch >>
  BY <1>1 DEF Apart, choice, Step, ChoiceInv
<1>3. /\ AtPlan => AtPlan'
      /\ AtSimulate => AtSimulate'
      /\ AtGrant => AtGrant'
      /\ AtSign => AtSign'
      /\ AtBroadcast => AtBroadcast'
      /\ AtForce => AtForce'
      /\ AtReplay => AtReplay'
      /\ AtEnd => AtEnd'
  BY <1>1, ApartStands
<1>4. /\ UNCHANGED << state, ledger, call, submitted, confirmed, signerCalls >>
      /\ fate' \in Seq(Fates) /\ Len(fate') = Len(fate)
      /\ \A k \in 1..Len(fate) : fate[k] # "pending" => fate'[k] = fate[k]
  BY DEF Apart, outside
<1>5. Standing => Standing'
  BY <1>2, <1>3 DEF Standing
<1>6. AnswersAreTrue'
  <2>1. ASSUME NEW k \in 1..Len(submitted), submitted[k].nonce \in confirmed
        PROVE  fate'[k] = "executed"
    BY <1>1, <1>4, <2>1 DEF FlowInv, AnswersAreTrue
  <2>2. ASSUME NEW i \in 1..Len(ledger), ledger[i].body.failure = "broadcast_failed"
        PROVE  \E k \in 1..Len(submitted) :
                   submitted[k].nonce = ledger[i].body.grant_id /\ fate'[k] = "errored"
    <3>1. PICK k \in 1..Len(submitted) :
              submitted[k].nonce = ledger[i].body.grant_id /\ fate[k] = "errored"
      BY <2>2 DEF FlowInv, AnswersAreTrue
    <3>2. fate'[k] = "errored"
      BY <1>1, <1>4, <3>1
    <3> QED
      BY <3>1, <3>2
  <2> QED
    BY <1>4, <2>1, <2>2 DEF AnswersAreTrue
<1>7. RunsEndAsAnnounced' /\ OneSignaturePerScript' /\ PortsLeaveTheSameReceipts'
  BY <1>2, <1>4 DEF FlowInv, RunsEndAsAnnounced, OneSignaturePerScript, PortsLeaveTheSameReceipts
<1>8. PublishedIsTrue'
  <2> SUFFICES ASSUME public # None PROVE PublishedIsTrue'
    BY DEF PublishedIsTrue
  <2>1. AtEnd /\ PublishedIsTrue
    BY DEF FlowInv
  <2>2. Len(fate) = 1 /\ fate[1] # "pending"
    BY <2>1 DEF AtEnd, BroadcastDone, Out
  <2>3. Len(fate') = 1 /\ fate'[1] = fate[1]
    BY <1>4, <2>2
  <2>4. (\E k \in 1..Len(fate') : fate'[k] = "executed")
           <=> \E k \in 1..Len(fate) : fate[k] = "executed"
    BY <2>2, <2>3
  <2>5. public' = public
    OBVIOUS
  <2> QED
    BY <2>1, <2>4, <2>5 DEF PublishedIsTrue
<1>9. HostIdle(Host) => HostIdle(Host)'
  BY <1>4 DEF HostIdle
<1> QED
  BY <1>1, <1>2, <1>3, <1>4, <1>5, <1>6, <1>7, <1>8, <1>9 DEF FlowInv, Fates

-----------------------------------------------------------------------------
(* The order of the calls, and how each await ends *)

\* The calls of the scripts, and what comes after each.
CallNames == {"plan", "simulate", "earlySign", "grant", "sign", "broadcast", "force",
              "replay", "verify", "publish"}

\* What comes after each call in each of the three programs.
LEMMA ProgramOrder ==
    ASSUME NEW s \in DOMAIN Program, NEW k \in 1..Len(Program[s])
    PROVE  LET this == Program[s][k]
               then == Program[s][k + 1]
           IN  /\ this \in CallNames
               /\ this # "publish"   => k + 1 \in 1..Len(Program[s])
               /\ this = "plan"      => then = "simulate"
               /\ this = "simulate"  => then \in {"earlySign", "grant"}
               /\ this = "earlySign" => then = "grant"
               /\ this = "grant"     => then = "sign"
               /\ this = "sign"      => then = "broadcast"
               /\ this = "broadcast" => then \in {"force", "verify"}
               /\ this = "force"     => then = "replay"
               /\ this = "replay"    => then = "verify" /\ s = "demo"
               /\ this = "verify"    => then = "publish"
<1>1. DOMAIN Program = {"demo", "fixture", "explorer"}
  BY DEF Program
<1>2. CASE s = "demo"
  <2>1. Program[s] = DemoProgram
    BY <1>2 DEF Program
  <2>2. Len(DemoProgram) = 10 /\ k \in 1..10
    BY <2>1 DEF DemoProgram
  <2>4. /\ DemoProgram[1] = "plan" /\ DemoProgram[2] = "simulate"
        /\ DemoProgram[3] = "earlySign" /\ DemoProgram[4] = "grant" /\ DemoProgram[5] = "sign"
        /\ DemoProgram[6] = "broadcast" /\ DemoProgram[7] = "force"
        /\ DemoProgram[8] = "replay" /\ DemoProgram[9] = "verify"
        /\ DemoProgram[10] = "publish"
    BY DEF DemoProgram
  <2>5. \/ k = 1 \/ k = 2 \/ k = 3 \/ k = 4 \/ k = 5
        \/ k = 6 \/ k = 7 \/ k = 8 \/ k = 9 \/ k = 10
    BY <2>2
  <2> QED
    BY <1>2, <2>1, <2>2, <2>4, <2>5 DEF CallNames
<1>3. CASE s \in {"fixture", "explorer"}
  <2> DEFINE P == << "plan", "simulate", "grant", "sign", "broadcast", "verify", "publish" >>
  <2>1. Program[s] = P
    BY <1>3 DEF Program, FixtureProgram, ExplorerProgram
  <2>2. Len(P) = 7 /\ k \in 1..7
    BY <2>1
  <2>4. /\ P[1] = "plan" /\ P[2] = "simulate" /\ P[3] = "grant" /\ P[4] = "sign"
        /\ P[5] = "broadcast" /\ P[6] = "verify" /\ P[7] = "publish"
    OBVIOUS
  <2> HIDE DEF P
  <2>5. k = 1 \/ k = 2 \/ k = 3 \/ k = 4 \/ k = 5 \/ k = 6 \/ k = 7
    BY <2>2
  <2> QED
    BY <1>3, <2>1, <2>2, <2>4, <2>5 DEF CallNames
<1> QED
  BY <1>1, <1>2, <1>3

\* The same of the position of the script.
LEMMA Successor ==
    ASSUME script \in DOMAIN Program, at \in 1..Len(Program[script]),
           script' = script, at' = at + 1
    PROVE  /\ Step # "publish"   => at' \in 1..Len(Program[script]) /\ Step' \in CallNames
           /\ Step = "plan"      => Step' = "simulate"
           /\ Step = "simulate"  => Step' \in {"earlySign", "grant"}
           /\ Step = "earlySign" => Step' = "grant"
           /\ Step = "grant"     => Step' = "sign"
           /\ Step = "sign"      => Step' = "broadcast"
           /\ Step = "broadcast" => Step' \in {"force", "verify"}
           /\ Step = "force"     => Step' = "replay"
           /\ Step = "replay"    => Step' = "verify" /\ script = "demo"
           /\ Step = "verify"    => Step' = "publish"
<1>1. Step = Program[script][at] /\ Step' = Program[script][at + 1]
  BY DEF Step
<1>2. Step # "publish" => at + 1 \in 1..Len(Program[script])
  BY <1>1, ProgramOrder
<1>3. Step # "publish" => Step' \in CallNames
  BY <1>1, <1>2, ProgramOrder
<1> QED
  BY <1>1, <1>2, <1>3, ProgramOrder

\* How an await of the agent can end, or go on, by the call it is.
LEMMA IdleAnswers ==
    ASSUME NEW ops, Awaits(ops), call[Host].op = "idle"
    PROVE  ~Resolved /\ ~Rejected /\ ~Waits
  BY DEF Awaits, Resolved, Rejected, Waits, MockResolves, MockSimulate, MockConfirms,
         MockSigns, LiveResolves, SimulateTransaction, GetSignatureStatus, LiveSigns,
         LiveRejects, SimulateRejects, SendUnsigned, SendRejects, LiveSignRejects,
         MockAccepts, LiveWaits, Translate, GetLatestBlockhash, ConfirmTransaction, Moves, SendRawTransaction,
         SimulateOk, SimulateFailed, SimulateThrows, SignReturns, SignThrows, Submit,
         BroadcastReturns, BroadcastThrows

\* The ports while a simulation is awaited.
LEMMA SimulateAnswers ==
    ASSUME NEW ops, Awaits(ops), call[Host].op = "simulate", call[Host].plan = launch,
           ChoiceInv
    PROVE  /\ Resolved => /\ \/ SimulateOk(Host) /\ (ports = "mock" => launch \notin Malformed)
                             \/ SimulateFailed(Host) /\ (ports = "mock" => launch \in Malformed)
                          /\ fate' = fate /\ AtRest' /\ Advances
           /\ Rejected => ports = "live" /\ SimulateThrows(Host) /\ fate' = fate /\ Throws(FALSE)
           /\ Waits => ports = "live" /\ Translate(Host) /\ Stays
<1>1. ASSUME Resolved
      PROVE  /\ \/ SimulateOk(Host) /\ (ports = "mock" => launch \notin Malformed)
                \/ SimulateFailed(Host) /\ (ports = "mock" => launch \in Malformed)
             /\ fate' = fate /\ AtRest' /\ Advances
  <2>1. CASE ports = "mock" /\ MockResolves(Host)
    <3>1. MockSimulate(Host)
      BY <2>1 DEF MockResolves, MockConfirms, MockSigns, BroadcastReturns, SignReturns
    <3>2. AtRest'
      BY <2>1, <3>1, QuietRests DEF MockSimulate, adapters
    <3> QED
      BY <1>1, <2>1, <3>1, <3>2 DEF MockSimulate, adapters, Resolved
  <2>2. CASE ports = "live" /\ LiveResolves(Host)
    <3>1. SimulateTransaction(Host)
      BY <2>2 DEF LiveResolves, GetSignatureStatus, LiveSigns, BroadcastReturns, SignReturns
    <3>2. AtRest'
      BY <3>1, AnswerRests DEF SimulateTransaction
    <3> QED
      BY <1>1, <2>2, <3>1, <3>2 DEF SimulateTransaction, Resolved
  <2> QED
    BY <1>1, <2>1, <2>2 DEF Resolved
<1>2. ASSUME Rejected
      PROVE  ports = "live" /\ SimulateThrows(Host) /\ fate' = fate /\ Throws(FALSE)
  BY <1>2 DEF Rejected, LiveRejects, SimulateRejects, SendUnsigned, SendRejects, LiveSignRejects,
              BroadcastThrows, SignThrows
<1>3. ASSUME Waits PROVE ports = "live" /\ Translate(Host) /\ Stays
  BY <1>3 DEF Waits, MockAccepts, LiveWaits, GetLatestBlockhash, ConfirmTransaction, Moves,
              SendRawTransaction, Submit, Awaits
<1> QED
  BY <1>1, <1>2, <1>3

\* While a signature is.
LEMMA SignAnswers ==
    ASSUME NEW ops, Awaits(ops), call[Host].op = "sign"
    PROVE  /\ Resolved => SignReturns(Host) /\ UNCHANGED adapters /\ Advances
           /\ Rejected => ports = "live" /\ SignThrows(Host) /\ fate' = fate /\ Throws(FALSE)
           /\ ~Waits
<1>1. ASSUME Resolved PROVE SignReturns(Host) /\ UNCHANGED adapters /\ Advances
  BY <1>1 DEF Resolved, MockResolves, MockSimulate, MockConfirms, MockSigns, LiveResolves,
              SimulateTransaction, GetSignatureStatus, LiveSigns, SimulateOk, SimulateFailed,
              BroadcastReturns
<1>2. ASSUME Rejected
      PROVE  ports = "live" /\ SignThrows(Host) /\ fate' = fate /\ Throws(FALSE)
  BY <1>2 DEF Rejected, LiveRejects, SimulateRejects, SendUnsigned, SendRejects, LiveSignRejects,
              BroadcastThrows, SimulateThrows, adapters
<1>3. ~Waits
  BY DEF Waits, MockAccepts, LiveWaits, Translate, GetLatestBlockhash, ConfirmTransaction,
         Moves, SendRawTransaction, Submit, Awaits
<1> QED
  BY <1>1, <1>2, <1>3

\* While the submission is: no answer without one.
LEMMA SendAnswers ==
    ASSUME NEW ops, Awaits(ops), call[Host].op = "send"
    PROVE  /\ ~Resolved
           /\ Rejected => ports = "live" /\ BroadcastThrows(Host) /\ fate' = fate /\ Throws(FALSE)
           /\ Waits => /\ \/ ports = "mock" /\ MockAccepts(Host)
                          \/ handsTx /\ SendRawTransaction(Host)
                       /\ Stays
<1>1. ~Resolved
  BY DEF Resolved, MockResolves, MockSimulate, MockConfirms, MockSigns, LiveResolves,
         SimulateTransaction, GetSignatureStatus, LiveSigns, SimulateOk, SimulateFailed,
         BroadcastReturns, SignReturns
<1>2. ASSUME Rejected
      PROVE  ports = "live" /\ BroadcastThrows(Host) /\ fate' = fate /\ Throws(FALSE)
  BY <1>2 DEF Rejected, LiveRejects, SimulateRejects, SendUnsigned, SendRejects, LiveSignRejects,
              SignThrows, SimulateThrows
<1>3. ASSUME Waits
      PROVE  /\ \/ ports = "mock" /\ MockAccepts(Host)
                \/ handsTx /\ SendRawTransaction(Host)
             /\ Stays
  BY <1>3 DEF Waits, LiveWaits, Translate, SendRawTransaction, GetLatestBlockhash,
              ConfirmTransaction, Moves, Awaits
<1> QED
  BY <1>1, <1>2, <1>3

\* While the confirmation is: the answer is the fate of the transaction.
LEMMA ConfirmAnswers ==
    ASSUME NEW ops, Awaits(ops), call[Host].op = "confirm", Out, ChoiceInv
    PROVE  /\ Resolved => /\ \E c \in {"confirmed", "failed"} :
                                /\ BroadcastReturns(Host, c)
                                /\ fate[1] = IF c = "confirmed" THEN "executed" ELSE "errored"
                          /\ fate' = fate /\ AtRest' /\ Advances
           /\ Rejected => ports = "live" /\ BroadcastThrows(Host) /\ fate' = fate /\ Throws(FALSE)
           /\ Waits => /\ ports = "live"
                       /\ GetLatestBlockhash(Host) \/ ConfirmTransaction(Host)
                       /\ Stays
<1>1. ASSUME Resolved
      PROVE  /\ \E c \in {"confirmed", "failed"} :
                   /\ BroadcastReturns(Host, c)
                   /\ fate[1] = IF c = "confirmed" THEN "executed" ELSE "errored"
             /\ fate' = fate /\ AtRest' /\ Advances
  <2>1. CASE ports = "mock" /\ MockResolves(Host)
    <3>1. MockConfirms(Host)
      BY <2>1 DEF MockResolves, MockSimulate, MockSigns, SimulateOk, SimulateFailed, SignReturns
    <3>2. AtRest'
      BY <2>1, <3>1, QuietRests DEF MockConfirms, adapters
    <3> QED
      BY <1>1, <2>1, <3>1, <3>2 DEF MockConfirms, adapters, Resolved, Out
  <2>2. CASE ports = "live" /\ LiveResolves(Host)
    <3>1. GetSignatureStatus(Host)
      BY <2>2 DEF LiveResolves, SimulateTransaction, LiveSigns, SimulateOk, SimulateFailed,
                  SignReturns
    <3> DEFINE c == IF rpc[Host].err THEN "failed" ELSE "confirmed"
    <3>2. AtRest'
      BY <3>1, AnswerRests DEF GetSignatureStatus
    <3>3. fate[1] = IF rpc[Host].err THEN "errored" ELSE "executed"
      BY <3>1 DEF GetSignatureStatus, Awaits
    <3>4. BroadcastReturns(Host, c)
      BY <3>1 DEF GetSignatureStatus
    <3>5. c \in {"confirmed", "failed"}
            /\ fate[1] = IF c = "confirmed" THEN "executed" ELSE "errored"
      BY <3>3
    <3> HIDE DEF c
    <3>6. fate' = fate /\ Advances
      BY <1>1, <3>1 DEF GetSignatureStatus, Resolved
    <3> QED
      BY <3>2, <3>4, <3>5, <3>6
  <2> QED
    BY <1>1, <2>1, <2>2 DEF Resolved
<1>2. ASSUME Rejected
      PROVE  ports = "live" /\ BroadcastThrows(Host) /\ fate' = fate /\ Throws(FALSE)
  BY <1>2 DEF Rejected, LiveRejects, SimulateRejects, SendUnsigned, SendRejects, LiveSignRejects,
              SignThrows, SimulateThrows
<1>3. ASSUME Waits
      PROVE  /\ ports = "live"
             /\ GetLatestBlockhash(Host) \/ ConfirmTransaction(Host)
             /\ Stays
  BY <1>3 DEF Waits, LiveWaits, Translate, MockAccepts, SendRawTransaction, Submit
<1> QED
  BY <1>1, <1>2, <1>3

-----------------------------------------------------------------------------
(* That the answers are true *)

\* Nothing that answers are told from changes, but for a receipt of another kind.
LEMMA AnswersStay ==
    ASSUME AnswersAreTrue, Len(ledger) \in Nat, UNCHANGED << submitted, confirmed, fate >>,
           \/ ledger' = ledger
           \/ /\ Len(ledger') = Len(ledger) + 1
              /\ \A i \in 1..Len(ledger) : ledger'[i] = ledger[i]
              /\ ledger'[Len(ledger) + 1].body.failure # "broadcast_failed"
    PROVE  AnswersAreTrue'
<1>1. ASSUME NEW i \in 1..Len(ledger'), ledger'[i].body.failure = "broadcast_failed"
      PROVE  \E k \in 1..Len(submitted) :
                 submitted[k].nonce = ledger'[i].body.grant_id /\ fate[k] = "errored"
  <2>1. i \in 1..Len(ledger) /\ ledger'[i] = ledger[i]
    BY <1>1
  <2> QED
    BY <1>1, <2>1 DEF AnswersAreTrue
<1> QED
  BY <1>1 DEF AnswersAreTrue

\* Of the receipts only that of an answered broadcast says broadcast_failed.
LEMMA OtherReceipts ==
    ASSUME TypeOK,
           \/ Plan(Host, launch)
           \/ SimulateOk(Host) \/ SimulateFailed(Host)
           \/ \E ttl \in Ttls : GrantApproval(Host, ttl)
           \/ SignRefused(Host)
           \/ (SignReturns(Host) \/ BroadcastThrows(Host)) /\ HasGrant(state)
    PROVE  /\ UNCHANGED << submitted, confirmed >>
           /\ Len(ledger') = Len(ledger) + 1
           /\ \A i \in 1..Len(ledger) : ledger'[i] = ledger[i]
           /\ ledger'[Len(ledger) + 1].body.failure # "broadcast_failed"
<1> DEFINE Other == /\ Len(ledger') = Len(ledger) + 1
                    /\ \A i \in 1..Len(ledger) : ledger'[i] = ledger[i]
                    /\ ledger'[Len(ledger) + 1].body.failure # "broadcast_failed"
<1>0. ledger \in Seq(SealedReceipts) /\ state \in StateType
  BY DEF TypeOK
<1>a. ASSUME NEW st, NEW step, NEW status, NEW token, NEW broadcast,
             NEW failure, failure # "broadcast_failed",
             Emit(st, step, status, token, FALSE, broadcast, failure)
      PROVE  Other
  <2>1. /\ Len(ledger') = Len(ledger) + 1
        /\ \A i \in 1..Len(ledger) : ledger'[i] = ledger[i]
        /\ Says(ledger'[Len(ledger) + 1].body, st, step, status, token, broadcast, failure)
    BY ONLY <1>0, <1>a, UngrantedSays
  <2> QED
    BY ONLY <1>a, <2>1 DEF Says, Other
<1>b. ASSUME NEW st, NEW step, NEW status, NEW token, NEW broadcast,
             NEW failure, failure # "broadcast_failed",
             Emit(st, step, status, token, TRUE, broadcast, failure)
      PROVE  Other
  <2>1. /\ Len(ledger') = Len(ledger) + 1
        /\ \A i \in 1..Len(ledger) : ledger'[i] = ledger[i]
        /\ Says(ledger'[Len(ledger) + 1].body, st, step, status, token, broadcast, failure)
    BY ONLY <1>0, <1>b, GrantedSays
  <2> QED
    BY ONLY <1>b, <2>1 DEF Says, Other
<1> HIDE DEF Other
<1>1. CASE Plan(Host, launch)
  <2> DEFINE d == Decide[launch]
             st == [NoState EXCEPT !.run = state.run + 1, !.lifecycle = AfterPlan(d),
                                   !.plan = launch, !.planHash = HashPlan[launch],
                                   !.decision = d]
             failure == IF d = "deny" THEN "policy_denied" ELSE "null"
             status == IF d = "deny" THEN "rejected" ELSE "prepared"
  <2>1. Emit(st, "plan", status, NoToken, FALSE, "null", failure)
    BY <1>1 DEF Plan
  <2>2. failure # "broadcast_failed"
    OBVIOUS
  <2> HIDE DEF failure, status, st
  <2>3. Other
    BY <2>1, <2>2, <1>a
  <2> QED
    BY <1>1, <2>3 DEF Plan, Other, outside
<1>2. CASE SimulateOk(Host)
  <2> DEFINE lc == AfterSimulation(state.decision)
             st == [state EXCEPT !.simulation = "ok", !.lifecycle = lc]
             status == IF lc = "AWAITING_APPROVAL" THEN "needs_human_review" ELSE "simulated"
  <2>1. Emit(st, "simulate", status, NoToken, FALSE, "null", "null")
    BY <1>2 DEF SimulateOk
  <2> HIDE DEF status, st
  <2>3. Other
    BY <2>1, <1>a
  <2> QED
    BY <1>2, <2>3 DEF SimulateOk, Other
<1>3. CASE SimulateFailed(Host)
  <2> DEFINE st == [state EXCEPT !.simulation = "failed", !.lifecycle = "FAILED"]
  <2>1. Emit(st, "simulate", "failed", NoToken, FALSE, "null", "simulation_failed")
    BY <1>3 DEF SimulateFailed
  <2> HIDE DEF st
  <2>3. Other
    BY <2>1, <1>a
  <2> QED
    BY <1>3, <2>3 DEF SimulateFailed, Other, outside
<1>4. CASE \E ttl \in Ttls : GrantApproval(Host, ttl)
  <2> PICK ttl \in Ttls : GrantApproval(Host, ttl)
    BY <1>4
  <2> DEFINE token == IssueApprovalToken(state.planHash, Len(issued) + 1, ttl, now)
             st == [state EXCEPT !.approval = token, !.lifecycle = "APPROVED"]
  <2>1. Emit(st, "await_approval", "prepared", token, TRUE, "null", "null")
    BY DEF GrantApproval
  <2> HIDE DEF st, token
  <2>3. Other
    BY <2>1, <1>b
  <2> QED
    BY <2>3 DEF GrantApproval, Other
<1>5. CASE SignRefused(Host)
  <2> DEFINE st == [state EXCEPT !.lifecycle = "REJECTED"]
  <2>1. Emit(st, "sign", "rejected", state.approval, FALSE, "null", "approval_invalid")
    BY <1>5 DEF SignRefused
  <2> HIDE DEF st
  <2>3. Other
    BY <2>1, <1>a
  <2> QED
    BY <1>5, <2>3 DEF SignRefused, Other, outside
<1>6. CASE SignReturns(Host) /\ HasGrant(state)
  <2> DEFINE st == [state EXCEPT !.signature = call[Host].hash, !.lifecycle = "SIGNED"]
  <2>1. Emit(st, "sign", "prepared", st.approval, HasGrant(st), "null", "null")
    BY <1>6 DEF SignReturns
  <2>2. HasGrant(st) = TRUE
    BY <1>0, <1>6 DEF HasGrant, StateType
  <2> HIDE DEF st
  <2>3. Emit(st, "sign", "prepared", st.approval, TRUE, "null", "null")
    BY <2>1, <2>2
  <2>4. Other
    BY <2>3, <1>b
  <2> QED
    BY <1>6, <2>4 DEF SignReturns, Other, outside
<1>7. CASE BroadcastThrows(Host) /\ HasGrant(state)
  <2> DEFINE st == [state EXCEPT !.lifecycle = "FAILED"]
  <2>1. Emit(st, "broadcast", "failed", st.approval, HasGrant(st), "null", "broadcast_error")
    BY <1>7 DEF BroadcastThrows
  <2>2. HasGrant(st) = TRUE
    BY <1>0, <1>7 DEF HasGrant, StateType
  <2> HIDE DEF st
  <2>3. Emit(st, "broadcast", "failed", st.approval, TRUE, "null", "broadcast_error")
    BY <2>1, <2>2
  <2>4. Other
    BY <2>3, <1>b
  <2> QED
    BY <1>7, <2>4 DEF BroadcastThrows, Other, outside
<1> QED
  BY <1>1, <1>2, <1>3, <1>4, <1>5, <1>6, <1>7

\* An answer to the broadcast is the cluster's.
LEMMA AnsweredTruly ==
    ASSUME TypeOK, GrantInv, AwaitInv, AnswersAreTrue, AtBroadcast, fate' = fate,
           NEW c \in {"confirmed", "failed"}, BroadcastReturns(Host, c),
           fate[1] = IF c = "confirmed" THEN "executed" ELSE "errored"
    PROVE  AnswersAreTrue'
<1> DEFINE lc == AfterBroadcast(c)
           st == [state EXCEPT !.broadcast = c, !.lifecycle = lc]
           status == IF lc = "CONFIRMED" THEN "succeeded" ELSE "failed"
           failure == IF lc = "FAILED" THEN "broadcast_failed" ELSE "null"
<1>1. /\ Emit(st, "broadcast", status, st.approval, HasGrant(st), c, failure)
      /\ confirmed' = IF c = "confirmed" THEN confirmed \cup {call[Host].nonce} ELSE confirmed
      /\ call[Host].op = "confirm" /\ submitted' = submitted
  BY DEF BroadcastReturns
<1>2. state \in StateType /\ ledger \in Seq(SealedReceipts) /\ Len(ledger) \in Nat
  BY DEF TypeOK
<1>3. Signed /\ Out /\ confirmed = {}
  BY <1>1 DEF AtBroadcast
<1>4. st.approval = state.approval /\ state.approval.nonce = 1
  BY <1>2, <1>3, GrantFacts DEF StateType, Signed
<1>5. HasGrant(st) = TRUE
  BY <1>4 DEF HasGrant
<1>6. c = "confirmed" => failure = "null"
  BY DEF AfterBroadcast
<1>7. submitted[1].nonce = 1
  <2>1. Len(submitted) = 1 /\ Len(issued) = 1
    BY <1>3 DEF Out, Signed, Granted
  <2>2. submitted[1].nonce \in 1..Len(issued)
    BY <2>1 DEF AwaitInv, SubmitMatchesApproval
  <2> QED
    BY <2>1, <2>2
<1> HIDE DEF st, lc, status, failure
<1>8. Emit(st, "broadcast", status, st.approval, TRUE, c, failure)
  BY <1>1, <1>5
<1>9. /\ Len(ledger') = Len(ledger) + 1
      /\ \A i \in 1..Len(ledger) : ledger'[i] = ledger[i]
      /\ Says(ledger'[Len(ledger) + 1].body, st, "broadcast", status, st.approval, c, failure)
  BY <1>2, <1>8, GrantedSays
<1>10. /\ ledger'[Len(ledger) + 1].body.failure = failure
       /\ ledger'[Len(ledger) + 1].body.grant_id = 1
  BY <1>4, <1>9 DEF Says
<1>11. ASSUME NEW i \in 1..Len(ledger'), ledger'[i].body.failure = "broadcast_failed"
       PROVE  \E k \in 1..Len(submitted) :
                  submitted[k].nonce = ledger'[i].body.grant_id /\ fate[k] = "errored"
  <2>1. CASE i \in 1..Len(ledger)
    <3>1. ledger'[i] = ledger[i]
      BY <1>9, <2>1
    <3> QED
      BY <1>11, <2>1, <3>1 DEF AnswersAreTrue
  <2>2. CASE i = Len(ledger) + 1
    <3>1. c = "failed"
      BY <1>6, <1>10, <1>11, <2>2
    <3>2. fate[1] = "errored" /\ 1 \in 1..Len(submitted)
      BY <1>3, <3>1 DEF Out
    <3> QED
      BY <1>7, <1>10, <2>2, <3>2
  <2>3. i \in 1..Len(ledger) \/ i = Len(ledger) + 1
    BY <1>2, <1>9
  <2> QED
    BY <2>1, <2>2, <2>3
<1>12. ASSUME NEW k \in 1..Len(submitted), submitted[k].nonce \in confirmed'
       PROVE  fate[k] = "executed"
  <2>1. c = "confirmed"
    BY <1>1, <1>3, <1>12
  <2>2. k = 1
    BY <1>3 DEF Out
  <2> QED
    BY <2>1, <2>2
<1> QED
  BY <1>1, <1>11, <1>12 DEF AnswersAreTrue

-----------------------------------------------------------------------------
(* The points of the program, one by one *)

\* What is known of the agent, whatever the script does.
Known == TypeOK /\ GrantInv /\ AwaitInv /\ ChainVerifies

\* The script goes on.
LEMMA GoesOn ==
    ASSUME FlowInv, exit = "running", UNCHANGED << choice, exit, public, now >>,
           at' \in 1..Len(Program[script]),
           Step' \in CallNames,
           Standing', AnswersAreTrue', fate' \in Seq(Fates), Len(fate') = Len(submitted')
    PROVE  FlowInv'
<1>1. /\ ChoiceInv' /\ UNCHANGED << script, ports, handsTx, launch >>
      /\ exit' = "running" /\ public' = None /\ (ports = "mock" => now' = 0)
  BY DEF FlowInv, ChoiceInv, choice
<1>2. OneSignaturePerScript'
  <2>1. /\ Signed' => Len(signerCalls') = 1
        /\ Unsigned' => Len(signerCalls') = 0
        /\ Out' => Len(submitted') = 1
        /\ Unsubmitted' => Len(submitted') = 0
    BY DEF Signed, Unsigned, Out, Unsubmitted
  <2>2. (Signed' \/ Unsigned') /\ (Out' \/ Unsubmitted')
    <3>1. CASE AtPlan' \/ AtSimulate' \/ AtGrant'
      BY <3>1 DEF AtPlan, AtSimulate, AtGrant
    <3>2. CASE AtSign' \/ AtBroadcast'
      BY <3>2 DEF AtSign, AtBroadcast
    <3>3. CASE BroadcastDone'
      BY <3>3 DEF BroadcastDone
    <3> QED
      BY <3>1, <3>2, <3>3 DEF Standing, CallNames, AtForce, AtReplay, AtEnd
  <2> QED
    BY <2>1, <2>2 DEF OneSignaturePerScript
<1>3. RunsEndAsAnnounced' /\ PublishedIsTrue' /\ PortsLeaveTheSameReceipts'
  BY <1>1 DEF RunsEndAsAnnounced, PublishedIsTrue, PortsLeaveTheSameReceipts
<1> QED
  BY <1>1, <1>2, <1>3 DEF FlowInv, Fates

\* It dies.
LEMMA DiesFlow ==
    ASSUME FlowInv, exit = "running", UNCHANGED << choice, now, fate, submitted, signerCalls >>,
           Dies, HostIdle(Host)', AnswersAreTrue',
           ports = "mock" => \/ ~(Decide[launch] = "needs_approval" /\ launch \notin Malformed)
                             \/ Step = "publish" /\ script # "demo"
    PROVE  FlowInv'
<1>1. /\ ChoiceInv' /\ UNCHANGED << script, ports, handsTx, launch, at >>
      /\ exit' = "failed" /\ public' = None /\ (ports = "mock" => now' = 0)
  BY DEF FlowInv, ChoiceInv, choice, Dies
<1>2. OneSignaturePerScript'
  BY DEF FlowInv, OneSignaturePerScript
<1>3. Step' = Step
  BY <1>1 DEF Step
<1>4. RunsEndAsAnnounced' /\ PublishedIsTrue' /\ PortsLeaveTheSameReceipts'
  BY <1>1, <1>3 DEF RunsEndAsAnnounced, PublishedIsTrue, PortsLeaveTheSameReceipts
<1> QED
  BY <1>1, <1>2, <1>4 DEF FlowInv

\* A running script is at a call of its program.
LEMMA StepNames ==
    ASSUME FlowInv
    PROVE  Step \in CallNames
  BY ProgramOrder DEF FlowInv, ChoiceInv, Step

\* A step of the script that stays where it is, or goes on.
LEMMA StaysFlow ==
    ASSUME FlowInv, exit = "running", UNCHANGED << choice, now >>, Stays,
           Standing', AnswersAreTrue', fate' \in Seq(Fates), Len(fate') = Len(submitted')
    PROVE  FlowInv'
<1>1. Step' = Step
  BY DEF Step, Stays, choice
<1> QED
  BY <1>1, GoesOn, StepNames DEF Stays, FlowInv

\* One that goes on to the next call.
LEMMA AdvancesFlow ==
    ASSUME FlowInv, exit = "running", UNCHANGED << choice, now >>, Advances,
           Step # "publish", Standing', AnswersAreTrue',
           fate' \in Seq(Fates), Len(fate') = Len(submitted')
    PROVE  FlowInv'
<1>1. /\ script' = script /\ at' = at + 1
      /\ script \in DOMAIN Program /\ at \in 1..Len(Program[script])
  BY DEF FlowInv, ChoiceInv, Advances, choice
<1>2. at' \in 1..Len(Program[script]) /\ Step' \in CallNames
  BY <1>1, Successor
<1> QED
  BY <1>2, GoesOn DEF Advances

\* Where a script that advances gets to.
LEMMA NextStep ==
    ASSUME FlowInv, UNCHANGED choice, Advances
    PROVE  /\ Step = "plan"      => Step' = "simulate"
           /\ Step = "simulate"  => Step' \in {"earlySign", "grant"}
           /\ Step = "earlySign" => Step' = "grant"
           /\ Step = "grant"     => Step' = "sign"
           /\ Step = "sign"      => Step' = "broadcast"
           /\ Step = "broadcast" => Step' \in {"force", "verify"}
           /\ Step = "force"     => Step' = "replay"
           /\ Step = "replay"    => Step' = "verify" /\ script = "demo"
           /\ Step = "verify"    => Step' = "publish"
<1>1. /\ script' = script /\ at' = at + 1
      /\ script \in DOMAIN Program /\ at \in 1..Len(Program[script])
  BY DEF FlowInv, ChoiceInv, Advances, choice
<1> QED
  BY <1>1, Successor

\* One that stays is at the same call.
LEMMA SameStep ==
    ASSUME Stays, UNCHANGED choice
    PROVE  Step' = Step
  BY DEF Stays, Step, choice

\* What is known throughout.
LEMMA FlowFacts ==
    ASSUME Known, FlowInv, exit = "running"
    PROVE  /\ ChoiceInv /\ TypeOK /\ GrantInv /\ AwaitInv /\ AnswersAreTrue /\ Standing
           /\ Len(ledger) \in Nat /\ fate \in Seq(Fates) /\ Len(fate) = Len(submitted)
  BY DEF Known, FlowInv, TypeOK, Fates

\* One lemma per point of the program: whatever happens there, the flow holds after
\* it.  First plan(), which nothing stops.
LEMMA PlanStage ==
    ASSUME Known, FlowInv, exit = "running", ScriptStep, Step = "plan"
    PROVE  FlowInv'
<1>1. AtPlan /\ UNCHANGED choice
  BY FlowFacts DEF Standing, ScriptStep
<1>2. ~Resolved /\ ~Rejected /\ ~Waits
  BY <1>1, IdleAnswers DEF AtPlan, Awaits
<1>3. CallPlan /\ UNCHANGED adapters
  BY <1>2 DEF ScriptStep, Calls, CallGrant, CallAwaits, CallBlocked, CallRefused, ForceStep,
              Verify, Publish, WriteFails, SignSteps
<1>4. Plan(Host, launch) /\ Advances
  BY <1>3 DEF CallPlan
<1>5. AtSimulate'
  BY <1>1, <1>3, <1>4, FlowFacts, PlanFlow
<1>6. UNCHANGED << now, fate, submitted, confirmed >>
  BY <1>3, <1>4 DEF Plan, adapters, outside
<1>7. Standing'
  BY <1>1, <1>4, <1>5, NextStep DEF Standing
<1>8. AnswersAreTrue'
  BY <1>4, <1>6, FlowFacts, OtherReceipts, AnswersStay
<1> QED
  BY <1>1, <1>4, <1>6, <1>7, <1>8, FlowFacts, AdvancesFlow

\* simulate() is refused after a denial, and else awaits the port, which answers or
\* throws.
LEMMA SimulateStage ==
    ASSUME Known, FlowInv, exit = "running", ScriptStep, Step = "simulate"
    PROVE  FlowInv'
<1>1. AtSimulate /\ UNCHANGED choice
  BY FlowFacts DEF Standing, ScriptStep
<1>2. call[Host].op \in {"idle", "simulate"} /\ Awaits({"idle", "simulate"})
  BY <1>1 DEF AtSimulate, Awaits
<1>3. CASE call[Host].op = "idle"
  <2>1. ~Resolved /\ ~Rejected /\ ~Waits
    BY <1>2, <1>3, IdleAnswers
  <2>2. (CallAwaits \/ CallBlocked) /\ UNCHANGED adapters
    BY <2>1 DEF ScriptStep, Calls, CallPlan, CallGrant, CallRefused, ForceStep,
                Verify, Publish, WriteFails, SignSteps
  <2>3. CASE CallAwaits
    <3>1. Simulate(Host) /\ Stays
      BY <2>3 DEF CallAwaits, SignSteps
    <3>2. AtSimulate'
      BY <1>1, <2>2, <3>1, FlowFacts, SimulateFlow
    <3>3. UNCHANGED << now, fate, submitted, confirmed, ledger >>
      BY <2>2, <3>1 DEF Simulate, adapters, outside
    <3>4. Standing'
      BY <1>1, <3>1, <3>2, SameStep DEF Standing
    <3>5. AnswersAreTrue'
      BY <3>3, FlowFacts, AnswersStay
    <3> QED
      BY <1>1, <3>1, <3>3, <3>4, <3>5, FlowFacts, StaysFlow
  <2>4. CASE CallBlocked
    <3>1. ~AssertState(Simulatable) /\ Throws(TRUE) /\ UNCHANGED vars
      BY <2>4 DEF CallBlocked, SignSteps
    <3>2. Dies
      BY <3>1 DEF Throws, Catches
    <3>3. Decide[launch] = "deny"
      BY <1>1, <3>1 DEF AtSimulate, Runs, AfterPlan, AssertState, Simulatable
    <3>4. UNCHANGED << now, fate, submitted, confirmed, ledger, signerCalls, call >>
      BY <2>2, <3>1 DEF vars, adapters, outside
    <3>5. HostIdle(Host)'
      BY <1>3, <3>4 DEF HostIdle
    <3>6. AnswersAreTrue'
      BY <3>4, FlowFacts, AnswersStay
    <3> QED
      BY <1>1, <3>2, <3>3, <3>4, <3>5, <3>6, DiesFlow
  <2> QED
    BY <2>2, <2>3, <2>4
<1>4. CASE call[Host].op = "simulate"
  <2>1. ~Calls
    BY <1>4 DEF Calls, CallPlan, CallGrant, CallAwaits, CallBlocked, CallRefused, ForceStep,
                Verify, Publish, WriteFails, SignSteps, HostIdle, Simulate, SignRefused
  <2>2. call[Host].plan = launch
    BY <1>1, <1>4, FlowFacts, ScriptAssumption
       DEF AtSimulate, Runs, AwaitInv, CallsIntact, CallIntact
  <2>3. CASE Resolved
    <3>1. /\ \/ SimulateOk(Host) /\ (ports = "mock" => launch \notin Malformed)
             \/ SimulateFailed(Host) /\ (ports = "mock" => launch \in Malformed)
          /\ fate' = fate /\ AtRest' /\ Advances
      BY <1>2, <1>4, <2>2, <2>3, FlowFacts, SimulateAnswers
    <3>2. AtGrant'
      BY <1>1, <3>1, FlowFacts, SimulatedFlow
    <3>3. now' = now /\ submitted' = submitted /\ confirmed' = confirmed
      BY <3>1 DEF SimulateOk, SimulateFailed, outside
    <3>4. Standing'
      BY <1>1, <3>1, <3>2, NextStep DEF Standing
    <3>5. AnswersAreTrue'
      BY <3>1, <3>3, FlowFacts, OtherReceipts, AnswersStay
    <3> QED
      BY <1>1, <3>1, <3>3, <3>4, <3>5, FlowFacts, AdvancesFlow
  <2>4. CASE Rejected
    <3>1. ports = "live" /\ SimulateThrows(Host) /\ fate' = fate /\ Throws(FALSE)
      BY <1>2, <1>4, <2>2, <2>4, FlowFacts, SimulateAnswers
    <3>2. Dies
      BY <3>1 DEF Throws, Catches
    <3>3. UNCHANGED << now, submitted, confirmed, ledger, signerCalls >>
      BY <3>1 DEF SimulateThrows, outside
    <3>4. HostIdle(Host)'
      BY <3>1, FlowFacts, ScriptAssumption DEF SimulateThrows, HostIdle, TypeOK, Idle
    <3>5. AnswersAreTrue'
      BY <3>1, <3>3, FlowFacts, AnswersStay
    <3> QED
      BY <1>1, <3>1, <3>2, <3>3, <3>4, <3>5, DiesFlow
  <2>5. CASE Waits
    <3>1. ports = "live" /\ Translate(Host) /\ Stays
      BY <1>2, <1>4, <2>2, <2>5, FlowFacts, SimulateAnswers
    <3>2. AtSimulate'
      BY <1>1, <3>1, FlowFacts, TranslateFlow
    <3>3. UNCHANGED << now, fate, submitted, confirmed, ledger >>
      BY <3>1 DEF Translate, Moves, vars, outside
    <3>4. Standing'
      BY <1>1, <3>1, <3>2, SameStep DEF Standing
    <3>5. AnswersAreTrue'
      BY <3>3, FlowFacts, AnswersStay
    <3> QED
      BY <1>1, <3>1, <3>3, <3>4, <3>5, FlowFacts, StaysFlow
  <2> QED
    BY <2>1, <2>3, <2>4, <2>5 DEF ScriptStep
<1> QED
  BY <1>2, <1>3, <1>4

\* The demo's early sign() is refused and caught; grantApproval() is refused unless
\* the plan is one for a human and simulated well.
LEMMA GrantStage ==
    ASSUME Known, FlowInv, exit = "running", ScriptStep, Step \in {"earlySign", "grant"}
    PROVE  FlowInv'
<1>1. AtGrant /\ UNCHANGED choice
  BY FlowFacts DEF Standing, ScriptStep
<1>2. call[Host].op = "idle" /\ Awaits({"idle"})
  BY <1>1 DEF AtGrant, Awaits
<1>3. ~Resolved /\ ~Rejected /\ ~Waits
  BY <1>2, IdleAnswers
<1>4. state.lifecycle # "APPROVED"
  BY <1>1 DEF AtGrant, Runs, AfterSimulation
<1>5. (CallGrant \/ CallBlocked) /\ UNCHANGED adapters
  BY <1>3, <1>4 DEF ScriptStep, Calls, CallPlan, CallAwaits, CallRefused, ForceStep,
              Verify, Publish, WriteFails, SignSteps, SignAccepted, SignRefused
<1>6. CASE CallGrant
  <2>1. PICK ttl \in Ttls : GrantApproval(Host, ttl)
    BY <1>6 DEF CallGrant
  <2>2. AtSign'
    BY <1>1, <1>5, <2>1, FlowFacts, GrantFlow
  <2>3. Advances /\ Step = "grant"
    BY <1>6 DEF CallGrant
  <2>4. UNCHANGED << now, fate, submitted, confirmed >>
    BY <1>5, <2>1 DEF GrantApproval, adapters
  <2>5. Standing'
    BY <1>1, <2>2, <2>3, NextStep DEF Standing
  <2>6. AnswersAreTrue'
    BY <2>1, <2>4, FlowFacts, OtherReceipts, AnswersStay
  <2> QED
    BY <1>1, <2>3, <2>4, <2>5, <2>6, FlowFacts, AdvancesFlow
<1>7. CASE CallBlocked
  <2>1. Throws(TRUE) /\ UNCHANGED vars
    BY <1>7 DEF CallBlocked
  <2>2. UNCHANGED << now, fate, submitted, confirmed, ledger, signerCalls, call >>
    BY <1>5, <2>1 DEF vars, adapters, outside
  <2>3. AnswersAreTrue'
    BY <2>2, FlowFacts, AnswersStay
  <2>4. CASE Step = "earlySign"
    <3>1. Advances
      BY <2>1, <2>4 DEF Throws, Catches
    <3>2. Apart
      BY <1>1, <1>5, <2>1, FlowFacts DEF Apart, vars, adapters, outside
    <3>3. AtGrant'
      BY <1>1, <3>2, FlowFacts, ApartStands
    <3>4. Standing'
      BY <1>1, <2>4, <3>1, <3>3, NextStep DEF Standing
    <3> QED
      BY <1>1, <2>2, <2>3, <2>4, <3>1, <3>4, FlowFacts, AdvancesFlow
  <2>5. CASE Step = "grant"
    <3>1. Dies /\ ~AssertState({"AWAITING_APPROVAL"})
      BY <1>7, <2>1, <2>5 DEF Throws, Catches, CallBlocked, SignSteps
    <3>2. ports = "mock" => ~(Decide[launch] = "needs_approval" /\ launch \notin Malformed)
      BY <1>1, <3>1 DEF AtGrant, Runs, AfterSimulation, AssertState
    <3>3. HostIdle(Host)'
      BY <1>2, <2>2 DEF HostIdle
    <3> QED
      BY <1>1, <2>2, <2>3, <3>1, <3>2, <3>3, DiesFlow
  <2> QED
    BY <2>4, <2>5
<1> QED
  BY <1>5, <1>6, <1>7

\* Offline the one grant is valid when it is used.
LEMMA OfflineVerdict ==
    ASSUME Known, FlowInv, AtSign, call[Host].op = "idle", ports = "mock"
    PROVE  Verdict = "valid"
<1>1. Granted /\ nonceStore = {} /\ now = 0
  BY DEF AtSign, Unsigned, FlowInv
<1>2. /\ state.approval \in Tokens /\ HasGrant(state)
      /\ state.approval.signature = CanonicalApprovalPayload(state.approval)
  BY <1>1, GrantFacts DEF Known
<1>3. state.approval.planHash = state.planHash
  BY <1>2 DEF Known, AwaitInv, RunIntact
<1>4. ~(now > state.approval.expiresAt)
  BY <1>1, <1>2 DEF Tokens
<1> QED
  BY <1>1, <1>2, <1>3, <1>4 DEF Verdict, VerifyApprovalToken

\* sign() finds the grant expired, or asks the signer, which answers or throws.
LEMMA SignStage ==
    ASSUME Known, FlowInv, exit = "running", ScriptStep, Step = "sign"
    PROVE  FlowInv'
<1>1. AtSign /\ UNCHANGED choice
  BY FlowFacts DEF Standing, ScriptStep
<1>2. call[Host].op \in {"idle", "sign"} /\ Awaits({"idle", "sign"}) /\ submitted = << >>
  BY <1>1 DEF AtSign, Awaits, Unsubmitted
<1>3. CASE call[Host].op = "idle"
  <2>1. ~Resolved /\ ~Rejected /\ ~Waits
    BY <1>2, <1>3, IdleAnswers
  <2>2. AssertState({"APPROVED"})
    BY <1>1 DEF AtSign, Runs, AssertState
  <2>3. (CallAwaits \/ CallRefused) /\ UNCHANGED adapters
    BY <2>1, <2>2 DEF ScriptStep, Calls, CallPlan, CallGrant, CallBlocked, ForceStep,
                Verify, Publish, WriteFails, SignSteps
  <2>4. CASE CallAwaits
    <3>1. SignAccepted(Host) /\ Stays
      BY <2>4 DEF CallAwaits, SignSteps
    <3>2. AtSign'
      BY <1>1, <2>3, <3>1, FlowFacts, SignFlow
    <3>3. UNCHANGED << now, fate, submitted, confirmed, ledger >>
      BY <2>3, <3>1 DEF SignAccepted, adapters
    <3>4. Standing'
      BY <1>1, <3>1, <3>2, SameStep DEF Standing
    <3>5. AnswersAreTrue'
      BY <3>3, FlowFacts, AnswersStay
    <3> QED
      BY <1>1, <3>1, <3>3, <3>4, <3>5, FlowFacts, StaysFlow
  <2>5. CASE CallRefused
    <3>1. SignRefused(Host) /\ Throws(TRUE)
      BY <2>5 DEF CallRefused
    <3>2. Dies
      BY <3>1 DEF Throws, Catches
    <3>3. ports # "mock"
      BY <1>1, <1>3, <3>1, OfflineVerdict DEF SignRefused
    <3>4. UNCHANGED << now, fate, submitted, confirmed, signerCalls, call >>
      BY <2>3, <3>1 DEF SignRefused, adapters, outside
    <3>5. HostIdle(Host)'
      BY <1>3, <3>4 DEF HostIdle
    <3>6. AnswersAreTrue'
      BY <3>1, <3>4, FlowFacts, OtherReceipts, AnswersStay
    <3> QED
      BY <1>1, <1>2, <3>2, <3>3, <3>4, <3>5, <3>6, DiesFlow
  <2> QED
    BY <2>3, <2>4, <2>5
<1>4. CASE call[Host].op = "sign"
  <2>1. ~Calls
    BY <1>4 DEF Calls, CallPlan, CallGrant, CallAwaits, CallBlocked, CallRefused, ForceStep,
                Verify, Publish, WriteFails, SignSteps, HostIdle, SignAccepted, SignRefused
  <2>2. HasGrant(state)
    BY <1>1, FlowFacts, GrantFacts DEF AtSign
  <2>3. CASE Resolved
    <3>1. SignReturns(Host) /\ UNCHANGED adapters /\ Advances
      BY <1>2, <1>4, <2>3, SignAnswers
    <3>2. AtBroadcast'
      BY <1>1, <3>1, FlowFacts, SignedFlow
    <3>3. UNCHANGED << now, fate, submitted, confirmed >>
      BY <3>1 DEF SignReturns, outside, adapters
    <3>4. Standing'
      BY <1>1, <3>1, <3>2, NextStep DEF Standing
    <3>5. AnswersAreTrue'
      BY <2>2, <3>1, <3>3, FlowFacts, OtherReceipts, AnswersStay
    <3> QED
      BY <1>1, <3>1, <3>3, <3>4, <3>5, FlowFacts, AdvancesFlow
  <2>4. CASE Rejected
    <3>1. ports = "live" /\ SignThrows(Host) /\ fate' = fate /\ Throws(FALSE)
      BY <1>2, <1>4, <2>4, SignAnswers
    <3>2. Dies
      BY <3>1 DEF Throws, Catches
    <3>3. UNCHANGED << now, submitted, confirmed, ledger, signerCalls >>
      BY <3>1 DEF SignThrows, outside
    <3>4. HostIdle(Host)'
      BY <3>1, FlowFacts, ScriptAssumption DEF SignThrows, HostIdle, TypeOK, Idle
    <3>5. AnswersAreTrue'
      BY <3>1, <3>3, FlowFacts, AnswersStay
    <3> QED
      BY <1>1, <1>2, <3>1, <3>2, <3>3, <3>4, <3>5, DiesFlow
  <2>5. ~Waits
    BY <1>2, <1>4, SignAnswers
  <2> QED
    BY <2>1, <2>3, <2>4, <2>5 DEF ScriptStep
<1> QED
  BY <1>2, <1>3, <1>4

\* broadcast() submits, and the answer of the cluster comes or does not.
LEMMA BroadcastStage ==
    ASSUME Known, FlowInv, exit = "running", ScriptStep, Step = "broadcast"
    PROVE  FlowInv'
<1>1. AtBroadcast /\ UNCHANGED choice
  BY FlowFacts DEF Standing, ScriptStep
<1>2. /\ call[Host].op \in {"idle", "send", "confirm"}
      /\ Awaits({"idle", "send", "confirm"})
      /\ IF call[Host].op = "confirm" THEN Out /\ confirmed = {} ELSE Unsubmitted
  BY <1>1 DEF AtBroadcast, Awaits
<1>3. HasGrant(state)
  BY <1>1, FlowFacts, GrantFacts DEF AtBroadcast, Signed
<1>4. ASSUME ports = "live", BroadcastThrows(Host), fate' = fate, Throws(FALSE)
      PROVE  FlowInv'
  <2>1. Dies
    BY <1>4 DEF Throws, Catches
  <2>2. UNCHANGED << now, submitted, confirmed, signerCalls >>
    BY <1>4 DEF BroadcastThrows, outside
  <2>3. HostIdle(Host)'
    BY <1>4, FlowFacts, ScriptAssumption DEF BroadcastThrows, HostIdle, TypeOK, Idle
  <2>4. AnswersAreTrue'
    BY <1>3, <1>4, <2>2, FlowFacts, OtherReceipts, AnswersStay
  <2> QED
    BY <1>1, <1>4, <2>1, <2>2, <2>3, <2>4, DiesFlow
<1>5. CASE call[Host].op = "idle"
  <2>1. ~Resolved /\ ~Rejected /\ ~Waits
    BY <1>2, <1>5, IdleAnswers
  <2>2. CallAwaits /\ UNCHANGED adapters
    BY <2>1 DEF ScriptStep, Calls, CallPlan, CallGrant, CallBlocked, CallRefused, ForceStep,
                Verify, Publish, WriteFails, SignSteps
  <2>3. Broadcast(Host, IF handsTx THEN launch ELSE None) /\ Stays
    BY <2>2 DEF CallAwaits, SignSteps
  <2>4. AtBroadcast'
    BY <1>1, <2>2, <2>3, FlowFacts, BroadcastFlow
  <2>5. UNCHANGED << now, fate, submitted, confirmed, ledger >>
    BY <2>2, <2>3 DEF Broadcast, adapters, outside
  <2>6. Standing'
    BY <1>1, <2>3, <2>4, SameStep DEF Standing
  <2>7. AnswersAreTrue'
    BY <2>5, FlowFacts, AnswersStay
  <2> QED
    BY <1>1, <2>3, <2>5, <2>6, <2>7, FlowFacts, StaysFlow
<1>6. CASE call[Host].op \in {"send", "confirm"}
  <2>1. ~Calls
    BY <1>6 DEF Calls, CallPlan, CallGrant, CallAwaits, CallBlocked, CallRefused, ForceStep,
                Verify, Publish, WriteFails, SignSteps, HostIdle, Broadcast
  <2>2. CASE call[Host].op = "send"
    <3>1. submitted = << >> /\ fate = << >> /\ confirmed = {}
      BY <1>2, <2>2 DEF Unsubmitted
    <3>2. CASE Rejected
      BY <1>2, <1>4, <2>2, <3>1, <3>2, SendAnswers
    <3>3. CASE Waits
      <4>1. /\ \/ ports = "mock" /\ MockAccepts(Host)
               \/ handsTx /\ SendRawTransaction(Host)
            /\ Stays
        BY <1>2, <2>2, <3>3, SendAnswers
      <4>2. AtBroadcast'
        BY <1>1, <4>1, FlowFacts, SubmitFlow
      <4>3. /\ UNCHANGED << now, confirmed, ledger >>
            /\ fate' = Append(fate, "executed") \/ fate' = Append(fate, "pending")
        BY <4>1 DEF MockAccepts, SendRawTransaction, Submit
      <4>4. Len(submitted') = 1
        <5>0. PICK bytes : Submit(Host, bytes)
          BY <4>1 DEF MockAccepts, SendRawTransaction
        <5> DEFINE s == [run |-> call[Host].run, plan |-> call[Host].plan,
                         signature |-> call[Host].hash, nonce |-> call[Host].nonce,
                         bytes |-> bytes]
        <5>1. submitted' = Append(submitted, s)
          BY <5>0 DEF Submit
        <5> HIDE DEF s
        <5> QED
          BY <3>1, <5>1
      <4>5. fate' \in Seq(Fates) /\ Len(fate') = Len(submitted')
        BY <3>1, <4>3, <4>4 DEF Fates
      <4>6. Standing'
        BY <1>1, <4>1, <4>2, SameStep DEF Standing
      <4>7. AnswersAreTrue'
        <5>1. \A i \in 1..Len(ledger) : ledger[i].body.failure # "broadcast_failed"
          BY <3>1, FlowFacts DEF AnswersAreTrue
        <5> QED
          BY <3>1, <4>3, <5>1 DEF AnswersAreTrue
      <4> QED
        BY <1>1, <4>1, <4>3, <4>5, <4>6, <4>7, StaysFlow
    <3> QED
      BY <1>2, <2>1, <2>2, <3>2, <3>3, SendAnswers DEF ScriptStep
  <2>3. CASE call[Host].op = "confirm"
    <3>1. Out
      BY <1>2, <2>3
    <3>2. CASE Resolved
      <4>1. PICK c \in {"confirmed", "failed"} :
               /\ BroadcastReturns(Host, c)
               /\ fate[1] = IF c = "confirmed" THEN "executed" ELSE "errored"
        BY <1>2, <2>3, <3>1, <3>2, FlowFacts, ConfirmAnswers
      <4>2. fate' = fate /\ AtRest' /\ Advances
        BY <1>2, <2>3, <3>1, <3>2, FlowFacts, ConfirmAnswers
      <4>3. AtForce'
        BY <1>1, <4>1, <4>2, FlowFacts, AnsweredFlow
      <4>4. AtEnd'
        BY <4>3 DEF AtForce, AtEnd
      <4>5. now' = now /\ submitted' = submitted
        BY <4>1 DEF BroadcastReturns
      <4>6. Standing'
        BY <1>1, <4>2, <4>3, <4>4, NextStep DEF Standing
      <4>7. AnswersAreTrue'
        BY <1>1, <4>1, <4>2, FlowFacts, AnsweredTruly
      <4> QED
        BY <1>1, <4>2, <4>5, <4>6, <4>7, FlowFacts, AdvancesFlow
    <3>3. CASE Rejected
      <4>1. ports = "live" /\ BroadcastThrows(Host) /\ fate' = fate /\ Throws(FALSE)
        BY <1>2, <2>3, <3>1, <3>3, FlowFacts, ConfirmAnswers
      <4> QED
        BY <1>4, <4>1
    <3>4. CASE Waits
      <4>1. ports = "live" /\ (GetLatestBlockhash(Host) \/ ConfirmTransaction(Host)) /\ Stays
        BY <1>2, <2>3, <3>1, <3>4, FlowFacts, ConfirmAnswers
      <4>2. AtBroadcast'
        BY <1>1, <4>1, FlowFacts, LiveFlow
      <4>3. UNCHANGED << now, fate, submitted, confirmed, ledger >>
        BY <4>1 DEF GetLatestBlockhash, ConfirmTransaction, Moves, vars, outside
      <4>4. Standing'
        BY <1>1, <4>1, <4>2, SameStep DEF Standing
      <4>5. AnswersAreTrue'
        BY <4>3, FlowFacts, AnswersStay
      <4> QED
        BY <1>1, <4>1, <4>3, <4>4, <4>5, FlowFacts, StaysFlow
    <3> QED
      BY <2>1, <3>2, <3>3, <3>4 DEF ScriptStep
  <2> QED
    BY <1>6, <2>2, <2>3
<1> QED
  BY <1>2, <1>5, <1>6

\* The demo forces the lifecycle.
LEMMA ForceStage ==
    ASSUME Known, FlowInv, exit = "running", ScriptStep, Step = "force"
    PROVE  FlowInv'
<1>1. AtForce /\ UNCHANGED choice
  BY FlowFacts DEF Standing, ScriptStep
<1>2. ~Resolved /\ ~Rejected /\ ~Waits
  BY <1>1, IdleAnswers DEF AtForce, BroadcastDone, Awaits
<1>3. ForceApproved /\ Advances /\ UNCHANGED adapters
  BY <1>2 DEF ScriptStep, Calls, CallPlan, CallGrant, CallAwaits, CallBlocked, CallRefused,
              ForceStep, Verify, Publish, WriteFails, SignSteps
<1>4. AtReplay'
  BY <1>1, <1>3, FlowFacts, ForceFlow
<1>5. UNCHANGED << now, fate, submitted, confirmed, ledger >>
  BY <1>3 DEF ForceApproved, adapters, outside
<1>6. Standing'
  BY <1>1, <1>3, <1>4, NextStep DEF Standing
<1>7. AnswersAreTrue'
  BY <1>5, FlowFacts, AnswersStay
<1> QED
  BY <1>1, <1>3, <1>5, <1>6, <1>7, FlowFacts, AdvancesFlow

\* And tries to sign again.
LEMMA ReplayStage ==
    ASSUME Known, FlowInv, exit = "running", ScriptStep, Step = "replay"
    PROVE  FlowInv'
<1>1. AtReplay /\ UNCHANGED choice
  BY FlowFacts DEF Standing, ScriptStep
<1>2. ~Resolved /\ ~Rejected /\ ~Waits
  BY <1>1, IdleAnswers DEF AtReplay, AtForce, BroadcastDone, Awaits
<1>3. Verdict # "valid" /\ AssertState({"APPROVED"})
  BY <1>1, FlowFacts, ReplayIsRefused
<1>4. CallRefused /\ UNCHANGED adapters
  BY <1>2, <1>3 DEF ScriptStep, Calls, CallPlan, CallGrant, CallAwaits, CallBlocked,
              ForceStep, Verify, Publish, WriteFails, SignSteps, SignAccepted
<1>5. SignRefused(Host) /\ Advances
  BY <1>4 DEF CallRefused, Throws, Catches
<1>6. Step' = "verify" /\ script = "demo"
  BY <1>1, <1>5, NextStep
<1>7. AtEnd'
  BY <1>1, <1>4, <1>5, <1>6, FlowFacts, ReplayFlow
<1>8. UNCHANGED << now, fate, submitted, confirmed >>
  BY <1>4, <1>5 DEF SignRefused, adapters, outside
<1>9. Standing'
  BY <1>6, <1>7 DEF Standing
<1>10. AnswersAreTrue'
  BY <1>5, <1>8, FlowFacts, OtherReceipts, AnswersStay
<1> QED
  BY <1>1, <1>5, <1>8, <1>9, <1>10, FlowFacts, AdvancesFlow

\* The chain verifies, as it does at all times.
LEMMA VerifyStage ==
    ASSUME Known, FlowInv, exit = "running", ScriptStep, Step = "verify"
    PROVE  FlowInv'
<1>1. AtEnd /\ UNCHANGED choice
  BY FlowFacts DEF Standing, ScriptStep
<1>2. ~Resolved /\ ~Rejected /\ ~Waits
  BY <1>1, IdleAnswers DEF AtEnd, BroadcastDone, Awaits
<1>3. Verify /\ UNCHANGED adapters
  BY <1>2 DEF ScriptStep, Calls, CallPlan, CallGrant, CallAwaits, CallBlocked, CallRefused,
              ForceStep, Publish, WriteFails, SignSteps
<1>4. Advances /\ UNCHANGED vars
  BY <1>3 DEF Verify, Known, ChainVerifies
<1>5. Apart
  BY <1>1, <1>3, <1>4, FlowFacts DEF Apart, vars, adapters, outside
<1>6. AtEnd'
  BY <1>1, <1>5, FlowFacts, ApartStands
<1>7. UNCHANGED << now, fate, submitted, confirmed, ledger >>
  BY <1>3, <1>4 DEF vars, adapters, outside
<1>8. Standing'
  BY <1>1, <1>4, <1>6, NextStep DEF Standing
<1>9. AnswersAreTrue'
  BY <1>7, FlowFacts, AnswersStay
<1> QED
  BY <1>1, <1>4, <1>7, <1>8, <1>9, FlowFacts, AdvancesFlow

-----------------------------------------------------------------------------
(* What is published *)

\* Whatever is rendered has the shape the corpus validator wants.
LEMMA RenderedHasShape ==
    ASSUME NEW body, NEW cluster
    PROVE  AssertReceiptShape(ToPublicSpecReceipt(body, cluster))
<1> DEFINE r == ToPublicSpecReceipt(body, cluster)
<1>1. RequiredTopLevel \subseteq DOMAIN r
  BY DEF ToPublicSpecReceipt, RequiredTopLevel
<1>2. r.receipt_version = Version /\ r.example = TRUE
  BY DEF ToPublicSpecReceipt
<1>3. RequiredNested.authority \subseteq DOMAIN r.authority
  BY DEF ToPublicSpecReceipt, RequiredNested
<1>4. RequiredNested.agent \subseteq DOMAIN r.agent
  BY DEF ToPublicSpecReceipt, RequiredNested
<1>5. RequiredNested.workflow \subseteq DOMAIN r.workflow
  BY DEF ToPublicSpecReceipt, RequiredNested
<1>6. RequiredNested.capability \subseteq DOMAIN r.capability
  BY DEF ToPublicSpecReceipt, RequiredNested
<1>7. RequiredNested.execution \subseteq DOMAIN r.execution
  BY DEF ToPublicSpecReceipt, RequiredNested
<1>8. RequiredNested.evidence \subseteq DOMAIN r.evidence
  BY DEF ToPublicSpecReceipt, RequiredNested
<1>9. RequiredNested.privacy \subseteq DOMAIN r.privacy
  BY DEF ToPublicSpecReceipt, RequiredNested
<1>10. RequiredNested.review \subseteq DOMAIN r.review
  BY DEF ToPublicSpecReceipt, RequiredNested
<1>11. DOMAIN RequiredNested = {"authority", "agent", "workflow", "capability", "execution",
                                "evidence", "privacy", "review"}
  BY DEF RequiredNested
<1> HIDE DEF r
<1>12. \A part \in DOMAIN RequiredNested : RequiredNested[part] \subseteq DOMAIN r[part]
  BY ONLY <1>3, <1>4, <1>5, <1>6, <1>7, <1>8, <1>9, <1>10, <1>11
<1>13. AssertReceiptShape(r)
  BY <1>1, <1>2, <1>12 DEF AssertReceiptShape
<1> QED
  BY <1>13 DEF r

\* And what the package's validator wants, if the plan is one for a human.
LEMMA RenderedIsValid ==
    ASSUME NEW body, NEW cluster, body.policy_decision = "needs_approval"
    PROVE  ValidateAgentReceipt(ToPublicSpecReceipt(body, cluster))
<1> DEFINE r == ToPublicSpecReceipt(body, cluster)
<1>1. r.receipt_version = Version /\ r.example = TRUE
  BY DEF ToPublicSpecReceipt
<1>2. r.authority.allowed_actions # {}
  BY DEF ToPublicSpecReceipt, DeriveAllowed
<1>3. r.authority.denied_actions # {}
  BY DEF ToPublicSpecReceipt, DeniedActions
<1>4. r.evidence.artifacts # {}
  BY DEF ToPublicSpecReceipt, Artifacts
<1> QED
  BY <1>1, <1>2, <1>3, <1>4 DEF ValidateAgentReceipt

\* It claims an execution if the receipt does, and mainnet for a mainnet plan.
LEMMA RenderedClaims ==
    ASSUME NEW body, NEW cluster
    PROVE  LET r == ToPublicSpecReceipt(body, cluster) IN
           /\ r.authority.mode = "execute_with_human_approval"
                 <=> body.mode = "execute_with_human_approval"
           /\ cluster # "mainnet-beta" => r.workflow.environment # "mainnet_read_only"
<1>1. ToPublicSpecReceipt(body, cluster).authority.mode = PublicMode(body.mode)
  BY DEF ToPublicSpecReceipt
<1>2. ToPublicSpecReceipt(body, cluster).workflow.environment = PublicEnvironment(cluster)
  BY DEF ToPublicSpecReceipt
<1> QED
  BY <1>1, <1>2 DEF PublicMode, PublicEnvironment

\* The names of the five steps.
LEMMA RecordedSteps ==
    /\ RecordedRun[1].step = "plan" /\ RecordedRun[2].step = "simulate"
    /\ RecordedRun[3].step = "await_approval" /\ RecordedRun[4].step = "sign"
    /\ RecordedRun[5].step = "broadcast"
  BY DEF RecordedRun, RecordedPlan, RecordedSimulate, RecordedApproval, RecordedSign,
         RecordedBroadcast

\* What the recorded receipts are linked by, and which of them cite the grant.
LEMMA RecordedLinks ==
    /\ \A i, j \in 1..5 :
          RecordedRun[i].previous_hash = RecordedRun[j].receipt_hash <=> i = j + 1
    /\ \A i \in 1..5 :
          RecordedRun[i].grant_id = IF i <= 2 THEN NoGrant ELSE "grant.solana.c2aab43c0935"
<1>1. /\ RecordedRun[1].previous_hash = "00000000" /\ RecordedRun[1].receipt_hash = "b79ac304"
      /\ RecordedRun[1].grant_id = NoGrant
  BY DEF RecordedRun, RecordedPlan
<1>2. /\ RecordedRun[2].previous_hash = "b79ac304" /\ RecordedRun[2].receipt_hash = "5f81193f"
      /\ RecordedRun[2].grant_id = NoGrant
  BY DEF RecordedRun, RecordedSimulate
<1>3. /\ RecordedRun[3].previous_hash = "5f81193f" /\ RecordedRun[3].receipt_hash = "275a72c1"
      /\ RecordedRun[3].grant_id = "grant.solana.c2aab43c0935"
  BY DEF RecordedRun, RecordedApproval
<1>4. /\ RecordedRun[4].previous_hash = "275a72c1" /\ RecordedRun[4].receipt_hash = "f968a3e3"
      /\ RecordedRun[4].grant_id = "grant.solana.c2aab43c0935"
  BY DEF RecordedRun, RecordedSign
<1>5. /\ RecordedRun[5].previous_hash = "f968a3e3" /\ RecordedRun[5].receipt_hash = "db868a9d"
      /\ RecordedRun[5].grant_id = "grant.solana.c2aab43c0935"
  BY DEF RecordedRun, RecordedBroadcast
<1>6. \A i \in 1..5 : i = 1 \/ i = 2 \/ i = 3 \/ i = 4 \/ i = 5
  OBVIOUS
<1>7. ASSUME NEW i \in 1..5, NEW j \in 1..5
      PROVE  RecordedRun[i].previous_hash = RecordedRun[j].receipt_hash <=> i = j + 1
  BY <1>1, <1>2, <1>3, <1>4, <1>5, <1>6
<1>8. ASSUME NEW i \in 1..5
      PROVE  RecordedRun[i].grant_id = IF i <= 2 THEN NoGrant ELSE "grant.solana.c2aab43c0935"
  BY <1>1, <1>2, <1>3, <1>4, <1>5, <1>6
<1> QED
  BY <1>7, <1>8

\* A verified ledger of receipts numbered in order is linked like that, too.
LEMMA ChainLinks ==
    ASSUME TypeOK, ChainVerifies, LedgerTells(5)
    PROVE  \A i, j \in 1..5 :
               ledger[i].previous_hash = ledger[j].receipt_hash <=> i = j + 1
<1>0. /\ Len(ledger) \in Nat /\ Len(ledger) >= 5
      /\ \A i \in 1..5 : i \in 1..Len(ledger)
  BY DEF TypeOK, LedgerTells
<1>1. \A i \in 1..5 : ledger[i].body \in ReceiptBodies /\ ledger[i].body.receipt_id = i
  <2>1. ledger \in Seq(SealedReceipts)
    BY DEF TypeOK
  <2>2. ASSUME NEW i \in 1..Len(ledger) PROVE ledger[i] \in SealedReceipts
    BY ONLY <2>1
  <2>3. \A i \in 1..5 : ledger[i].body \in ReceiptBodies
    BY <1>0, <2>2 DEF SealedReceipts
  <2>4. \A i \in 1..5 : ledger[i].body.receipt_id = i
    BY DEF LedgerTells, Tells
  <2> QED
    BY <2>3, <2>4
<1>2. \A i \in 1..5 : ledger[i].receipt_hash = HashReceiptBody(ledger[i].body)
  BY <1>0 DEF ChainVerifies, VerifyChain
<1>3. ASSUME NEW j \in 1..5 PROVE ledger[1].previous_hash # ledger[j].receipt_hash
  <2>1. ledger[1].previous_hash = GenesisHash
    BY <1>0 DEF ChainVerifies, VerifyChain
  <2>2. GenesisHash.sha256 = None /\ HashReceiptBody(ledger[j].body).sha256 = ledger[j].body
    BY DEF GenesisHash, HashReceiptBody
  <2> QED
    BY <1>1, <1>2, <2>1, <2>2, BodyAssumption
<1>4. ASSUME NEW i \in 2..5, NEW j \in 1..5
      PROVE  ledger[i].previous_hash = ledger[j].receipt_hash <=> i = j + 1
  <2>1. ledger[i].previous_hash = ledger[i - 1].receipt_hash
    BY <1>0 DEF ChainVerifies, VerifyChain
  <2>2. i - 1 \in 1..5
    OBVIOUS
  <2>3. \A k \in 1..5 : HashReceiptBody(ledger[k].body).sha256 = ledger[k].body
    BY DEF HashReceiptBody
  <2>4. ledger[i - 1].receipt_hash = ledger[j].receipt_hash <=> i - 1 = j
    BY <1>1, <1>2, <2>2, <2>3
  <2> QED
    BY <2>1, <2>4
<1> QED
  BY <1>3, <1>4

\* A ledger that tells the five steps of a run that goes well begins as the recorded run.
LEMMA TellsTheRecordedRun ==
    ASSUME TypeOK, ChainVerifies, LedgerTells(5), GoesWell
    PROVE  IsRecordedRun(SubSeq(ledger, 1, Len(RecordedRun)))
<1>1. Len(RecordedRun) = 5
  BY DEF RecordedRun
<1>2. \A i \in 1..5 : Tells(i)
  BY DEF LedgerTells
<1>3. ASSUME NEW i \in 1..5
      PROVE  \A f \in DOMAIN RecordedRun[i] \ Drawn : ledger[i].body[f] = RecordedRun[i][f]
  BY <1>2 DEF Tells
<1>4. \A i \in 1..5 : ledger[i].body.grant_id = IF i <= 2 THEN 0 ELSE 1
  BY <1>2 DEF Tells
<1>5. NoGrant # "grant.solana.c2aab43c0935"
  BY DEF NoGrant
<1>6. \A i \in 1..5 : ledger[i].body.grant_id = 0 <=> RecordedRun[i].grant_id = NoGrant
  BY <1>4, <1>5, RecordedLinks
<1>7. ASSUME NEW i \in 1..5, NEW j \in 1..5
      PROVE  ledger[i].body.grant_id = ledger[j].body.grant_id
                <=> RecordedRun[i].grant_id = RecordedRun[j].grant_id
  BY <1>4, <1>5, RecordedLinks
<1>8. ASSUME NEW i \in 1..5, NEW j \in 1..5
      PROVE  ledger[i].previous_hash = ledger[j].receipt_hash
                <=> RecordedRun[i].previous_hash = RecordedRun[j].receipt_hash
  BY ChainLinks, RecordedLinks
<1> QED
  <2> DEFINE first == SubSeq(ledger, 1, Len(RecordedRun))
  <2>1. Len(first) = 5 /\ \A i \in 1..5 : first[i] = ledger[i]
    BY <1>1 DEF TypeOK, LedgerTells
  <2> HIDE DEF first
  <2>2. IsRecordedRun(first)
    BY <1>1, <1>3, <1>6, <1>7, <1>8, <2>1 DEF IsRecordedRun
  <2> QED
    BY <2>2 DEF first

\* The one broadcast receipt is the fifth.
LEMMA FifthIsTheBroadcast ==
    ASSUME AtEnd
    PROVE  BroadcastReceipts = {5}
<1>1. \A i \in 1..5 : ledger[i].body.step = RecordedRun[i].step
  BY DEF AtEnd, BroadcastDone, LedgerTells, Tells
<1>2. ASSUME NEW i \in 1..5 PROVE ledger[i].body.step = "broadcast" <=> i = 5
  BY <1>1, RecordedSteps
<1>3. CASE Len(ledger) = 5
  BY <1>2, <1>3 DEF BroadcastReceipts
<1>4. CASE Len(ledger) = 6 /\ ledger[6].body.step = "sign"
  <2>1. \A i \in 1..6 : i = 6 \/ i \in 1..5
    OBVIOUS
  <2> QED
    BY <1>2, <1>4, <2>1 DEF BroadcastReceipts
<1> QED
  BY <1>3, <1>4 DEF AtEnd

\* What is shown then is true.
LEMMA PublishesTheTruth ==
    ASSUME ChoiceInv, AtEnd,
           public' = ToPublicSpecReceipt(ledger[5].body, ClusterOf[launch]), fate' = fate
    PROVE  PublishedIsTrue'
<1>1. /\ BroadcastDone /\ Decide[launch] = "needs_approval" /\ Len(fate) = 1
      /\ ledger[5].body.policy_decision = "needs_approval"
  BY DEF AtEnd, BroadcastDone, Signed, Granted, Out
<1>2. AssertReceiptShape(public') /\ ValidateAgentReceipt(public')
  BY <1>1, RenderedHasShape, RenderedIsValid
<1>3. /\ public'.authority.mode = "execute_with_human_approval"
            <=> ledger[5].body.mode = "execute_with_human_approval"
      /\ ClusterOf[launch] # "mainnet-beta" =>
            public'.workflow.environment # "mainnet_read_only"
  BY RenderedClaims
<1>4. ledger[5].body.mode = "execute_with_human_approval" <=> fate[1] = "executed"
  BY <1>1 DEF BroadcastDone
<1>5. (\E k \in 1..Len(fate') : fate'[k] = "executed") <=> fate[1] = "executed"
  BY <1>1
<1>6. ClusterOf[launch] # "mainnet-beta"
  BY <1>1, ScriptAssumption DEF ChoiceInv
<1> QED
  BY <1>2, <1>3, <1>4, <1>5, <1>6 DEF PublishedIsTrue

-----------------------------------------------------------------------------
(* The invariant of the flow *)

\* The script publishes, and is done.
LEMMA PublishFlow ==
    ASSUME Known, FlowInv, exit = "running", ScriptStep, Step = "publish", Publish
    PROVE  FlowInv'
<1>1. AtEnd /\ UNCHANGED choice
  BY FlowFacts DEF Standing, ScriptStep
<1>2. ~Resolved /\ ~Rejected /\ ~Waits
  BY <1>1, IdleAnswers DEF AtEnd, BroadcastDone, Awaits
<1>3. UNCHANGED adapters
  BY <1>2 DEF ScriptStep
<1>4. UNCHANGED << now, fate, submitted, confirmed, signerCalls, ledger, call >>
  BY <1>3 DEF Publish, vars, adapters, outside
<1>5. /\ exit' = "done" /\ at' = at
      /\ IF script = "explorer" THEN public' = public
         ELSE public' = ToPublicSpecReceipt(ledger[5].body, ClusterOf[launch])
  <2> HIDE DEF BroadcastReceipts
  <2>1. BroadcastReceipts = {5}
    BY <1>1, FifthIsTheBroadcast
  <2>2. (CHOOSE i \in BroadcastReceipts : \A j \in BroadcastReceipts : i <= j) = 5
    BY <2>1
  <2> QED
    BY <1>3, <2>1, <2>2 DEF Publish
<1>6. Apart
  BY <1>1, <1>3, <1>4, FlowFacts DEF Apart, Publish, vars, adapters, outside
<1>7. AtEnd'
  BY <1>1, <1>6, FlowFacts, ApartStands
<1>8. /\ ChoiceInv' /\ UNCHANGED << script, ports, handsTx, launch >> /\ Step' = "publish"
  BY <1>1, <1>5 DEF FlowInv, ChoiceInv, choice, Step
<1>9. HostIdle(Host)'
  BY <1>7 DEF AtEnd, BroadcastDone, Awaits, HostIdle
<1>10. AnswersAreTrue'
  BY <1>4, FlowFacts, AnswersStay
<1>11. OneSignaturePerScript'
  BY <1>4 DEF FlowInv, OneSignaturePerScript
<1>12. Signed /\ Out
  BY <1>1 DEF AtEnd, BroadcastDone
<1>13. RunsEndAsAnnounced'
  BY <1>4, <1>5, <1>8, <1>12, FlowFacts
     DEF RunsEndAsAnnounced, Signed, Granted, Out, ChoiceInv
<1>14. PublishedIsTrue'
  <2>1. CASE script = "explorer"
    BY <1>5, <2>1 DEF FlowInv, PublishedIsTrue
  <2>2. CASE script # "explorer"
    BY <1>1, <1>4, <1>5, <2>2, FlowFacts, PublishesTheTruth
  <2> QED
    BY <2>1, <2>2
<1>15. PortsLeaveTheSameReceipts'
  <2> SUFFICES ASSUME state.broadcast = "confirmed"
               PROVE  IsRecordedRun(SubSeq(ledger, 1, Len(RecordedRun)))
    BY <1>3, <1>4 DEF PortsLeaveTheSameReceipts, Publish, vars
  <2>1. GoesWell
    BY <1>12 DEF Signed, Granted, GoesWell
  <2>2. LedgerTells(5)
    BY <1>1 DEF AtEnd, BroadcastDone
  <2> QED
    BY <2>1, <2>2, TellsTheRecordedRun DEF Known
<1> QED
  BY <1>4, <1>5, <1>7, <1>8, <1>9, <1>10, <1>11, <1>13, <1>14, <1>15 DEF FlowInv

\* Or it cannot write, and dies.
LEMMA PublishStage ==
    ASSUME Known, FlowInv, exit = "running", ScriptStep, Step = "publish"
    PROVE  FlowInv'
<1>1. AtEnd /\ UNCHANGED choice
  BY FlowFacts DEF Standing, ScriptStep
<1>2. ~Resolved /\ ~Rejected /\ ~Waits
  BY <1>1, IdleAnswers DEF AtEnd, BroadcastDone, Awaits
<1>3. (Publish \/ WriteFails) /\ UNCHANGED adapters
  BY <1>2 DEF ScriptStep, Calls, CallPlan, CallGrant, CallAwaits, CallBlocked, CallRefused,
              ForceStep, Verify, SignSteps
<1>4. CASE WriteFails
  <2>1. Dies /\ script # "demo"
    BY <1>4 DEF WriteFails
  <2>2. UNCHANGED << now, fate, submitted, confirmed, signerCalls, ledger, call >>
    BY <1>3, <1>4 DEF WriteFails, vars, adapters, outside
  <2>3. HostIdle(Host)'
    BY <1>1, <2>2 DEF AtEnd, BroadcastDone, Awaits, HostIdle
  <2>4. AnswersAreTrue'
    BY <2>2, FlowFacts, AnswersStay
  <2> QED
    BY <1>1, <2>1, <2>2, <2>3, <2>4, DiesFlow
<1> QED
  BY <1>3, <1>4, PublishFlow

\* Every step keeps the flow.
LEMMA FlowStep ==
    ASSUME Known, FlowInv, [ScriptNext]_scriptVars
    PROVE  FlowInv'
<1>1. CASE ScriptStep
  <2>1. exit = "running"
    BY <1>1 DEF ScriptStep
  <2> QED
    BY <1>1, <2>1, StepNames, PlanStage, SimulateStage, GrantStage, SignStage, BroadcastStage,
       ForceStage, ReplayStage, VerifyStage, PublishStage DEF CallNames
<1>2. CASE LiveTick
  <2>1. Apart
    BY <1>2 DEF LiveTick, Tick, Apart, adapters, FlowInv, Fates
  <2> QED
    BY <1>2, <2>1, QuietFlow DEF LiveTick
<1>3. CASE ClusterStep
  <2>1. PICK k \in 1..Len(submitted), o \in {"executed", "errored", "dropped"} :
           ClusterRuns(k, o)
    BY <1>3 DEF ClusterStep, Cluster
  <2>2. fate \in Seq(Fates) /\ Len(fate) = Len(submitted) /\ k \in 1..Len(fate)
    BY DEF FlowInv, Fates
  <2>3. fate[k] = "pending" /\ fate' = [fate EXCEPT ![k] = o] /\ UNCHANGED << vars, rpc >>
    BY <2>1 DEF ClusterRuns
  <2>4. /\ fate' \in Seq(Fates) /\ Len(fate') = Len(fate)
        /\ \A i \in 1..Len(fate) : fate[i] # "pending" => fate'[i] = fate[i]
    BY <2>2, <2>3 DEF Fates
  <2>5. Apart
    BY <1>3, <2>3, <2>4 DEF ClusterStep, Apart, vars
  <2> QED
    BY <1>3, <2>3, <2>5, QuietFlow DEF ClusterStep, vars
<1>4. CASE UNCHANGED scriptVars
  <2>1. Apart
    BY <1>4 DEF scriptVars, agentVars, vars, adapters, Apart, FlowInv, Fates
  <2> QED
    BY <1>4, <2>1, QuietFlow DEF scriptVars, agentVars, vars
<1> QED
  BY <1>1, <1>2, <1>3, <1>4 DEF ScriptNext

\* It holds at the start.
LEMMA FlowInit ==
    ASSUME ScriptInit
    PROVE  FlowInv
<1>1. /\ ChoiceInv /\ at = 1 /\ exit = "running" /\ public = None
  BY DEF ScriptInit, ChoiceInv
<1>2. at \in 1..Len(Program[script]) /\ Step = "plan"
  BY <1>1 DEF Program, DemoProgram, FixtureProgram, ExplorerProgram, Step, ChoiceInv
<1>3. /\ now = 0 /\ fate = << >> /\ submitted = << >> /\ signerCalls = << >> /\ ledger = << >>
      /\ state = NoState /\ issued = << >> /\ nonceStore = {} /\ confirmed = {}
      /\ call = [t \in Tasks |-> Idle] /\ rpc = [t \in Tasks |-> NoRpc]
  BY DEF ScriptInit, Init, AdaptersInit
<1>4. Awaits({"idle"})
  BY <1>3, ScriptAssumption DEF Awaits, RpcTypes, NoRpc, Idle
<1>5. AtPlan
  BY <1>3, <1>4 DEF AtPlan, Ungranted, Unsigned, Unsubmitted, NoState
<1>6. Standing
  BY <1>2, <1>5 DEF Standing
<1>7. /\ fate \in Seq({"pending", "executed", "errored", "dropped"})
      /\ Len(fate) = Len(submitted)
  BY <1>3
<1>8. AnswersAreTrue /\ OneSignaturePerScript
  BY <1>3 DEF AnswersAreTrue, OneSignaturePerScript
<1>9. RunsEndAsAnnounced /\ PublishedIsTrue /\ PortsLeaveTheSameReceipts
  BY <1>1 DEF RunsEndAsAnnounced, PublishedIsTrue, PortsLeaveTheSameReceipts
<1> QED
  BY <1>1, <1>2, <1>3, <1>6, <1>7, <1>8, <1>9 DEF FlowInv

\* The script's one task awaits its calls.
LEMMA ScriptAwaits == AwaitingHost
  BY ScriptAssumption DEF AwaitingHost

\* At every point of every script what is written above about that point holds, for
\* all plans, policies, ports and bounds.
THEOREM FlowInvariant == ScriptSpec => []FlowInv
<1>1. ScriptSpec => Spec
  BY ScriptsUseTheAgent DEF ScriptsAreAgentRuns
<1>2. Spec => []IInv /\ []ChainVerifies /\ []AwaitInv
  BY InductiveInvariant, LedgerIsFaithful, AwaitInvariant, ScriptAwaits, PTL
<1>3. IInv /\ ChainVerifies /\ AwaitInv => Known
  BY DEF IInv, Known
<1>4. ScriptInit => FlowInv
  BY FlowInit
<1>5. Known /\ FlowInv /\ [ScriptNext]_scriptVars => FlowInv'
  BY FlowStep
<1> QED
  BY <1>1, <1>2, <1>3, <1>4, <1>5, PTL DEF ScriptSpec

\* The README's offline promise: with the mock ports a script completes when its plan is
\* for a human to approve and simulates well, and its file can be written; never else.
THEOREM ScriptsEndAsAnnounced == ScriptSpec => []RunsEndAsAnnounced
<1>1. FlowInv => RunsEndAsAnnounced
  BY DEF FlowInv
<1> QED
  BY <1>1, FlowInvariant, PTL

\* The demo's three sign() calls come to at most one signature, and no script
\* submits twice.
THEOREM ScriptsSignOnce == ScriptSpec => []OneSignaturePerScript
<1>1. FlowInv => OneSignaturePerScript
  BY DEF FlowInv
<1> QED
  BY <1>1, FlowInvariant, PTL

\* What the agent recorded as confirmed was executed, and what it recorded as failed
\* on the cluster ran with an error: createWeb3Connection turns no pending or
\* unknown transaction into an answer.
THEOREM AnswersAreTheClusters == ScriptSpec => []AnswersAreTrue
<1>1. FlowInv => AnswersAreTrue
  BY DEF FlowInv
<1> QED
  BY <1>1, FlowInvariant, PTL

\* The public receipt passes the corpus validator and the package's, claims an
\* execution exactly when there was one, and none on mainnet.
THEOREM PublicationsAreTrue == ScriptSpec => []PublishedIsTrue
<1>1. FlowInv => PublishedIsTrue
  BY DEF FlowInv
<1> QED
  BY <1>1, FlowInvariant, PTL

\* Whatever the ports, the receipts of a confirmed run say what those of the devnet run
\* say that is published with the explorer.
THEOREM SameReceiptsOnAllPorts == ScriptSpec => []PortsLeaveTheSameReceipts
<1>1. FlowInv => PortsLeaveTheSameReceipts
  BY DEF FlowInv
<1> QED
  BY <1>1, FlowInvariant, PTL

\* And what a script has submitted was simulated, handed to the port as approved, and
\* submitted once under its grant; what its receipts say of executions is true.
THEOREM ScriptsSubmitAsApproved ==
    ScriptSpec => [](SubmitOnlySimulated /\ SubmitMatchesApproval /\ SubmitOncePerGrant
                       /\ SignedRunIsApproved /\ ExecutionReceiptsAreTrue)
<1>1. ScriptSpec => Spec
  BY ScriptsUseTheAgent DEF ScriptsAreAgentRuns
<1> QED
  BY <1>1, ScriptAwaits, NothingUnsimulated, SubmissionsAreApproved, OneSubmissionPerGrant,
     SignedRunsAreApproved, ReceiptsAreTrue, PTL

=============================================================================
