--------------------------- MODULE LiveConnection ---------------------------
(***************************************************************************)
(* The adapters behind the agent's ports: MockSolanaConnection,            *)
(* createWeb3Connection and the signers.  An agent's one await on a port   *)
(* is several awaits of the web3 adapter on the cluster's RPC node, each   *)
(* of which may throw; what the cluster does with a submitted transaction  *)
(* is its own affair.                                                      *)
(***************************************************************************)
EXTENDS GovernedAgent

CONSTANT Malformed   \* plans whose simulation the mock fails

ASSUME MalformedAssumption == Malformed \subseteq Bodies

VARIABLES
    rpc,   \* the RPC a task's port call awaits, for which submission, its error
    fate   \* what became of each submitted transaction: it is pending, executed,
           \* errored (run, with an error) or dropped

adapters == << rpc, fate >>

NoRpc == [await |-> "none", tx |-> 0, err |-> FALSE]

AdaptersInit ==
    /\ rpc = [t \in Tasks |-> NoRpc]
    /\ fate = << >>

Moves(t, from, to) ==
    /\ rpc[t].await = from
    /\ rpc' = [rpc EXCEPT ![t].await = to]
    /\ UNCHANGED << vars, fate >>

Answered(t) == rpc' = [rpc EXCEPT ![t] = NoRpc]

-----------------------------------------------------------------------------
(* MockSolanaConnection, MockSessionSigner: no await of their own *)

MockSimulate(t) ==
    /\ IF call[t].plan \in Malformed THEN SimulateFailed(t) ELSE SimulateOk(t)
    /\ UNCHANGED adapters

\* The mock throws without a signature; broadcast() always has one.  It sends nothing:
\* the plan it is handed stands for the bytes.
MockAccepts(t) ==
    /\ call[t].hash # None
    /\ Submit(t, call[t].plan)
    /\ fate' = Append(fate, "executed")
    /\ UNCHANGED rpc

MockConfirms(t) == BroadcastReturns(t, "confirmed") /\ UNCHANGED adapters

MockSigns(t) == SignReturns(t) /\ UNCHANGED adapters

MockResolves(t) == MockSimulate(t) \/ MockConfirms(t) \/ MockSigns(t)

-----------------------------------------------------------------------------
(* createWeb3Connection: simulate *)

\* opts.translate(plan, web3, null) resolved.
Translate(t) == call[t].op = "simulate" /\ Moves(t, "none", "simulateTransaction")

\* ok is !value.err
SimulateTransaction(t) ==
    /\ rpc[t].await = "simulateTransaction"
    /\ SimulateOk(t) \/ SimulateFailed(t)
    /\ Answered(t) /\ UNCHANGED fate

SimulateRejects(t) == SimulateThrows(t) /\ Answered(t) /\ UNCHANGED fate

-----------------------------------------------------------------------------
(* createWeb3Connection: sendSigned *)

\* Plausible defect: a lost answer makes the adapter send the bytes again.
SendRawTransactionAgain(t) ==
    \/ /\ call[t].tx # None
       /\ Submit(t, call[t].tx)
       /\ rpc' = [rpc EXCEPT ![t] = [await |-> "getLatestBlockhash",
                                     tx |-> Len(submitted) + 1, err |-> FALSE]]
       /\ fate' = Append(fate, "pending")
    \/ /\ rpc[t].await = "getLatestBlockhash" /\ Len(submitted) < 2
       /\ submitted' = Append(submitted, submitted[rpc[t].tx])
       /\ fate' = Append(fate, "pending")
       /\ UNCHANGED << state, ledger, nonceStore, now, call, issued, simOK, signerCalls,
                       confirmed, interference, rpc >>

\* The host passed the transaction it built and signed, and the node accepted it;
\* whether its answer arrives is another matter.
SendRawTransaction(t) ==
    /\ call[t].tx # None
    /\ Submit(t, call[t].tx)
    /\ rpc' = [rpc EXCEPT ![t] = [await |-> "getLatestBlockhash",
                                  tx |-> Len(submitted) + 1, err |-> FALSE]]
    /\ fate' = Append(fate, "pending")

GetLatestBlockhash(t) == Moves(t, "getLatestBlockhash", "confirmTransaction")

\* Plausible defect: a confirmation is a success, with or without an error.
ConfirmTransactionAnyway(t) ==
    /\ rpc[t].await = "confirmTransaction"
    /\ fate[rpc[t].tx] \in {"executed", "errored"}
    /\ rpc' = [rpc EXCEPT ![t].await = "getSignatureStatus"]
    /\ UNCHANGED << vars, fate >>

\* Resolves once the cluster has run the transaction, with conf.value.err.
ConfirmTransaction(t) ==
    /\ rpc[t].await = "confirmTransaction"
    /\ fate[rpc[t].tx] \in {"executed", "errored"}
    /\ rpc' = [rpc EXCEPT ![t].await = "getSignatureStatus",
                          ![t].err = fate[rpc[t].tx] = "errored"]
    /\ UNCHANGED << vars, fate >>

\* Asked for the slot only, which is left out.
GetSignatureStatus(t) ==
    /\ rpc[t].await = "getSignatureStatus"
    /\ BroadcastReturns(t, IF rpc[t].err THEN "failed" ELSE "confirmed")
    /\ Answered(t) /\ UNCHANGED fate

\* The host handed over no signedTx: nothing is asked of the node.
SendUnsigned(t) == call[t].tx = None /\ BroadcastThrows(t) /\ Answered(t) /\ UNCHANGED fate

\* One of the four calls of the node threw: it is away, the answer is lost, the
\* blockhash expired.
SendRejects(t) == call[t].tx # None /\ BroadcastThrows(t) /\ Answered(t) /\ UNCHANGED fate

LiveSigns(t) == SignReturns(t) /\ UNCHANGED adapters

LiveSignRejects(t) == SignThrows(t) /\ UNCHANGED adapters

\* How the agent's await ends, and the steps in between.
LiveResolves(t) == SimulateTransaction(t) \/ GetSignatureStatus(t) \/ LiveSigns(t)
LiveRejects(t)  == SimulateRejects(t) \/ SendUnsigned(t) \/ SendRejects(t) \/ LiveSignRejects(t)
LiveWaits(t)    == Translate(t) \/ SendRawTransaction(t) \/ GetLatestBlockhash(t)
                     \/ ConfirmTransaction(t)

-----------------------------------------------------------------------------
(* The cluster *)

ClusterRuns(k, outcome) ==
    /\ fate[k] = "pending"
    /\ fate' = [fate EXCEPT ![k] = outcome]
    /\ UNCHANGED << vars, rpc >>

Cluster == \E k \in 1..Len(submitted), o \in {"executed", "errored", "dropped"} : ClusterRuns(k, o)

-----------------------------------------------------------------------------
\* A port's answer is the cluster's: what the agent recorded as confirmed was
\* executed, and what it recorded as failed on the cluster ran with an error.
\* Only a call that threw says nothing (receipt code broadcast_error).
AnswersAreTrue ==
    /\ \A k \in 1..Len(submitted) :
          submitted[k].nonce \in confirmed => fate[k] = "executed"
    /\ \A i \in 1..Len(ledger) :
          ledger[i].body.failure = "broadcast_failed" =>
              \E k \in 1..Len(submitted) :
                  submitted[k].nonce = ledger[i].body.grant_id /\ fate[k] = "errored"

=============================================================================
