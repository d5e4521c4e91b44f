------------------------- MODULE DevnetRunnerProofs -------------------------
(***************************************************************************)
(* The safety of the live runner, for any number of starts and keys, any   *)
(* deadlines, kills at any await, and funds and verdicts at any time.      *)
(***************************************************************************)
EXTENDS DevnetRunner, TLAPS

Txs == [run : Nat, status : {"processing", "confirmed", "failed", "dropped"}]
ReportsOf(n) == [tx : 1..n, status : {"confirmed", "failed"}]

\* The part of the invariant about keys, and the part about transactions.
KeysInv ==
    /\ file \in Keys \cup {NoKey} /\ kp \in Keys \cup {NoKey}
    /\ shown \subseteq Keys /\ funded \subseteq shown /\ unwritten \subseteq shown
    /\ \A k \in shown : k = file \/ k \in unwritten
    /\ file # NoKey => file \in shown
    /\ pc # "down" => kp \in shown

TxsInv ==
    /\ pc \in {"down", "funding", "balance", "simulating", "building", "polling"}
    /\ {waited, nextAirdrop, polls, runs} \subseteq Nat
    /\ txs \in Seq(Txs)
    /\ reports \in Seq(ReportsOf(Len(txs)))
    /\ \A i \in 1..Len(txs) : txs[i].run <= runs
    /\ pc \in {"funding", "balance", "simulating", "building"} =>
          \A i \in 1..Len(txs) : txs[i].run < runs
    /\ pc = "polling" => Len(txs) > 0
    /\ OneMarkerPerRun /\ FailedReportsAreTrue

LEMMA InvIsBoth == RunnerInv <=> KeysInv /\ TxsInv
BY DEF RunnerInv, KeysInv, TxsInv, TypeOK, Txs, ReportsOf

\* What is appended to a sequence is its last element, and the rest stays.
LEMMA AppendFacts ==
    ASSUME NEW S, NEW seq \in Seq(S), NEW e \in S
    PROVE  /\ Append(seq, e) \in Seq(S) /\ Len(Append(seq, e)) = Len(seq) + 1
           /\ Append(seq, e)[Len(seq) + 1] = e
           /\ \A i \in 1..Len(seq) : Append(seq, e)[i] = seq[i] /\ seq[i] \in S
           /\ \A i \in 1..(Len(seq) + 1) : i \in 1..Len(seq) \/ i = Len(seq) + 1
           /\ Len(seq) \in Nat
OBVIOUS

\* The elements of a sequence, and of one over a larger set.
LEMMA SeqFacts ==
    ASSUME NEW S, NEW seq \in Seq(S)
    PROVE  /\ Len(seq) \in Nat /\ \A i \in 1..Len(seq) : seq[i] \in S
           /\ \A T : S \subseteq T => seq \in Seq(T)
OBVIOUS

\* A step that leaves what was sent and reported alone.
LEMMA NothingSent ==
    ASSUME TxsInv, UNCHANGED << txs, reports, runs >>,
           {waited', nextAirdrop', polls'} \subseteq Nat,
           \/ pc' \in {"down", pc}
           \/ /\ pc \in {"funding", "balance", "simulating"}
              /\ pc' \in {"funding", "balance", "simulating", "building"}
    PROVE  TxsInv'
BY DEF TxsInv, OneMarkerPerRun, FailedReportsAreTrue

\* A process starts with a number no transaction of an earlier one has.
LEMMA BeginStep ==
    ASSUME TxsInv, NEW k \in Keys, Begin(k)
    PROVE  TxsInv'
<1>1. /\ runs \in Nat /\ runs' = runs + 1 /\ UNCHANGED << txs, reports >>
      /\ pc' = "funding" /\ {waited', nextAirdrop', polls'} \subseteq Nat
  BY DEF Begin, TxsInv
<1>2. \A i \in 1..Len(txs) : txs[i].run \in Nat /\ txs[i].run <= runs
  <2>1. \A i \in 1..Len(txs) : txs[i] \in Txs
    BY SeqFacts DEF TxsInv
  <2> QED
    BY <2>1 DEF TxsInv, Txs
<1>3. \A i \in 1..Len(txs) : txs[i].run < runs'
  BY <1>1, <1>2
<1> QED
  BY <1>1, <1>2, <1>3 DEF TxsInv, OneMarkerPerRun, FailedReportsAreTrue

\* The transaction sent carries the number of the running process, which none
\* before it does.
LEMMA SendStep ==
    ASSUME TxsInv, pc = "building", pc' \in {"polling", "down"},
           txs' = Append(txs, [run |-> runs, status |-> "processing"]),
           UNCHANGED << runs, reports >>, {waited', nextAirdrop', polls'} \subseteq Nat
    PROVE  TxsInv'
<1> DEFINE tx == [run |-> runs, status |-> "processing"]
<1>1. tx \in Txs /\ txs \in Seq(Txs) /\ runs \in Nat
  BY DEF TxsInv, Txs
<1>2. tx.run = runs
  OBVIOUS
<1>3. txs' = Append(txs, tx)
  OBVIOUS
<1> HIDE DEF tx
<1>4. /\ txs' \in Seq(Txs) /\ Len(txs') = Len(txs) + 1 /\ txs'[Len(txs) + 1] = tx
      /\ Len(txs) \in Nat
      /\ \A i \in 1..Len(txs) : txs'[i] = txs[i] /\ txs[i] \in Txs
      /\ \A i \in 1..Len(txs') : i \in 1..Len(txs) \/ i = Len(txs) + 1
  BY <1>1, <1>3, AppendFacts
<1>5. \A i \in 1..Len(txs) : txs[i].run \in Nat /\ txs[i].run < runs
  BY <1>4 DEF TxsInv, Txs
<1>6. \A i \in 1..Len(txs') : txs'[i].run <= runs
  BY <1>1, <1>2, <1>4, <1>5
<1>7. OneMarkerPerRun'
  <2> SUFFICES ASSUME NEW i \in 1..Len(txs'), NEW j \in 1..Len(txs'),
                      txs'[i].run = txs'[j].run
               PROVE  i = j
    BY DEF OneMarkerPerRun
  <2>1. CASE i \in 1..Len(txs) /\ j \in 1..Len(txs)
    BY <1>4, <2>1 DEF TxsInv, OneMarkerPerRun
  <2>2. CASE i = Len(txs) + 1 \/ j = Len(txs) + 1
    BY <1>1, <1>2, <1>4, <1>5, <2>2
  <2> QED
    BY <1>4, <2>1, <2>2
<1>8. reports' \in Seq(ReportsOf(Len(txs')))
  <2>1. ReportsOf(Len(txs)) \subseteq ReportsOf(Len(txs'))
    BY <1>4 DEF ReportsOf
  <2>2. reports \in Seq(ReportsOf(Len(txs)))
    BY DEF TxsInv
  <2> QED
    BY <2>1, <2>2, SeqFacts
<1>9. FailedReportsAreTrue'
  <2>1. \A i \in 1..Len(reports) : reports[i] \in ReportsOf(Len(txs))
    BY SeqFacts DEF TxsInv
  <2>2. \A i \in 1..Len(reports) : reports[i].tx \in 1..Len(txs)
    BY <2>1 DEF ReportsOf
  <2> QED
    BY <1>4, <2>2 DEF TxsInv, FailedReportsAreTrue
<1> QED
  BY <1>1, <1>4, <1>6, <1>7, <1>8, <1>9 DEF TxsInv

\* What is reported failed has failed by then.
LEMMA ReportStep ==
    ASSUME TxsInv, pc = "polling", UNCHANGED txs,
           NEW status \in {"confirmed", "failed"}, Report(status),
           status = "failed" => txs[Len(txs)].status = "failed"
    PROVE  TxsInv'
<1> DEFINE report == [tx |-> Len(txs), status |-> status]
<1>1. Len(txs) \in Nat /\ Len(txs) > 0 /\ reports \in Seq(ReportsOf(Len(txs)))
  BY SeqFacts DEF TxsInv
<1>2. report \in ReportsOf(Len(txs)) /\ report.tx = Len(txs) /\ report.status = status
  BY <1>1 DEF ReportsOf
<1>3. reports' = Append(reports, report) /\ pc' = "down"
      /\ UNCHANGED << waited, nextAirdrop, polls, runs >>
  BY DEF Report, Exit
<1> HIDE DEF report
<1>4. /\ reports' \in Seq(ReportsOf(Len(txs)))
      /\ reports'[Len(reports) + 1] = report
      /\ \A i \in 1..Len(reports) : reports'[i] = reports[i]
      /\ \A i \in 1..Len(reports') : i \in 1..Len(reports) \/ i = Len(reports) + 1
  BY <1>1, <1>2, <1>3, AppendFacts
<1>5. FailedReportsAreTrue'
  <2> SUFFICES ASSUME NEW i \in 1..Len(reports'), reports'[i].status = "failed"
               PROVE  txs[reports'[i].tx].status = "failed"
    BY DEF FailedReportsAreTrue
  <2>1. CASE i \in 1..Len(reports)
    BY <1>4, <2>1 DEF TxsInv, FailedReportsAreTrue
  <2>2. CASE i = Len(reports) + 1
    BY <1>2, <1>4, <2>2
  <2> QED
    BY <1>4, <2>1, <2>2
<1> QED
  BY <1>1, <1>3, <1>4, <1>5 DEF TxsInv, OneMarkerPerRun

\* The cluster's verdict is about a transaction still processing: none that was
\* reported failed.
LEMMA VerdictStep ==
    ASSUME TxsInv, NEW i \in 1..Len(txs), NEW s \in {"confirmed", "failed", "dropped"},
           ClusterDecides(i, s)
    PROVE  TxsInv'
<1>1. /\ txs \in Seq(Txs) /\ txs[i] \in Txs /\ txs[i].status = "processing"
      /\ txs' = [txs EXCEPT ![i].status = s]
      /\ \A j \in 1..Len(txs) : txs[j] \in Txs
  BY SeqFacts DEF ClusterDecides, TxsInv
<1>2. /\ Len(txs') = Len(txs) /\ txs' \in Seq(Txs)
      /\ \A j \in 1..Len(txs) : txs'[j].run = txs[j].run
                                /\ (j # i => txs'[j].status = txs[j].status)
  <2> DEFINE tx == [txs[i] EXCEPT !.status = s]
  <2>1. tx \in Txs /\ tx.run = txs[i].run
    BY <1>1 DEF Txs
  <2>2. txs' = [txs EXCEPT ![i] = tx]
    BY <1>1
  <2> HIDE DEF tx
  <2> QED
    BY <1>1, <2>1, <2>2
<1>3. UNCHANGED << pc, waited, nextAirdrop, polls, runs, reports >>
  BY DEF ClusterDecides
<1>4. \A j \in 1..Len(reports) : reports[j].tx \in 1..Len(txs)
  <2>1. \A j \in 1..Len(reports) : reports[j] \in ReportsOf(Len(txs))
    BY SeqFacts DEF TxsInv
  <2> QED
    BY <2>1 DEF ReportsOf
<1>5. FailedReportsAreTrue'
  BY <1>1, <1>2, <1>3, <1>4 DEF TxsInv, FailedReportsAreTrue
<1>6. OneMarkerPerRun'
  BY <1>2 DEF TxsInv, OneMarkerPerRun
<1> QED
  BY <1>2, <1>3, <1>5, <1>6 DEF TxsInv

\* The transactions' part of the invariant is inductive.
LEMMA TxsStep ==
    ASSUME TxsInv, KeysInv, [RunnerNext]_runnerVars
    PROVE  TxsInv'
<1>0. waited \in Nat /\ nextAirdrop \in Nat /\ polls \in Nat /\ AirdropEvery \in Nat
  BY RunnerAssumption DEF TxsInv
<1>1. CASE LoadKey
  BY <1>1, BeginStep DEF LoadKey, KeysInv
<1>2. ASSUME NEW k \in Keys, GenerateKey(k) PROVE TxsInv'
  BY <1>2, BeginStep DEF GenerateKey
<1>3. CASE GiveUp \/ Dies \/ Kill
  BY <1>0, <1>3, NothingSent DEF GiveUp, Dies, Kill, Exit, world
<1>4. CASE RequestAirdrop \/ NoAirdropDue \/ Funded \/ Sleep \/ SimulatedOk
  BY <1>0, <1>4, NothingSent
     DEF RequestAirdrop, NoAirdropDue, Funded, Sleep, SimulatedOk, world
<1>5. CASE Sent \/ SentUnanswered
  BY <1>0, <1>5, SendStep DEF Sent, SentUnanswered, Exit
<1>6. CASE PollAnswers
  <2>1. txs[Len(txs)].status \in {"confirmed", "failed"} /\ pc = "polling"
        /\ Report(txs[Len(txs)].status) /\ UNCHANGED txs
    BY <1>6 DEF PollAnswers, world
  <2> QED
    BY <2>1, ReportStep
<1>7. CASE PollAgain
  BY <1>0, <1>7, NothingSent DEF PollAgain, world
<1>8. CASE PollTimesOut
  BY <1>8, ReportStep DEF PollTimesOut, world
<1>9. ASSUME NEW k \in Keys, Fund(k) PROVE TxsInv'
  BY <1>0, <1>9, NothingSent DEF Fund
<1>10. ASSUME NEW i \in 1..Len(txs), NEW s \in {"confirmed", "failed", "dropped"},
              ClusterDecides(i, s)
       PROVE  TxsInv'
  BY <1>10, VerdictStep
<1>11. CASE UNCHANGED runnerVars
  BY <1>0, <1>11, NothingSent DEF runnerVars, world
<1> QED
  BY <1>1, <1>2, <1>3, <1>4, <1>5, <1>6, <1>7, <1>8, <1>9, <1>10, <1>11
     DEF RunnerNext, Process

\* So is the keys': only a start shows an address, of the key in the file, or of a
\* new one that goes there unless the write throws.
LEMMA KeysStep ==
    ASSUME KeysInv, [RunnerNext]_runnerVars
    PROVE  KeysInv'
<1>1. CASE LoadKey
  BY <1>1 DEF LoadKey, Begin, KeysInv, disk
<1>2. ASSUME NEW k \in Keys, GenerateKey(k) PROVE KeysInv'
  BY <1>2, RunnerAssumption DEF GenerateKey, Begin, KeysInv
<1>3. CASE GiveUp \/ Dies \/ Kill \/ SentUnanswered \/ PollAnswers \/ PollTimesOut
  BY <1>3 DEF GiveUp, Dies, Kill, SentUnanswered, PollAnswers, PollTimesOut, Report,
              Exit, world, disk, KeysInv
<1>4. CASE RequestAirdrop \/ NoAirdropDue \/ Funded \/ Sleep \/ SimulatedOk
             \/ Sent \/ PollAgain
  BY <1>4 DEF RequestAirdrop, NoAirdropDue, Funded, Sleep, SimulatedOk, Sent, PollAgain,
              world, disk, KeysInv
<1>5. ASSUME NEW k \in Keys, Fund(k) PROVE KeysInv'
  BY <1>5 DEF Fund, disk, KeysInv
<1>6. ASSUME NEW i \in 1..Len(txs), NEW s \in {"confirmed", "failed", "dropped"},
             ClusterDecides(i, s)
      PROVE  KeysInv'
  BY <1>6 DEF ClusterDecides, disk, KeysInv
<1>7. CASE UNCHANGED runnerVars
  BY <1>7 DEF runnerVars, world, disk, KeysInv
<1> QED
  BY <1>1, <1>2, <1>3, <1>4, <1>5, <1>6, <1>7 DEF RunnerNext, Process

\* The invariant that explains the runner holds of every state of it.
THEOREM RunnerIsSound == RunnerSpec => []RunnerInv
<1>1. RunnerInit => KeysInv /\ TxsInv
  BY DEF RunnerInit, KeysInv, TxsInv, OneMarkerPerRun, FailedReportsAreTrue
<1>2. KeysInv /\ TxsInv /\ [RunnerNext]_runnerVars => KeysInv' /\ TxsInv'
  BY KeysStep, TxsStep
<1> QED
  BY <1>1, <1>2, InvIsBoth, PTL DEF RunnerSpec

\* No funded address is out of reach, but of a key whose write threw.
THEOREM NoFundsStranded == RunnerSpec => []FundsReachable
<1>1. RunnerInv => FundsReachable
  BY DEF RunnerInv, TypeOK, FundsReachable
<1> QED
  BY <1>1, RunnerIsSound, PTL

\* One start, at most one transfer.
THEOREM OneMarker == RunnerSpec => []OneMarkerPerRun
<1>1. RunnerInv => OneMarkerPerRun
  BY DEF RunnerInv
<1> QED
  BY <1>1, RunnerIsSound, PTL

\* What a run reported failed did fail on the cluster.
THEOREM FailuresAreTrue == RunnerSpec => []FailedReportsAreTrue
<1>1. RunnerInv => FailedReportsAreTrue
  BY DEF RunnerInv
<1> QED
  BY <1>1, RunnerIsSound, PTL

=============================================================================
