------------------------- MODULE ApprovalDeskProofs -------------------------
(***************************************************************************)
(* Single use and its limits, for any number of verifiers and stores,      *)
(* however often processes restart.                                        *)
(***************************************************************************)
EXTENDS ApprovalDesk, TLAPS

IssuedTokens == [planHash : Hashes, nonce : Nat, expiresAt : Nat,
                 signature : [planHash : Hashes, nonce : Nat, expiresAt : Nat]]
Acceptances == [nonce : Nat, hash : Hashes \cup {None}, at : Nat, store : Stores, life : Nat]

\* What is appended to a sequence is its last element, and the rest stays.
LEMMA AppendFacts ==
    ASSUME NEW S, NEW seq \in Seq(S), NEW e \in S
    PROVE  /\ Append(seq, e) \in Seq(S) /\ Len(Append(seq, e)) = Len(seq) + 1
           /\ Append(seq, e)[Len(seq) + 1] = e
           /\ \A i \in 1..Len(seq) : Append(seq, e)[i] = seq[i] /\ seq[i] \in S
           /\ \A i \in 1..(Len(seq) + 1) : i \in 1..Len(seq) \/ i = Len(seq) + 1
           /\ Len(seq) \in Nat
OBVIOUS

\* The fields of a recorded acceptance.
LEMMA AcceptanceTyped ==
    ASSUME DeskInv
    PROVE  /\ accepted \in Seq(Acceptances)
           /\ \A i \in 1..Len(accepted) :
                 accepted[i].store \in Stores /\ accepted[i].life \in Nat
<1>1. accepted \in Seq(Acceptances)
  BY DEF DeskInv, Acceptances
<1>2. \A i \in 1..Len(accepted) : accepted[i] \in Acceptances
  BY <1>1
<1> QED
  BY <1>1, <1>2 DEF Acceptances

\* Two facts about acceptances, of which neither speaks of the clock or of what is
\* on its way to a store.
LEMMA PromisesKept ==
    ASSUME DeskInv, UNCHANGED << issued, accepted >>
    PROVE  AcceptedOncePerLife' /\ ReuseIsBounded'
BY DEF DeskInv, AcceptedOncePerLife, ReuseIsBounded, Nonces

\* A step of the clock only, or none.
LEMMA Untouched ==
    ASSUME DeskInv, now' \in Nat, UNCHANGED << issued, used, losses, verify, accepted >>
    PROVE  DeskInv'
BY PromisesKept DEF DeskInv, Nonces

\* A step that leaves tokens, stores and acceptances alone: a verification may
\* begin, of a token that passed the checks, go on, or end.
LEMMA VerifyMoved ==
    ASSUME DeskInv, UNCHANGED << issued, used, losses, accepted >>, now' \in Nat,
           NEW v \in Verifiers,
           NEW c \in [pc : {"idle", "has", "consume"}, nonce : Nat,
                      hash : Hashes \cup {None}, at : Nat],
           verify' = [verify EXCEPT ![v] = c],
           c.pc # "idle" => /\ c.nonce \in Nonces
                            /\ c.hash = issued[c.nonce].planHash
                            /\ c.at <= issued[c.nonce].expiresAt
    PROVE  DeskInv'
<1>1. /\ verify' \in [Verifiers -> [pc : {"idle", "has", "consume"}, nonce : Nat,
                                   hash : Hashes \cup {None}, at : Nat]]
      /\ \A w \in Verifiers : verify'[w] = IF w = v THEN c ELSE verify[w]
  BY DEF DeskInv
<1>2. \A w \in Verifiers : verify'[w].pc # "idle" =>
          /\ verify'[w].nonce \in Nonces
          /\ verify'[w].hash = issued[verify'[w].nonce].planHash
          /\ verify'[w].at <= issued[verify'[w].nonce].expiresAt
  BY <1>1 DEF DeskInv
<1> QED
  BY <1>1, <1>2, PromisesKept DEF DeskInv, Nonces

\* What the checks before the store establish: the fields of the token presented
\* are those of a grant, for this plan, alive now.
LEMMA PresentedIsIssued ==
    ASSUME DeskInv, NEW token \in Presentable, NEW hash \in Hashes,
           VerifyApprovalToken(token, hash, now, {}) = "valid"
    PROVE  /\ token.nonce \in Nonces
           /\ hash = issued[token.nonce].planHash
           /\ now <= issued[token.nonce].expiresAt
<1>1. /\ token.planHash = hash /\ token.signature = CanonicalApprovalPayload(token)
      /\ ~(now > token.expiresAt)
  BY DEF VerifyApprovalToken
<1>2. PICK k \in Nonces, h \in Hashes, n \in 1..(Len(issued) + 1), e \in 0..(MaxTime + 1) :
          token = Rewritten(issued[k], h, n, e)
  BY DEF Presentable
<1>3. issued \in Seq(IssuedTokens) /\ now \in Nat
  BY DEF DeskInv, IssuedTokens
<1>4. issued[k] \in IssuedTokens
  BY <1>3 DEF Nonces
<1>5. /\ token.planHash = h /\ token.nonce = n /\ token.expiresAt = e
      /\ token.signature = issued[k].signature
  BY <1>2, <1>4 DEF IssuedTokens, Rewritten
<1>6. issued[k].nonce = k /\ issued[k].signature = CanonicalApprovalPayload(issued[k])
  BY DEF DeskInv
<1>7. n = k /\ h = issued[k].planHash /\ e = issued[k].expiresAt
  BY <1>1, <1>5, <1>6 DEF CanonicalApprovalPayload
<1> QED
  BY <1>1, <1>3, <1>5, <1>7

\* An issued token gets the next nonce and the signature over its own fields.
LEMMA IssueStep ==
    ASSUME DeskInv, NEW hash \in Hashes, NEW ttl \in Ttls, Issue(hash, ttl)
    PROVE  DeskInv'
<1> DEFINE token == IssueApprovalToken(hash, Len(issued) + 1, ttl, now)
<1>1. /\ issued \in Seq(IssuedTokens) /\ now \in Nat /\ ttl \in Nat
  BY DeskAssumption DEF DeskInv, IssuedTokens
<1>2. token \in IssuedTokens
  BY <1>1 DEF IssuedTokens, IssueApprovalToken, CanonicalApprovalPayload
<1>3. token.nonce = Len(issued) + 1 /\ token.signature = CanonicalApprovalPayload(token)
  BY DEF IssueApprovalToken, CanonicalApprovalPayload
<1>4. issued' = Append(issued, token) /\ UNCHANGED << now, used, losses, verify, accepted >>
  BY DEF Issue
<1> HIDE DEF token
<1>5. /\ issued' \in Seq(IssuedTokens)
      /\ \A k \in Nonces : k \in Nonces' /\ issued'[k] = issued[k]
      /\ \A k \in Nonces' : k \in Nonces \/ (k = Len(issued) + 1 /\ issued'[k] = token)
  BY <1>1, <1>2, <1>4, AppendFacts DEF Nonces
<1>6. \A k \in Nonces' : issued'[k].nonce = k
                         /\ issued'[k].signature = CanonicalApprovalPayload(issued'[k])
  BY <1>3, <1>5 DEF DeskInv
<1>7. \A w \in Verifiers : verify[w].pc # "idle" =>
          /\ verify[w].nonce \in Nonces'
          /\ verify[w].hash = issued'[verify[w].nonce].planHash
          /\ verify[w].at <= issued'[verify[w].nonce].expiresAt
  BY <1>5 DEF DeskInv
<1>8. ReuseIsBounded' /\ AcceptedOncePerLife'
  <2>1. ReuseIsBounded /\ AcceptedOncePerLife
    BY DEF DeskInv
  <2>2. ReuseIsBounded'
    BY <1>4, <1>5, <2>1 DEF ReuseIsBounded
  <2>3. AcceptedOncePerLife'
    BY <1>4, <2>1 DEF AcceptedOncePerLife
  <2> QED
    BY <2>2, <2>3
<1> QED
  BY <1>4, <1>5, <1>6, <1>7, <1>8 DEF DeskInv, IssuedTokens

\* A store that holds the nonce refuses; one that does not has not accepted it in
\* its present life, and holds it from now on.
LEMMA ConsumeStep ==
    ASSUME DeskInv, NEW v \in Verifiers, ConsumeNonce(v)
    PROVE  DeskInv'
<1> DEFINE nonce == verify[v].nonce
           store == StoreOf[v]
           a == [nonce |-> nonce, hash |-> verify[v].hash, at |-> verify[v].at,
                 store |-> store, life |-> losses[store]]
<1>1. /\ verify[v].pc = "consume" /\ verify[v].nonce \in Nat /\ store \in Stores
      /\ verify[v].hash \in Hashes \cup {None} /\ verify[v].at \in Nat
      /\ losses[store] \in Nat
  BY DeskAssumption DEF ConsumeNonce, DeskInv
<1>2. NoVerify \in [pc : {"idle", "has", "consume"}, nonce : Nat,
                    hash : Hashes \cup {None}, at : Nat] /\ NoVerify.pc = "idle"
  BY DEF NoVerify
<1>3. CASE nonce \in used[store]
  BY <1>2, <1>3, VerifyMoved DEF ConsumeNonce, DeskInv
<1>4. CASE nonce \notin used[store]
  <2>1. /\ accepted' = Append(accepted, a)
        /\ used' = [used EXCEPT ![store] = @ \cup {nonce}]
        /\ verify' = [verify EXCEPT ![v] = NoVerify]
        /\ UNCHANGED << now, issued, losses >>
    BY <1>4 DEF ConsumeNonce, Accept, Consume
  <2>2. a \in Acceptances /\ accepted \in Seq(Acceptances)
    BY <1>1 DEF DeskInv, Acceptances
  <2>3. /\ a.nonce = nonce /\ a.store = store /\ a.life = losses[store]
        /\ nonce \in Nonces /\ a.hash = issued[nonce].planHash
        /\ a.at <= issued[nonce].expiresAt
    BY <1>1 DEF DeskInv
  <2> HIDE DEF a
  <2>4. /\ accepted' \in Seq(Acceptances)
        /\ accepted'[Len(accepted) + 1] = a
        /\ \A i \in 1..Len(accepted) : accepted'[i] = accepted[i] /\ accepted[i] \in Acceptances
        /\ \A i \in 1..Len(accepted') : i \in 1..Len(accepted) \/ i = Len(accepted) + 1
    BY <2>1, <2>2, AppendFacts
  <2>5. /\ used' \in [Stores -> SUBSET Nat] /\ nonce \in used'[store]
        /\ \A s \in Stores : used[s] \subseteq used'[s]
    BY <1>1, <2>1 DEF DeskInv
  <2>6. \A i \in 1..Len(accepted) :
            accepted[i].nonce = nonce /\ accepted[i].store = store
                => accepted[i].store \notin Durable /\ accepted[i].life # losses[store]
    BY <1>4 DEF DeskInv
  <2>7. AcceptedOncePerLife'
    <3> SUFFICES ASSUME NEW i \in 1..Len(accepted'), NEW j \in 1..Len(accepted'),
                        accepted'[i].nonce = accepted'[j].nonce,
                        accepted'[i].store = accepted'[j].store,
                        \/ accepted'[i].store \in Durable
                        \/ accepted'[i].life = accepted'[j].life
                 PROVE  i = j
      BY DEF AcceptedOncePerLife
    <3>1. CASE i \in 1..Len(accepted) /\ j \in 1..Len(accepted)
      BY <2>4, <3>1 DEF DeskInv, AcceptedOncePerLife
    <3>2. CASE i \in 1..Len(accepted) /\ j = Len(accepted) + 1
      BY <2>3, <2>4, <2>6, <3>2
    <3>3. CASE i = Len(accepted) + 1 /\ j \in 1..Len(accepted)
      BY <2>3, <2>4, <2>6, <3>3
    <3> QED
      BY <2>4, <3>1, <3>2, <3>3
  <2>8. ReuseIsBounded'
    <3> SUFFICES ASSUME NEW i \in 1..Len(accepted')
                 PROVE  /\ accepted'[i].nonce \in Nonces
                        /\ accepted'[i].hash = issued[accepted'[i].nonce].planHash
                        /\ accepted'[i].at <= issued[accepted'[i].nonce].expiresAt
      BY <2>1 DEF ReuseIsBounded, Nonces
    <3>1. CASE i \in 1..Len(accepted)
      BY <2>4, <3>1 DEF DeskInv, ReuseIsBounded
    <3>2. CASE i = Len(accepted) + 1
      BY <2>3, <2>4, <3>2
    <3> QED
      BY <2>4, <3>1, <3>2
  <2>9. \A i \in 1..Len(accepted') :
            /\ accepted'[i].life <= losses[accepted'[i].store]
            /\ accepted'[i].store \in Durable
                 \/ accepted'[i].life = losses[accepted'[i].store]
                    => accepted'[i].nonce \in used'[accepted'[i].store]
    <3> SUFFICES ASSUME NEW i \in 1..Len(accepted')
                 PROVE  /\ accepted'[i].life <= losses[accepted'[i].store]
                        /\ accepted'[i].store \in Durable
                             \/ accepted'[i].life = losses[accepted'[i].store]
                                => accepted'[i].nonce \in used'[accepted'[i].store]
      OBVIOUS
    <3>1. CASE i \in 1..Len(accepted)
      <4>1. accepted'[i] = accepted[i] /\ accepted[i].store \in Stores
        BY <2>4, <3>1, AcceptanceTyped
      <4> QED
        BY <2>5, <3>1, <4>1 DEF DeskInv
    <3>2. CASE i = Len(accepted) + 1
      BY <1>1, <2>3, <2>4, <2>5, <3>2
    <3> QED
      BY <2>4, <3>1, <3>2
  <2>10. /\ verify' \in [Verifiers -> [pc : {"idle", "has", "consume"}, nonce : Nat,
                                       hash : Hashes \cup {None}, at : Nat]]
         /\ \A w \in Verifiers : verify'[w].pc # "idle" => verify'[w] = verify[w]
    BY <1>2, <2>1 DEF DeskInv
  <2> QED
    <3>1. /\ now' \in Nat /\ issued' = issued /\ losses' \in [Stores -> Nat]
          /\ \A w \in Verifiers : verify'[w].pc # "idle" =>
                /\ verify'[w].nonce \in Nonces
                /\ verify'[w].hash = issued[verify'[w].nonce].planHash
                /\ verify'[w].at <= issued[verify'[w].nonce].expiresAt
      BY <2>1, <2>10 DEF DeskInv
    <3>2. accepted' \in Seq([nonce : Nat, hash : Hashes \cup {None}, at : Nat,
                             store : Stores, life : Nat])
      BY <2>4 DEF Acceptances
    <3> QED
      BY <2>1, <2>5, <2>7, <2>8, <2>9, <2>10, <3>1, <3>2 DEF DeskInv, Nonces
<1> QED
  BY <1>3, <1>4

\* A restart empties a store only together with the end of its life.
LEMMA RestartStep ==
    ASSUME DeskInv, NEW v \in Verifiers, Restart(v)
    PROVE  DeskInv'
<1> DEFINE store == StoreOf[v]
<1>1. NoVerify \in [pc : {"idle", "has", "consume"}, nonce : Nat,
                    hash : Hashes \cup {None}, at : Nat] /\ NoVerify.pc = "idle"
  BY DEF NoVerify
<1>2. CASE store \in Durable
  BY <1>1, <1>2, VerifyMoved DEF Restart, DeskInv
<1>3. CASE store \notin Durable
  <2>1. /\ used' = [used EXCEPT ![store] = {}]
        /\ losses' = [losses EXCEPT ![store] = @ + 1]
        /\ verify' = [verify EXCEPT ![v] = NoVerify]
        /\ UNCHANGED << now, issued, accepted >> /\ store \in Stores
    BY <1>3, DeskAssumption DEF Restart
  <2>2. /\ used' \in [Stores -> SUBSET Nat] /\ losses' \in [Stores -> Nat]
        /\ \A s \in Stores : s # store => used'[s] = used[s] /\ losses'[s] = losses[s]
        /\ losses[store] \in Nat /\ losses'[store] = losses[store] + 1
    BY <2>1 DEF DeskInv
  <2>3. \A i \in 1..Len(accepted) : accepted[i].store \in Stores /\ accepted[i].life \in Nat
    BY AcceptanceTyped
  <2>4. \A i \in 1..Len(accepted) :
            /\ accepted[i].life <= losses'[accepted[i].store]
            /\ accepted[i].store \in Durable
                 \/ accepted[i].life = losses'[accepted[i].store]
                    => accepted[i].nonce \in used'[accepted[i].store]
    <3> SUFFICES ASSUME NEW i \in 1..Len(accepted)
                 PROVE  /\ accepted[i].life <= losses'[accepted[i].store]
                        /\ accepted[i].store \in Durable
                             \/ accepted[i].life = losses'[accepted[i].store]
                                => accepted[i].nonce \in used'[accepted[i].store]
      OBVIOUS
    <3>1. /\ accepted[i].store \in Stores /\ accepted[i].life \in Nat
          /\ accepted[i].life <= losses[accepted[i].store]
          /\ accepted[i].store \in Durable
               \/ accepted[i].life = losses[accepted[i].store]
                  => accepted[i].nonce \in used[accepted[i].store]
      BY <2>3 DEF DeskInv
    <3>2. CASE accepted[i].store = store
      BY <1>3, <2>2, <3>1, <3>2
    <3>3. CASE accepted[i].store # store
      BY <2>2, <3>1, <3>3
    <3> QED
      BY <3>2, <3>3
  <2>5. /\ verify' \in [Verifiers -> [pc : {"idle", "has", "consume"}, nonce : Nat,
                                      hash : Hashes \cup {None}, at : Nat]]
        /\ \A w \in Verifiers : verify'[w].pc # "idle" => verify'[w] = verify[w]
    BY <1>1, <2>1 DEF DeskInv
  <2> QED
    <3>1. /\ now' \in Nat /\ issued' = issued /\ accepted' = accepted
          /\ \A w \in Verifiers : verify'[w].pc # "idle" =>
                /\ verify'[w].nonce \in Nonces
                /\ verify'[w].hash = issued[verify'[w].nonce].planHash
                /\ verify'[w].at <= issued[verify'[w].nonce].expiresAt
      BY <2>1, <2>5 DEF DeskInv
    <3>2. AcceptedOncePerLife' /\ ReuseIsBounded'
      BY <2>1, PromisesKept
    <3> QED
      BY <2>2, <2>4, <2>5, <3>1, <3>2 DEF DeskInv, Nonces
<1> QED
  BY <1>2, <1>3

\* The invariant is inductive.
LEMMA DeskStep ==
    ASSUME DeskInv, [DeskNext]_deskVars
    PROVE  DeskInv'
<1>1. CASE PassTime
  <2>1. now' \in Nat /\ UNCHANGED << issued, used, losses, verify, accepted >>
    BY <1>1 DEF PassTime, DeskInv
  <2> QED
    BY <2>1, Untouched
<1>2. ASSUME NEW h \in Hashes, NEW ttl \in Ttls, Issue(h, ttl) PROVE DeskInv'
  BY <1>2, IssueStep
<1>3. ASSUME NEW v \in Verifiers, NEW token \in Presentable, NEW h \in Hashes,
             Present(v, token, h)
      PROVE  DeskInv'
  <2> DEFINE c == [pc |-> "has", nonce |-> token.nonce, hash |-> h, at |-> now]
  <2>1. /\ token.nonce \in Nonces /\ h = issued[token.nonce].planHash
        /\ now <= issued[token.nonce].expiresAt
    BY <1>3, PresentedIsIssued DEF Present
  <2>2. c \in [pc : {"idle", "has", "consume"}, nonce : Nat, hash : Hashes \cup {None}, at : Nat]
    <3>1. token.nonce \in Nat
      BY <2>1 DEF Nonces
    <3>2. now \in Nat
      BY DEF DeskInv
    <3> QED
      BY <3>1, <3>2
  <2> QED
    BY <1>3, <2>1, <2>2, VerifyMoved DEF Present, DeskInv
<1>4. ASSUME NEW v \in Verifiers, Has(v) PROVE DeskInv'
  <2> DEFINE c == IF verify[v].nonce \in used[StoreOf[v]]
                  THEN NoVerify ELSE [verify[v] EXCEPT !.pc = "consume"]
  <2>1. /\ verify[v] \in [pc : {"idle", "has", "consume"}, nonce : Nat,
                          hash : Hashes \cup {None}, at : Nat]
        /\ verify[v].pc = "has" /\ verify' = [verify EXCEPT ![v] = c]
        /\ UNCHANGED << now, issued, used, losses, accepted >>
    BY <1>4 DEF Has, DeskInv
  <2>2. c \in [pc : {"idle", "has", "consume"}, nonce : Nat, hash : Hashes \cup {None}, at : Nat]
    BY <2>1 DEF NoVerify
  <2>3. c.pc # "idle" => /\ c.nonce \in Nonces
                         /\ c.hash = issued[c.nonce].planHash
                         /\ c.at <= issued[c.nonce].expiresAt
    BY <2>1 DEF NoVerify, DeskInv
  <2> HIDE DEF c
  <2> QED
    BY <2>1, <2>2, <2>3, VerifyMoved DEF DeskInv
<1>5. ASSUME NEW v \in Verifiers, ConsumeNonce(v) PROVE DeskInv'
  BY <1>5, ConsumeStep
<1>6. ASSUME NEW v \in Verifiers, Restart(v) PROVE DeskInv'
  BY <1>6, RestartStep
<1>7. CASE UNCHANGED deskVars
  <2>1. now' \in Nat /\ UNCHANGED << issued, used, losses, verify, accepted >>
    BY <1>7 DEF deskVars, DeskInv
  <2> QED
    BY <2>1, Untouched
<1> QED
  BY <1>1, <1>2, <1>3, <1>4, <1>5, <1>6, <1>7 DEF DeskNext

\* It holds at the start, hence always.
THEOREM DeskInvariant == DeskSpec => []DeskInv
<1>1. DeskInit => DeskInv
  BY DEF DeskInit, DeskInv, NoVerify, Nonces, AcceptedOncePerLife, ReuseIsBounded
<1>2. DeskInv /\ [DeskNext]_deskVars => DeskInv'
  BY DeskStep
<1> QED
  BY <1>1, <1>2, PTL DEF DeskSpec

\* A nonce is accepted once in the life of a store, and once for ever by a durable
\* one that any number of processes share.
THEOREM SingleUsePerLife == DeskSpec => []AcceptedOncePerLife
<1>1. DeskInv => AcceptedOncePerLife
  BY DEF DeskInv
<1> QED
  BY <1>1, DeskInvariant, PTL

\* A reuse after a restart is for the plan of the grant and within its lifetime.
THEOREM ReuseEndsWithExpiry == DeskSpec => []ReuseIsBounded
<1>1. DeskInv => ReuseIsBounded
  BY DEF DeskInv
<1> QED
  BY <1>1, DeskInvariant, PTL

=============================================================================
