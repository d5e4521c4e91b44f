---------------------------- MODULE ApprovalDesk ----------------------------
(***************************************************************************)
(* verifyApprovalToken where several verifiers hold one runtime secret:    *)
(* agents in processes of their own, each with a nonce store it was given  *)
(* (deps.nonceStore) or made itself.  The in-memory store dies with its    *)
(* process; the durable one production swaps in, "interface is identical", *)
(* is shared, and other processes get between its has and its consume.     *)
(***************************************************************************)
EXTENDS Sequences, Approval

CONSTANTS
    Verifiers,   \* processes
    Stores,      \* nonce stores
    StoreOf,     \* deps.nonceStore of each
    Durable,     \* the stores that outlive a process
    Hashes,      \* plan hashes
    Ttls,        \* lifetimes given
    MaxIssued,   \* bound: tokens issued
    MaxTime,     \* bound: the clock
    MaxAccepted, \* bound: tokens accepted
    MaxLosses    \* bound: restarts of a process

ASSUME DeskAssumption ==
    /\ StoreOf \in [Verifiers -> Stores] /\ Durable \subseteq Stores
    /\ None \notin Hashes
    /\ Ttls \subseteq Nat /\ {MaxIssued, MaxTime, MaxAccepted, MaxLosses} \subseteq Nat

\* An in-memory store belongs to one process.
ASSUME MemoryAssumption ==
    \A v, w \in Verifiers : StoreOf[v] = StoreOf[w] /\ StoreOf[v] \notin Durable => v = w

VARIABLES
    now,       \* the clock
    issued,    \* tokens issued, in order; the nonce is the position
    used,      \* #used of each store
    losses,    \* how often each store lost what it held
    verify,    \* what each verifier is about to ask its store, and of which token
    accepted   \* tokens found valid: by which store, when, after how many losses

deskVars == << now, issued, used, losses, verify, accepted >>

Nonces == 1..Len(issued)

NoVerify == [pc |-> "idle", nonce |-> 0, hash |-> None, at |-> 0]

DeskInit ==
    /\ now = 0 /\ issued = << >>
    /\ used = [s \in Stores |-> {}]
    /\ losses = [s \in Stores |-> 0]
    /\ verify = [v \in Verifiers |-> NoVerify]
    /\ accepted = << >>

PassTime ==
    /\ now < MaxTime
    /\ now' = now + 1
    /\ UNCHANGED << issued, used, losses, verify, accepted >>

Issue(hash, ttl) ==
    /\ Len(issued) < MaxIssued
    /\ issued' = Append(issued, IssueApprovalToken(hash, Len(issued) + 1, ttl, now))
    /\ UNCHANGED << now, used, losses, verify, accepted >>

\* A token is presented for a plan, as issued or with fields of its own: it gets
\* as far as the store only if every check before that passes.
Present(v, token, hash) ==
    /\ verify[v].pc = "idle"
    /\ VerifyApprovalToken(token, hash, now, {}) = "valid"
    /\ verify' = [verify EXCEPT ![v] = [pc |-> "has", nonce |-> token.nonce,
                                        hash |-> hash, at |-> now]]
    /\ UNCHANGED << now, issued, used, losses, accepted >>

\* nonceStore.has(token.nonce)
Has(v) ==
    /\ verify[v].pc = "has"
    /\ verify' = [verify EXCEPT ![v] = IF verify[v].nonce \in used[StoreOf[v]]
                                       THEN NoVerify ELSE [@ EXCEPT !.pc = "consume"]]
    /\ UNCHANGED << now, issued, used, losses, accepted >>

Accept(v) ==
    accepted' = Append(accepted, [nonce |-> verify[v].nonce, hash |-> verify[v].hash,
                                  at |-> verify[v].at, store |-> StoreOf[v],
                                  life |-> losses[StoreOf[v]]])

\* Plausible defect: what consume answers is not looked at.
ConsumeNonceUnchecked(v) ==
    /\ verify[v].pc = "consume"
    /\ Len(accepted) < MaxAccepted
    /\ Accept(v)
    /\ used' = [used EXCEPT ![StoreOf[v]] = Consume(@, verify[v].nonce)]
    /\ verify' = [verify EXCEPT ![v] = NoVerify]
    /\ UNCHANGED << now, issued, losses >>

\* nonceStore.consume(token.nonce): false if another process was faster.
ConsumeNonce(v) ==
    /\ verify[v].pc = "consume"
    /\ IF verify[v].nonce \in used[StoreOf[v]] THEN UNCHANGED << used, accepted >>
       ELSE /\ Len(accepted) < MaxAccepted
            /\ Accept(v)
            /\ used' = [used EXCEPT ![StoreOf[v]] = Consume(@, verify[v].nonce)]
    /\ verify' = [verify EXCEPT ![v] = NoVerify]
    /\ UNCHANGED << now, issued, losses >>

\* The process ends, in the middle of a verification or not, and starts again.
Restart(v) ==
    /\ losses[StoreOf[v]] < MaxLosses
    /\ verify' = [verify EXCEPT ![v] = NoVerify]
    /\ IF StoreOf[v] \in Durable
       THEN UNCHANGED << used, losses >>
       ELSE /\ used' = [used EXCEPT ![StoreOf[v]] = {}]
            /\ losses' = [losses EXCEPT ![StoreOf[v]] = @ + 1]
    /\ UNCHANGED << now, issued, accepted >>

\* Tokens that can be presented: an issued one, or with another hash, nonce or
\* expiry written into it.
Rewritten(token, hash, nonce, expiresAt) ==
    [token EXCEPT !.planHash = hash, !.nonce = nonce, !.expiresAt = expiresAt]

Presentable ==
    {Rewritten(issued[k], h, n, e) :
        k \in Nonces, h \in Hashes, n \in 1..(Len(issued) + 1), e \in 0..(MaxTime + 1)}

DeskNext ==
    \/ PassTime
    \/ \E h \in Hashes, ttl \in Ttls : Issue(h, ttl)
    \/ \E v \in Verifiers :
          \/ \E token \in Presentable, h \in Hashes : Present(v, token, h)
          \/ Has(v) \/ ConsumeNonce(v) \/ Restart(v)

DeskSpec == DeskInit /\ [][DeskNext]_deskVars

-----------------------------------------------------------------------------
\* policy.mjs, "single-use": a store accepts a nonce once in its life, whatever
\* gets between has and consume; a durable store, shared by every process, once
\* and for all.
AcceptedOncePerLife ==
    \A i, j \in 1..Len(accepted) :
        accepted[i].nonce = accepted[j].nonce /\ accepted[i].store = accepted[j].store
            /\ (accepted[i].store \in Durable \/ accepted[i].life = accepted[j].life)
                => i = j

\* A process that restarts, or one with a store of its own, accepts a token that
\* was used before, but only for the plan it was issued for and within its
\* lifetime: expiry is what bounds the reuse.
ReuseIsBounded ==
    \A i \in 1..Len(accepted) :
        /\ accepted[i].nonce \in Nonces
        /\ accepted[i].hash = issued[accepted[i].nonce].planHash
        /\ accepted[i].at <= issued[accepted[i].nonce].expiresAt

\* Why: what a store accepted in its present life it still holds, and whatever is
\* on its way to a store passed the checks of its grant.  Inductive.
DeskInv ==
    /\ now \in Nat
    /\ issued \in Seq([planHash : Hashes, nonce : Nat, expiresAt : Nat,
                       signature : [planHash : Hashes, nonce : Nat, expiresAt : Nat]])
    /\ used \in [Stores -> SUBSET Nat] /\ losses \in [Stores -> Nat]
    /\ verify \in [Verifiers -> [pc : {"idle", "has", "consume"}, nonce : Nat,
                                 hash : Hashes \cup {None}, at : Nat]]
    /\ accepted \in Seq([nonce : Nat, hash : Hashes \cup {None}, at : Nat,
                         store : Stores, life : Nat])
    /\ \A k \in Nonces : issued[k].nonce = k
                         /\ issued[k].signature = CanonicalApprovalPayload(issued[k])
    /\ \A v \in Verifiers : verify[v].pc # "idle" =>
          /\ verify[v].nonce \in Nonces
          /\ verify[v].hash = issued[verify[v].nonce].planHash
          /\ verify[v].at <= issued[verify[v].nonce].expiresAt
    /\ \A i \in 1..Len(accepted) :
          /\ accepted[i].life <= losses[accepted[i].store]
          /\ accepted[i].store \in Durable \/ accepted[i].life = losses[accepted[i].store]
                => accepted[i].nonce \in used[accepted[i].store]
    /\ AcceptedOncePerLife /\ ReuseIsBounded

=============================================================================
