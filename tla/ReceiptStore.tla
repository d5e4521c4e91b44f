---------------------------- MODULE ReceiptStore ----------------------------
(***************************************************************************)
(* A ReceiptLedger after its receipts left the agent.  append returns, and *)
(* all lists, the very objects the ledger keeps: a host that decorates a   *)
(* receipt writes into the chain.  JSON.stringify of the list is the file  *)
(* the runner and the generators write, edited by hand or not afterwards.  *)
(***************************************************************************)
EXTENDS Receipts

CONSTANTS
    Undefined,    \* JavaScript undefined, as the value of a field
    Bodies,       \* bodies handed to append
    Contents,     \* bodies a receipt can be given by writing its fields
    Values,       \* values written into receipt_hash or previous_hash
    MaxReceipts,  \* bound: append() calls
    MaxWrites,    \* bound: host writes into receipts
    MaxMoves      \* bound: rows dropped from or moved in the file

ASSUME StoreAssumption == {MaxReceipts, MaxWrites, MaxMoves} \subseteq Nat

VARIABLES
    ledger,    \* #receipts
    sealed,    \* the receipts as append sealed them
    written,   \* what the host wrote: [row, field]
    writes,
    exported,  \* the ledger as last exported, read back from JSON
    file,      \* the file
    moves

store == << ledger, sealed, written, writes >>
files == << exported, file, moves >>

Fields == {"body", "receipt_hash", "previous_hash"}

StoreInit ==
    /\ ledger = << >> /\ sealed = << >>
    /\ written = {} /\ writes = 0
    /\ exported = << >> /\ file = << >> /\ moves = 0

Rows(receipts) == 1..Len(receipts)

-----------------------------------------------------------------------------
(* ReceiptLedger *)

AppendBody(body) ==
    /\ Len(ledger) < MaxReceipts
    /\ ledger' = AppendReceipt(ledger, body)
    /\ sealed' = Append(sealed, Seal(ledger, body))
    /\ UNCHANGED << written, writes, files >>

\* The host assigns to a field of an object it got from append or all.
WriteReceipt(i, field, value) ==
    /\ writes < MaxWrites
    /\ ledger' = [ledger EXCEPT ![i] = [@ EXCEPT ![field] = value]]
    /\ written' = written \cup {[row |-> i, field |-> field]}
    /\ writes' = writes + 1
    /\ UNCHANGED << sealed, files >>

\* The checks verify makes of row i.
LinkOk(receipts, i) ==
    receipts[i].previous_hash = IF i = 1 THEN GenesisHash ELSE receipts[i - 1].receipt_hash

\* Plausible defect: the hash is looked up, not recomputed.
HashKept(receipts, i) == receipts[i].receipt_hash # GenesisHash

HashOk(receipts, i) == receipts[i].receipt_hash = HashReceiptBody(receipts[i].body)

RowOk(receipts, i) == LinkOk(receipts, i) /\ HashOk(receipts, i)

\* verify() returns brokenAt = i: it walks from the front and stops there.
BrokenAt(receipts, i) ==
    /\ i \in Rows(receipts) /\ ~RowOk(receipts, i)
    /\ \A j \in Rows(receipts) : j < i => RowOk(receipts, j)

Verified(receipts) == \A i \in Rows(receipts) : RowOk(receipts, i)

-----------------------------------------------------------------------------
(* JSON *)

\* Plausible defect: a field without a value is written as null.
JsonWithNull(body) == [k \in DOMAIN body |-> IF body[k] = Undefined THEN None ELSE body[k]]

\* JSON.stringify leaves out a key whose value is undefined (stableStringify,
\* which is hashed, does not).
Json(body) == [k \in {f \in DOMAIN body : body[f] # Undefined} |-> body[k]]

\* Bodies are records, and none of them, as sealed or as exported, hashes to the
\* genesis.
Stored == {Redact(b) : b \in Bodies} \cup Contents

ASSUME BodiesAssumption ==
    /\ \A b \in Bodies \cup Contents : b = [k \in DOMAIN b |-> b[k]]
    /\ GenesisHash \notin {HashReceiptBody(b) : b \in Stored \cup {Json(c) : c \in Stored}}

JsonReceipts(receipts) == [i \in Rows(receipts) |-> [receipts[i] EXCEPT !.body = Json(@)]]

Export ==
    /\ exported' = JsonReceipts(ledger)
    /\ file' = exported'
    /\ UNCHANGED << store, moves >>

Without(receipts, i) ==
    [k \in 1..(Len(receipts) - 1) |-> IF k < i THEN receipts[k] ELSE receipts[k + 1]]

DropRow(i) ==
    /\ moves < MaxMoves
    /\ file' = Without(file, i)
    /\ moves' = moves + 1
    /\ UNCHANGED << store, exported >>

SwapRows(i, j) ==
    /\ moves < MaxMoves
    /\ file' = [file EXCEPT ![i] = file[j], ![j] = file[i]]
    /\ moves' = moves + 1
    /\ UNCHANGED << store, exported >>

StoreNext ==
    \/ \E b \in Bodies : AppendBody(b)
    \/ \E i \in Rows(ledger), b \in Contents : WriteReceipt(i, "body", b)
    \/ \E i \in Rows(ledger), f \in {"receipt_hash", "previous_hash"}, h \in Values :
          WriteReceipt(i, f, h)
    \/ Export
    \/ \E i \in Rows(file) : DropRow(i)
    \/ \E i, j \in Rows(file) : i < j /\ SwapRows(i, j)

-----------------------------------------------------------------------------
\* receipt.mjs, "append-only, hash-chained ... forming a tamper-evident chain":
\* where verify() says a ledger breaks.  Everything before brokenAt has the body
\* it was sealed with, unless somebody also wrote its hash; and as long as
\* nobody wrote a hash, brokenAt is the first receipt whose body was written.
VerifyFindsFirst ==
    \A i \in Rows(ledger) : BrokenAt(ledger, i) =>
        /\ \A j \in 1..(i - 1) :
              ledger[j].body = sealed[j].body \/ [row |-> j, field |-> "receipt_hash"] \in written
        /\ (\A w \in written : w.field = "body") => ledger[i].body # sealed[i].body

\* What it takes to alter a receipt and leave the chain verified: its body, its
\* hash, and the link of its successor have to be written (all three: no write
\* alone, and no two), unless it was the head when its hash was written, and its
\* successor was then chained to the altered hash.
AlteringTakesThreeWrites ==
    Verified(ledger) =>
        \A i \in Rows(ledger) : ledger[i].body # sealed[i].body =>
            /\ {[row |-> i, field |-> "body"], [row |-> i, field |-> "receipt_hash"]} \subseteq written
            /\ i < Len(ledger) =>
                  \/ [row |-> i + 1, field |-> "previous_hash"] \in written
                  \/ sealed[i + 1].previous_hash = HashReceiptBody(ledger[i].body)

=============================================================================
