--------------------------- MODULE ExplorerProofs ---------------------------
(***************************************************************************)
(* What the chain of a ledger detects, and that the explorer's page says   *)
(* so: for ledgers of any length, any writes into receipts, any files and  *)
(* any number of overlapping renders.                                      *)
(***************************************************************************)
EXTENDS Explorer, WellFoundedInduction, TLAPS

Hashes0 == {GenesisHash} \cup {HashReceiptBody(b) : b \in Stored} \cup Values
Receipts0 == [body : Stored, previous_hash : Hashes0, receipt_hash : Hashes0]

SealedLinked(i) ==
    IF i = 1 THEN sealed[i].previous_hash = GenesisHash
    ELSE sealed[i].previous_hash = sealed[i - 1].receipt_hash
         \/ [row |-> i - 1, field |-> "receipt_hash"] \in written

\* A receipt's field differs from what append sealed only where the host wrote it;
\* append itself seals the hash of the body, and the link to the receipt before,
\* unless its hash was written before that.
StoreInv ==
    /\ ledger \in Seq(Receipts0) /\ sealed \in Seq(Receipts0)
    /\ Len(ledger) = Len(sealed)
    /\ \A i \in Rows(ledger) : \A f \in Fields :
          ledger[i][f] = sealed[i][f] \/ [row |-> i, field |-> f] \in written
    /\ \A i \in Rows(ledger) : sealed[i].receipt_hash = HashReceiptBody(sealed[i].body)
    /\ \A i \in Rows(ledger) : SealedLinked(i)
    /\ \A w \in written : w.field \in Fields

\* Everything read back from JSON is a list of exported receipts.
Exports == [body : {Json(b) : b \in Stored}, previous_hash : Hashes0, receipt_hash : Hashes0]

FilesInv == exported \in Seq(Exports) /\ file \in Seq(Exports)

\* Rows checked so far are right about their receipts, and prev is the hash the
\* next one is compared with.
CallInv(call) ==
    /\ call = [status |-> call.status, via |-> call.via, receipts |-> call.receipts,
               rows |-> call.rows, prev |-> call.prev]
    /\ call.receipts \in Seq(Exports)
    /\ call.rows \in Seq([linkOk : BOOLEAN, hashOk : BOOLEAN])
    /\ call.prev = IF Len(call.rows) = 0 THEN GenesisHash
                   ELSE call.receipts[Len(call.rows)].receipt_hash
    /\ \A i \in 1..Len(call.rows) : /\ call.rows[i].linkOk = LinkOk(call.receipts, i)
                                    /\ call.rows[i].hashOk = HashOk(call.receipts, i)

PageInv ==
    /\ render = [r \in Renders |-> render[r]]
    /\ \A r \in Renders : CallInv(render[r])
    /\ page = [badge |-> page.badge, judged |-> page.judged, cards |-> page.cards,
               rows |-> page.rows, threw |-> page.threw]
    /\ page.cards \in Seq(Exports)
    /\ BadgeTellsCards

\* What is appended to a sequence is its last element, and the rest stays.
LEMMA AppendFacts ==
    ASSUME NEW S, NEW seq \in Seq(S), NEW e \in S
    PROVE  /\ Append(seq, e) \in Seq(S) /\ Len(Append(seq, e)) = Len(seq) + 1
           /\ Append(seq, e)[Len(seq) + 1] = e
           /\ \A i \in 1..Len(seq) : Append(seq, e)[i] = seq[i] /\ seq[i] \in S
           /\ \A i \in 1..(Len(seq) + 1) : i \in 1..Len(seq) \/ i = Len(seq) + 1
           /\ Len(seq) \in Nat
OBVIOUS

\* Replacing an element of a sequence leaves the others.
LEMMA ReplaceFacts ==
    ASSUME NEW S, NEW seq \in Seq(S), NEW e \in S, NEW i \in 1..Len(seq)
    PROVE  /\ [seq EXCEPT ![i] = e] \in Seq(S) /\ Len([seq EXCEPT ![i] = e]) = Len(seq)
           /\ [seq EXCEPT ![i] = e][i] = e /\ seq[i] \in S
           /\ \A j \in 1..Len(seq) : j # i => [seq EXCEPT ![i] = e][j] = seq[j]
OBVIOUS

\* The hash of a body tells the body.
LEMMA HashIsInjective ==
    \A a, b : HashReceiptBody(a) = HashReceiptBody(b) => a = b
<1> SUFFICES ASSUME NEW a, NEW b, HashReceiptBody(a) = HashReceiptBody(b)
             PROVE  a = b
  OBVIOUS
<1>1. HashReceiptBody(a).sha256 = a /\ HashReceiptBody(b).sha256 = b
  BY DEF HashReceiptBody
<1> QED
  BY <1>1

-----------------------------------------------------------------------------
(* The ledger *)

\* append seals the redacted body behind the head as it is.
LEMMA AppendStep ==
    ASSUME StoreInv, NEW b \in Bodies, AppendBody(b)
    PROVE  StoreInv'
<1> DEFINE receipt == Seal(ledger, b)
<1>1. /\ ledger' = Append(ledger, receipt) /\ sealed' = Append(sealed, receipt)
      /\ written' = written
  BY DEF AppendBody, AppendReceipt
<1>2. /\ ledger \in Seq(Receipts0) /\ sealed \in Seq(Receipts0)
      /\ Len(ledger) = Len(sealed) /\ Len(ledger) \in Nat
      /\ \A i \in 1..Len(ledger) : ledger[i] \in Receipts0
  BY AppendFacts DEF StoreInv
<1>3. /\ HeadHash(ledger) \in Hashes0
      /\ Len(ledger) = 0 => HeadHash(ledger) = GenesisHash
      /\ Len(ledger) > 0 => HeadHash(ledger) = ledger[Len(ledger)].receipt_hash
  <2>1. CASE ledger = << >>
    BY <2>1 DEF HeadHash, Hashes0
  <2>2. CASE ledger # << >>
    <3>1. Len(ledger) \in 1..Len(ledger)
      BY <1>2, <2>2
    <3>2. ledger[Len(ledger)] \in Receipts0
      BY <1>2, <3>1
    <3> QED
      BY <2>2, <3>1, <3>2 DEF HeadHash, Receipts0
  <2> QED
    BY <2>1, <2>2
<1>4. /\ receipt \in Receipts0
      /\ receipt.receipt_hash = HashReceiptBody(receipt.body)
      /\ receipt.previous_hash = HeadHash(ledger)
  <2>1. Redact(b) \in Stored
    BY DEF Stored
  <2>2. HashReceiptBody(Redact(b)) \in Hashes0
    BY <2>1 DEF Hashes0
  <2> QED
    BY <1>3, <2>1, <2>2 DEF Seal, Receipts0
<1> HIDE DEF receipt
<1>5. /\ ledger' \in Seq(Receipts0) /\ sealed' \in Seq(Receipts0)
      /\ Len(ledger') = Len(ledger) + 1 /\ Len(sealed') = Len(ledger) + 1
      /\ ledger'[Len(ledger) + 1] = receipt /\ sealed'[Len(ledger) + 1] = receipt
      /\ \A i \in Rows(ledger) : ledger'[i] = ledger[i] /\ sealed'[i] = sealed[i]
      /\ \A i \in Rows(ledger') : i \in Rows(ledger) \/ i = Len(ledger) + 1
  BY <1>1, <1>2, <1>4, AppendFacts DEF Rows
<1>6. \A i \in Rows(ledger') : \A f \in Fields :
          ledger'[i][f] = sealed'[i][f] \/ [row |-> i, field |-> f] \in written
  BY <1>5 DEF StoreInv
<1>7. \A i \in Rows(ledger') : sealed'[i].receipt_hash = HashReceiptBody(sealed'[i].body)
  BY <1>4, <1>5 DEF StoreInv
<1>8. \A i \in Rows(ledger') : SealedLinked(i)'
  <2> SUFFICES ASSUME NEW i \in Rows(ledger')
               PROVE  SealedLinked(i)'
    OBVIOUS
  <2>1. CASE i \in Rows(ledger)
    <3>1. SealedLinked(i) /\ (i # 1 => i - 1 \in Rows(ledger))
      BY <1>2, <2>1 DEF Rows, StoreInv
    <3> QED
      BY <1>1, <1>5, <2>1, <3>1 DEF SealedLinked
  <2>2. CASE i = Len(ledger) + 1 /\ Len(ledger) = 0
    BY <1>3, <1>4, <1>5, <2>2 DEF SealedLinked
  <2>3. CASE i = Len(ledger) + 1 /\ Len(ledger) > 0
    <3>1. Len(ledger) \in Rows(ledger) /\ i - 1 = Len(ledger) /\ i # 1
      BY <1>2, <2>3 DEF Rows
    <3>2. \/ ledger[Len(ledger)].receipt_hash = sealed[Len(ledger)].receipt_hash
          \/ [row |-> Len(ledger), field |-> "receipt_hash"] \in written
      BY <3>1 DEF StoreInv, Fields
    <3> QED
      BY <1>1, <1>3, <1>4, <1>5, <2>3, <3>1, <3>2 DEF SealedLinked
  <2> QED
    BY <1>2, <1>5, <2>1, <2>2, <2>3
<1> QED
  BY <1>1, <1>5, <1>6, <1>7, <1>8 DEF StoreInv

\* A write changes one field of one receipt, and is remembered.
LEMMA WriteStep ==
    ASSUME StoreInv, NEW i \in Rows(ledger), NEW field \in Fields, NEW value,
           field = "body" => value \in Contents, field # "body" => value \in Values,
           WriteReceipt(i, field, value)
    PROVE  StoreInv'
<1> DEFINE receipt == [ledger[i] EXCEPT ![field] = value]
           w == [row |-> i, field |-> field]
<1>1. /\ ledger' = [ledger EXCEPT ![i] = receipt] /\ sealed' = sealed
      /\ written' = written \cup {w}
  BY DEF WriteReceipt
<1>2. ledger \in Seq(Receipts0) /\ i \in 1..Len(ledger)
  BY DEF StoreInv, Rows
<1>3. ledger[i] \in Receipts0
  BY <1>2
<1>4. (field = "body" => value \in Stored) /\ (field # "body" => value \in Hashes0)
  BY DEF Stored, Hashes0
<1>5. /\ receipt \in Receipts0
      /\ \A f \in Fields : f # field => receipt[f] = ledger[i][f]
  <2>1. CASE field = "body"
    BY <1>3, <1>4, <2>1 DEF Receipts0, Fields
  <2>2. CASE field = "receipt_hash"
    BY <1>3, <1>4, <2>2 DEF Receipts0, Fields
  <2>3. CASE field = "previous_hash"
    BY <1>3, <1>4, <2>3 DEF Receipts0, Fields
  <2> QED
    BY <2>1, <2>2, <2>3 DEF Fields
<1>6. w.field \in Fields
  OBVIOUS
<1> HIDE DEF receipt
<1>7. /\ ledger' \in Seq(Receipts0) /\ Len(ledger') = Len(ledger)
      /\ ledger'[i] = receipt
      /\ \A j \in 1..Len(ledger) : j # i => ledger'[j] = ledger[j]
  BY <1>1, <1>2, <1>5, ReplaceFacts
<1>8. \A j \in Rows(ledger) : \A f \in Fields :
          ledger'[j][f] = sealed[j][f] \/ [row |-> j, field |-> f] \in written'
  <2> SUFFICES ASSUME NEW j \in Rows(ledger), NEW f \in Fields,
                      [row |-> j, field |-> f] \notin written'
               PROVE  ledger'[j][f] = sealed[j][f]
    OBVIOUS
  <2>1. ledger[j][f] = sealed[j][f] /\ (j # i \/ f # field)
    BY <1>1 DEF StoreInv
  <2> QED
    BY <1>5, <1>7, <2>1 DEF Rows
<1> QED
  BY <1>1, <1>6, <1>7, <1>8 DEF StoreInv, Rows, SealedLinked

\* No step of a page or of the file touches the ledger.
LEMMA StoreStep ==
    ASSUME StoreInv, [PageNext]_pageVars
    PROVE  StoreInv'
<1>1. CASE UNCHANGED store
  BY <1>1 DEF store, StoreInv, Rows, SealedLinked
<1>2. ASSUME NEW b \in Bodies, AppendBody(b) PROVE StoreInv'
  BY <1>2, AppendStep
<1>3. ASSUME NEW i \in Rows(ledger), NEW b \in Contents, WriteReceipt(i, "body", b)
      PROVE  StoreInv'
  BY <1>3, WriteStep DEF Fields
<1>4. ASSUME NEW i \in Rows(ledger), NEW f \in {"receipt_hash", "previous_hash"},
             NEW h \in Values, WriteReceipt(i, f, h)
      PROVE  StoreInv'
  BY <1>4, WriteStep DEF Fields
<1> QED
  BY <1>1, <1>2, <1>3, <1>4
     DEF PageNext, StoreNext, pageVars, storeVars, Export, DropRow, SwapRows,
         ScriptLoads, ScriptMissing, FetchArrives, FetchFails, Paste, Render, HashRow,
         Show, ShowThrows

\* What the host's writes explain, and what they leave in place.
LEMMA StoreMeans == StoreInv => VerifyFindsFirst /\ AlteringTakesThreeWrites
<1> SUFFICES ASSUME StoreInv
             PROVE  VerifyFindsFirst /\ AlteringTakesThreeWrites
  OBVIOUS
<1>0. Len(ledger) \in Nat
  BY AppendFacts DEF StoreInv
<1>1. ASSUME NEW i \in Rows(ledger), HashOk(ledger, i),
             [row |-> i, field |-> "receipt_hash"] \notin written
      PROVE  ledger[i].body = sealed[i].body
  BY <1>1, HashIsInjective DEF HashOk, StoreInv, Fields
<1>2. ASSUME NEW i \in Rows(ledger), BrokenAt(ledger, i)
      PROVE  /\ \A j \in 1..(i - 1) :
                   ledger[j].body = sealed[j].body
                     \/ [row |-> j, field |-> "receipt_hash"] \in written
             /\ (\A w \in written : w.field = "body") => ledger[i].body # sealed[i].body
  <2>1. \A j \in 1..(i - 1) : j \in Rows(ledger) /\ HashOk(ledger, j)
    BY <1>0, <1>2 DEF BrokenAt, RowOk, Rows
  <2>2. ASSUME \A w \in written : w.field = "body", ledger[i].body = sealed[i].body
        PROVE  FALSE
    <3>1. \A j \in Rows(ledger) : /\ [row |-> j, field |-> "receipt_hash"] \notin written
                                  /\ [row |-> j, field |-> "previous_hash"] \notin written
      BY <2>2
    <3>2. \A j \in Rows(ledger) : /\ ledger[j].receipt_hash = sealed[j].receipt_hash
                                  /\ ledger[j].previous_hash = sealed[j].previous_hash
      BY <3>1 DEF StoreInv, Fields
    <3>3. HashOk(ledger, i)
      BY <2>2, <3>2 DEF HashOk, StoreInv
    <3>4. LinkOk(ledger, i)
      <4>1. CASE i = 1
        BY <3>2, <4>1 DEF LinkOk, StoreInv, SealedLinked
      <4>2. CASE i # 1
        <5>1. i - 1 \in Rows(ledger)
          BY <1>0, <4>2 DEF Rows
        <5>2. sealed[i].previous_hash = sealed[i - 1].receipt_hash
          BY <3>1, <4>2, <5>1 DEF StoreInv, SealedLinked
        <5> QED
          BY <3>2, <4>2, <5>1, <5>2 DEF LinkOk
      <4> QED
        BY <4>1, <4>2
    <3> QED
      BY <1>2, <3>3, <3>4 DEF BrokenAt, RowOk
  <2> QED
    BY <1>1, <2>1, <2>2
<1>3. ASSUME NEW i \in Rows(ledger), Verified(ledger), ledger[i].body # sealed[i].body
      PROVE  /\ {[row |-> i, field |-> "body"], [row |-> i, field |-> "receipt_hash"]}
                    \subseteq written
             /\ i < Len(ledger) =>
                  \/ [row |-> i + 1, field |-> "previous_hash"] \in written
                  \/ sealed[i + 1].previous_hash = HashReceiptBody(ledger[i].body)
  <2>1. HashOk(ledger, i)
    BY <1>3 DEF Verified, RowOk
  <2>2. /\ [row |-> i, field |-> "body"] \in written
        /\ [row |-> i, field |-> "receipt_hash"] \in written
    BY <1>1, <1>3, <2>1 DEF StoreInv, Fields
  <2>3. ASSUME i < Len(ledger), [row |-> i + 1, field |-> "previous_hash"] \notin written
        PROVE  sealed[i + 1].previous_hash = HashReceiptBody(ledger[i].body)
    <3>1. i + 1 \in Rows(ledger) /\ (i + 1) - 1 = i /\ i + 1 # 1
      BY <1>0, <2>3 DEF Rows
    <3>2. ledger[i + 1].previous_hash = sealed[i + 1].previous_hash
      BY <2>3, <3>1 DEF StoreInv, Fields
    <3>3. ledger[i + 1].previous_hash = ledger[i].receipt_hash
      BY <1>3, <3>1 DEF Verified, RowOk, LinkOk
    <3> QED
      BY <2>1, <3>2, <3>3 DEF HashOk
  <2> QED
    BY <2>2, <2>3
<1> QED
  BY <1>2, <1>3 DEF VerifyFindsFirst, AlteringTakesThreeWrites

\* The writes of the host account for the ledger in every state.
LEMMA StoreInvariant == PageSpec => []StoreInv
<1>1. PageInit => StoreInv
  BY DEF PageInit, StoreInit, StoreInv, Rows
<1>2. StoreInv /\ [PageNext]_pageVars => StoreInv'
  BY StoreStep
<1> QED
  BY <1>1, <1>2, PTL DEF PageSpec

\* verify() points at the first receipt that was altered, unless its hash was written
\* with its body.
THEOREM BrokenAtIsFirst == PageSpec => []VerifyFindsFirst
BY StoreInvariant, StoreMeans, PTL

\* An alteration verify() does not notice took a write to the body, one to its hash,
\* and one to the next link.
THEOREM ChainDetects == PageSpec => []AlteringTakesThreeWrites
BY StoreInvariant, StoreMeans, PTL

-----------------------------------------------------------------------------
(* The export *)

\* Exporting a body changes nothing exactly when every field of it has a value.
LEMMA JsonKeeps ==
    ASSUME NEW b \in Stored
    PROVE  Json(b) = b <=> DOMAIN Json(b) = DOMAIN b
<1>1. b = [k \in DOMAIN b |-> b[k]]
  <2>1. CASE b \in Contents
    BY <2>1, BodiesAssumption
  <2>2. ASSUME NEW c \in Bodies, b = Redact(c) PROVE b = [k \in DOMAIN b |-> b[k]]
    BY <2>2 DEF Redact
  <2> QED
    BY <2>1, <2>2 DEF Stored
<1>2. /\ Json(b) = [k \in DOMAIN Json(b) |-> Json(b)[k]]
      /\ \A k \in DOMAIN Json(b) : Json(b)[k] = b[k]
  BY DEF Json
<1> QED
  BY <1>1, <1>2

\* The receipt a row of an export was made of.
IsExport(row, receipt) ==
    /\ row.body = Json(receipt.body)
    /\ row.previous_hash = receipt.previous_hash
    /\ row.receipt_hash = receipt.receipt_hash

\* The exported bodies are JSON of stored ones; as long as the host wrote nothing, the
\* export is the ledger up to some receipt.
ExportInv ==
    /\ Len(exported) \in Nat
    /\ \A i \in Rows(exported) : \E b \in Stored : exported[i].body = Json(b)
    /\ written = {} => Len(exported) <= Len(ledger)
                        /\ \A i \in Rows(exported) : IsExport(exported[i], ledger[i])

\* The rows of an export.
LEMMA ExportRows ==
    ASSUME StoreInv, Export
    PROVE  /\ Len(exported') = Len(ledger) /\ Len(ledger) \in Nat
           /\ \A i \in Rows(ledger) : IsExport(exported'[i], ledger[i])
<1>1. ledger \in Seq(Receipts0) /\ exported' = JsonReceipts(ledger)
  BY DEF StoreInv, Export
<1>2. Len(ledger) \in Nat /\ \A i \in Rows(ledger) : ledger[i] \in Receipts0
  BY <1>1, AppendFacts DEF Rows
<1>3. Len(exported') = Len(ledger)
  BY <1>1, <1>2 DEF JsonReceipts, Rows
<1>4. ASSUME NEW i \in Rows(ledger) PROVE IsExport(exported'[i], ledger[i])
  <2>1. exported'[i] = [ledger[i] EXCEPT !.body = Json(ledger[i].body)]
    BY <1>1 DEF JsonReceipts
  <2>2. ledger[i] \in Receipts0
    BY <1>2
  <2> QED
    BY <2>1, <2>2 DEF Receipts0, IsExport
<1> QED
  BY <1>2, <1>3, <1>4

\* A write is remembered, an append leaves the rows before it, an export copies.
LEMMA ExportStep ==
    ASSUME StoreInv, ExportInv, [PageNext]_pageVars
    PROVE  ExportInv'
<1>1. CASE UNCHANGED << ledger, written, exported >>
  BY <1>1 DEF ExportInv, Rows, IsExport
<1>2. ASSUME NEW b \in Bodies, AppendBody(b) PROVE ExportInv'
  <2>1. /\ ledger' = Append(ledger, Seal(ledger, b)) /\ ledger \in Seq(Receipts0)
        /\ written' = written /\ exported' = exported
    BY <1>2 DEF AppendBody, AppendReceipt, files, StoreInv
  <2> DEFINE receipt == Seal(ledger, b)
  <2> HIDE DEF receipt
  <2>2. ledger' = Append(ledger, receipt)
    BY <2>1 DEF receipt
  <2>3. /\ Len(ledger) \in Nat /\ Len(ledger') = Len(ledger) + 1
        /\ \A i \in 1..Len(ledger) : ledger'[i] = ledger[i]
    BY <2>1, <2>2
  <2> QED
    BY <2>1, <2>3 DEF ExportInv, Rows, IsExport
<1>3. ASSUME NEW i \in Rows(ledger), NEW field, NEW value, WriteReceipt(i, field, value)
      PROVE  ExportInv'
  <2>1. exported' = exported /\ written' # {}
    BY <1>3 DEF WriteReceipt, files
  <2> QED
    BY <2>1 DEF ExportInv, Rows
<1>4. CASE Export
  <2>1. ledger' = ledger /\ ledger \in Seq(Receipts0)
    BY <1>4 DEF Export, store, StoreInv
  <2>2. \A i \in Rows(ledger) : ledger[i].body \in Stored
    <3>1. \A i \in Rows(ledger) : ledger[i] \in Receipts0
      BY <2>1, AppendFacts DEF Rows
    <3> QED
      BY <3>1 DEF Receipts0
  <2> QED
    BY <1>4, <2>1, <2>2, ExportRows DEF ExportInv, Rows, IsExport
<1> QED
  BY <1>1, <1>2, <1>3, <1>4
     DEF PageNext, StoreNext, pageVars, storeVars, store, files, DropRow, SwapRows,
         ScriptLoads, ScriptMissing, FetchArrives, FetchFails, Paste, Render, HashRow,
         Show, ShowThrows

\* Where the export comes from, in every state.
LEMMA ExportInvariant == PageSpec => []ExportInv
<1>1. PageInit => ExportInv
  BY DEF PageInit, StoreInit, ExportInv, Rows
<1>2. StoreInv /\ ExportInv /\ [PageNext]_pageVars => ExportInv'
  BY ExportStep
<1> QED
  BY <1>1, <1>2, StoreInvariant, PTL DEF PageSpec

\* An untouched ledger verifies; its export does exactly when no field of a receipt was
\* lost on the way to the file.
THEOREM ExportTellsVerdict == PageSpec => []ExportKeepsVerdict
<1>1. StoreInv /\ ExportInv => ExportKeepsVerdict
  <2> SUFFICES ASSUME StoreInv, ExportInv, written = {}
               PROVE  Verified(exported) <=>
                        \A i \in Rows(exported) : DOMAIN exported[i].body = DOMAIN sealed[i].body
    BY DEF ExportKeepsVerdict
  <2>1. ASSUME NEW i \in Rows(exported)
        PROVE  RowOk(exported, i) <=> DOMAIN exported[i].body = DOMAIN sealed[i].body
    <3>1. /\ i \in Rows(ledger) /\ ledger \in Seq(Receipts0)
          /\ i # 1 => i - 1 \in Rows(ledger) /\ i - 1 \in Rows(exported)
      BY AppendFacts DEF ExportInv, StoreInv, Rows
    <3>2. \A j \in Rows(ledger) : /\ ledger[j].body = sealed[j].body
                                   /\ ledger[j].previous_hash = sealed[j].previous_hash
                                   /\ ledger[j].receipt_hash = sealed[j].receipt_hash
      BY DEF StoreInv, Fields
    <3>3. /\ exported[i].body = Json(sealed[i].body)
          /\ exported[i].previous_hash = sealed[i].previous_hash
          /\ exported[i].receipt_hash = HashReceiptBody(sealed[i].body)
          /\ i # 1 => exported[i - 1].receipt_hash = sealed[i - 1].receipt_hash
      BY <3>1, <3>2 DEF ExportInv, IsExport, StoreInv
    <3>4. LinkOk(exported, i)
      BY <3>1, <3>3 DEF LinkOk, StoreInv, SealedLinked
    <3>5. HashOk(exported, i) <=> Json(sealed[i].body) = sealed[i].body
      BY <3>3, HashIsInjective DEF HashOk
    <3>6. sealed[i].body \in Stored
      <4>1. ledger[i] \in Receipts0
        BY <3>1, AppendFacts DEF Rows
      <4> QED
        BY <3>1, <3>2, <4>1 DEF Receipts0
    <3> QED
      BY <3>3, <3>4, <3>5, <3>6, JsonKeeps DEF RowOk
  <2> QED
    BY <2>1 DEF Verified
<1> QED
  BY <1>1, StoreInvariant, ExportInvariant, PTL

-----------------------------------------------------------------------------
(* What is read back *)

\* Dropping a row leaves a list of the others.
LEMMA WithoutTyped ==
    ASSUME NEW S, NEW seq \in Seq(S), NEW i \in Rows(seq)
    PROVE  Without(seq, i) \in Seq(S)
<1>1. /\ Len(seq) - 1 \in Nat
      /\ \A k \in 1..(Len(seq) - 1) : seq[k] \in S /\ seq[k + 1] \in S
  <2>1. Len(seq) \in Nat /\ \A k \in 1..Len(seq) : seq[k] \in S
    OBVIOUS
  <2>2. \A k \in 1..(Len(seq) - 1) : k \in 1..Len(seq) /\ k + 1 \in 1..Len(seq)
    BY <2>1
  <2> QED
    BY <2>1, <2>2 DEF Rows
<1> DEFINE n == Len(seq) - 1
<1>2. \A k \in 1..n : Without(seq, i)[k] \in S
  BY <1>1 DEF Without
<1>3. Without(seq, i) = [k \in 1..n |-> Without(seq, i)[k]]
  BY DEF Without
<1> HIDE DEF n
<1>4. n \in Nat
  BY <1>1 DEF n
<1> QED
  BY <1>2, <1>3, <1>4

\* The ledger exported.
LEMMA ExportTyped == ASSUME StoreInv PROVE JsonReceipts(ledger) \in Seq(Exports)
<1> DEFINE list == JsonReceipts(ledger)
<1>1. Len(ledger) \in Nat /\ \A i \in 1..Len(ledger) : ledger[i] \in Receipts0
  BY AppendFacts DEF StoreInv
<1>2. \A i \in 1..Len(ledger) : list[i] \in Exports
  BY <1>1 DEF JsonReceipts, Rows, Receipts0, Exports
<1>3. list = [i \in 1..Len(ledger) |-> list[i]]
  BY DEF JsonReceipts, Rows
<1> HIDE DEF list
<1>4. list \in Seq(Exports)
  BY <1>1, <1>2, <1>3
<1> QED
  BY <1>4 DEF list

\* Exporting, dropping and moving rows keep to such lists.
LEMMA FilesStep ==
    ASSUME StoreInv, FilesInv, [PageNext]_pageVars
    PROVE  FilesInv'
<1>1. CASE UNCHANGED << exported, file >>
  BY <1>1 DEF FilesInv
<1>2. CASE Export
  BY <1>2, ExportTyped DEF Export, FilesInv
<1>3. ASSUME NEW i \in Rows(file), DropRow(i) PROVE FilesInv'
  BY <1>3, WithoutTyped DEF DropRow, FilesInv
<1>4. ASSUME NEW i \in Rows(file), NEW j \in Rows(file), SwapRows(i, j) PROVE FilesInv'
  <2>1. file' = [file EXCEPT ![i] = file[j], ![j] = file[i]] /\ exported' = exported
    BY <1>4 DEF SwapRows
  <2>2. file \in Seq(Exports) /\ i \in 1..Len(file) /\ j \in 1..Len(file)
    BY DEF FilesInv, Rows
  <2>3. file[i] \in Exports /\ file[j] \in Exports
    BY <2>2
  <2> DEFINE half == [file EXCEPT ![i] = file[j]]
  <2>4. half \in Seq(Exports) /\ Len(half) = Len(file)
    BY <2>2, <2>3, ReplaceFacts
  <2>5. file' = [half EXCEPT ![j] = file[i]]
    BY <2>1
  <2> HIDE DEF half
  <2>6. file' \in Seq(Exports)
    BY <2>2, <2>3, <2>4, <2>5, ReplaceFacts
  <2> QED
    BY <1>4, <2>1, <2>6 DEF FilesInv
<1> QED
  BY <1>1, <1>2, <1>3, <1>4
     DEF PageNext, StoreNext, pageVars, storeVars, files, AppendBody, WriteReceipt,
         ScriptLoads, ScriptMissing, FetchArrives, FetchFails, Paste, Render, HashRow,
         Show, ShowThrows

\* In every state.
LEMMA FilesInvariant == PageSpec => []FilesInv
<1>1. PageInit => FilesInv
  BY DEF PageInit, StoreInit, FilesInv
<1>2. StoreInv /\ FilesInv /\ [PageNext]_pageVars => FilesInv'
  BY FilesStep
<1> QED
  BY <1>1, <1>2, StoreInvariant, PTL DEF PageSpec

-----------------------------------------------------------------------------
(* The page *)

\* A render that starts has checked nothing.
LEMMA RenderStep ==
    ASSUME FilesInv, PageInv, NEW r \in Renders, NEW how, Render(r, how)
    PROVE  PageInv'
<1> DEFINE next == [status |-> "hashing", via |-> how, receipts |-> file, rows |-> << >>,
                    prev |-> GenesisHash]
<1>1. render' = [q \in Renders |-> IF q = r THEN next ELSE render[q]] /\ page' = page
  BY DEF Render, PageInv
<1>2. CallInv(next)
  BY DEF CallInv, FilesInv
<1> HIDE DEF next
<1>3. \A q \in Renders : CallInv(render'[q])
  BY <1>1, <1>2 DEF PageInv
<1>4. render' = [q \in Renders |-> render'[q]]
  BY <1>1
<1> QED
  BY <1>1, <1>3, <1>4 DEF PageInv, BadgeTellsCards

\* A render that has one more row checked, right about its receipt.
LEMMA HashRowStep ==
    ASSUME PageInv, NEW r \in Renders, HashRow(r)
    PROVE  PageInv'
<1> DEFINE call == render[r]
           i == Len(call.rows) + 1
           receipt == call.receipts[i]
           row == [linkOk |-> receipt.previous_hash = call.prev,
                   hashOk |-> HashOk(call.receipts, i)]
           next == [status |-> "hashing", via |-> call.via, receipts |-> call.receipts,
                    rows |-> Append(call.rows, row), prev |-> receipt.receipt_hash]
<1>1. /\ CallInv(call) /\ page' = page /\ render = [q \in Renders |-> render[q]]
      /\ Len(call.rows) \in Nat /\ BadgeTellsCards
  BY AppendFacts DEF HashRow, PageInv, CallInv
<1>2. render' = [render EXCEPT ![r] = next]
  BY <1>1 DEF HashRow, NextPrev
<1>3. CallInv(next)
  <2>1. row \in [linkOk : BOOLEAN, hashOk : BOOLEAN]
    BY DEF HashOk
  <2>2. row.linkOk = LinkOk(call.receipts, i) /\ row.hashOk = HashOk(call.receipts, i)
    BY <1>1 DEF LinkOk, CallInv
  <2> DEFINE rows == Append(call.rows, row)
  <2>3. /\ next = [status |-> next.status, via |-> next.via, receipts |-> next.receipts,
                   rows |-> next.rows, prev |-> next.prev]
        /\ next.receipts = call.receipts /\ next.rows = rows
        /\ next.prev = call.receipts[i].receipt_hash
    OBVIOUS
  <2> HIDE DEF row
  <2>4. /\ rows \in Seq([linkOk : BOOLEAN, hashOk : BOOLEAN])
        /\ Len(rows) = i /\ rows[i] = row /\ i # 0
        /\ \A j \in 1..Len(call.rows) : rows[j] = call.rows[j]
        /\ \A j \in 1..Len(rows) : j \in 1..Len(call.rows) \/ j = i
    BY <1>1, <2>1, AppendFacts DEF CallInv
  <2> HIDE DEF rows, next
  <2>5. \A j \in 1..Len(rows) : /\ rows[j].linkOk = LinkOk(call.receipts, j)
                               /\ rows[j].hashOk = HashOk(call.receipts, j)
    BY <1>1, <2>2, <2>4 DEF CallInv
  <2> QED
    BY <1>1, <2>3, <2>4, <2>5 DEF CallInv
<1> HIDE DEF next
<1>4. render' = [q \in Renders |-> IF q = r THEN next ELSE render[q]]
  BY <1>1, <1>2
<1>5. \A q \in Renders : CallInv(render'[q])
  BY <1>3, <1>4 DEF PageInv
<1>6. render' = [q \in Renders |-> render'[q]]
  BY <1>4
<1> QED
  BY <1>1, <1>5, <1>6 DEF PageInv, BadgeTellsCards

\* A render that has checked every receipt was right about each, and so is any beginning
\* of its cards.
LEMMA CardsTell ==
    ASSUME NEW call, CallInv(call), Len(call.rows) = Len(call.receipts),
           NEW n \in 0..Len(call.receipts)
    PROVE  LET cards == SubSeq(call.receipts, 1, n) IN
           /\ cards \in Seq(Exports)
           /\ MarksTellFirst(cards, SubSeq(call.rows, 1, n))
<1> DEFINE cards == SubSeq(call.receipts, 1, n)
           rows == SubSeq(call.rows, 1, n)
<1>1. /\ call.receipts \in Seq(Exports) /\ Len(call.receipts) \in Nat
      /\ call.rows \in Seq([linkOk : BOOLEAN, hashOk : BOOLEAN])
  BY DEF CallInv
<1>2. /\ cards \in Seq(Exports) /\ Len(cards) = n /\ Len(rows) = n
      /\ \A i \in 1..n : cards[i] = call.receipts[i] /\ rows[i] = call.rows[i]
  BY <1>1
<1> HIDE DEF cards, rows
<1>3. \A i \in 1..n : Ok(rows[i]) <=> RowOk(cards, i)
  <2> SUFFICES ASSUME NEW i \in 1..n PROVE Ok(rows[i]) <=> RowOk(cards, i)
    OBVIOUS
  <2>1. i \in 1..Len(call.rows) /\ (i # 1 => i - 1 \in 1..n)
    BY <1>1
  <2>2. LinkOk(cards, i) = LinkOk(call.receipts, i) /\ HashOk(cards, i) = HashOk(call.receipts, i)
    BY <1>2, <2>1 DEF LinkOk, HashOk
  <2> QED
    BY <1>2, <2>1, <2>2 DEF CallInv, Ok, RowOk
<1>4. MarksTellFirst(cards, rows)
  BY <1>2, <1>3 DEF MarksTellFirst, BrokenAt, Rows
<1> QED
  BY <1>2, <1>4 DEF cards, rows

\* The badge such a render sets is verify()'s verdict.
LEMMA BadgeTells ==
    ASSUME NEW call, CallInv(call), Len(call.rows) = Len(call.receipts)
    PROVE  /\ Badge(call.rows) = "verified" <=> Verified(call.receipts)
           /\ call.receipts \in Seq(Exports)
           /\ MarksTellFirst(call.receipts, call.rows)
<1>1. \A i \in Rows(call.receipts) : Ok(call.rows[i]) <=> RowOk(call.receipts, i)
  BY DEF CallInv, Rows, Ok, RowOk, LinkOk, HashOk
<1>2. AllOk(call.rows) <=> Verified(call.receipts)
  BY <1>1 DEF AllOk, Verified, Rows
<1> QED
  BY <1>1, <1>2 DEF CallInv, Badge, MarksTellFirst, BrokenAt

\* A call that is done is otherwise what it was.
LEMMA DoneStep ==
    ASSUME PageInv, NEW r \in Renders, render' = [render EXCEPT ![r].status = "done"]
    PROVE  /\ render' = [q \in Renders |-> render'[q]]
           /\ \A q \in Renders : CallInv(render'[q])
<1> DEFINE call == render[r]
           next == [status |-> "done", via |-> call.via, receipts |-> call.receipts,
                    rows |-> call.rows, prev |-> call.prev]
<1>1. CallInv(call) /\ render = [q \in Renders |-> render[q]]
  BY DEF PageInv
<1>2. render' = [q \in Renders |-> IF q = r THEN next ELSE render[q]]
  <2>1. call = [status |-> call.status, via |-> call.via, receipts |-> call.receipts,
                rows |-> call.rows, prev |-> call.prev]
    BY <1>1 DEF CallInv
  <2>2. [call EXCEPT !.status = "done"] = next
    BY <2>1
  <2>3. render' = [render EXCEPT ![r] = [call EXCEPT !.status = "done"]]
    BY <1>1
  <2> QED
    BY <1>1, <2>2, <2>3
<1>3. CallInv(next)
  BY <1>1 DEF CallInv
<1> HIDE DEF next
<1> QED
  BY <1>2, <1>3 DEF PageInv

\* What is shown is the verdict of verify() on the receipts shown.
LEMMA ShowStep ==
    ASSUME PageInv, NEW r \in Renders, Show(r)
    PROVE  PageInv'
<1> DEFINE call == render[r]
<1>1. /\ CallInv(call) /\ Len(call.rows) = Len(call.receipts)
      /\ page' = [badge |-> Badge(call.rows), judged |-> call.receipts,
                  cards |-> call.receipts, rows |-> call.rows, threw |-> FALSE]
  BY DEF Show, Checked, PageInv
<1>2. /\ render' = [q \in Renders |-> render'[q]]
      /\ \A q \in Renders : CallInv(render'[q])
  BY DoneStep DEF Show
<1>3. page'.cards \in Seq(Exports) /\ BadgeTellsCards'
  BY <1>1, BadgeTells DEF BadgeTellsCards
<1> QED
  BY <1>1, <1>2, <1>3 DEF PageInv

\* What is left when drawing throws: a verdict, not on the cards; the cards of before or
\* the first ones of the new run.
LEMMA ShowThrowsStep ==
    ASSUME PageInv, NEW r \in Renders, ShowThrows(r)
    PROVE  PageInv'
<1> DEFINE call == render[r]
           kept(cards, rows) ==
               page' = [badge  |-> IF call.via = "fetch" THEN "load a run" ELSE Badge(call.rows),
                        judged |-> call.receipts, cards |-> cards, rows |-> rows,
                        threw  |-> TRUE]
<1>1. CallInv(call) /\ Len(call.rows) = Len(call.receipts)
  BY DEF ShowThrows, Checked, PageInv
<1>2. PICK cards, rows :
         kept(cards, rows) /\ cards \in Seq(Exports) /\ MarksTellFirst(cards, rows)
  <2>1. CASE kept(page.cards, page.rows)
    BY <2>1 DEF PageInv, BadgeTellsCards
  <2>2. ASSUME NEW n \in 0..(Len(call.receipts) - 1),
               kept(SubSeq(call.receipts, 1, n), SubSeq(call.rows, 1, n))
        PROVE  \E cards, rows :
                  kept(cards, rows) /\ cards \in Seq(Exports) /\ MarksTellFirst(cards, rows)
    <3> HIDE DEF kept
    <3>1. n \in 0..Len(call.receipts)
      BY <1>1 DEF CallInv
    <3> QED
      BY <1>1, <2>2, <3>1, CardsTell
  <2> QED
    BY <2>1, <2>2 DEF ShowThrows
<1>3. /\ render' = [q \in Renders |-> render'[q]]
      /\ \A q \in Renders : CallInv(render'[q])
  BY DoneStep DEF ShowThrows
<1>4. BadgeTellsCards'
  BY <1>1, <1>2, BadgeTells DEF BadgeTellsCards
<1> QED
  BY <1>2, <1>3, <1>4 DEF PageInv

\* Renders keep to themselves until they show, all at once, what they checked; a failed
\* fetch takes the verdict off the page.
LEMMA PageStep ==
    ASSUME FilesInv, PageInv, [PageNext]_pageVars
    PROVE  PageInv'
<1>1. CASE UNCHANGED << render, page >>
  BY <1>1 DEF PageInv, BadgeTellsCards
<1>2. ASSUME NEW r \in Renders, ScriptLoads(r) \/ FetchArrives(r) \/ Paste(r) PROVE PageInv'
  BY <1>2, RenderStep DEF ScriptLoads, FetchArrives, Paste
<1>3. CASE FetchFails
  <2>1. page' = [badge |-> "load a run", judged |-> page.judged, cards |-> page.cards,
                 rows |-> page.rows, threw |-> page.threw] /\ render' = render
    BY <1>3 DEF FetchFails, PageInv
  <2> QED
    BY <2>1 DEF PageInv, BadgeTellsCards
<1>4. ASSUME NEW r \in Renders, HashRow(r) PROVE PageInv'
  BY <1>4, HashRowStep
<1>5. ASSUME NEW r \in Renders, Show(r) PROVE PageInv'
  BY <1>5, ShowStep
<1>6. ASSUME NEW r \in Renders, ShowThrows(r) PROVE PageInv'
  BY <1>6, ShowThrowsStep
<1> QED
  BY <1>1, <1>2, <1>3, <1>4, <1>5, <1>6 DEF PageNext, pageVars, ScriptMissing

\* Every state of the page.
LEMMA PageInvariant == PageSpec => []PageInv
<1>1. PageInit => PageInv
  <2> SUFFICES ASSUME PageInit PROVE PageInv
    OBVIOUS
  <2>1. CallInv(Unrendered)
    BY DEF CallInv, Unrendered
  <2>2. BadgeTellsCards /\ page.cards \in Seq(Exports)
    BY DEF PageInit, Blank, BadgeTellsCards, MarksTellFirst, Rows
  <2> QED
    BY <2>1, <2>2 DEF PageInit, Blank, PageInv
<1>2. FilesInv /\ PageInv /\ [PageNext]_pageVars => PageInv'
  BY PageStep
<1> QED
  BY <1>1, <1>2, FilesInvariant, PTL DEF PageSpec

\* A badge that gives a verdict gives verify()'s on the receipts drawn under it, or on
\* those that could not be drawn, and the first card marked bad is its brokenAt, however
\* fetched and pasted runs overlap.
THEOREM BadgeIsVerdict == PageSpec => []BadgeTellsCards
<1>1. PageInv => BadgeTellsCards
  BY DEF PageInv
<1> QED
  BY <1>1, PageInvariant, PTL

\* A set of numbers has a least one.
LEMMA LeastOf ==
    ASSUME NEW T, T \subseteq Nat, T # {}
    PROVE  \E x \in T : \A y \in T : x <= y
<1> DEFINE R == OpToRel(<, Nat)
<1>1. IsWellFoundedOn(R, Nat)
  BY NatLessThanWellFounded
<1>2. \A a, b \in Nat : a < b <=> <<a, b>> \in R
  BY DEF OpToRel
<1> HIDE DEF R
<1>3. PICK x \in T : \A y \in T : ~(<<y, x>> \in R)
  BY <1>1, WFMin
<1>4. ASSUME NEW y \in T PROVE x <= y
  <2>1. x \in Nat /\ y \in Nat /\ ~(y < x)
    BY <1>2, <1>3
  <2> QED
    BY <2>1
<1> QED
  BY <1>4

\* Two verified lists of which one has the receipts of the other: at the first place
\* they could differ, the link names the receipt that the other has there.
LEMMA VerifiedIsPrefix ==
    ASSUME NEW c \in Seq(Exports), NEW x \in Seq(Exports), Verified(c), Verified(x),
           Distinct(x), \A i \in Rows(c) : \E j \in Rows(x) : c[i] = x[j]
    PROVE  IsPrefix(c, x)
<1> DEFINE Differ == {i \in Rows(c) : i \notin Rows(x) \/ c[i] # x[i]}
<1>0. /\ Len(c) \in Nat /\ Len(x) \in Nat
      /\ \A j \in Rows(x) : x[j].receipt_hash # GenesisHash
  <2>1. ASSUME NEW j \in Rows(x) PROVE x[j].receipt_hash # GenesisHash
    <3>1. x[j] \in Exports /\ x[j].receipt_hash = HashReceiptBody(x[j].body)
      BY <2>1 DEF Rows, Verified, RowOk, HashOk
    <3>2. PICK b \in Stored : x[j].body = Json(b)
      BY <3>1 DEF Exports
    <3> QED
      BY <3>1, <3>2, BodiesAssumption
  <2> QED
    BY <2>1
<1>1. Differ = {}
  <2> SUFFICES ASSUME Differ # {} PROVE FALSE
    OBVIOUS
  <2>1. PICK i \in Differ : \A k \in Differ : i <= k
    <3>1. Differ \subseteq Nat
      BY DEF Rows
    <3> HIDE DEF Differ
    <3> QED
      BY <3>1, LeastOf
  <2>2. PICK j \in Rows(x) : c[i] = x[j]
    OBVIOUS
  <2>3. c[i].previous_hash = x[j].previous_hash /\ LinkOk(c, i) /\ LinkOk(x, j)
    BY <2>2 DEF Verified, RowOk
  <2>4. i = j
    <3>1. CASE i = 1
      <4>1. j # 1 => j - 1 \in Rows(x)
        BY <1>0 DEF Rows
      <4> QED
        BY <1>0, <2>3, <3>1, <4>1 DEF LinkOk
    <3>2. CASE i # 1
      <4>1. /\ i - 1 \in Rows(c) /\ ~(i <= i - 1)
            /\ j # 1 => j - 1 \in Rows(x)
        BY <1>0, <3>2 DEF Rows
      <4>2. i - 1 \in Rows(x) /\ c[i - 1] = x[i - 1]
        BY <2>1, <4>1
      <4>3. x[j].previous_hash = x[i - 1].receipt_hash
        BY <2>3, <3>2, <4>2 DEF LinkOk
      <4>4. j # 1
        BY <1>0, <2>3, <4>2, <4>3 DEF LinkOk
      <4>5. x[j - 1].receipt_hash = x[i - 1].receipt_hash
        BY <2>3, <4>3, <4>4 DEF LinkOk
      <4>6. j - 1 = i - 1
        BY <4>1, <4>2, <4>4, <4>5 DEF Distinct
      <4> QED
        BY <1>0, <4>6 DEF Rows
    <3> QED
      BY <3>1, <3>2
  <2> QED
    BY <2>2, <2>4
<1>2. \A i \in Rows(c) : i \in Rows(x) /\ c[i] = x[i]
  BY <1>1
<1>3. Len(c) <= Len(x)
  <2>1. CASE Len(c) = 0
    BY <1>0, <2>1
  <2>2. CASE Len(c) # 0
    <3>1. Len(c) \in Rows(c)
      BY <1>0, <2>2 DEF Rows
    <3> QED
      BY <1>0, <1>2, <3>1 DEF Rows
  <2> QED
    BY <2>1, <2>2
<1> QED
  BY <1>2, <1>3 DEF IsPrefix, Rows

\* Of a file whose rows were dropped or moved, a page that says verified and drew what it
\* checked shows the beginning of the ledger: the chain notices everything but a missing
\* end.
THEOREM PageIsPrefix == PageSpec => []VerifiedPageIsPrefix
<1>1. PageInv /\ FilesInv => VerifiedPageIsPrefix
  <2> SUFFICES ASSUME PageInv, FilesInv, page.badge = "verified", ~page.threw,
                      Verified(exported), Distinct(exported),
                      \A i \in Rows(page.cards) :
                         \E j \in Rows(exported) : page.cards[i] = exported[j]
               PROVE  IsPrefix(page.cards, exported)
    BY DEF VerifiedPageIsPrefix
  <2>1. Verified(page.cards) /\ page.cards \in Seq(Exports)
    BY DEF PageInv, BadgeTellsCards
  <2> QED
    BY <2>1, VerifiedIsPrefix DEF FilesInv
<1> QED
  BY <1>1, FilesInvariant, PageInvariant, PTL

=============================================================================
