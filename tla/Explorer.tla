------------------------------ MODULE Explorer ------------------------------
(***************************************************************************)
(* The receipt explorer (explorer/index.html): a page that renders a run's *)
(* receipts and checks their chain in the browser.  The run comes with the *)
(* script tag; if the script is missing the page fetches it and, until the *)
(* fetch is settled, offers a box to paste one.  Hashing is asynchronous:  *)
(* render awaits once per receipt, so a pasted and a fetched run overlap.  *)
(***************************************************************************)
EXTENDS ReceiptStore

CONSTANTS
    Renders,     \* calls of render
    Undrawable   \* bodies whose drawing throws: instruction_classes that is no
                 \* array, a signature or a hash that is no string

VARIABLES
    source,   \* how far the page is with getting its run
    loadbox,  \* the paste box is displayed
    render,   \* each call: how it was made, its receipts, rows checked so far, prev
    page      \* what the page shows: a badge, the receipts it is about, the cards
              \* drawn with their rows, and whether drawing threw

storeVars == << store, files >>
pageVars == << storeVars, source, loadbox, render, page >>

Unrendered == [status |-> "idle", via |-> "none", receipts |-> << >>, rows |-> << >>,
               prev |-> GenesisHash]
Blank == [badge |-> "blank", judged |-> << >>, cards |-> << >>, rows |-> << >>,
          threw |-> FALSE]

PageInit ==
    /\ StoreInit
    /\ source = "loading" /\ loadbox = FALSE
    /\ render = [r \in Renders |-> Unrendered]
    /\ page = Blank

\* render(run), up to its first await.
Render(r, how) ==
    /\ render[r].status = "idle"
    /\ render' = [render EXCEPT ![r] = [status |-> "hashing", via |-> how,
                      receipts |-> file, rows |-> << >>, prev |-> GenesisHash]]
    /\ UNCHANGED << storeVars, page >>

\* sample-run.js was there: its run is rendered, and nothing else ever is.
ScriptLoads(r) ==
    /\ source = "loading"
    /\ source' = "script"
    /\ Render(r, "script")
    /\ UNCHANGED loadbox

\* It was not: onerror displays the box, and the JSON is fetched.
ScriptMissing ==
    /\ source = "loading"
    /\ source' = "fetching" /\ loadbox' = TRUE
    /\ UNCHANGED << storeVars, render, page >>

FetchArrives(r) ==
    /\ source = "fetching"
    /\ source' = "settled"
    /\ Render(r, "fetch")
    /\ UNCHANGED loadbox

\* The catch of the fetch: also what it fetched is not JSON, or render threw.
AskForRun == loadbox' = TRUE

\* The badge is overwritten whatever was pasted and drawn in the meantime.
FetchFails ==
    /\ source = "fetching"
    /\ source' = "settled" /\ AskForRun
    /\ page' = [page EXCEPT !.badge = "load a run"]
    /\ UNCHANGED << storeVars, render >>

\* loadPasted() does not await render.
Paste(r) ==
    /\ loadbox
    /\ loadbox' = FALSE
    /\ Render(r, "paste")
    /\ UNCHANGED source

\* Plausible defect: every row is compared with the genesis of the page.
PrevUnmoved(call, receipt) == call.prev

\* The prev of the next row.
NextPrev(call, receipt) == receipt.receipt_hash

\* An iteration of verifyChain: the digest of the next receipt arrived.
HashRow(r) ==
    /\ render[r].status = "hashing"
    /\ Len(render[r].rows) < Len(render[r].receipts)
    /\ LET call    == render[r]
           i       == Len(call.rows) + 1
           receipt == call.receipts[i]
           row     == [linkOk |-> receipt.previous_hash = call.prev,
                       hashOk |-> HashOk(call.receipts, i)]
       IN  render' = [render EXCEPT ![r] =
               [status |-> "hashing", via |-> call.via, receipts |-> call.receipts,
                rows |-> Append(call.rows, row), prev |-> NextPrev(call, receipt)]]
    /\ UNCHANGED << storeVars, source, loadbox, page >>

Ok(row) == row.linkOk /\ row.hashOk
AllOk(rows) == \A i \in 1..Len(rows) : Ok(rows[i])

\* Plausible defect: the badge looks at the hashes only.
BadgeOfHashes(rows) == IF \A i \in 1..Len(rows) : rows[i].hashOk THEN "verified" ELSE "broken"

Badge(rows) == IF AllOk(rows) THEN "verified" ELSE "broken"

Checked(r) == render[r].status = "hashing" /\ Len(render[r].rows) = Len(render[r].receipts)

Drawn(receipts, n) == \A i \in 1..n : receipts[i].body \notin Undrawable

\* What follows the await of verifyChain: badge and cards, at once.
Show(r) ==
    /\ Checked(r)
    /\ LET call == render[r]
       IN  /\ Drawn(call.receipts, Len(call.receipts))
           /\ page' = [badge |-> Badge(call.rows), judged |-> call.receipts,
                       cards |-> call.receipts, rows |-> call.rows, threw |-> FALSE]
    /\ render' = [render EXCEPT ![r].status = "done"]
    /\ UNCHANGED << storeVars, source, loadbox >>

\* The badge is set, then something throws: in the line above the cards, which leaves
\* the cards of an earlier render, or in the card after the n-th.  Only the fetch has
\* a catch.
ShowThrows(r) ==
    /\ Checked(r)
    /\ LET call == render[r]
           kept(cards, rows) ==
               page' = [badge  |-> IF call.via = "fetch" THEN "load a run" ELSE Badge(call.rows),
                        judged |-> call.receipts, cards |-> cards, rows |-> rows,
                        threw  |-> TRUE]
       IN  /\ ~Drawn(call.receipts, Len(call.receipts))
           /\ \/ kept(page.cards, page.rows)
              \/ \E n \in 0..(Len(call.receipts) - 1) :
                    /\ Drawn(call.receipts, n) /\ ~Drawn(call.receipts, n + 1)
                    /\ kept(SubSeq(call.receipts, 1, n), SubSeq(call.rows, 1, n))
           /\ IF call.via = "fetch" THEN AskForRun ELSE UNCHANGED loadbox
    /\ render' = [render EXCEPT ![r].status = "done"]
    /\ UNCHANGED << storeVars, source >>

PageNext ==
    \/ StoreNext /\ UNCHANGED << source, loadbox, render, page >>
    \/ ScriptMissing
    \/ FetchFails
    \/ \E r \in Renders :
          \/ ScriptLoads(r) \/ FetchArrives(r) \/ Paste(r)
          \/ HashRow(r) \/ Show(r) \/ ShowThrows(r)

PageSpec == PageInit /\ [][PageNext]_pageVars

-----------------------------------------------------------------------------
\* The first card marked bad is where verify() breaks.
MarksTellFirst(cards, rows) ==
    \A i \in Rows(cards) :
        BrokenAt(cards, i) <=>
            /\ ~Ok(rows[i])
            /\ \A j \in Rows(cards) : j < i => Ok(rows[j])

\* "Must match src/receipt.mjs ... EXACTLY": a badge that gives a verdict gives the one
\* verify() would give of the receipts drawn under it, however a fetched and a pasted
\* run overlap, unless drawing them threw (then it is the verdict on the receipts that
\* could not be drawn); and the first card marked bad is verify's brokenAt.
BadgeTellsCards ==
    /\ page.badge \in {"verified", "broken"} =>
          /\ page.badge = "verified" <=> Verified(page.judged)
          /\ page.threw \/ page.cards = page.judged
    /\ MarksTellFirst(page.cards, page.rows)

\* Receipts of one run all differ (receipt_id is counted by the agent).
Distinct(receipts) ==
    \A i, j \in Rows(receipts) : receipts[i].receipt_hash = receipts[j].receipt_hash => i = j

IsPrefix(short, long) ==
    Len(short) <= Len(long) /\ \A i \in 1..Len(short) : short[i] = long[i]

\* A page that says verified and drew what it checked, of a file whose rows were only
\* dropped or moved, shows the beginning of the ledger, in order and without a gap:
\* the chain notices everything but a missing end.
VerifiedPageIsPrefix ==
    page.badge = "verified" /\ ~page.threw /\ Verified(exported) /\ Distinct(exported)
        /\ (\A i \in Rows(page.cards) : \E j \in Rows(exported) : page.cards[i] = exported[j])
            => IsPrefix(page.cards, exported)

\* The export of a ledger that verifies verifies in the browser exactly when no
\* receipt has a field without a value: such a field is part of what was hashed
\* (as undefined) and not of the file.
ExportKeepsVerdict ==
    written = {} =>
        (Verified(exported) <=>
            \A i \in Rows(exported) : DOMAIN exported[i].body = DOMAIN sealed[i].body)

=============================================================================
