----------------------------- MODULE MCExplorer -----------------------------
(* Instance of Explorer for TLC: three bodies, one with a field without a     *)
(* value and one that cannot be drawn, and one other content a receipt can   *)
(* be given.                                                                 *)
EXTENDS Explorer, TLC

Body(id, note, digest) == [receipt_id |-> id, note |-> note, token_digest |-> digest]

MCBodies == {Body(1, "a", "absent"), Body(2, "a", "digest"), Body(2, Undefined, "absent")}
MCUndrawable == {Redact(Body(2, "a", "digest"))}
MCContents == {Body(1, "b", "absent")}
MCValues == {GenesisHash} \cup {HashReceiptBody(b) : b \in MCContents}

\* The ledger is written in before it is ever exported and the page opened, or not at
\* all: a page sees bad hashes by way of the field without a value.  And a page is
\* opened on a ledger that is exported; what changes under it is the file.
LedgerFirst ==
    /\ writes = 0 \/ (exported = << >> /\ source = "loading")
    /\ source # "loading" => Len(exported) = Len(ledger)

Symmetry == Permutations(Renders)

=============================================================================
