---------------------------- MODULE EvidenceTables ----------------------------
(***************************************************************************)
(* The chain evidence of migration 002_v2_minting.sql: block observations, *)
(* the receipt and the SignatureMinted log observed in each, the gallery   *)
(* entry of the signature and the indexer's checkpoint.  A writer may try  *)
(* to INSERT, UPDATE or DELETE any row, with any values; the CHECKs make   *)
(* the set of rows, a guard relates the old row to the new one as the      *)
(* trigger does.  The triggers of all but the checkpoint raise on DELETE.  *)
(***************************************************************************)
EXTENDS Integers, FiniteSets

CONSTANTS
    Blocks,         \* block hashes
    HeightOf,       \* height of each
    Owners,         \* indexer processes
    MaxFence,       \* bound: fencing tokens
    NoRow, NoOwner  \* a row that is not there, a lease nobody holds

VARIABLES
    block,      \* chain_blocks
    receipt,    \* transaction_receipt_observations: one transaction per block
    log,        \* contract_log_observations: its mint
    gallery,    \* gallery_entries of the signature, NoRow or [event, state]
    checkpoint, \* indexer_checkpoints, NoRow or [owner, fence, height]
    held        \* history: who has held each fencing token of the present row

vars == <<block, receipt, log, gallery, checkpoint, held>>

\* CHECK (NOT finalized OR canonical); an orphaned row is one that is not canonical.
Observations == {r \in [canonical : BOOLEAN, finalized : BOOLEAN] : r.finalized => r.canonical}

Receipts == {r \in [canonical : BOOLEAN, finalized : BOOLEAN, status : {0, 1}] :
                r.finalized => r.canonical}

Logs == {r \in [canonical : BOOLEAN, status : {0, 1},
                validation : {"pending", "validated", "quarantined"},
                finality : {"unfinalized", "finalized", "finality_revoked"}] :
            /\ r.finality = "finalized" => r.canonical
            /\ r.finality = "finality_revoked" => ~ r.canonical
            /\ r.status = 1 \/ r.validation = "quarantined"}

Entries == [event : Blocks, state : {"finalized", "finality_revoked"}]

\* A promoted height that is NULL is 0.
Checkpoints == [owner : Owners \cup {NoOwner}, fence : 0..MaxFence,
                height : {0} \cup {HeightOf[b] : b \in Blocks}]

\* What the values of the constants must satisfy.
EvidenceAssumption ==
    /\ HeightOf \in [Blocks -> Nat] /\ MaxFence \in Nat
    /\ NoRow \notin Observations \cup Receipts \cup Logs \cup Entries \cup Checkpoints

Init ==
    /\ block = [b \in Blocks |-> NoRow] /\ receipt = [b \in Blocks |-> NoRow]
    /\ log = [b \in Blocks |-> NoRow] /\ gallery = NoRow
    /\ checkpoint = NoRow /\ held = [f \in 0..MaxFence |-> {}]

FinalBlock(b) == block[b] # NoRow /\ block[b].canonical /\ block[b].finalized
FinalReceipt(b, status) ==
    receipt[b] # NoRow /\ receipt[b].canonical /\ receipt[b].finalized /\ receipt[b].status = status

\* One hash per height is canonical.
CanonicalHeight(b, new) ==
    new.canonical => \A c \in Blocks \ {b} :
        HeightOf[c] = HeightOf[b] /\ block[c] # NoRow => ~ block[c].canonical

ObservationGuard(old, new) ==
    IF old = NoRow THEN ~ new.finalized
    ELSE /\ old.finalized \/ ~ old.canonical =>
                new.canonical = old.canonical /\ new.finalized = old.finalized
         /\ old.canonical /\ ~ old.finalized => new.canonical \/ ~ new.finalized

BlockGuard(b, new) == ObservationGuard(block[b], new) /\ CanonicalHeight(b, new)

WriteBlock ==
    /\ \E b \in Blocks, new \in Observations :
         BlockGuard(b, new) /\ block' = [block EXCEPT ![b] = new]
    /\ UNCHANGED <<receipt, log, gallery, checkpoint, held>>

ReceiptGuard(b, new) ==
    /\ block[b] # NoRow
    /\ ObservationGuard(receipt[b], new)
    /\ receipt[b] # NoRow => new.status = receipt[b].status
    /\ new.finalized => FinalBlock(b)

WriteReceipt ==
    /\ \E b \in Blocks, new \in Receipts :
         ReceiptGuard(b, new) /\ receipt' = [receipt EXCEPT ![b] = new]
    /\ UNCHANGED <<block, log, gallery, checkpoint, held>>

BadLogGuard(b, new) ==  (* slip: a finalized log may be orphaned like any other *)
    /\ block[b] # NoRow /\ receipt[b] # NoRow
    /\ log[b] # NoRow /\ ~ log[b].canonical => new = log[b]
    /\ new.finality = "finalized" =>
         FinalBlock(b) /\ FinalReceipt(b, new.status) /\ new.validation = "validated"

LogGuard(b, new) ==
    LET old == log[b] IN
    /\ block[b] # NoRow /\ receipt[b] # NoRow
    /\ IF old = NoRow THEN new.finality = "unfinalized"
       ELSE /\ new.status = old.status
            /\ old.validation = "quarantined" => new.validation = "quarantined"
            /\ old.validation = "validated" => new.validation # "pending"
            /\ old.finality = "finality_revoked" => new = old
            /\ old.finality = "finalized" =>
                 new = old \/ (new.finality = "finality_revoked" /\ new.validation = old.validation)
            /\ old.finality # "finalized" /\ new.finality = "finality_revoked" => new = old
            /\ ~ old.canonical => ~ new.canonical
    /\ new.finality = "finalized" =>
         FinalBlock(b) /\ FinalReceipt(b, new.status) /\ new.validation = "validated"

WriteLog ==
    /\ \E b \in Blocks, new \in Logs :
         LogGuard(b, new) /\ log' = [log EXCEPT ![b] = new]
    /\ UNCHANGED <<block, receipt, gallery, checkpoint, held>>

GalleryGuard(new) ==
    IF gallery = NoRow THEN new.state = "finalized"
    ELSE /\ new.event = gallery.event
         /\ gallery.state = "finality_revoked" => new.state = gallery.state

BadGalleryCommit(new) ==  (* slip: the entry does not follow the log's finality *)
    log[new.event] # NoRow /\ log[new.event].validation = "validated" /\ log[new.event].status = 1

\* Checked when the transaction commits.
GalleryCommit(new) ==
    /\ log[new.event] # NoRow
    /\ log[new.event].validation = "validated" /\ log[new.event].status = 1
    /\ log[new.event].finality = new.state

WriteGallery ==
    /\ \E new \in Entries : GalleryGuard(new) /\ GalleryCommit(new) /\ gallery' = new
    /\ UNCHANGED <<block, receipt, log, checkpoint, held>>

\* Of an UPDATE: the trigger sees no INSERT and no DELETE.
CheckpointGuard(old, new) ==
    /\ new.fence >= old.fence
    /\ new.owner # old.owner /\ new.owner # NoOwner => new.fence > old.fence
    /\ new.height >= old.height

WriteCheckpoint ==
    /\ \E new \in Checkpoints :
         /\ checkpoint # NoRow => CheckpointGuard(checkpoint, new)
         /\ checkpoint' = new
         /\ held' = [held EXCEPT ![new.fence] = @ \cup ({new.owner} \ {NoOwner})]
    /\ UNCHANGED <<block, receipt, log, gallery>>

DeleteCheckpoint ==
    /\ checkpoint # NoRow
    /\ checkpoint' = NoRow /\ held' = [f \in 0..MaxFence |-> {}]
    /\ UNCHANGED <<block, receipt, log, gallery>>

Next ==
    \/ WriteBlock \/ WriteReceipt \/ WriteLog \/ WriteGallery
    \/ WriteCheckpoint \/ DeleteCheckpoint

Spec == Init /\ [][Next]_vars

------------------------------------------------------------------------------
\* Whoever counts a log as finalized may rely on its block and receipt: both are
\* recorded final, and stay so whatever is written afterwards.
FinalizedLogsAreSupported ==
    \A b \in Blocks : log[b] # NoRow /\ log[b].finality = "finalized" =>
        FinalBlock(b) /\ FinalReceipt(b, 1) /\ log[b].validation = "validated"

\* Two competing blocks of one height never both carry finalized evidence, not
\* even after the finality of one was revoked.
OneFinalizedHistory ==
    \A b, c \in Blocks : b # c /\ HeightOf[b] = HeightOf[c] =>
        ~ \A x \in {b, c} : log[x] # NoRow /\ log[x].finality # "unfinalized"

\* The gallery names a log that was finalized; it says "finalized" only of one
\* that still is or whose revocation it has not followed yet, and never takes a
\* revocation back.
GalleryIsSupported ==
    gallery # NoRow =>
        /\ log[gallery.event] # NoRow
        /\ log[gallery.event].finality \in {"finalized", "finality_revoked"}
        /\ gallery.state = "finality_revoked" => log[gallery.event].finality = "finality_revoked"

\* As long as the checkpoint's row lives, a fencing token identifies one indexer,
\* also across releases of the lease.  Nothing guards the row's DELETE, after
\* which the tokens begin again.
FenceNamesOneOwner == \A f \in 0..MaxFence : Cardinality(held[f]) <= 1

\* One finalized history, on which the finalized mints and the gallery rest, and
\* one indexer for each fencing token of a checkpoint (002_v2_minting.sql).
EvidenceHolds ==
    /\ FinalizedLogsAreSupported /\ OneFinalizedHistory
    /\ GalleryIsSupported /\ FenceNamesOneOwner

\* The evidence of a final mint is never rewritten: what was finalized stays, or
\* is explicitly revoked.
FinalEvidenceStays ==
    [][\A b \in Blocks :
        /\ FinalBlock(b) => FinalBlock(b)'
        /\ log[b] # NoRow /\ log[b].finality # "unfinalized" =>
             log'[b].finality \in {log[b].finality, "finality_revoked"}]_vars
==============================================================================
