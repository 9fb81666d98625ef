----------------------------- MODULE PulseAdmin -----------------------------
(***************************************************************************)
(* The administration of the RC2 test collection from a browser: the       *)
(* intent journal admin-web.json (scripts/                                 *)
(* pulse-sepolia-admin-web-service.mjs), the page that hands a prepared    *)
(* transaction to the wallet (pulse-sepolia-admin-client.mjs), the policy  *)
(* the contract keeps, and the allowlist file free-config.json.            *)
(*                                                                         *)
(* Review, action, report and cancel run one at a time.  Those that read   *)
(* the chain once and then write the journal are one step here: a chain    *)
(* that moves in between moves just as well afterwards.  A report reads    *)
(* twice and writes three times.                                           *)
(*                                                                         *)
(* The list of free wallets is reduced to the holder of one slot, which a  *)
(* free mint claims.  A transaction is named by the intent it belongs to.  *)
(***************************************************************************)
EXTENDS Integers, Sequences, FiniteSets, FiniteSetsExt

CONSTANTS
    Lists,          \* allowlists: who holds the slot
    FirstList,
    MaxIntents,     \* bound on the intents ever prepared
    MaxRows,        \* MAX_INTENTS rows are kept
    MaxReviews,     \* MAX_REVIEWS reviews are kept
    MaxHead,        \* bound on the chain
    MaxReorgs,      \* bound on reorganisations
    Uses            \* what happens: "configure", "elsewhere", "mint", "deadline",
                    \* "late", "tab", "stale", "typo", "lost", "crash", "race"

(* The first list is one of them, and the bounds are numbers.              *)
AdminAssumption == /\ FirstList \in Lists
                   /\ {MaxIntents, MaxRows, MaxReviews, MaxHead, MaxReorgs} \subseteq Nat

VARIABLES
    chain,          \* blocks [tx, ok, post, branch]; tx is 0 when no intent's
    branch,         \* reorganisations so far: names a block with its height
    rows,           \* journal: intent -> row, or NoRecord; a row in state "pruned" has left
                    \* the journal, its transaction is still in the wallet
    reviews,        \* journal: [root, base, head]
    checkpoint,     \* journal: the highest settled block
    file,           \* free-config.json: [root, rev]
    job,            \* the report being processed
    page,           \* the admin page: [at, i, hash]
    asked,          \* intents whose transaction a wallet was asked to send
    rejected,       \* those it answered 4001
    broadcast       \* those it has broadcast

vars == <<chain, branch, rows, reviews, checkpoint, file, job, page, asked, rejected, broadcast>>
journal == <<rows, reviews, checkpoint>>
network == <<chain, branch, broadcast>>
wallet == <<asked, rejected, broadcast>>

Ids == 1..MaxIntents
Unknown == MaxIntents + 1       \* a transaction hash no node knows
Idle == [kind |-> "none"]
NoRecord == [state |-> "none"]
NoBlock == [h |-> 0, branch |-> 0]

-----------------------------------------------------------------------------
(* The collection.                                                         *)

Genesis == [nonce |-> 0, rev |-> 1, root |-> FirstList, claimed |-> FALSE,
            paused |-> TRUE, closed |-> FALSE]

PolicyAfter(k) == IF k = 0 THEN Genesis ELSE chain[k].post
Policy == PolicyAfter(Len(chain))

Succeeds(kind, p) == \/ kind = "pause" /\ ~p.paused
                     \/ kind = "unpause" /\ p.paused
                     \/ kind = "configure" /\ p.paused /\ ~p.closed

Applied(kind, root, p) ==
    LET q == [p EXCEPT !.nonce = @ + 1]
    IN  IF ~Succeeds(kind, p) THEN q
        ELSE IF kind = "configure" THEN [q EXCEPT !.root = root, !.rev = @ + 1]
        ELSE [q EXCEPT !.paused = (kind = "pause")]

Block(tx, ok, post) == /\ Len(chain) < MaxHead
                       /\ chain' = Append(chain, [tx |-> tx, ok |-> ok, post |-> post, branch |-> branch])
                       /\ UNCHANGED branch

Quiet == job = Idle \/ "race" \in Uses

Include(i) == /\ i \in broadcast /\ rows[i].nonce = Policy.nonce
              /\ Block(i, Succeeds(rows[i].kind, Policy), Applied(rows[i].kind, rows[i].root, Policy))
              /\ UNCHANGED <<journal, file, job, page, wallet>>

Mint == /\ "mint" \in Uses
        /\ ~Policy.paused /\ ~Policy.closed /\ ~Policy.claimed
        /\ Block(0, TRUE, [Policy EXCEPT !.claimed = TRUE])
        /\ UNCHANGED <<journal, file, job, page, wallet>>

Deadline == /\ "deadline" \in Uses /\ ~Policy.closed
            /\ Block(0, TRUE, [Policy EXCEPT !.closed = TRUE])
            /\ UNCHANGED <<journal, file, job, page, wallet>>

(* The same wallet used from the command line, which saves its own         *)
(* configuration file and never replaces a claimed slot.                   *)
Elsewhere(kind, root) ==
    /\ "elsewhere" \in Uses /\ Quiet
    /\ Succeeds(kind, Policy)
    /\ kind = "configure" => (root # Policy.root /\ ~Policy.claimed)
    /\ Block(0, TRUE, Applied(kind, root, Policy))
    /\ file' = IF kind = "configure" THEN [root |-> root, rev |-> Policy.rev + 1] ELSE file
    /\ UNCHANGED <<journal, job, page, wallet>>

Reorganize == /\ branch < MaxReorgs /\ Quiet
              /\ \E k \in 0..(Len(chain) - 1) : chain' = SubSeq(chain, 1, k)
              /\ branch' = branch + 1
              /\ UNCHANGED <<journal, file, job, page, wallet>>

-----------------------------------------------------------------------------
(* The journal.                                                            *)

Known(i) == rows[i] # NoRecord /\ rows[i].state # "pruned"
Unresolved(i) == rows[i].state \in {"prepared", "submitted"}
Settled(row) == row.state \in {"confirmed", "reverted"}

BlockOf(k) == [h |-> k, branch |-> chain[k].branch]
InChain(b) == b \in {NoBlock} \cup {BlockOf(k) : k \in 1..Len(chain)}

(* Every request first checks that the highest settled block is canonical. *)
SettledHolds == InChain(checkpoint)

Higher(b) == IF b.h > checkpoint.h THEN b ELSE checkpoint

(* What a review must find again before its configuration is sent.         *)
Fingerprint(p) == [root |-> p.root, rev |-> p.rev, claimed |-> p.claimed, closed |-> p.closed]

NoPending == \A i \in Ids : ~Unresolved(i)
FilesMatch(p) == file.root = p.root /\ file.rev = p.rev
MayReplace(root, p) == p.claimed => (root = p.root)

Reviewable(root, p) == /\ NoPending /\ ~p.closed /\ FilesMatch(p) /\ MayReplace(root, p)
                       /\ root # p.root

Kept(s) == SubSeq(s, IF Len(s) > MaxReviews THEN Len(s) - MaxReviews + 1 ELSE 1, Len(s))

(* POST review.                                                            *)
Review(root) ==
    LET r == [root |-> root, base |-> Fingerprint(Policy),
              head |-> IF chain = <<>> THEN NoBlock ELSE BlockOf(Len(chain))]
    IN  /\ "configure" \in Uses
        /\ job = Idle /\ page.at = "idle"
        /\ SettledHolds /\ Reviewable(root, Policy)
        /\ \A k \in 1..Len(reviews) : reviews[k] # r
        /\ reviews' = Kept(Append(reviews, r))
        /\ UNCHANGED <<network, rows, checkpoint, file, job, page, asked, rejected>>

StillAsReviewed(r, p) == /\ ~p.closed /\ p.paused
                         /\ r.base = Fingerprint(p) /\ InChain(r.head)
                         /\ FilesMatch(p) /\ MayReplace(r.root, p)

(* Every request for the wallet's next nonce, so that abandoned ones       *)
(* compete with it.  The check that the pending count equals the latest    *)
(* can only refuse.                                                        *)
NextNonce(p) == p.nonce

NextIntent == Cardinality({i \in Ids : rows[i] # NoRecord}) + 1

(* A row beyond the limit displaces the oldest settled one.                *)
Prunable(i) == rows[i].state \in {"confirmed", "reverted", "superseded"}

Recorded(i, row) ==
    LET full == Cardinality({j \in Ids : Known(j)}) >= MaxRows
        old == {j \in Ids : Prunable(j)}
    IN  /\ full => old # {}
        /\ rows' = [j \in Ids |-> IF j = i THEN row
                                  ELSE IF full /\ j = Min(old) THEN [rows[j] EXCEPT !.state = "pruned"]
                                  ELSE rows[j]]

(* POST action: an exact unsigned transaction, durable before it is        *)
(* returned to the page.                                                   *)
Prepare(kind, root) ==
    LET i == NextIntent
        row == [state |-> "prepared", kind |-> kind, root |-> root, nonce |-> NextNonce(Policy),
                base |-> Fingerprint(Policy), hash |-> 0, valid |-> FALSE, block |-> NoBlock]
    IN  /\ job = Idle /\ page.at = "idle" /\ i \in Ids
        /\ SettledHolds /\ NoPending
        /\ IF kind = "configure"
           THEN \E k \in 1..Len(reviews) : reviews[k].root = root /\ StillAsReviewed(reviews[k], Policy)
           ELSE root = Policy.root /\ Policy.paused = (kind = "unpause")
        /\ Recorded(i, row)
        /\ \/ page' = [at |-> "planned", i |-> i, hash |-> 0]
           \/ "lost" \in Uses /\ page' = page
        /\ UNCHANGED <<network, reviews, checkpoint, file, job, asked, rejected>>

(* POST cancel: only what was never reported.                              *)
Cancellable(row) == row.state = "prepared" /\ row.hash = 0

Cancel == /\ job = Idle /\ page.at \in {"planned", "rejected"}
          /\ SettledHolds
          /\ Cancellable(rows[page.i])
          /\ rows' = [rows EXCEPT ![page.i].state = "abandoned"]
          /\ \/ page' = [at |-> "idle", i |-> 0, hash |-> 0]
             \/ "lost" \in Uses /\ page' = [page EXCEPT !.at = "pending"]
          /\ UNCHANGED <<network, reviews, checkpoint, file, job, asked, rejected>>

-----------------------------------------------------------------------------
(* POST report.                                                            *)

Inclusions(h) == {k \in 1..Len(chain) : chain[k].tx = h}

(* The page reports its marker; another tab, a hash its wallet gave it.    *)
Reports(i, h) == \/ page.at = "pending" /\ page.i = i /\ page.hash = h
                 \/ "tab" \in Uses /\ i \in asked /\ h = i /\ (Inclusions(i) # {} \/ "stale" \in Uses)

Reportable(i, h) == /\ Known(i) /\ rows[i].state # "superseded"
                    /\ ~Settled(rows[i])
                    /\ ~rows[i].valid \/ rows[i].hash = h

(* Authorised, then the candidate hash is saved before it is looked up.    *)
ReportSaves(i, h) ==
    /\ job = Idle /\ Reports(i, h) /\ h # 0
    /\ SettledHolds
    /\ Reportable(i, h)
    /\ rows' = [rows EXCEPT ![i].hash = h]
    /\ job' = [kind |-> "read", i |-> i, h |-> h]
    /\ UNCHANGED <<network, reviews, checkpoint, file, page, asked, rejected>>

(* slip: the receipt alone decides *)
BadPublishes(i, k) == rows[i].kind = "configure" /\ chain[k].ok
(* The files are published only if the configuration is the policy both at *)
(* the end of its block and now.                                           *)
Publishes(i, k) == /\ rows[i].kind = "configure" /\ chain[k].ok
                   /\ \A p \in {PolicyAfter(k), Policy} : p.root = rows[i].root /\ p.rev = rows[i].base.rev + 1

(* The lookup.  A node may not have indexed a transaction that exists; a   *)
(* transaction of another intent is refused, its hash stays recorded.      *)
ReportReads ==
    /\ job.kind = "read"
    /\ LET i == job.i
           h == job.h
       IN  \/ job' = [kind |-> "commit", i |-> i, h |-> h, state |-> "submitted", block |-> NoBlock,
                      valid |-> FALSE, publish |-> FALSE]
           \/ /\ h = i /\ h \in broadcast
              /\ job' = [kind |-> "commit", i |-> i, h |-> h, state |-> "submitted", block |-> NoBlock,
                         valid |-> TRUE, publish |-> FALSE]
           \/ h # i /\ h \in broadcast /\ job' = Idle
           \/ /\ h = i
              /\ \E k \in Inclusions(h) :
                   job' = [kind |-> "commit", i |-> i, h |-> h,
                           state |-> IF chain[k].ok THEN "confirmed" ELSE "reverted",
                           block |-> BlockOf(k), valid |-> TRUE, publish |-> Publishes(i, k)]
    /\ UNCHANGED <<network, journal, file, page, asked, rejected>>

ReportPublishes == /\ job.kind = "commit" /\ job.publish
                   /\ file' = [root |-> rows[job.i].root, rev |-> rows[job.i].base.rev + 1]
                   /\ job' = [job EXCEPT !.publish = FALSE]
                   /\ UNCHANGED <<network, journal, page, asked, rejected>>

(* A settled transaction consumes the nonce its competitors need.          *)
Superseded(j) == j # job.i /\ Unresolved(j) /\ rows[j].nonce = rows[job.i].nonce

ReportCommits ==
    /\ job.kind = "commit" /\ ~job.publish
    /\ LET settles == job.state # "submitted"
       IN  /\ rows' = [j \in Ids |->
                 IF j = job.i THEN [rows[j] EXCEPT !.state = job.state, !.hash = job.h,
                                                   !.valid = job.valid, !.block = job.block]
                 ELSE IF settles /\ Superseded(j) THEN [rows[j] EXCEPT !.state = "superseded"]
                 ELSE rows[j]]
           /\ checkpoint' = IF settles THEN Higher(job.block) ELSE checkpoint
           /\ page' = IF settles /\ page.at = "pending" /\ page.i = job.i
                      THEN [at |-> "idle", i |-> 0, hash |-> 0] ELSE page
    /\ job' = Idle
    /\ UNCHANGED <<network, reviews, file, asked, rejected>>

(* The process stops, or a write fails, before the journal is committed.   *)
Crash == /\ "crash" \in Uses /\ job # Idle
         /\ job' = Idle
         /\ UNCHANGED <<network, journal, file, page, asked, rejected>>

-----------------------------------------------------------------------------
(* The page and the wallet.                                                *)

(* The marker is stored in the session before the wallet is asked.         *)
Send == /\ page.at = "planned"
        /\ page' = [page EXCEPT !.at = "asked"]
        /\ asked' = asked \cup {page.i}
        /\ UNCHANGED <<network, journal, file, job, rejected>>

(* A wallet that answered 4001 may still broadcast afterwards.             *)
Broadcast(i) == /\ i \in asked \ broadcast
                /\ i \in rejected => "late" \in Uses
                /\ broadcast' = broadcast \cup {i}
                /\ UNCHANGED <<chain, branch, journal, file, job, page, asked, rejected>>

Answers == /\ page.at = "asked"
           /\ \/ /\ page.i \in broadcast
                 /\ page' = [page EXCEPT !.at = "pending", !.hash = page.i]
                 /\ UNCHANGED rejected
              \/ /\ page.i \notin broadcast
                 /\ page' = [page EXCEPT !.at = "rejected"]
                 /\ rejected' = rejected \cup {page.i}
           /\ UNCHANGED <<network, journal, file, job, asked>>

(* A wallet error other than 4001, or a reload: only the marker is left.   *)
Forget == /\ "lost" \in Uses
          /\ page.at \in {"planned", "asked", "rejected"}
          /\ page' = [page EXCEPT !.at = "pending"]
          /\ UNCHANGED <<network, journal, file, job, asked, rejected>>

(* The user copies a hash from the wallet's activity, perhaps a wrong one. *)
Reconcile(h) == /\ page.at = "pending" /\ page.hash # h
                /\ page.hash # 0 => ~rows[page.i].valid
                /\ \/ h = page.i /\ h \in broadcast
                   \/ "typo" \in Uses /\ h # page.i /\ (h \in broadcast \/ h = Unknown)
                /\ page' = [page EXCEPT !.hash = h]
                /\ UNCHANGED <<network, journal, file, job, asked, rejected>>

(* GET status: the page takes up the pending intent of the journal, and    *)
(* drops its own marker only when the journal has resolved it.             *)
Refresh ==
    LET open == {i \in Ids : Unresolved(i)}
        first == Min(open)
    IN  /\ page.at \in {"idle", "pending"}
        /\ SettledHolds
        /\ IF open # {}
           THEN page' = [at |-> "pending", i |-> first,
                         hash |-> IF rows[first].hash # 0 THEN rows[first].hash
                                  ELSE IF page.i = first THEN page.hash ELSE 0]
           ELSE /\ page.at = "pending"
                /\ page' = [at |-> "idle", i |-> 0, hash |-> 0]
        /\ page' # page
        /\ UNCHANGED <<network, journal, file, job, asked, rejected>>

Init == /\ chain = <<>> /\ branch = 0
        /\ rows = [i \in Ids |-> NoRecord] /\ reviews = <<>> /\ checkpoint = NoBlock
        /\ file = [root |-> FirstList, rev |-> 1]
        /\ job = Idle
        /\ page = [at |-> "idle", i |-> 0, hash |-> 0]
        /\ asked = {} /\ rejected = {} /\ broadcast = {}

Kinds == {"pause", "unpause", "configure"}

Next == \/ \E i \in Ids : Include(i) \/ Broadcast(i)
        \/ Mint \/ Deadline \/ Reorganize
        \/ \E kind \in Kinds, root \in Lists : Elsewhere(kind, root) \/ Prepare(kind, root)
        \/ \E root \in Lists : Review(root)
        \/ Cancel
        \/ \E i \in Ids, h \in Ids \cup {Unknown} : ReportSaves(i, h)
        \/ ReportReads \/ ReportPublishes \/ ReportCommits \/ Crash
        \/ Send \/ Answers \/ Forget \/ Refresh
        \/ \E h \in Ids \cup {Unknown} : Reconcile(h)

Spec == Init /\ [][Next]_vars

-----------------------------------------------------------------------------
(* Properties.                                                             *)

(* Nothing is prepared and nothing is settled while a transaction that the *)
(* journal has settled before is off the canonical chain.                  *)
SettlesOverSettled ==
    (\E i \in Ids : /\ rows'[i].state # rows[i].state
                    /\ rows'[i].state \in {"prepared", "confirmed", "reverted"})
    => \A j \in Ids : Settled(rows[j]) => InChain(rows[j].block)

(* A configuration that takes effect replaces exactly the policy it was    *)
(* reviewed against, free mints included.                                  *)
ReplacesWhatWasReviewed ==
    \A k \in 1..Len(chain) :
        LET i == chain[k].tx
        IN  (i # 0 /\ chain[k].ok /\ rows[i].kind = "configure")
            => Fingerprint(PolicyAfter(k - 1)) = rows[i].base

(* No configuration takes a claimed slot from its wallet.                  *)
ClaimedSlotStays ==
    \A k \in 1..Len(chain) : PolicyAfter(k - 1).claimed => PolicyAfter(k).root = PolicyAfter(k - 1).root

(* No request is left open whose nonce a settled request has consumed: it  *)
(* could never be resolved and would block every later one.                *)
NoneStranded ==
    \A i, j \in Ids : (Unresolved(i) /\ Settled(rows[j])) => rows[i].nonce # rows[j].nonce

(* The allowlist file is never replaced by an older configuration.         *)
FilesMoveForward == [][file'.rev >= file.rev /\ (file'.rev = file.rev => file' = file)]_vars

(* The journal knows every transaction a wallet may still execute.         *)
ExecutableIsRemembered ==
    \A i \in asked : rows[i].nonce >= Policy.nonce => Known(i)

(* An abandoned request is one whose hash nobody ever reported.            *)
ReportedIsNotAbandoned ==
    [][\A i \in Ids : (rows[i] # NoRecord /\ rows[i].hash # 0) => (rows'[i].state = "abandoned" => rows[i].state = "abandoned")]_vars
=============================================================================
