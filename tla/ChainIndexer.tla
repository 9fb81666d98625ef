---------------------------- MODULE ChainIndexer ----------------------------
(***************************************************************************)
(* src/v2/indexer/reducer.ts: the state an indexer keeps of one deployment *)
(* of the gallery contract, as batches of headers, logs and receipts and   *)
(* the finality of two providers arrive.                                   *)
(*                                                                         *)
(* A block is an element of the tree that Parent and Height describe; its  *)
(* hash is its identity.  Content gives the logs of the contract in it, in *)
(* order, all of one transaction.  A log is <<block, index>>.  Of a mint   *)
(* the indexer also keeps the evidence gathered outside the chain:         *)
(* "valid", "mismatch", or "transient" when it could not be gathered; the  *)
(* authorizer of its event is that of the authorization in the evidence.   *)
(*                                                                         *)
(* A call that throws changes nothing and is not a step.  What blocks a    *)
(* promotion is reported, and never read, so it is not kept.               *)
(***************************************************************************)
EXTENDS ContractControl, FiniteSets

CONSTANTS
    Block, NoBlock, Deployment,
    Parent, Height,     \* functions on Block
    Content,            \* Block -> sequence of events
    Signature,
    Truth,              \* mint -> the evidence that careful checks arrive at
    Faults              \* what is not honest; see Environment

VARIABLES
    obs,            \* what was observed, a record:
                    \*   canonical   blocks on the path followed; the others seen are orphaned
                    \*   finalized   blocks promoted
                    \*   logs        logs seen, their block canonical or not
                    \*   receipts    blocks whose transaction's receipt was seen
                    \*   evidence    mint -> evidence last accepted
                    \*   revoked     mints whose finality was revoked
                    \*   attempted   signatures with a live transaction reported
    validation,     \* canonical log -> "valid", "pending", "quarantined"
    gallery,        \* mints shown as finalized
    holder,         \* signature -> the finalized holder of its token, or NoAccount
    aggregate,      \* signature -> the state of its minting
    promoted,       \* promotedFinalizedHash, or NoBlock
    scanned,        \* scannedHash, or NoBlock
    halted,         \* health is chain_safety_halt
    chain,          \* the tip of the chain (external)
    settled         \* the last block that is final on it (external)

projections == <<validation, gallery, holder, aggregate>>
idx == <<obs, projections, promoted, scanned, halted>>
vars == <<idx, chain, settled>>

Logs == UNION {{b} \X (1 .. Len(Content[b])) : b \in Block}
Event(l) == Content[l[1]][l[2]]
Mints == {l \in Logs : Event(l).kind = "SignatureMinted"}

Path[b \in Block] == IF b = Deployment THEN {b} ELSE Path[Parent[b]] \cup {b}
At(S, h) == {b \in S : Height[b] = h}
Below(b) == promoted # NoBlock /\ Height[b] <= Height[promoted]

(***************************************************************************)
(* rebuildIndexerProjections: the projections are computed again from the  *)
(* observations o after each change of them.                               *)
(***************************************************************************)
(* The canonical logs in the order of execution. *)
Ordered(o) ==
    LET mine(b) == SelectSeq([k \in 1 .. Len(Content[b]) |-> <<b, k>>], LAMBDA l : l \in o.logs)
        upTo[h \in 0 .. Cardinality(Block)] ==
            LET here == At(o.canonical, h)
                these == IF here = {} THEN <<>> ELSE mine(CHOOSE b \in here : TRUE)
            IN IF h = 0 THEN these ELSE upTo[h - 1] \o these
    IN upTo[Cardinality(Block)]

EventsOf(seq) == [i \in 1 .. Len(seq) |-> Event(seq[i])]

(* baseMintValidation: the receipt, the evidence, and the one transfer that
   creates the token in the same transaction. *)
Paired(o, l) ==
    { t \in o.logs : /\ t[1] = l[1] /\ Event(t).kind = "Transfer"
                     /\ Event(t).from = Zero /\ Event(t).to = Event(l).wallet
                     /\ Event(t).token = Event(l).signature }
Base(o, l) ==
    IF l[1] \notin o.receipts \/ o.evidence[l] = "transient" THEN "pending"
    ELSE IF o.evidence[l] = "mismatch" \/ Cardinality(Paired(o, l)) # 1 THEN "quarantined"
    ELSE "valid"

(* positionAwareExecutionControl: what the events before the mint say. *)
Positioned(o, l, prior) ==
    LET before == SelectSeq(prior, LAMBDA p : Event(p).kind # "Transfer")
    IN IF \E i \in 1 .. Len(before) : before[i][1] \notin o.receipts THEN "pending"
       ELSE IF \E c \in {Replay(EventsOf(before))} :
               \/ c.failed \/ c.paused \/ Event(l).id \in Spent(c)
               \/ c.epochs # <<>> /\ ~\E n \in {Event(l).epoch} :
                     Known(c, n) /\ ~c.epochs[n].revoked /\ c.epochs[n].authorizer = Event(l).authorizer
       THEN "quarantined" ELSE "valid"

Checked(o, l, prior) == IF Base(o, l) # "valid" THEN Base(o, l) ELSE Positioned(o, l, prior)

(* The first valid mint of a signature is its mint. *)
ValidMints(o, seq) ==
    LET passed == {i \in 1 .. Len(seq) : seq[i] \in Mints /\ Checked(o, seq[i], SubSeq(seq, 1, i - 1)) = "valid"}
    IN {seq[i] : i \in {j \in passed : \A k \in passed :
                          k < j => Event(seq[k]).signature # Event(seq[j]).signature}}

(* A transfer moves a token only from its holder, and creates it only in the
   transaction of its valid mint.  The holder after the logs seq. *)
Moves(o, mints, s, l, at) ==
    LET e == Event(l)
    IN /\ e.kind = "Transfer" /\ e.token = s /\ l[1] \in o.receipts
       /\ \E m \in mints : /\ Event(m).signature = s
                           /\ e.from = Zero => (m[1] = l[1] /\ e.to = Event(m).wallet)
       /\ IF e.from = Zero THEN at = NoAccount ELSE at = e.from
Holder(o, seq, mints, s) ==
    LET upTo[i \in 0 .. Len(seq)] ==
            IF i = 0 THEN {NoAccount}
            ELSE {IF Moves(o, mints, s, seq[i], at) THEN Event(seq[i]).to ELSE at : at \in upTo[i - 1]}
    IN CHOOSE at \in upTo[Len(seq)] : TRUE

(* rebuildLogValidation *)
Validation(o, seq, mints) ==
    [ l \in {seq[i] : i \in 1 .. Len(seq)} |->
        LET i == CHOOSE j \in 1 .. Len(seq) : seq[j] = l
            c == Checked(o, l, SubSeq(seq, 1, i - 1))
        IN IF l \in Mints
           THEN IF c = "valid" /\ l \notin mints THEN "quarantined" ELSE c
           ELSE IF l[1] \notin o.receipts THEN "pending"
           ELSE IF Event(l).kind = "Transfer"
                   /\ ~Moves(o, mints, Event(l).token, l, Holder(o, SubSeq(seq, 1, i - 1), mints, Event(l).token))
           THEN "quarantined" ELSE "valid" ]

(* buildGallery: the finalized valid mints whose finality stands. *)
RevokedSignatures(o) == {Event(m).signature : m \in o.revoked}
GalleryOf(o, mints) ==
    {m \in mints : m[1] \in o.finalized /\ Event(m).signature \notin RevokedSignatures(o)}

(* buildAggregates *)
AggregateOf(o, v, s) ==
    LET of(x) == {m \in Mints \cap DOMAIN v : Event(m).signature = s /\ v[m] = x}
    IN IF s \in RevokedSignatures(o) THEN "finality_revoked"
       ELSE IF of("valid") # {}
       THEN IF \E m \in of("valid") : m[1] \in o.finalized THEN "finalized" ELSE "included_unfinalized"
       ELSE IF of("quarantined") # {} THEN "quarantined"
       ELSE IF of("pending") # {} THEN "validation_pending"
       ELSE IF s \in o.attempted THEN "submitted" ELSE "unminted"

Rebuild(next) ==
    \E o \in {next} : \E seq \in {Ordered(o)} : \E mints \in {ValidMints(o, seq)} :
    \E v \in {Validation(o, seq, mints)} :
       /\ obs' = o
       /\ validation' = v
       /\ gallery' = GalleryOf(o, mints)
       /\ holder' = [s \in Signature |->
                       Holder(o, SelectSeq(seq, LAMBDA l : l[1] \in o.finalized), mints, s)]
       /\ aggregate' = [s \in Signature |-> AggregateOf(o, v, s)]

(* createIndexerState *)
Init ==
    /\ obs = [ canonical |-> {}, finalized |-> {}, logs |-> {}, receipts |-> {},
               evidence |-> [l \in Mints |-> "transient"], revoked |-> {}, attempted |-> {} ]
    /\ validation = <<>> /\ gallery = {}
    /\ holder = [s \in Signature |-> NoAccount]
    /\ aggregate = [s \in Signature |-> "unminted"]
    /\ promoted = NoBlock /\ scanned = NoBlock /\ halted = FALSE
    /\ chain = Deployment /\ settled = Deployment

(***************************************************************************)
(* applyScanBatch(headers H, a path; logs L; receipts R; evidence E).      *)
(***************************************************************************)
Halt == halted' = TRUE /\ UNCHANGED <<obs, projections, promoted, scanned>>

(* storedContinuityFailure *)
Continuous ==
    scanned = NoBlock \/
    LET from == IF promoted = NoBlock THEN Deployment ELSE promoted
    IN \A h \in Height[from] .. Height[scanned] :
          /\ Cardinality(At(obs.canonical, h)) = 1
          /\ h = Height[from] => At(obs.canonical, h) = {from}
          /\ h > Height[from] => \A b \in At(obs.canonical, h) : At(obs.canonical, h - 1) = {Parent[b]}

(* Something that finality covers reads differently now. *)
(* slip: a log first seen now is new wherever it is *)
BadDiverges(L, R, E) ==
    \E l \in L \cap obs.logs \cap Mints : Below(l[1]) /\ E[l] # obs.evidence[l]
Diverges(L, R, E) ==
    \/ \E l \in L : Below(l[1]) /\ (l \notin obs.logs \/ (l \in Mints /\ E[l] # obs.evidence[l]))
    \/ \E b \in R \ obs.receipts : Below(b)

(* omittedObservation *)
Omits(H, L, R) ==
    {b \in H : b \in obs.receipts \ R \/ \E l \in obs.logs \ L : l[1] = b}

(* The lowest header that contradicts a canonical block; findReorgAncestor:
   the canonical block both grow from, the header before it or the parent
   of the first. *)
Replaced(H) == {b \in H : \E c \in obs.canonical \ {b} : Height[c] = Height[b]}
Lowest(S) == CHOOSE b \in S : \A c \in S : Height[b] <= Height[c]
Common(H) == IF Lowest(Replaced(H)) = Deployment THEN {}
             ELSE {Parent[Lowest(Replaced(H))]} \cap obs.canonical

Contradicts(H) ==
    Replaced(H) # {} /\ (\/ Below(Lowest(Replaced(H)))
                        \/ Common(H) = {}
                        \/ \E a \in Common(H) : promoted # NoBlock /\ Height[a] < Height[promoted])
Unlinked(H) == LET first == Lowest(H)
               IN IF first = Deployment THEN scanned # NoBlock /\ Deployment \notin obs.canonical
                  ELSE Parent[first] \notin obs.canonical

Refreshed(L, E) ==
    [l \in Mints |-> IF l \in L /\ l[1] \notin obs.finalized THEN E[l] ELSE obs.evidence[l]]

Accept(H, L, R, E) ==
    LET reorg == Replaced(H) # {}
        kept == IF reorg
                THEN {b \in obs.canonical : \A a \in Common(H) : Height[b] <= Height[a]}
                ELSE obs.canonical
        last == CHOOSE b \in H : \A c \in H : Height[c] <= Height[b]
    IN /\ Rebuild([obs EXCEPT !.canonical = kept \cup H, !.finalized = @ \cap kept,
                              !.logs = @ \cup L, !.receipts = @ \cup R,
                              !.evidence = Refreshed(L, E)])
       /\ scanned' = IF reorg \/ scanned = NoBlock THEN last
                     ELSE IF Height[last] > Height[scanned] THEN last ELSE scanned
       /\ UNCHANGED <<promoted, halted>>

(* agree: both providers return the promoted block at its height. *)
ApplyScanBatch(H, L, R, E, agree) ==
    /\ ~halted
    /\ IF (promoted # NoBlock /\ ~agree) \/ ~Continuous \/ Diverges(L, R, E) THEN Halt
       ELSE /\ \A b \in Omits(H, L, R) : Below(b)
            /\ IF Omits(H, L, R) # {} \/ Contradicts(H) \/ Unlinked(H)
               THEN Halt ELSE Accept(H, L, R, E)

(***************************************************************************)
(* promoteFinalized: first and second are the blocks the two providers     *)
(* return at the lower of their finalized heights.                         *)
(***************************************************************************)
(* slip: the second provider is asked and not compared *)
BadAgreed(first, second) == first
Agreed(first, second) == IF first = second THEN first ELSE NoBlock

PendingThrough(b) ==
    {l \in DOMAIN validation : validation[l] = "pending" /\ Height[l[1]] <= Height[b]}

(* contiguousCoverage *)
Covered(b) ==
    LET from == IF promoted = NoBlock THEN Deployment ELSE promoted
    IN \A c \in Path[b] : Height[c] >= Height[from] => c \in obs.canonical

PromoteFinalized(first, second, agree) ==
    /\ ~halted
    /\ IF promoted # NoBlock /\ ~agree THEN Halt
       ELSE LET b == Agreed(first, second)
            IN /\ b # NoBlock /\ b \in obs.canonical
               /\ ~Below(b) /\ Covered(b) /\ PendingThrough(b) = {}
               /\ Rebuild([obs EXCEPT !.finalized = @ \cup {c \in obs.canonical : Height[c] <= Height[b]}])
               /\ promoted' = b
               /\ UNCHANGED <<scanned, halted>>

(* markFinalityRevoked, from a height on. *)
MarkFinalityRevoked(h) ==
    /\ halted
    /\ {m \in gallery : Height[m[1]] >= h} # {}
    /\ Rebuild([obs EXCEPT !.revoked = @ \cup {m \in gallery : Height[m[1]] >= h}])
    /\ UNCHANGED <<promoted, scanned, halted>>

(* recordMintAttempt: reported, or found reverted or replaced. *)
RecordMintAttempt(s) ==
    /\ Rebuild([obs EXCEPT !.attempted = IF s \in @ THEN @ \ {s} ELSE @ \cup {s}])
    /\ UNCHANGED <<promoted, scanned, halted>>

(***************************************************************************)
(* Environment (external).  The chain grows, replaces its tip above what   *)
(* is settled, and settles.  The caller scans from the block after the     *)
(* promoted one to any block of the chain.  Faults may contain             *)
(*   "omit"      the source of a scan leaves out logs or receipts,         *)
(*   "start"     the caller scans from any block,                          *)
(*   "second"    the second provider returns any block at all,             *)
(*   "deep"      the chain replaces blocks that were settled.              *)
(***************************************************************************)
Grow == /\ \E b \in Block \ {Deployment} :
              /\ b \notin Path[chain]
              /\ settled \in Path[b]
              /\ Parent[b] = chain \/ Height[b] = Height[chain]
              /\ chain' = b
        /\ UNCHANGED <<idx, settled>>
Settle == /\ \E b \in Path[chain] \ Path[settled] : Parent[b] = settled /\ settled' = b
          /\ UNCHANGED <<idx, chain>>
DeepReorg == /\ "deep" \in Faults
             /\ \E b \in Block \ Path[chain] :
                   /\ settled \notin Path[b]
                   /\ chain' = b
                   /\ settled' = CHOOSE c \in Path[b] \cap Path[settled] :
                                    \A d \in Path[b] \cap Path[settled] : Height[d] <= Height[c]
             /\ UNCHANGED idx

Resume == IF promoted = NoBlock THEN 0 ELSE Height[promoted] + 1
Batches ==
    { {b \in Path[last] : Height[b] >= h} :
        last \in Path[chain], h \in IF "start" \in Faults THEN 0 .. 2 ELSE {Resume} } \ {{}}
LogsOf(H) == {l \in Logs : l[1] \in H}
WithLogs(H) == {b \in H : Content[b] # <<>>}
GivenLogs(H) == IF "omit" \in Faults THEN {LogsOf(H)} \cup {LogsOf(H) \ LogsOf({b}) : b \in H}
                ELSE {LogsOf(H)}
GivenReceipts(H) == {WithLogs(H), IF "omit" \in Faults THEN {} ELSE WithLogs(H) \cap obs.receipts}
GivenEvidence(H) ==
    { [l \in Mints |-> IF l[1] \in H THEN f[l] ELSE "transient"] :
        f \in {g \in [Mints -> {"valid", "mismatch", "transient"}] :
                 \A l \in Mints : g[l] \in {Truth[l], "transient"}} }
SaysCheckpoint ==
    IF promoted = NoBlock THEN {TRUE}
    ELSE {promoted \in Path[chain]} \cup (IF "second" \in Faults THEN {FALSE} ELSE {})
Reported(b) == IF "second" \in Faults THEN At(Block, Height[b]) ELSE {b}

Scan == /\ \E H \in Batches :
             \E L \in GivenLogs(H), R \in GivenReceipts(H), E \in GivenEvidence(H), agree \in SaysCheckpoint :
                ApplyScanBatch(H, L, R, E, agree)
        /\ UNCHANGED <<chain, settled>>
Promote == /\ \E b \in Path[settled], agree \in SaysCheckpoint :
                \E r \in Reported(b) : PromoteFinalized(r, b, agree) \/ PromoteFinalized(b, r, agree)
           /\ UNCHANGED <<chain, settled>>
Revoke == (\E h \in 0 .. 3 : MarkFinalityRevoked(h)) /\ UNCHANGED <<chain, settled>>
Attempt == (\E s \in Signature : RecordMintAttempt(s)) /\ UNCHANGED <<chain, settled>>

Next == Scan \/ Promote \/ Revoke \/ Attempt \/ Grow \/ Settle \/ DeepReorg
Spec == Init /\ [][Next]_vars

(***************************************************************************)
(* Properties.                                                             *)
(***************************************************************************)
(* The gallery holds, up to the promoted block, the mints of the chain whose
   evidence is good and names the authorizer the chain gave their epoch, and
   no others. *)
Authorizes(e, m) ==
    e.kind = "EpochAdded" /\ e.epoch = Event(m).epoch /\ e.authorizer = Event(m).authorizer
GalleryIsTheChain ==
    promoted # NoBlock =>
       gallery = {m \in Mints : /\ m[1] \in Path[promoted] /\ Truth[m] = "valid"
                                /\ \E l \in Logs : l[1] \in Path[promoted] /\ Authorizes(Event(l), m)}

(* A shallow reorganization, a late receipt and a check that could not be
   made never stop the indexer: over honest sources it does not halt. *)
NeverHalts == ~halted

(* Both providers are needed: with one that says anything, only blocks that
   are final are promoted. *)
PromotedIsFinal == promoted # NoBlock => promoted \in Path[settled]

(* An entry enters the gallery by the promotion of its block and never later,
   stays, with its holder, and leaves only by revocation after a halt.  The
   aggregate of its signature says so too. *)
SettledStays ==
    [][ /\ \A m \in gallery : m \in gallery' \/ (halted /\ m \in obs'.revoked)
        /\ \A m \in gallery' \ gallery : promoted' # promoted /\ ~Below(m[1])
        /\ promoted' = promoted => holder' = holder
        /\ \A s \in Signature :
              aggregate[s] = "finalized" => aggregate'[s] \in {"finalized", "finality_revoked"} ]_vars
=============================================================================
