----------------------------- MODULE PulseSite ------------------------------
(***************************************************************************)
(* The request journal of the Sepolia test site (scripts/                  *)
(* pulse-sepolia-site.mjs): one row per handle, in memory and in           *)
(* web-records.json, from the authorization that is signed for a wallet to *)
(* the proof that it can never mint.  All tasks that write the journal run *)
(* one after another (the `serial` promise chain); each reads the chain,   *)
(* and the chain, the session and the process may change before it writes. *)
(*                                                                         *)
(* Block timestamps are block numbers.  The server's own clock is not the  *)
(* chain's: a test against Date.now() may go either way.                   *)
(***************************************************************************)
EXTENDS Naturals, FiniteSets, FiniteSetsExt, TLAPS, FiniteSetTheorems

CONSTANTS
    Handles,        \* canonical handles
    Wallets,        \* wallets with a verified session; each has one free slot
    None,
    MaxAttempts,    \* bound on the authorizations ever signed
    MaxBlock,       \* bound on the chain; no authorization outlives it
    Window,         \* life of an authorization: 900 seconds
    FreeDeadline,   \* the end of the free phase; paid minting follows it
    MaxRequests,    \* the site prepares requests for at most 50 handles
    Faults          \* which of "disk", "crash", "reorg", "session" happen

Stages == {"prepared", "begun", "reported", "expired"}
Hashes == {None, "sent", "other"}
Rows == [id : 1..MaxAttempts, stage : Stages, hash : Hashes]
Signed == [handle : Handles, wallet : Wallets, mode : {"free", "paid"}, deadline : Nat]

ASSUME SiteAssumption ==
    /\ {MaxAttempts, MaxBlock, Window, FreeDeadline, MaxRequests} \subseteq Nat
    /\ None \notin Rows /\ None \notin Signed /\ None \notin 1..MaxAttempts

VARIABLES
    head, final,    \* numbers of the latest and of the finalized block
    mined,          \* id -> the block that includes its mint, or 0
    attempts,       \* id -> [handle, wallet, mode, deadline], or None
    released,       \* ids whose transaction some browser has received
    mem, disk,      \* handle -> [id, stage, hash], or None: db.requests and web-records.json
    site,           \* "down", "starting", "open" or "prelaunch"
    lock,           \* whether site.lock exists
    record,         \* site-launch.json: "none", "partial" or "written"
    job,            \* the running serial task
    sends           \* id -> how many times a browser was told to send it

chain == <<head, final, mined>>
launch == <<site, lock, record>>
journal == <<mem, disk>>
vars == <<head, final, mined, attempts, released, mem, disk, site, lock, record, job, sends>>

Ids == 1..MaxAttempts
Idle == [kind |-> "none"]

MintedBy(h, b) == \E i \in Ids : mined[i] \in 1..b /\ attempts[i].handle = h
SlotUsedBy(w, b) == \E i \in Ids : mined[i] \in 1..b /\ attempts[i].wallet = w /\ attempts[i].mode = "free"

(* What the sale offers a wallet at a block: its free slot while the free  *)
(* phase lasts, a paid mint afterwards.                                    *)
Offered(w, mode, b) == IF b < FreeDeadline THEN mode = "free" /\ ~SlotUsedBy(w, b) ELSE mode = "paid"

(* The collection accepts an authorization in the block after b.           *)
Accepts(a, b) == b + 1 < a.deadline /\ ~MintedBy(a.handle, b) /\ Offered(a.wallet, a.mode, b)

Init == /\ head = 1 /\ final = 1
        /\ mined = [i \in Ids |-> 0]
        /\ attempts = [i \in Ids |-> None]
        /\ released = {}
        /\ mem = [h \in Handles |-> None] /\ disk = mem
        /\ site = "down" /\ lock = FALSE /\ record = "none"
        /\ job = Idle
        /\ sends = [i \in Ids |-> 0]

-----------------------------------------------------------------------------
(* The chain.  A wallet may broadcast any transaction a browser was given, *)
(* at any time and for as long as it likes.                                *)

Mine == /\ head < MaxBlock
        /\ head' = head + 1
        /\ \/ mined' = mined
           \/ \E i \in released : /\ mined[i] = 0 /\ Accepts(attempts[i], head)
                                  /\ mined' = [mined EXCEPT ![i] = head']
        /\ UNCHANGED <<final, attempts, released, journal, launch, job, sends>>

Finalize == /\ final < head
            /\ final' \in (final + 1)..head
            /\ UNCHANGED <<head, mined, attempts, released, journal, launch, job, sends>>

Reorganize == /\ "reorg" \in Faults
              /\ head' \in final..(head - 1)
              /\ mined' = [i \in Ids |-> IF mined[i] > head' THEN 0 ELSE mined[i]]
              /\ UNCHANGED <<final, attempts, released, journal, launch, job, sends>>

-----------------------------------------------------------------------------
(* Writing the journal: a temporary file, a rename, a directory sync.  An  *)
(* error before the rename leaves the old file, one after it the new file; *)
(* either way the row in memory is put back.                               *)

Committed(h, row) == mem' = [mem EXCEPT ![h] = row] /\ disk' = [h2 \in Handles |-> mem'[h2]]

CommitFails(h, row) == /\ "disk" \in Faults
                       /\ mem' = mem
                       /\ \/ disk' = disk
                          \/ disk' = [mem EXCEPT ![h] = row]

End == job' = Idle

-----------------------------------------------------------------------------
(* POST /api/test/prepare.                                                 *)

NewDeadline(mode, b) == IF mode = "free" /\ b + Window > FreeDeadline THEN FreeDeadline ELSE b + Window

NextId == Cardinality({i \in Ids : attempts[i] # None}) + 1

(* At an anchored finalized block: the authorization is expired and        *)
(* unused, and its handle is unminted.                                     *)

ProofBlock == final
Retired(i, b) == b >= attempts[i].deadline /\ ~ mined[i] \in 1..b /\ ~MintedBy(attempts[i].handle, b)

(* The read of the sale, the slot and the handle at the head, then the     *)
(* decision about the row that is there.                                   *)
PrepareRead(w, h, mode) ==
    /\ site = "open" /\ job = Idle
    /\ ~MintedBy(h, head) /\ Offered(w, mode, head)
    /\ LET prior == mem[h]
           Go(phase, id) == job' = [kind |-> "prepare", phase |-> phase, wallet |-> w, handle |-> h,
                                    mode |-> mode, block |-> head, id |-> id, stale |-> FALSE] IN
       \/ /\ prior = None
          /\ Cardinality({x \in Handles : mem[x] # None}) < MaxRequests
          /\ Go("estimate", None)
       \/ prior # None /\ prior.stage = "expired" /\ Go("inspect", None)
       \/ /\ prior # None /\ prior.stage = "prepared"
          /\ attempts[prior.id].wallet = w /\ attempts[prior.id].mode = mode
          /\ Go("reply", prior.id)
    /\ UNCHANGED <<chain, attempts, released, journal, launch, sends>>

(* An expired row is only replaced after a second proof.                   *)
PrepareInspect ==
    /\ job.kind = "prepare" /\ job.phase = "inspect"
    /\ job' = IF Retired(mem[job.handle].id, ProofBlock) /\ ~job.stale THEN [job EXCEPT !.phase = "estimate"] ELSE Idle
    /\ UNCHANGED <<chain, attempts, released, journal, launch, sends>>

Draft == [handle |-> job.handle, wallet |-> job.wallet, mode |-> job.mode,
          deadline |-> NewDeadline(job.mode, job.block)]

(* The new authorization is signed and the node simulates its transaction  *)
(* at the latest block.                                                    *)
PrepareEstimate ==
    /\ job.kind = "prepare" /\ job.phase = "estimate"
    /\ job' = IF Accepts(Draft, head) THEN [job EXCEPT !.phase = "commit"] ELSE Idle
    /\ UNCHANGED <<chain, attempts, released, journal, launch, sends>>

PrepareCommit ==
    /\ job.kind = "prepare" /\ job.phase = "commit" /\ ~job.stale
    /\ NextId \in Ids /\ Draft.deadline <= MaxBlock
    /\ attempts' = [attempts EXCEPT ![NextId] = Draft]
    /\ LET row == [id |-> NextId, stage |-> "prepared", hash |-> None] IN
       \/ Committed(job.handle, row) /\ job' = [job EXCEPT !.phase = "reply", !.id = NextId]
       \/ CommitFails(job.handle, row) /\ End
    /\ UNCHANGED <<chain, released, launch, sends>>

PrepareReply ==
    /\ job.kind = "prepare" /\ job.phase = "reply"
    /\ released' = released \cup {job.id}
    /\ End
    /\ UNCHANGED <<chain, attempts, journal, launch, sends>>

-----------------------------------------------------------------------------
(* POST /api/test/begin: the last reads before the wallet is opened.       *)

BeginRead(w, h) ==
    /\ site = "open" /\ job = Idle
    /\ mem[h] # None /\ mem[h].id \in released /\ attempts[mem[h].id].wallet = w
    /\ job' = [kind |-> "begin", wallet |-> w, handle |-> h, block |-> head, id |-> mem[h].id, stale |-> FALSE]
    /\ UNCHANGED <<chain, attempts, released, journal, launch, sends>>

(* slip: the stage is not looked at *)
BadMayBegin(row) == ~job.stale
MayBegin(row) == row.stage = "prepared" /\ ~job.stale

BeginCommit ==
    /\ job.kind = "begin"
    /\ LET h == job.handle  row == mem[h]  a == attempts[row.id] IN
       /\ ~MintedBy(h, job.block) /\ Offered(a.wallet, a.mode, job.block)
       /\ MayBegin(row)
       /\ \/ /\ Committed(h, [row EXCEPT !.stage = "begun"])
             /\ sends' = [sends EXCEPT ![row.id] = IF @ = 2 THEN 2 ELSE @ + 1]
          \/ CommitFails(h, [row EXCEPT !.stage = "begun"]) /\ UNCHANGED sends
    /\ End
    /\ UNCHANGED <<chain, attempts, released, launch>>

(* POST /api/test/report: the hash the wallet gave, which a later          *)
(* replacement of the transaction may make wrong ("other").                *)
Report(w, h, hash) ==
    /\ site = "open" /\ job = Idle
    /\ mem[h] # None /\ attempts[mem[h].id].wallet = w
    /\ mem[h].stage = "begun" /\ sends[mem[h].id] > 0
    /\ LET next == [mem[h] EXCEPT !.stage = "reported", !.hash = hash] IN
       Committed(h, next) \/ CommitFails(h, next)
    /\ UNCHANGED <<chain, attempts, released, launch, job, sends>>

-----------------------------------------------------------------------------
(* The mint event of exactly this authorization in the finalized blocks     *)
(* before its expiry; its hash is a pointer that is verified again.        *)
Discovered(row) == mined[row.id] \in 1..ProofBlock

(* POST /api/test/recover: what the finalized chain says about the saved   *)
(* attempt.  The person may paste the hash the wallet shows.               *)

Inspected(row, pasted) ==
    LET hash == IF pasted = None THEN row.hash ELSE pasted
        gone == Retired(row.id, ProofBlock) IN
    IF hash = "other" /\ ~gone THEN [state |-> "refused", hash |-> None]
    ELSE IF hash = None /\ Discovered(row) THEN [state |-> "found", hash |-> "sent"]
    ELSE IF ~gone THEN [state |-> IF hash = None THEN "unknown" ELSE "found", hash |-> hash]
    ELSE [state |-> "retry-allowed", hash |-> hash]

(* It is open to every verified session while the listener is up, whatever *)
(* the launch gate says.                                                   *)
RecoverRead(w, h, pasted) ==
    /\ site \in {"starting", "open", "prelaunch"} /\ job = Idle
    /\ mem[h] # None /\ attempts[mem[h].id].wallet = w
    /\ pasted # None => mem[h].id \in released
    /\ job' = [kind |-> "recover", wallet |-> w, handle |-> h, result |-> Inspected(mem[h], pasted), stale |-> FALSE]
    /\ UNCHANGED <<chain, attempts, released, journal, launch, sends>>

Retire ==
    /\ job.kind = "recover" /\ job.result.state = "retry-allowed" /\ ~job.stale
    /\ LET row == mem[job.handle]
           next == [id |-> row.id, stage |-> "expired", hash |-> IF job.result.hash = None THEN row.hash ELSE job.result.hash] IN
       Committed(job.handle, next) \/ CommitFails(job.handle, next)
    /\ End
    /\ UNCHANGED <<chain, attempts, released, launch, sends>>

Adopt ==
    /\ job.kind = "recover" /\ job.result.state = "found" /\ ~job.stale
    /\ LET next == [id |-> mem[job.handle].id, stage |-> "reported", hash |-> job.result.hash] IN
       Committed(job.handle, next) \/ CommitFails(job.handle, next)
    /\ End
    /\ UNCHANGED <<chain, attempts, released, launch, sends>>

(* Every other end of a task is an error or an answer without a write; the *)
(* reply may also be lost on its way.                                      *)
GiveUp == /\ job # Idle
          /\ End
          /\ UNCHANGED <<chain, attempts, released, journal, launch, sends>>

(* A new challenge, another wallet or a logout while a task awaits.        *)
SessionChanges == /\ "session" \in Faults
                  /\ job # Idle
                  /\ job' = [job EXCEPT !.stale = TRUE]
                  /\ UNCHANGED <<chain, attempts, released, journal, launch, sends>>

-----------------------------------------------------------------------------
(* The process and its launch record.                                      *)

Refused(mode) == \/ record = "partial"
                 \/ mode = "prelaunch" /\ (record = "written" \/ \E h \in Handles : disk[h] # None)

Start(mode) ==
    /\ site = "down" /\ ~lock
    /\ ~Refused(mode)
    /\ site' = IF mode = "prelaunch" THEN "prelaunch" ELSE "starting"
    /\ lock' = TRUE
    /\ mem' = disk
    /\ UNCHANGED <<chain, attempts, released, disk, record, job, sends>>

(* After the listener is bound the opening is recorded durably; only then  *)
(* does the gate open.  A failure removes the file and refuses startup.    *)
Activate ==
    /\ site = "starting"
    /\ \/ record \in {"none", "written"} /\ record' = "written" /\ site' = "open" /\ UNCHANGED lock
       \/ record = "none" /\ "disk" \in Faults /\ site' = "down" /\ lock' = FALSE /\ UNCHANGED record
    /\ UNCHANGED <<chain, attempts, released, journal, job, sends>>

Close == /\ site \in {"open", "prelaunch"} /\ job = Idle
         /\ site' = "down" /\ lock' = FALSE
         /\ UNCHANGED <<chain, attempts, released, journal, record, job, sends>>

(* A crash leaves the lock file behind, and an opening record that was     *)
(* being written in any condition.                                         *)
Crash == /\ "crash" \in Faults /\ site # "down"
         /\ site' = "down" /\ End
         /\ record' \in {record} \cup (IF site = "starting" /\ record = "none" THEN {"partial", "written"} ELSE {})
         /\ UNCHANGED <<chain, attempts, released, journal, lock, sends>>

(* The operator looks at a lock whose process is gone, and at a record     *)
(* that cannot be read; it is completed, never forgotten.                  *)
OperatorRepairs == /\ site = "down" /\ (lock \/ record = "partial")
                   /\ lock' = FALSE
                   /\ record' = IF record = "partial" THEN "written" ELSE record
                   /\ UNCHANGED <<chain, attempts, released, journal, site, job, sends>>

Next == \/ Mine \/ Finalize \/ Reorganize
        \/ \E w \in Wallets, h \in Handles :
              \/ \E mode \in {"free", "paid"} : PrepareRead(w, h, mode)
              \/ BeginRead(w, h)
              \/ \E hash \in {"sent", "other"} : Report(w, h, hash)
              \/ \E pasted \in {None, "sent"} : RecoverRead(w, h, pasted)
        \/ PrepareInspect \/ PrepareEstimate \/ PrepareCommit \/ PrepareReply
        \/ BeginCommit \/ Retire \/ Adopt \/ GiveUp \/ SessionChanges
        \/ \E mode \in {"open", "prelaunch"} : Start(mode)
        \/ Activate \/ Close \/ Crash \/ OperatorRepairs

Spec == Init /\ [][Next]_vars

-----------------------------------------------------------------------------
(* Of the authorizations handed to browsers for one handle, all but the    *)
(* one in the journal are dead for good: unused in every block there is    *)
(* and expired at a block that cannot be reorganized away.  A person who   *)
(* is offered another attempt can therefore never mint, or pay, twice.     *)
OneLiveAttempt ==
    \A i, j \in released : i < j /\ attempts[i].handle = attempts[j].handle =>
        mined[i] = 0 /\ final >= attempts[i].deadline

(* A row that says "expired" tells the browser it may forget the attempt   *)
(* and start again: its transaction, still pending in some wallet, must    *)
(* never be included afterwards.                                           *)
ExpiredNeverMints ==
    \A h \in Handles : /\ mem[h] # None /\ mem[h].stage = "expired" => mined[mem[h].id] = 0
                       /\ disk[h] # None /\ disk[h].stage = "expired" => mined[disk[h].id] = 0

(* A browser is told at most once that it may send an attempt to its       *)
(* wallet, whatever fails and whoever restarts in between.                 *)
SentOnce == \A i \in Ids : sends[i] <= 1

(* Every transaction that may reach the chain is in the file: a restart    *)
(* can still say which attempt of the handle it belongs to.                *)
ReleasedIsDurable ==
    \A i \in released : \E h \in Handles : attempts[i].handle = h /\ disk[h] # None /\ disk[h].id >= i

(* The site never presents itself as not yet opened once somebody holds a  *)
(* transaction it released.                                                *)
PrelaunchIsFirst == site = "prelaunch" => released = {}

(* All of it: no second live attempt of a handle, nothing resent, nothing  *)
(* released off the record, and no way back to pre-launch                  *)
(* (pulse-sepolia-site.mjs, pulse-site-launch.mjs).                        *)
AttemptsHold == /\ OneLiveAttempt /\ ExpiredNeverMints
                /\ SentOnce /\ ReleasedIsDurable /\ PrelaunchIsFirst

-----------------------------------------------------------------------------
(* Proofs, for any handles, wallets, bounds and faults.                     *)

PrepareJobs ==
    [kind : {"prepare"}, phase : {"estimate", "inspect", "commit", "reply"}, wallet : Wallets,
     handle : Handles, mode : {"free", "paid"}, block : Nat, id : Ids \cup {None}, stale : BOOLEAN]
BeginJobs ==
    [kind : {"begin"}, wallet : Wallets, handle : Handles, block : Nat, id : Ids, stale : BOOLEAN]
RecoverJobs ==
    [kind : {"recover"}, wallet : Wallets, handle : Handles,
     result : [state : {"refused", "found", "unknown", "retry-allowed"}, hash : Hashes], stale : BOOLEAN]

(* The variables the argument reads are of their types.                     *)
SiteTypeOK ==
    /\ head \in Nat /\ final \in Nat /\ mined \in [Ids -> Nat]
    /\ attempts \in [Ids -> Signed \cup {None}]
    /\ released \in SUBSET Ids
    /\ mem \in [Handles -> Rows \cup {None}] /\ disk \in [Handles -> Rows \cup {None}]
    /\ site \in {"down", "starting", "open", "prelaunch"}
    /\ job \in {Idle} \cup PrepareJobs \cup BeginJobs \cup RecoverJobs
    /\ sends \in [Ids -> Nat]

Used(i) == attempts[i] # None
\* Nothing can include it any more: it was not, and it has expired for good.
Dead(i) == mined[i] = 0 /\ final >= attempts[i].deadline

\* What is in a block was released and included before its deadline.
ChainInv ==
    /\ final <= head
    /\ \A i \in Ids : mined[i] # 0 => i \in released /\ mined[i] < attempts[i].deadline
\* Identifiers are given out in order, and an unused one was never sent.
IdsInv ==
    /\ \E n \in 0..MaxAttempts : \A i \in Ids : Used(i) <=> i <= n
    /\ \A i \in Ids : ~Used(i) => sends[i] = 0
\* A row is of an authorization for its handle.
RowOK(h, r) == r # None =>
    /\ Used(r.id) /\ attempts[r.id].handle = h
    /\ r.stage = "expired" => Dead(r.id)
    /\ r.stage = "prepared" => sends[r.id] = 0
\* The file is never behind memory; where it has a later authorization, that of
\* memory is dead.
PairOK(h) == mem[h] # None =>
    /\ disk[h] # None /\ mem[h].id <= disk[h].id
    /\ mem[h].id # disk[h].id => Dead(mem[h].id)
RowsInv == \A h \in Handles : RowOK(h, mem[h]) /\ RowOK(h, disk[h]) /\ PairOK(h)
\* What was released is the authorization in memory, or dead.
ReleasedOK(i) ==
    /\ Used(i) /\ mem[attempts[i].handle] # None /\ i <= mem[attempts[i].handle].id
    /\ i # mem[attempts[i].handle].id => Dead(i)
ReleasedInv == \A i \in released : ReleasedOK(i)
\* What a task knows of the row it began with.
JobOK(r) ==
    /\ job.kind = "prepare" =>
          /\ job.phase = "inspect" => r # None /\ r.stage = "expired"
          /\ job.phase \in {"estimate", "commit"} => r = None \/ r.stage = "expired"
          /\ job.phase = "reply" => r # None /\ job.id = r.id
    /\ job.kind = "begin" => r # None
    /\ job.kind = "recover" => r # None /\ (job.result.state = "retry-allowed" => Dead(r.id))
JobInv == job # Idle => JobOK(mem[job.handle])
\* Only the open site prepares and begins; while it starts, memory and file are of the
\* same authorizations.
SameIds == \A h \in Handles :
    /\ mem[h] = None <=> disk[h] = None
    /\ mem[h] # None => mem[h].id = disk[h].id
GateInv ==
    /\ job.kind \in {"prepare", "begin"} => site = "open"
    /\ site = "starting" \/ (site = "down" /\ job # Idle) => SameIds
    /\ PrelaunchIsFirst

SiteInv == SiteTypeOK /\ ChainInv /\ IdsInv /\ RowsInv /\ ReleasedInv /\ JobInv /\ GateInv /\ SentOnce

LEMMA SiteInit == Init => SiteInv
<1> SUFFICES ASSUME Init PROVE SiteInv
  OBVIOUS
<1> USE DEF Init
<1>1. SiteTypeOK
  BY SiteAssumption DEF SiteTypeOK, Ids
<1>2. ChainInv /\ SentOnce
  BY DEF ChainInv, SentOnce
<1>3. IdsInv
  <2>1. \A i \in Ids : Used(i) <=> i <= 0
    BY SiteAssumption DEF Used, Ids
  <2>2. 0 \in 0..MaxAttempts
    BY SiteAssumption
  <2> QED BY <2>1, <2>2 DEF IdsInv
<1>4. RowsInv /\ ReleasedInv /\ JobInv
  BY DEF RowsInv, RowOK, PairOK, ReleasedInv, JobInv
<1>5. GateInv
  BY DEF GateInv, PrelaunchIsFirst, Idle
<1> QED BY <1>1, <1>2, <1>3, <1>4, <1>5 DEF SiteInv

\* What is dead stays dead while authorizations stay, whatever the chain does.
LEMMA ChainKept ==
    ASSUME SiteInv, Mine \/ Finalize \/ Reorganize
    PROVE  /\ ChainInv' /\ mined' \in [Ids -> Nat] /\ head' \in Nat /\ final' \in Nat
           /\ \A i \in Ids : Used(i) /\ Dead(i) => Dead(i)'
<1> USE DEF SiteInv, SiteTypeOK, ChainInv
<1>0. \A i \in Ids : Used(i) => attempts[i].deadline \in Nat
  BY DEF Used, Signed
<1>1. CASE Mine
  <2>1. head' = head + 1 /\ UNCHANGED <<final, attempts, released>>
    BY <1>1 DEF Mine
  <2>2. CASE mined' = mined
    BY <2>1, <2>2 DEF Dead, Used
  <2>3. CASE \E i \in released : /\ mined[i] = 0 /\ Accepts(attempts[i], head)
                                /\ mined' = [mined EXCEPT ![i] = head']
    <3>1. PICK i \in released : mined[i] = 0 /\ Accepts(attempts[i], head) /\ mined' = [mined EXCEPT ![i] = head']
      BY <2>3
    <3>2. i \in Ids /\ Used(i) /\ attempts[i].deadline \in Nat /\ head + 1 < attempts[i].deadline
      BY <3>1, <1>0 DEF Accepts, ReleasedInv, ReleasedOK
    <3>3. ~Dead(i)
      BY <3>2 DEF Dead
    <3>4. mined'[i] = head + 1 /\ \A j \in Ids : j # i => mined'[j] = mined[j]
      BY <3>1, <3>2, <2>1
    <3>5. ChainInv'
      BY <3>1, <3>2, <3>4, <2>1
    <3>6. \A j \in Ids : Used(j) /\ Dead(j) => Dead(j)'
      BY <3>3, <3>4, <2>1 DEF Dead
    <3> QED BY <3>1, <3>5, <3>6, <2>1
  <2> QED BY <2>2, <2>3, <1>1 DEF Mine
<1>2. CASE Finalize
  <2>1. final' \in Nat /\ final < final' /\ final' <= head /\ UNCHANGED <<head, mined, attempts, released>>
    BY <1>2 DEF Finalize
  <2> QED BY <2>1, <1>0 DEF Dead
<1>3. CASE Reorganize
  <2>1. /\ head' \in Nat /\ final <= head' /\ UNCHANGED <<final, attempts, released>>
        /\ mined' = [i \in Ids |-> IF mined[i] > head' THEN 0 ELSE mined[i]]
    BY <1>3 DEF Reorganize
  <2>2. \A i \in Ids : mined'[i] = 0 \/ mined'[i] = mined[i]
    BY <2>1
  <2>3. \A i \in Ids : mined[i] = 0 => mined'[i] = 0
    BY <2>2
  <2> QED BY <2>1, <2>2, <2>3 DEF Dead
<1> QED BY <1>1, <1>2, <1>3

\* The rest of the invariant, through any step in which the dead stay dead and no row,
\* authorization or task is touched.
LEMMA ChainSteps ==
    ASSUME SiteInv, Mine \/ Finalize \/ Reorganize
    PROVE  SiteInv'
<1> USE DEF SiteInv
<1>1. UNCHANGED <<attempts, released, mem, disk, site, lock, record, job, sends>>
  BY DEF Mine, Finalize, Reorganize, journal, launch
<1>2. /\ ChainInv' /\ mined' \in [Ids -> Nat] /\ head' \in Nat /\ final' \in Nat
      /\ \A i \in Ids : Used(i) /\ Dead(i) => Dead(i)'
  BY ChainKept
<1>3. \A i \in Ids : Used(i)' <=> Used(i)
  BY <1>1 DEF Used
<1>4. \A h \in Handles : /\ mem[h] # None => mem[h].id \in Ids /\ Used(mem[h].id)
                         /\ disk[h] # None => disk[h].id \in Ids /\ Used(disk[h].id)
  BY DEF SiteTypeOK, RowsInv, RowOK, Rows, Ids
<1>5. SiteTypeOK'
  BY <1>1, <1>2 DEF SiteTypeOK
<1>6. IdsInv' /\ SentOnce'
  BY <1>1, <1>3 DEF IdsInv, SentOnce
<1>7. RowsInv'
  <2> SUFFICES ASSUME NEW h \in Handles PROVE (RowOK(h, mem[h]) /\ RowOK(h, disk[h]) /\ PairOK(h))'
    BY DEF RowsInv
  <2>1. RowOK(h, mem[h]) /\ RowOK(h, disk[h]) /\ PairOK(h)
    BY DEF RowsInv
  <2> QED BY <2>1, <1>1, <1>2, <1>3, <1>4 DEF RowOK, PairOK
<1>8. ReleasedInv'
  BY <1>1, <1>2, <1>3 DEF ReleasedInv, ReleasedOK, SiteTypeOK
<1>9. JobInv'
  <2> SUFFICES ASSUME job # Idle PROVE JobOK(mem[job.handle])'
    BY <1>1 DEF JobInv
  <2>1. JobOK(mem[job.handle]) /\ job.handle \in Handles
    BY DEF JobInv, SiteTypeOK, PrepareJobs, BeginJobs, RecoverJobs
  <2> QED BY <2>1, <1>1, <1>2, <1>4 DEF JobOK
<1>10. GateInv'
  BY <1>1 DEF GateInv, SameIds, PrelaunchIsFirst
<1> QED BY <1>2, <1>5, <1>6, <1>7, <1>8, <1>9, <1>10

\* Steps of a task that write nothing: only what they say of the task is to be shown.
LEMMA TaskSteps ==
    ASSUME SiteInv, UNCHANGED <<head, final, mined, attempts, released, mem, disk, site, lock, record, sends>>,
           job' \in {Idle} \cup PrepareJobs \cup BeginJobs \cup RecoverJobs,
           JobInv', job'.kind \in {"prepare", "begin"} => site = "open",
           (site = "down" /\ job' # Idle) => job # Idle
    PROVE  SiteInv'
<1> USE DEF SiteInv
<1>1. SiteTypeOK' /\ ChainInv' /\ IdsInv' /\ SentOnce'
  BY DEF SiteTypeOK, ChainInv, IdsInv, SentOnce, Used
<1>2. RowsInv' /\ ReleasedInv'
  BY DEF RowsInv, RowOK, PairOK, ReleasedInv, ReleasedOK, Used, Dead
<1>3. GateInv'
  BY DEF GateInv, SameIds, PrelaunchIsFirst
<1> QED BY <1>1, <1>2, <1>3

\* The records a task can be.
LEMMA Tasks ==
    ASSUME SiteTypeOK
    PROVE  /\ job.kind = "prepare" => job \in PrepareJobs /\ job # Idle
           /\ job.kind = "begin" => job \in BeginJobs /\ job # Idle
           /\ job.kind = "recover" => job \in RecoverJobs /\ job # Idle
           /\ job # Idle => job.handle \in Handles
BY DEF SiteTypeOK, Idle, PrepareJobs, BeginJobs, RecoverJobs

\* The rows of a handle in memory and file, and what their identifiers stand for.
LEMMA RowTypes ==
    ASSUME SiteInv, NEW h \in Handles
    PROVE  /\ mem[h] # None => /\ mem[h] \in Rows /\ mem[h].id \in Ids /\ Used(mem[h].id)
                               /\ attempts[mem[h].id] \in Signed /\ attempts[mem[h].id].handle = h
           /\ disk[h] # None => /\ disk[h] \in Rows /\ disk[h].id \in Ids /\ Used(disk[h].id)
                                /\ attempts[disk[h].id] \in Signed /\ attempts[disk[h].id].handle = h
<1> USE DEF SiteInv, SiteTypeOK
<1>1. /\ mem[h] # None => mem[h] \in Rows /\ mem[h].id \in Ids
      /\ disk[h] # None => disk[h] \in Rows /\ disk[h].id \in Ids
  BY DEF Rows, Ids
<1>2. RowOK(h, mem[h]) /\ RowOK(h, disk[h])
  BY DEF RowsInv
<1> QED BY <1>1, <1>2 DEF RowOK, Used

\* An authorization that finality retired is dead: it would have been included before it
\* expired, so at or below the finalized block.
LEMMA RetiredIsDead ==
    ASSUME SiteInv, NEW i \in Ids, Used(i), Retired(i, ProofBlock)
    PROVE  Dead(i)
<1> USE DEF SiteInv
<1>1. attempts[i].deadline \in Nat /\ mined[i] \in Nat /\ final \in Nat
  BY DEF SiteTypeOK, Used, Signed
<1>2. final >= attempts[i].deadline /\ ~ mined[i] \in 1..final
  BY DEF Retired, ProofBlock
<1>3. mined[i] # 0 => mined[i] < attempts[i].deadline
  BY DEF ChainInv
<1> QED BY <1>1, <1>2, <1>3 DEF Dead

LEMMA PrepareReads ==
    ASSUME SiteInv, NEW w \in Wallets, NEW h \in Handles, NEW mode \in {"free", "paid"}, PrepareRead(w, h, mode)
    PROVE  SiteInv'
<1>1. /\ UNCHANGED <<head, final, mined, attempts, released, mem, disk, site, lock, record, sends>>
      /\ site = "open" /\ head \in Nat
  BY DEF PrepareRead, chain, journal, launch, SiteInv, SiteTypeOK
<1>2. PICK phase \in {"estimate", "inspect", "reply"}, id \in Ids \cup {None} :
        /\ job' = [kind |-> "prepare", phase |-> phase, wallet |-> w, handle |-> h,
                   mode |-> mode, block |-> head, id |-> id, stale |-> FALSE]
        /\ phase = "inspect" => mem[h] # None /\ mem[h].stage = "expired"
        /\ phase = "estimate" => mem[h] = None
        /\ phase = "reply" => mem[h] # None /\ id = mem[h].id
  BY RowTypes DEF PrepareRead
<1>3. job' \in PrepareJobs /\ job'.handle = h
  BY <1>1, <1>2 DEF PrepareJobs
<1>4. JobInv'
  BY <1>1, <1>2 DEF JobInv, JobOK
<1> QED BY <1>1, <1>3, <1>4, TaskSteps

LEMMA PrepareGoesOn ==
    ASSUME SiteInv, PrepareInspect \/ PrepareEstimate
    PROVE  SiteInv'
<1>1. UNCHANGED <<head, final, mined, attempts, released, mem, disk, site, lock, record, sends>>
  BY DEF PrepareInspect, PrepareEstimate, chain, journal, launch
<1>2. job \in PrepareJobs /\ job # Idle /\ job.kind = "prepare"
  BY Tasks DEF PrepareInspect, PrepareEstimate, SiteInv
<1>3. PICK phase \in {"estimate", "commit"} :
        /\ job' = Idle \/ job' = [job EXCEPT !.phase = phase]
        /\ job' # Idle => job.phase \in {"inspect", "estimate"}
  BY DEF PrepareInspect, PrepareEstimate
<1>4. JobOK(mem[job.handle]) /\ site = "open"
  BY <1>2 DEF SiteInv, JobInv, GateInv
<1>5. CASE job' = Idle
  <2>1. JobInv'
    BY <1>5 DEF JobInv, Idle
  <2> QED BY <1>1, <1>5, <2>1, TaskSteps DEF Idle
<1>6. CASE job' # Idle
  <2>1. job' \in PrepareJobs /\ job'.phase = phase /\ job'.handle = job.handle /\ job'.kind = "prepare"
    BY <1>2, <1>3, <1>6 DEF PrepareJobs
  <2>2. JobInv'
    BY <1>1, <1>2, <1>3, <1>4, <1>6, <2>1 DEF JobInv, JobOK
  <2> QED BY <1>1, <1>4, <2>1, <2>2, TaskSteps
<1> QED BY <1>5, <1>6

LEMMA BeginReads ==
    ASSUME SiteInv, NEW w \in Wallets, NEW h \in Handles, BeginRead(w, h)
    PROVE  SiteInv'
<1>1. /\ UNCHANGED <<head, final, mined, attempts, released, mem, disk, site, lock, record, sends>>
      /\ site = "open" /\ head \in Nat /\ mem[h] # None
      /\ job' = [kind |-> "begin", wallet |-> w, handle |-> h, block |-> head, id |-> mem[h].id, stale |-> FALSE]
  BY DEF BeginRead, chain, journal, launch, SiteInv, SiteTypeOK
<1>2. job' \in BeginJobs /\ job'.handle = h
  BY <1>1, RowTypes DEF BeginJobs
<1>3. JobInv'
  BY <1>1 DEF JobInv, JobOK
<1> QED BY <1>1, <1>2, <1>3, TaskSteps

LEMMA RecoverReads ==
    ASSUME SiteInv, NEW w \in Wallets, NEW h \in Handles, NEW pasted \in {None, "sent"}, RecoverRead(w, h, pasted)
    PROVE  SiteInv'
<1> DEFINE result == Inspected(mem[h], pasted)
<1>1. /\ UNCHANGED <<head, final, mined, attempts, released, mem, disk, site, lock, record, sends>>
      /\ site # "down" /\ mem[h] # None
      /\ job' = [kind |-> "recover", wallet |-> w, handle |-> h, result |-> result, stale |-> FALSE]
  BY DEF RecoverRead, chain, journal, launch
<1>2. mem[h] \in Rows /\ mem[h].id \in Ids /\ Used(mem[h].id)
  BY <1>1, RowTypes
<1>3. result \in [state : {"refused", "found", "unknown", "retry-allowed"}, hash : Hashes]
  BY <1>2 DEF Inspected, Rows, Hashes
<1>4. result.state = "retry-allowed" => Retired(mem[h].id, ProofBlock)
  BY DEF Inspected
<1>5. result.state = "retry-allowed" => Dead(mem[h].id)
  BY <1>2, <1>4, RetiredIsDead
<1> HIDE DEF result
<1>6. job' \in RecoverJobs /\ job'.handle = h /\ job'.kind = "recover" /\ job'.result = result
  BY <1>1, <1>3 DEF RecoverJobs
<1>7. JobInv'
  BY <1>1, <1>5, <1>6 DEF JobInv, JobOK, Dead
<1> QED BY <1>1, <1>6, <1>7, TaskSteps

LEMMA TaskEnds ==
    ASSUME SiteInv, GiveUp
    PROVE  SiteInv'
<1>1. UNCHANGED <<head, final, mined, attempts, released, mem, disk, site, lock, record, sends>> /\ job' = Idle
  BY DEF GiveUp, End, chain, journal, launch
<1>2. JobInv'
  BY <1>1 DEF JobInv, Idle
<1> QED BY <1>1, <1>2, TaskSteps DEF Idle

LEMMA TaskGoesStale ==
    ASSUME SiteInv, SessionChanges
    PROVE  SiteInv'
<1>1. /\ UNCHANGED <<head, final, mined, attempts, released, mem, disk, site, lock, record, sends>>
      /\ job # Idle /\ job' = [job EXCEPT !.stale = TRUE]
  BY DEF SessionChanges, chain, journal, launch
<1>2. job \in PrepareJobs \cup BeginJobs \cup RecoverJobs
  BY <1>1 DEF SiteInv, SiteTypeOK
<1>3. JobOK(mem[job.handle]) /\ (job.kind \in {"prepare", "begin"} => site = "open")
  BY <1>1 DEF SiteInv, JobInv, GateInv
<1>4. CASE job \in PrepareJobs
  <2>1. /\ job' \in PrepareJobs /\ job'.kind = "prepare" /\ job'.handle = job.handle /\ job'.phase = job.phase
        /\ job'.id = job.id /\ job.kind = "prepare"
    BY <1>1, <1>4 DEF PrepareJobs
  <2>2. JobInv'
    BY <1>1, <1>3, <2>1 DEF JobInv, JobOK
  <2> QED BY <1>1, <1>3, <2>1, <2>2, TaskSteps
<1>5. CASE job \in BeginJobs
  <2>1. job' \in BeginJobs /\ job'.kind = "begin" /\ job'.handle = job.handle /\ job.kind = "begin"
    BY <1>1, <1>5 DEF BeginJobs
  <2>2. JobInv'
    BY <1>1, <1>3, <2>1 DEF JobInv, JobOK
  <2> QED BY <1>1, <1>3, <2>1, <2>2, TaskSteps
<1>6. CASE job \in RecoverJobs
  <2>1. /\ job' \in RecoverJobs /\ job'.kind = "recover" /\ job'.handle = job.handle
        /\ job'.result = job.result /\ job.kind = "recover"
    BY <1>1, <1>6 DEF RecoverJobs
  <2>2. JobInv'
    BY <1>1, <1>3, <2>1 DEF JobInv, JobOK, Dead
  <2> QED BY <1>1, <1>3, <2>1, <2>2, TaskSteps
<1> QED BY <1>2, <1>4, <1>5, <1>6

\* What a commit leaves in memory and file.
LEMMA Writes ==
    ASSUME SiteTypeOK, NEW h \in Handles, NEW row \in Rows, Committed(h, row) \/ CommitFails(h, row)
    PROVE  /\ mem' \in [Handles -> Rows \cup {None}] /\ disk' \in [Handles -> Rows \cup {None}]
           /\ \A g \in Handles :
                 \/ mem'[g] = (IF g = h THEN row ELSE mem[g]) /\ disk'[g] = mem'[g]
                 \/ /\ CommitFails(h, row) /\ mem'[g] = mem[g]
                    /\ disk'[g] = disk[g] \/ disk'[g] = (IF g = h THEN row ELSE mem[g])
<1>0. mem \in [Handles -> Rows \cup {None}] /\ disk \in [Handles -> Rows \cup {None}]
  BY DEF SiteTypeOK
<1> DEFINE new == [mem EXCEPT ![h] = row]
<1>1. new \in [Handles -> Rows \cup {None}] /\ \A g \in Handles : new[g] = (IF g = h THEN row ELSE mem[g])
  BY <1>0
<1>2. CASE Committed(h, row)
  <2>1. mem' = new /\ disk' = [g \in Handles |-> mem'[g]]
    BY <1>2 DEF Committed
  <2> HIDE DEF new
  <2>2. \A g \in Handles : mem'[g] \in Rows \cup {None}
    BY <1>1, <2>1
  <2>3. disk' \in [Handles -> Rows \cup {None}]
    BY <2>1, <2>2
  <2> QED BY <1>1, <2>1, <2>3
<1>3. CASE CommitFails(h, row)
  <2>1. mem' = mem /\ (disk' = disk \/ disk' = new)
    BY <1>3 DEF CommitFails
  <2> HIDE DEF new
  <2> QED BY <1>0, <1>1, <1>3, <2>1
<1> QED BY <1>2, <1>3

\* The same, as what a row in memory or file can be afterwards.
LEMMA WritesOrNot ==
    ASSUME SiteInv, NEW h \in Handles, NEW row \in Rows, Committed(h, row) \/ CommitFails(h, row)
    PROVE  /\ \A g \in Handles : mem'[g] = mem[g] \/ (g = h /\ mem'[g] = row)
           /\ \A g \in Handles : disk'[g] \in {disk[g], mem[g]} \/ (g = h /\ disk'[g] = row)
           /\ mem' \in [Handles -> Rows \cup {None}] /\ disk' \in [Handles -> Rows \cup {None}]
           /\ Committed(h, row) => \A g \in Handles : mem'[g] = disk'[g] /\ mem'[g] = (IF g = h THEN row ELSE mem[g])
           /\ CommitFails(h, row) => \A g \in Handles :
                  mem'[g] = mem[g] /\ (disk'[g] = disk[g] \/ disk'[g] = (IF g = h THEN row ELSE mem[g]))
<1>1. SiteTypeOK
  BY DEF SiteInv
<1>2. mem \in [Handles -> Rows \cup {None}]
  BY <1>1 DEF SiteTypeOK
<1>3. /\ mem' \in [Handles -> Rows \cup {None}] /\ disk' \in [Handles -> Rows \cup {None}]
      /\ \A g \in Handles :
            \/ mem'[g] = (IF g = h THEN row ELSE mem[g]) /\ disk'[g] = mem'[g]
            \/ /\ CommitFails(h, row) /\ mem'[g] = mem[g]
               /\ disk'[g] = disk[g] \/ disk'[g] = (IF g = h THEN row ELSE mem[g])
  BY <1>1, Writes
<1>4. Committed(h, row) => \A g \in Handles : mem'[g] = disk'[g] /\ mem'[g] = (IF g = h THEN row ELSE mem[g])
  BY <1>2 DEF Committed
<1>5. CommitFails(h, row) => \A g \in Handles :
          mem'[g] = mem[g] /\ (disk'[g] = disk[g] \/ disk'[g] = (IF g = h THEN row ELSE mem[g]))
  BY <1>2 DEF CommitFails
<1> QED BY <1>3, <1>4, <1>5

\* A row moves on under the same authorization: begun, reported or expired.
LEMMA RowMoves ==
    ASSUME SiteInv, NEW h \in Handles, mem[h] # None, NEW row \in Rows,
           row.id = mem[h].id, row.stage # "prepared", row.stage = "expired" => Dead(row.id),
           Committed(h, row) \/ CommitFails(h, row),
           UNCHANGED <<head, final, mined, attempts, released, site, lock, record>>,
           \/ sends' = sends
           \/ /\ Committed(h, row) /\ mem[h].stage = "prepared"
              /\ sends' = [sends EXCEPT ![row.id] = IF @ = 2 THEN 2 ELSE @ + 1],
           job' = Idle
    PROVE  SiteInv'
<1> USE DEF SiteInv
<1>0. mem \in [Handles -> Rows \cup {None}] /\ disk \in [Handles -> Rows \cup {None}] /\ row # None
  BY SiteAssumption DEF SiteTypeOK
<1>1. /\ row.id \in Ids /\ Used(row.id) /\ attempts[row.id].handle = h
      /\ \A i \in Ids : Used(i)' <=> Used(i)
      /\ \A i \in Ids : Dead(i)' <=> Dead(i)
  BY RowTypes DEF Used, Dead
<1>2. /\ \A g \in Handles : mem'[g] = mem[g] \/ (g = h /\ mem'[g] = row)
      /\ \A g \in Handles : disk'[g] \in {disk[g], mem[g]} \/ (g = h /\ disk'[g] = row)
      /\ mem' \in [Handles -> Rows \cup {None}] /\ disk' \in [Handles -> Rows \cup {None}]
  BY WritesOrNot
<1>3. /\ sends' \in [Ids -> Nat]
      /\ \A i \in Ids : sends'[i] # sends[i] =>
             i = row.id /\ sends[i] = 0 /\ sends'[i] = 1 /\ Committed(h, row)
  <2>1. RowOK(h, mem[h]) /\ sends \in [Ids -> Nat]
    BY DEF RowsInv, SiteTypeOK
  <2>2. mem[h].stage = "prepared" => sends[row.id] = 0
    BY <2>1 DEF RowOK
  <2> QED BY <1>1, <2>1, <2>2
<1>4. SiteTypeOK'
  BY <1>2, <1>3 DEF SiteTypeOK
<1>5. ChainInv'
  BY DEF ChainInv
<1>6. IdsInv'
  BY <1>1, <1>3 DEF IdsInv
<1>7. SentOnce'
  BY <1>3 DEF SentOnce
<1>8. ASSUME NEW g \in Handles PROVE RowOK(g, mem[g])' /\ RowOK(g, disk[g])'
  <2>1. RowOK(g, mem[g]) /\ RowOK(g, disk[g])
    BY DEF RowsInv
  <2>2. ASSUME NEW r \in Rows, RowOK(g, r), r = row \/ r.id # row.id \/ ~ Committed(h, row)
        PROVE  RowOK(g, r)'
    <3>1. r # None /\ r.id \in Ids
      BY SiteAssumption DEF Rows, Ids
    <3>2. Used(r.id) /\ attempts[r.id].handle = g /\ (r.stage = "expired" => Dead(r.id))
          /\ (r.stage = "prepared" => sends[r.id] = 0)
      BY <2>2, <3>1 DEF RowOK
    <3>3. r.stage = "prepared" => sends'[r.id] = 0
      BY <2>2, <3>1, <3>2, <1>3
    <3> QED BY <3>1, <3>2, <3>3, <1>1 DEF RowOK
  <2>3. RowOK(h, row)
    BY <1>1, <1>0 DEF RowOK
  <2>4. CASE Committed(h, row)
    <3>1. mem'[g] = disk'[g] /\ mem'[g] = (IF g = h THEN row ELSE mem[g])
      BY <2>4, WritesOrNot
    <3>2. g # h /\ mem[g] # None => mem[g] \in Rows /\ mem[g].id # row.id
      BY <1>1, RowTypes
    <3>3. mem'[g] # None => mem'[g] \in Rows /\ RowOK(g, mem'[g]) /\ (mem'[g] = row \/ mem'[g].id # row.id)
      BY <3>1, <3>2, <2>1, <2>3
    <3>4. mem'[g] # None => RowOK(g, mem[g])'
      BY <3>3, <2>2
    <3> QED BY <3>1, <3>4 DEF RowOK
  <2>5. CASE ~ Committed(h, row)
    <3>1. \A r : r \in Rows /\ RowOK(g, r) => RowOK(g, r)'
      BY <2>2, <2>5
    <3>2. mem'[g] # None => mem'[g] \in Rows /\ RowOK(g, mem'[g])
      BY <1>2, <2>1, <2>3
    <3>3. disk'[g] # None => disk'[g] \in Rows /\ RowOK(g, disk'[g])
      BY <1>2, <2>1, <2>3
    <3> QED BY <3>1, <3>2, <3>3 DEF RowOK
  <2> QED BY <2>4, <2>5
<1>9. ASSUME NEW g \in Handles PROVE PairOK(g)'
  <2>1. PairOK(g)
    BY DEF RowsInv
  <2>2. mem'[g] # None => mem[g] # None /\ mem'[g].id = mem[g].id /\ mem[g].id \in Ids
    BY <1>2, RowTypes
  <2>3. disk'[g] = disk[g] \/ (mem[g] # None => disk'[g] # None /\ disk'[g].id = mem[g].id)
    BY <1>0 DEF Committed, CommitFails
  <2>4. mem[g] # None => mem[g].id <= mem[g].id
    BY RowTypes, SiteAssumption DEF Ids
  <2> QED BY <1>1, <2>1, <2>2, <2>3, <2>4 DEF PairOK
<1>10. RowsInv'
  BY <1>8, <1>9 DEF RowsInv
<1>11. ReleasedInv'
  <2> SUFFICES ASSUME NEW i \in released PROVE ReleasedOK(i)'
    BY DEF ReleasedInv
  <2>1. ReleasedOK(i) /\ i \in Ids /\ attempts[i].handle \in Handles
    BY DEF ReleasedInv, ReleasedOK, Used, SiteTypeOK, Signed
  <2>2. mem'[attempts[i].handle] # None /\ mem'[attempts[i].handle].id = mem[attempts[i].handle].id
    BY <2>1, <1>2, <1>0 DEF ReleasedOK
  <2> QED BY <2>1, <2>2, <1>1 DEF ReleasedOK
<1>12. JobInv'
  BY DEF JobInv, Idle
<1>13. GateInv'
  <2>1. ASSUME SameIds PROVE SameIds'
    <3> SUFFICES ASSUME NEW g \in Handles
                 PROVE  /\ mem'[g] = None <=> disk'[g] = None
                        /\ mem'[g] # None => mem'[g].id = disk'[g].id
      BY DEF SameIds
    <3>1. /\ mem[g] = None <=> disk[g] = None
          /\ mem[g] # None => mem[g].id = disk[g].id
      BY <2>1 DEF SameIds
    <3> QED BY <3>1, <1>0 DEF Committed, CommitFails
  <2> QED BY <2>1 DEF GateInv, PrelaunchIsFirst, Idle
<1> QED BY <1>4, <1>5, <1>6, <1>7, <1>10, <1>11, <1>12, <1>13

LEMMA Begins ==
    ASSUME SiteInv, BeginCommit
    PROVE  SiteInv'
<1> DEFINE h == job.handle
           row == [mem[h] EXCEPT !.stage = "begun"]
<1>1. job.kind = "begin" /\ job # Idle /\ h \in Handles
  BY Tasks DEF BeginCommit, SiteInv
<1>2. mem[h] # None
  BY <1>1 DEF SiteInv, JobInv, JobOK
<1>3. mem[h] \in Rows
  BY <1>1, <1>2, RowTypes
<1>4. row \in Rows /\ row.id = mem[h].id /\ row.stage = "begun"
  BY <1>3 DEF Rows, Stages
<1>5. /\ UNCHANGED <<head, final, mined, attempts, released, site, lock, record>> /\ job' = Idle
      /\ mem[h].stage = "prepared"
      /\ \/ Committed(h, row) /\ sends' = [sends EXCEPT ![mem[h].id] = IF @ = 2 THEN 2 ELSE @ + 1]
         \/ CommitFails(h, row) /\ sends' = sends
  BY DEF BeginCommit, MayBegin, End, chain, launch
<1> HIDE DEF row, h
<1> QED BY <1>1, <1>2, <1>4, <1>5, RowMoves

LEMMA Reports ==
    ASSUME SiteInv, NEW w \in Wallets, NEW h \in Handles, NEW hash \in {"sent", "other"}, Report(w, h, hash)
    PROVE  SiteInv'
<1> DEFINE row == [mem[h] EXCEPT !.stage = "reported", !.hash = hash]
<1>1. /\ mem[h] # None /\ job' = Idle /\ sends' = sends
      /\ UNCHANGED <<head, final, mined, attempts, released, site, lock, record>>
      /\ Committed(h, row) \/ CommitFails(h, row)
  BY DEF Report, chain, launch
<1>2. mem[h] \in Rows
  BY <1>1, RowTypes
<1>3. row \in Rows /\ row.id = mem[h].id /\ row.stage = "reported"
  BY <1>2 DEF Rows, Stages, Hashes
<1> HIDE DEF row
<1> QED BY <1>1, <1>3, RowMoves

LEMMA Recovers ==
    ASSUME SiteInv, Retire \/ Adopt
    PROVE  SiteInv'
<1> DEFINE h == job.handle
<1>1. job.kind = "recover" /\ job \in RecoverJobs /\ job # Idle /\ h \in Handles
  BY Tasks DEF Retire, Adopt, SiteInv
<1>2. mem[h] # None /\ (job.result.state = "retry-allowed" => Dead(mem[h].id)) /\ job.result.hash \in Hashes
  BY <1>1 DEF SiteInv, JobInv, JobOK, RecoverJobs
<1>3. mem[h] \in Rows
  BY <1>1, <1>2, RowTypes
<1>4. UNCHANGED <<head, final, mined, attempts, released, site, lock, record, sends>> /\ job' = Idle
  BY DEF Retire, Adopt, End, chain, launch
<1>5. CASE Retire
  <2> DEFINE row == [id |-> mem[h].id, stage |-> "expired",
                     hash |-> IF job.result.hash = None THEN mem[h].hash ELSE job.result.hash]
  <2>1. (Committed(h, row) \/ CommitFails(h, row)) /\ Dead(mem[h].id)
    BY <1>5, <1>2 DEF Retire
  <2>2. row \in Rows /\ row.id = mem[h].id /\ row.stage = "expired"
    BY <1>2, <1>3 DEF Rows, Stages
  <2> HIDE DEF row, h
  <2> QED BY <1>1, <1>2, <1>4, <2>1, <2>2, RowMoves
<1>6. CASE Adopt
  <2> DEFINE row == [id |-> mem[h].id, stage |-> "reported", hash |-> job.result.hash]
  <2>1. Committed(h, row) \/ CommitFails(h, row)
    BY <1>6 DEF Adopt
  <2>2. row \in Rows /\ row.id = mem[h].id /\ row.stage = "reported"
    BY <1>2, <1>3 DEF Rows, Stages
  <2> HIDE DEF row, h
  <2> QED BY <1>1, <1>2, <1>4, <2>1, <2>2, RowMoves
<1> QED BY <1>5, <1>6

\* The next identifier is the first one that was not given out.
LEMMA NextIsUnused ==
    ASSUME SiteInv, NextId \in Ids
    PROVE  \A i \in Ids : Used(i) <=> i < NextId
<1>1. PICK n \in 0..MaxAttempts : \A i \in Ids : Used(i) <=> i <= n
  BY DEF SiteInv, IdsInv
<1>2. {i \in Ids : attempts[i] # None} = 1..n
  BY <1>1, SiteAssumption DEF Ids, Used
<1>3. Cardinality(1..n) = n
  BY <1>1, FS_Interval, SiteAssumption
<1>4. NextId = n + 1
  BY <1>2, <1>3 DEF NextId
<1> QED BY <1>1, <1>4, SiteAssumption DEF Ids

LEMMA Prepares ==
    ASSUME SiteInv, PrepareCommit
    PROVE  SiteInv'
<1> USE DEF SiteInv
<1>0. PICK h, n, row : h = job.handle /\ n = NextId /\ row = [id |-> n, stage |-> "prepared", hash |-> None]
  OBVIOUS
<1>1. /\ job \in PrepareJobs /\ job # Idle /\ job.kind = "prepare" /\ h \in Handles
      /\ mem[h] = None \/ mem[h].stage = "expired"
      /\ site = "open"
  BY <1>0, Tasks DEF PrepareCommit, JobInv, JobOK, GateInv
<1>2. /\ n \in Ids /\ attempts' = [attempts EXCEPT ![n] = Draft]
      /\ UNCHANGED <<head, final, mined, released, site, lock, record, sends>>
      /\ \/ Committed(h, row) /\ job' = [job EXCEPT !.phase = "reply", !.id = n]
         \/ CommitFails(h, row) /\ job' = Idle
  BY <1>0 DEF PrepareCommit, End, chain, launch
<1>3. Draft \in Signed /\ Draft.handle = h /\ Draft # None
  <2>1. NewDeadline(job.mode, job.block) \in Nat
    BY <1>1, SiteAssumption DEF NewDeadline, PrepareJobs
  <2> QED BY <1>0, <1>1, <2>1, SiteAssumption DEF Draft, Signed, PrepareJobs
<1>4. row \in Rows /\ row.id = n /\ row.stage = "prepared" /\ row # None
  BY <1>0, <1>2, SiteAssumption DEF Rows, Stages, Hashes, Ids
<1>5. \A i \in Ids : Used(i) <=> i < n
  BY <1>0, <1>2, NextIsUnused
<1>6. /\ ~Used(n) /\ sends[n] = 0
      /\ \A i \in Ids : i # n => attempts'[i] = attempts[i]
      /\ attempts'[n] = Draft /\ attempts' \in [Ids -> Signed \cup {None}]
  BY <1>2, <1>3, <1>5, SiteAssumption DEF SiteTypeOK, IdsInv, Ids
<1>7. /\ \A i \in Ids : Used(i)' <=> i <= n
      /\ \A i \in Ids : Used(i) => Used(i)' /\ i # n /\ attempts'[i] = attempts[i] /\ (Dead(i) => Dead(i)')
  BY <1>2, <1>3, <1>5, <1>6, SiteAssumption DEF Used, Ids, Dead
<1>8. /\ \A g \in Handles : mem'[g] = mem[g] \/ (g = h /\ mem'[g] = row)
      /\ \A g \in Handles : disk'[g] \in {disk[g], mem[g]} \/ (g = h /\ disk'[g] = row)
      /\ mem' \in [Handles -> Rows \cup {None}] /\ disk' \in [Handles -> Rows \cup {None}]
  BY <1>1, <1>2, <1>4, WritesOrNot
<1>9. /\ job' = Idle \/ (job' \in PrepareJobs /\ job'.kind = "prepare" /\ job'.phase = "reply" /\ job'.id = n /\ job'.handle = h)
      /\ job' # Idle => Committed(h, row)
  BY <1>0, <1>1, <1>2 DEF PrepareJobs
<1>10. SiteTypeOK'
  BY <1>2, <1>6, <1>8, <1>9 DEF SiteTypeOK
<1>11. ChainInv'
  <2>1. \A i \in Ids : i \in released => Used(i)
    BY DEF ReleasedInv, ReleasedOK
  <2> QED BY <1>2, <1>7, <2>1 DEF ChainInv
<1>12. IdsInv' /\ SentOnce'
  <2>1. n \in 0..MaxAttempts
    BY <1>2, SiteAssumption DEF Ids
  <2> QED BY <1>2, <1>5, <1>7, <2>1 DEF IdsInv, SentOnce
<1>13. RowsInv'
  <2> SUFFICES ASSUME NEW g \in Handles PROVE RowOK(g, mem[g])' /\ RowOK(g, disk[g])' /\ PairOK(g)'
    BY DEF RowsInv
  <2>1. RowOK(g, mem[g]) /\ RowOK(g, disk[g]) /\ PairOK(g)
    BY DEF RowsInv
  <2>2. ASSUME NEW r, r = None \/ (r \in Rows /\ r.id \in Ids), RowOK(g, r)
        PROVE  RowOK(g, r)'
    <3> SUFFICES ASSUME r # None PROVE RowOK(g, r)'
      BY DEF RowOK
    <3>1. /\ r.id \in Ids /\ Used(r.id) /\ attempts[r.id].handle = g
          /\ r.stage = "expired" => Dead(r.id)
          /\ r.stage = "prepared" => sends[r.id] = 0
      BY <2>2 DEF RowOK
    <3>2. Used(r.id)' /\ attempts'[r.id] = attempts[r.id] /\ (Dead(r.id) => Dead(r.id)') /\ sends' = sends
      BY <1>2, <1>7, <3>1
    <3> QED BY <3>1, <3>2 DEF RowOK
  <2>3. RowOK(h, row)'
    BY <1>2, <1>3, <1>4, <1>6, <1>7, SiteAssumption DEF RowOK, Ids
  <2>4. RowOK(g, mem[g])' /\ RowOK(g, disk[g])'
    <3>1. /\ mem[g] = None \/ (mem[g] \in Rows /\ mem[g].id \in Ids)
          /\ disk[g] = None \/ (disk[g] \in Rows /\ disk[g].id \in Ids)
      BY RowTypes
    <3>2. ASSUME NEW r, r \in {mem[g], disk[g]} \/ (g = h /\ r = row) PROVE RowOK(g, r)'
      <4>1. CASE r = mem[g]
        BY <4>1, <2>1, <2>2, <3>1
      <4>2. CASE r = disk[g]
        BY <4>2, <2>1, <2>2, <3>1
      <4>3. CASE g = h /\ r = row
        BY <4>3, <2>3 DEF RowOK
      <4> QED BY <3>2, <4>1, <4>2, <4>3
    <3>3. RowOK(g, mem[g])'
      <4>1. mem'[g] \in {mem[g], disk[g]} \/ (g = h /\ mem'[g] = row)
        BY <1>8
      <4> QED BY <3>2, <4>1 DEF RowOK
    <3>4. RowOK(g, disk[g])'
      <4>1. disk'[g] \in {mem[g], disk[g]} \/ (g = h /\ disk'[g] = row)
        BY <1>8
      <4> QED BY <3>2, <4>1 DEF RowOK
    <3> QED BY <3>3, <3>4
  <2>5. PairOK(g)'
    <3>1. mem[g] # None => mem[g].id \in Ids /\ Used(mem[g].id) /\ mem[g].id < n
      BY RowTypes, <1>5
    <3>2. n <= n /\ (mem[g] # None => mem[g].id <= mem[g].id)
      BY <1>2, <3>1, SiteAssumption DEF Ids
    <3>3. \A i \in Ids : g = h /\ mem[g] # None /\ i = mem[g].id => Dead(i)'
      BY <1>1, <1>7, <2>1, <3>1 DEF RowOK
    <3>4. CASE Committed(h, row)
      <4>1. mem'[g] = disk'[g] /\ mem'[g] = (IF g = h THEN row ELSE mem[g])
        BY <3>4, <1>1, <1>4, WritesOrNot
      <4> QED BY <4>1, <3>2, <1>4 DEF PairOK
    <3>5. CASE CommitFails(h, row)
      <4>1. mem'[g] = mem[g] /\ (disk'[g] = disk[g] \/ disk'[g] = (IF g = h THEN row ELSE mem[g]))
        BY <3>5, <1>1, <1>4, WritesOrNot
      <4>2. CASE disk'[g] = disk[g]
        BY <4>1, <4>2, <2>1, <3>1, <1>7 DEF PairOK
      <4>3. CASE disk'[g] = (IF g = h THEN row ELSE mem[g])
        <5>1. CASE g = h
          <6>1. disk'[g] = row /\ disk'[g] # None /\ disk'[g].id = n
            BY <5>1, <4>3, <1>4
          <6>2. mem[g] # None => mem[g].id <= n
            BY <3>1, <1>2, SiteAssumption DEF Ids
          <6>3. mem'[g] # None => Dead(mem[g].id)'
            BY <5>1, <3>1, <3>3, <4>1
          <6> QED BY <6>1, <6>2, <6>3, <4>1 DEF PairOK
        <5>2. CASE g # h
          BY <5>2, <4>1, <4>3, <3>2 DEF PairOK
        <5> QED BY <5>1, <5>2
      <4> QED BY <4>1, <4>2, <4>3
    <3> QED BY <1>2, <3>4, <3>5
  <2> QED BY <2>4, <2>5
<1>14. ReleasedInv'
  <2> SUFFICES ASSUME NEW i \in released PROVE ReleasedOK(i)'
    BY <1>2 DEF ReleasedInv
  <2> DEFINE g == attempts[i].handle
  <2>1. ReleasedOK(i) /\ i \in Ids /\ g \in Handles
    BY DEF ReleasedInv, ReleasedOK, Used, SiteTypeOK, Signed
  <2>2. Used(i)' /\ attempts'[i] = attempts[i] /\ i < n /\ (Dead(i) => Dead(i)')
    BY <1>5, <1>7, <2>1 DEF ReleasedOK
  <2>3. CASE mem'[g] = mem[g]
    BY <2>1, <2>2, <2>3 DEF ReleasedOK
  <2>4. CASE g = h /\ mem'[g] = row
    <3>1. RowOK(g, mem[g])
      BY <2>1 DEF RowsInv
    <3>2. Dead(i)
      BY <1>1, <2>1, <2>4, <3>1 DEF ReleasedOK, RowOK
    <3>3. i <= n
      BY <1>2, <2>1, <2>2, SiteAssumption DEF Ids
    <3> QED BY <1>4, <2>2, <2>4, <3>2, <3>3 DEF ReleasedOK
  <2> QED BY <1>8, <2>1, <2>3, <2>4
<1>15. JobInv'
  <2> SUFFICES ASSUME job' # Idle PROVE JobOK(mem[job.handle])'
    BY DEF JobInv, Idle
  <2>1. mem'[h] = row
    BY <1>1, <1>4, <1>9, WritesOrNot
  <2> QED BY <1>4, <1>9, <2>1 DEF JobOK
<1>16. GateInv'
  BY <1>1, <1>2, <1>9 DEF GateInv, PrelaunchIsFirst, Idle
<1> QED BY <1>10, <1>11, <1>12, <1>13, <1>14, <1>15, <1>16

LEMMA PrepareReplies ==
    ASSUME SiteInv, PrepareReply
    PROVE  SiteInv'
<1> USE DEF SiteInv
<1>1. PICK h \in Handles, n \in Ids : /\ job.handle = h /\ mem[h] # None /\ n = job.id /\ n = mem[h].id /\ site = "open"
                                      /\ Used(n) /\ attempts[n].handle = h
  <2>1. job \in PrepareJobs /\ job # Idle /\ job.kind = "prepare" /\ job.phase = "reply" /\ job.handle \in Handles
    BY Tasks DEF PrepareReply
  <2>2. JobOK(mem[job.handle]) /\ site = "open"
    BY <2>1 DEF JobInv, GateInv
  <2>3. mem[job.handle] # None /\ job.id = mem[job.handle].id
    BY <2>1, <2>2 DEF JobOK
  <2> QED BY <2>1, <2>2, <2>3, RowTypes
<1>2. /\ UNCHANGED <<head, final, mined, attempts, mem, disk, site, lock, record, sends>>
      /\ released' = released \cup {n} /\ job' = Idle
  BY <1>1 DEF PrepareReply, End, chain, journal, launch
<1>3. SiteTypeOK' /\ ChainInv' /\ IdsInv' /\ SentOnce'
  BY <1>1, <1>2 DEF SiteTypeOK, ChainInv, IdsInv, SentOnce, Used
<1>4. RowsInv'
  BY <1>2 DEF RowsInv, RowOK, PairOK, Used, Dead
<1>5. ReleasedInv'
  <2> SUFFICES ASSUME NEW i \in released' PROVE ReleasedOK(i)'
    BY DEF ReleasedInv
  <2>1. CASE i \in released
    BY <1>2, <2>1 DEF ReleasedInv, ReleasedOK, Used, Dead
  <2>2. CASE i = n
    <3>1. n <= n
      BY SiteAssumption DEF Ids
    <3> QED BY <1>1, <1>2, <2>2, <3>1 DEF ReleasedOK, Used
  <2> QED BY <1>2, <2>1, <2>2
<1>6. JobInv' /\ GateInv'
  BY <1>1, <1>2 DEF JobInv, GateInv, PrelaunchIsFirst, Idle
<1> QED BY <1>3, <1>4, <1>5, <1>6

\* What was released is in the file, or dead.
LEMMA ReleasedInFile ==
    ASSUME SiteInv, NEW i \in released
    PROVE  /\ i \in Ids /\ Used(i) /\ attempts[i].handle \in Handles
           /\ disk[attempts[i].handle] # None /\ i <= disk[attempts[i].handle].id
           /\ i # disk[attempts[i].handle].id => Dead(i)
<1> USE DEF SiteInv
<1>1. ReleasedOK(i) /\ i \in Ids /\ attempts[i].handle \in Handles
  BY DEF ReleasedInv, ReleasedOK, Used, SiteTypeOK, Signed
<1>2. PICK g \in Handles : g = attempts[i].handle
  BY <1>1
<1>3. /\ Used(i) /\ mem[g] # None /\ i <= mem[g].id
      /\ i # mem[g].id => Dead(i)
  BY <1>1, <1>2 DEF ReleasedOK
<1>4. /\ disk[g] # None /\ mem[g].id <= disk[g].id
      /\ mem[g].id # disk[g].id => Dead(mem[g].id)
  BY <1>3 DEF RowsInv, PairOK
<1>5. mem[g].id \in Ids /\ disk[g].id \in Ids
  BY <1>3, <1>4, RowTypes
<1>6. i <= disk[g].id
  BY <1>1, <1>3, <1>4, <1>5, SiteAssumption DEF Ids
<1>7. i # disk[g].id => Dead(i)
  <2>1. CASE i = mem[g].id
    BY <2>1, <1>4
  <2> QED BY <2>1, <1>3
<1> QED BY <1>1, <1>2, <1>3, <1>4, <1>6, <1>7

LEMMA Starts ==
    ASSUME SiteInv, NEW mode \in {"open", "prelaunch"}, Start(mode)
    PROVE  SiteInv'
<1> USE DEF SiteInv
<1>1. /\ UNCHANGED <<head, final, mined, attempts, released, disk, record, job, sends>>
      /\ mem' = disk /\ site = "down" /\ site' \in {"prelaunch", "starting"}
      /\ site' = "prelaunch" => \A h \in Handles : disk[h] = None
  BY DEF Start, Refused, chain
<1>2. SiteTypeOK' /\ ChainInv' /\ IdsInv' /\ SentOnce'
  BY <1>1 DEF SiteTypeOK, ChainInv, IdsInv, SentOnce, Used
<1>3. RowsInv'
  <2> SUFFICES ASSUME NEW h \in Handles PROVE (RowOK(h, mem[h]) /\ RowOK(h, disk[h]) /\ PairOK(h))'
    BY DEF RowsInv
  <2>1. RowOK(h, disk[h])
    BY DEF RowsInv
  <2>2. disk[h] # None => disk[h].id <= disk[h].id
    BY RowTypes, SiteAssumption DEF Ids
  <2> QED BY <1>1, <2>1, <2>2 DEF RowOK, PairOK, Used, Dead
<1>4. ReleasedInv'
  <2> SUFFICES ASSUME NEW i \in released PROVE ReleasedOK(i)'
    BY <1>1 DEF ReleasedInv
  <2> QED BY <1>1, ReleasedInFile DEF ReleasedOK, Used, Dead
<1>5. JobInv'
  <2> SUFFICES ASSUME job # Idle PROVE JobOK(mem[job.handle])'
    BY <1>1 DEF JobInv
  <2>1. job.handle \in Handles /\ JobOK(mem[job.handle]) /\ SameIds /\ ~ job.kind \in {"prepare", "begin"}
    BY <1>1, Tasks DEF JobInv, GateInv
  <2>2. /\ mem[job.handle] = None <=> disk[job.handle] = None
        /\ mem[job.handle] # None => mem[job.handle].id = disk[job.handle].id
    BY <2>1 DEF SameIds
  <2> QED BY <1>1, <2>1, <2>2 DEF JobOK, Dead
<1>6. GateInv'
  <2>1. SameIds'
    BY <1>1 DEF SameIds
  <2>2. ~ job'.kind \in {"prepare", "begin"}
    BY <1>1 DEF GateInv
  <2>3. PrelaunchIsFirst'
    BY <1>1, ReleasedInFile DEF PrelaunchIsFirst
  <2> QED BY <2>1, <2>2, <2>3 DEF GateInv
<1> QED BY <1>2, <1>3, <1>4, <1>5, <1>6

\* The other steps of the process and its operator.
LEMMA GateSteps ==
    ASSUME SiteInv, Activate \/ Close \/ Crash \/ OperatorRepairs
    PROVE  SiteInv'
<1> USE DEF SiteInv
<1>1. UNCHANGED <<head, final, mined, attempts, released, mem, disk, sends>> /\ (job' = job \/ job' = Idle)
  BY DEF Activate, Close, Crash, OperatorRepairs, End, chain, journal
<1>2. /\ site' \in {"down", "open"}
      /\ job' = Idle \/ (job' = job /\ (site = "starting" \/ site' = site))
  BY DEF Activate, Close, Crash, OperatorRepairs, End
<1>3. SiteTypeOK' /\ ChainInv' /\ IdsInv' /\ SentOnce'
  BY <1>1, <1>2 DEF SiteTypeOK, ChainInv, IdsInv, SentOnce, Used
<1>4. RowsInv' /\ ReleasedInv'
  BY <1>1 DEF RowsInv, RowOK, PairOK, ReleasedInv, ReleasedOK, Used, Dead
<1>5. JobInv'
  BY <1>1 DEF JobInv, JobOK, Dead
<1>6. GateInv'
  <2>1. job'.kind \in {"prepare", "begin"} => site' = "open"
    BY <1>2 DEF GateInv, Idle
  <2>2. site' = "down" /\ job' # Idle => SameIds'
    BY <1>1, <1>2 DEF GateInv, SameIds
  <2> QED BY <1>2, <2>1, <2>2 DEF GateInv, PrelaunchIsFirst
<1> QED BY <1>3, <1>4, <1>5, <1>6

LEMMA SiteStep == SiteInv /\ [Next]_vars => SiteInv'
<1> SUFFICES ASSUME SiteInv, [Next]_vars PROVE SiteInv'
  OBVIOUS
<1>1. CASE Mine \/ Finalize \/ Reorganize
  BY <1>1, ChainSteps
<1>2. CASE \E w \in Wallets, h \in Handles :
              \/ \E mode \in {"free", "paid"} : PrepareRead(w, h, mode)
              \/ BeginRead(w, h)
              \/ \E hash \in {"sent", "other"} : Report(w, h, hash)
              \/ \E pasted \in {None, "sent"} : RecoverRead(w, h, pasted)
  BY <1>2, PrepareReads, BeginReads, Reports, RecoverReads
<1>3. CASE PrepareInspect \/ PrepareEstimate \/ PrepareCommit \/ PrepareReply
  BY <1>3, PrepareGoesOn, Prepares, PrepareReplies
<1>4. CASE BeginCommit \/ Retire \/ Adopt \/ GiveUp \/ SessionChanges
  BY <1>4, Begins, Recovers, TaskEnds, TaskGoesStale
<1>5. CASE \E mode \in {"open", "prelaunch"} : Start(mode)
  BY <1>5, Starts
<1>6. CASE Activate \/ Close \/ Crash \/ OperatorRepairs
  BY <1>6, GateSteps
<1>7. CASE UNCHANGED vars
  <2>1. UNCHANGED <<head, final, mined, attempts, released, mem, disk, site, lock, record, job, sends>>
    BY <1>7 DEF vars
  <2>2. JobInv'
    BY <2>1 DEF SiteInv, JobInv, JobOK, Dead
  <2>3. job' \in {Idle} \cup PrepareJobs \cup BeginJobs \cup RecoverJobs
    BY <2>1 DEF SiteInv, SiteTypeOK
  <2>4. job'.kind \in {"prepare", "begin"} => site = "open"
    BY <2>1 DEF SiteInv, GateInv
  <2> QED BY <2>1, <2>2, <2>3, <2>4, TaskSteps
<1> QED BY <1>1, <1>2, <1>3, <1>4, <1>5, <1>6, <1>7 DEF Next

\* The inductive invariant of the journal: rows and released authorizations agree, and
\* the ones that memory and file no longer name are dead (scripts/pulse-sepolia-site.mjs).
THEOREM SiteInvariance == Spec => []SiteInv
<1>1. Init => SiteInv
  BY SiteInit
<1>2. SiteInv /\ [Next]_vars => SiteInv'
  BY SiteStep
<1> QED BY <1>1, <1>2, PTL DEF Spec

\* Of the authorizations released for a handle all but the newest are dead for good; an
\* expired row stays unminted; nothing is sent twice; the file names all that was released; and a site that
\* released something never starts as not yet opened (scripts/pulse-sepolia-site.mjs,
\* scripts/pulse-site-launch.mjs).
THEOREM AttemptsAlwaysHold == Spec => []AttemptsHold
<1>1. SiteInv => AttemptsHold
  <2> SUFFICES ASSUME SiteInv PROVE AttemptsHold
    OBVIOUS
  <2> USE DEF SiteInv
  <2>1. OneLiveAttempt
    <3> SUFFICES ASSUME NEW i \in released, NEW j \in released, i < j, attempts[i].handle = attempts[j].handle
                 PROVE  Dead(i)
      BY DEF OneLiveAttempt, Dead
    <3>1. PICK g \in Handles : g = attempts[i].handle /\ g = attempts[j].handle
      BY ReleasedInFile
    <3>2. /\ i \in Ids /\ j \in Ids /\ disk[g] # None /\ j <= disk[g].id
          /\ i # disk[g].id => Dead(i)
      BY <3>1, ReleasedInFile
    <3>3. disk[g].id \in Ids
      BY <3>2, RowTypes
    <3>4. i # disk[g].id
      BY <3>2, <3>3, SiteAssumption DEF Ids
    <3> QED BY <3>2, <3>4
  <2>2. ExpiredNeverMints
    BY DEF ExpiredNeverMints, RowsInv, RowOK, Dead
  <2>3. ReleasedIsDurable
    <3> SUFFICES ASSUME NEW i \in released
                 PROVE  \E h \in Handles : attempts[i].handle = h /\ disk[h] # None /\ disk[h].id >= i
      BY DEF ReleasedIsDurable
    <3>1. PICK g \in Handles : /\ g = attempts[i].handle /\ disk[g] # None /\ i <= disk[g].id /\ i \in Ids
      BY ReleasedInFile
    <3>2. disk[g].id >= i
      BY <3>1, RowTypes, SiteAssumption DEF Ids
    <3> QED BY <3>1, <3>2
  <2> QED BY <2>1, <2>2, <2>3 DEF AttemptsHold, GateInv
<1> QED BY <1>1, SiteInvariance, PTL
=============================================================================
