--------------------------- MODULE LocalRehearsal ----------------------------
(***************************************************************************)
(* The local rehearsal of v2: one server process over PostgreSQL and an    *)
(* Anvil chain (src/local/rehearsalServer.ts).  Every mint operation and   *)
(* every poll runs in the queue of src/local/mintRuntime.ts, which ends in *)
(* a checkpoint; src/local/postgresState.ts stores the mint state and the  *)
(* indexer's cursor in one transaction; src/local/chainReconciler.ts reads *)
(* the chain call by call while the chain goes on; an authorization is     *)
(* issued by src/v2/service.ts and withdrawn claims are deleted by         *)
(* src/store/postgresStore.ts.                                             *)
(*                                                                         *)
(* A block is its number of creation and the mint in it, if any, so that a *)
(* chain that was rewound and grown again is told apart; its height is its *)
(* timestamp, in which deadlines are counted.                              *)
(***************************************************************************)
EXTENDS Naturals, Sequences, FiniteSets

CONSTANTS
    Signatures,
    MaxAuthorizations,  \* bound on the authorizations ever prepared
    MaxInstances,       \* bound on the claims of one signature
    MaxBlocks,          \* bound on the blocks ever mined
    TTL,                \* the blocks an authorization is valid for
    MaxBlocksPerTick,
    Rewinds,            \* whether the chain may be rewound
    LostReplies,        \* whether the reply to a COMMIT may be lost
    None

\* What the values of the constants must satisfy.
RehearsalAssumption ==
    /\ TTL \in Nat /\ MaxBlocksPerTick \in Nat \ {0} /\ MaxBlocks \in Nat \ {0}
    /\ Rewinds \in BOOLEAN /\ LostReplies \in BOOLEAN

Authorizations == 1..MaxAuthorizations

VARIABLES
    chain,      \* the Anvil chain: a sequence of [id, mint]
    made,       \* how many blocks were ever mined
    rewound,    \* whether the chain was ever rewound
    wallet,     \* the responses handed out, which the wallet may submit
    claim,      \* [Signatures -> 0..MaxInstances], the stored claim, 0 for none
    claims,     \* [Signatures -> 0..MaxInstances], the claims made so far
    used,       \* how many authorization identifiers were used
    memory,     \* the process's mint state and cursor
    durable,    \* the stored mint state and cursor
    failed,     \* the writer failed: nothing is stored until a restart
    op          \* the operation that occupies the queue

vars == <<chain, made, rewound, wallet, claim, claims, used, memory, durable,
          failed, op>>

(***************************************************************************)
(* A snapshot: authorizations by number, the projection of each signature, *)
(* the claim whose metadata is frozen, and the indexer's promoted blocks.  *)
(***************************************************************************)
EmptySnapshot ==
    [auths |-> [a \in Authorizations |-> None],
     projection |-> [s \in Signatures |-> "unminted"],
     metadata |-> [s \in Signatures |-> 0],
     promoted |-> << >>,
     halted |-> FALSE]

Idle == [at |-> "idle"]

Init ==
    /\ chain = <<[id |-> 1, mint |-> None]>>
    /\ made = 1
    /\ rewound = FALSE
    /\ wallet = {}
    /\ claim = [s \in Signatures |-> 1]
    /\ claims = [s \in Signatures |-> 1]
    /\ used = 0
    /\ memory = EmptySnapshot
    /\ durable = EmptySnapshot
    /\ failed = FALSE
    /\ op = Idle

MintsOf(blocks) == {blocks[n].mint : n \in DOMAIN blocks} \ {None}

Held(st, s) ==
    {a \in Authorizations : st.auths[a] # None /\ st.auths[a].signature = s}

Unresolved(st, a) == st.auths[a].status \in {"prepared", "signing_unknown", "issued"}

CanWithdraw(st, s) ==
    /\ st.projection[s] = "unminted"
    /\ \A a \in Held(st, s) : st.auths[a].status = "expired"

BadForget(st, s) ==
    (* slip: the frozen metadata is left behind *)
    [st EXCEPT !.projection[s] = "unminted",
               !.auths = [a \in Authorizations |->
                   IF a \in Held(st, s) THEN None ELSE st.auths[a]]]

Forget(st, s) ==
    [st EXCEPT !.metadata[s] = 0, !.projection[s] = "unminted",
               !.auths = [a \in Authorizations |->
                   IF a \in Held(st, s) THEN None ELSE st.auths[a]]]

(***************************************************************************)
(* The queue: an operation starts when none runs and the writer is sound.  *)
(* A mint starts with a reconciliation; a withdrawal only if the signature *)
(* ever had an authorization.                                              *)
(***************************************************************************)
Begin(kind, s) ==
    /\ op = Idle
    /\ ~failed
    /\ kind # "poll" => claim[s] # 0
    /\ op' = [at |-> IF kind = "withdraw" /\ Held(memory, s) = {} THEN "delete" ELSE "head",
              kind |-> kind, signature |-> s, instance |-> claim[s]]
    /\ UNCHANGED <<chain, made, rewound, wallet, claim, claims, used, memory,
                   durable, failed>>

(***************************************************************************)
(* tick: the chain is read by block number, one call after another.  A     *)
(* result is published only as a whole; a failure publishes nothing of it, *)
(* and a failure that means the chain itself changed revokes everything.   *)
(***************************************************************************)
Result(st, ready) ==
    op' = [at |-> "publish", kind |-> op.kind, signature |-> op.signature,
           instance |-> op.instance, result |-> st, ready |-> ready]

Blocked == Result(memory, FALSE)

Incident ==
    Result([memory EXCEPT !.halted = TRUE,
                          !.projection = [s \in Signatures |->
                              IF @[s] = "finalized" THEN "revoked" ELSE @[s]]],
           FALSE)

ReadHead ==
    /\ op.at = "head"
    /\ IF memory.halted THEN Blocked
       ELSE IF Len(chain) < Len(memory.promoted) THEN Incident
       ELSE op' = [at |-> "scan", kind |-> op.kind, signature |-> op.signature,
                   instance |-> op.instance, height |-> Len(chain),
                   head |-> chain[Len(chain)].id]
    /\ UNCHANGED <<chain, made, rewound, wallet, claim, claims, used, memory,
                   durable, failed>>

\* A mint is taken only with its durable authorization, attested, and metadata.
Evidenced(st, m) ==
    /\ st.auths[m.auth] # None
    /\ st.auths[m.auth].status \in {"issued", "consumed"}
    /\ st.metadata[m.signature] # 0

Promote(st, blocks) ==
    LET found == {m.auth : m \in MintsOf(blocks)}
    IN  [st EXCEPT
            !.promoted = blocks,
            !.auths = [a \in Authorizations |->
                IF a \in found THEN [st.auths[a] EXCEPT !.status = "consumed"]
                ELSE st.auths[a]],
            !.projection = [s \in Signatures |->
                IF \E m \in MintsOf(blocks) : m.signature = s THEN "finalized"
                ELSE st.projection[s]]]

Scan ==
    LET from == Len(memory.promoted) + 1
        through == IF from + MaxBlocksPerTick - 1 < op.height
                   THEN from + MaxBlocksPerTick - 1 ELSE op.height
        blocks == SubSeq(chain, 1, through)
        scanned == SubSeq(chain, from, through)
    IN  /\ op.at = "scan"
        /\ IF Len(chain) < through THEN Blocked
           ELSE IF SubSeq(chain, 1, from - 1) # memory.promoted THEN Incident
           ELSE IF \E m \in MintsOf(scanned) : ~Evidenced(memory, m) THEN Blocked
           ELSE op' = [at |-> "verify", kind |-> op.kind, signature |-> op.signature,
                       instance |-> op.instance, height |-> op.height,
                       head |-> op.head, work |-> Promote(memory, blocks)]
        /\ UNCHANGED <<chain, made, rewound, wallet, claim, claims, used, memory,
                       durable, failed>>

(***************************************************************************)
(* Caught up with the head it read, the tick asks the contract about every *)
(* authorization, and expires those whose deadline that head has passed.   *)
(***************************************************************************)
Expires(st, a, blocks, height) ==
    /\ st.auths[a] # None
    /\ Unresolved(st, a)
    /\ ~\E m \in MintsOf(blocks) : m.auth = a \/ m.signature = st.auths[a].signature
    /\ height > st.auths[a].deadline

Expire(st, blocks, height) ==
    LET gone == {a \in Authorizations : Expires(st, a, blocks, height)}
    IN  [st EXCEPT
            !.auths = [a \in Authorizations |->
                IF a \in gone THEN [st.auths[a] EXCEPT !.status = "expired"]
                ELSE st.auths[a]],
            !.projection = [s \in Signatures |->
                IF /\ st.projection[s] = "authorized"
                   /\ \E a \in gone : st.auths[a].signature = s /\ st.auths[a].status = "issued"
                THEN "unminted" ELSE st.projection[s]]]

Unobserved(st, blocks) ==
    \E a \in Authorizations :
        /\ st.auths[a] # None
        /\ \E m \in MintsOf(blocks) : m.auth = a \/ m.signature = st.auths[a].signature
        /\ st.projection[st.auths[a].signature] # "finalized"

CaughtUp == Len(op.work.promoted) = op.height

Verify ==
    LET blocks == SubSeq(chain, 1, op.height)
    IN  /\ op.at = "verify"
        /\ IF CaughtUp /\ Len(chain) < op.height THEN Blocked
           ELSE IF CaughtUp /\ Unobserved(op.work, blocks) THEN Blocked
           ELSE op' = [op EXCEPT !.at = "conclude",
                           !.work = IF CaughtUp THEN Expire(@, blocks, op.height) ELSE @]
        /\ UNCHANGED <<chain, made, rewound, wallet, claim, claims, used, memory,
                       durable, failed>>

HeadStands == chain[op.height].id = op.head

Conclude ==
    /\ op.at = "conclude"
    /\ IF Len(chain) < op.height THEN Blocked
       ELSE IF ~HeadStands THEN Incident
       ELSE Result(op.work, CaughtUp)
    /\ UNCHANGED <<chain, made, rewound, wallet, claim, claims, used, memory,
                   durable, failed>>

(***************************************************************************)
(* saveRuntime stores both snapshots in one transaction.  It commits, or   *)
(* it fails, and then the process stores nothing more until a restart even *)
(* when the transaction did commit and only its reply was lost.            *)
(***************************************************************************)
Saved(st) == durable' = st /\ failed' = FALSE

SaveFails(st) ==
    /\ failed' = TRUE
    /\ op' = Idle
    /\ \/ UNCHANGED durable
       \/ LostReplies /\ durable' = st

\* reconcile: the result is stored before anyone reads it.
Publish ==
    /\ op.at = "publish"
    /\ \/ /\ Saved(op.result)
          /\ memory' = op.result
          /\ op' = [at |-> CASE op.kind = "poll" -> "finish"
                             [] ~op.ready -> "finish"
                             [] op.kind = "issue" -> "prepare"
                             [] op.kind = "withdraw" -> "delete",
                    kind |-> op.kind, signature |-> op.signature,
                    instance |-> op.instance, auth |-> None]
       \/ SaveFails(op.result) /\ UNCHANGED memory
    /\ UNCHANGED <<chain, made, rewound, wallet, claim, claims, used>>

(***************************************************************************)
(* issueAuthorization: the metadata is frozen, the authorization prepared, *)
(* stored, signed, stored again, and only then handed out.                 *)
(***************************************************************************)
Now == Len(chain)

Existing(s) == {a \in Held(memory, s) : Unresolved(memory, a)}

CanPrepare(s) ==
    /\ claim[s] = op.instance
    /\ memory.metadata[s] \in {0, op.instance}
    /\ memory.projection[s] \in {"unminted", "authorized"}
    /\ memory.projection[s] = "authorized" => Existing(s) # {}
    /\ \A a \in Existing(s) : Now <= memory.auths[a].deadline

Abort == op' = [op EXCEPT !.at = "finish", !.auth = None]

Prepare ==
    LET s == op.signature
    IN  /\ op.at = "prepare"
        /\ IF ~CanPrepare(s)
           THEN Abort /\ UNCHANGED <<memory, used>>
           ELSE IF Existing(s) # {}
           THEN \E a \in Existing(s) :
                   /\ op' = [op EXCEPT !.auth = a,
                          !.at = IF memory.auths[a].status = "issued" THEN "store" ELSE "intend"]
                   /\ memory' = [memory EXCEPT !.metadata[s] = op.instance]
                   /\ UNCHANGED used
           ELSE /\ used < MaxAuthorizations
                /\ used' = used + 1
                /\ memory' = [memory EXCEPT
                       !.metadata[s] = op.instance,
                       !.auths[used + 1] = [signature |-> s, instance |-> op.instance,
                                            status |-> "prepared", deadline |-> Now + TTL]]
                /\ op' = [op EXCEPT !.at = "intend", !.auth = used + 1]
        /\ UNCHANGED <<chain, made, rewound, wallet, claim, claims, durable, failed>>

\* A checkpoint inside the operation, which goes on only if it was stored.
Checkpoint(from, to) ==
    /\ op.at = from
    /\ \/ Saved(memory) /\ op' = [op EXCEPT !.at = to]
       \/ SaveFails(memory)
    /\ UNCHANGED <<chain, made, rewound, wallet, claim, claims, used, memory>>

StoreIntent == Checkpoint("intend", "sign")

Sign ==
    /\ op.at = "sign"
    /\ memory' = [memory EXCEPT !.auths[op.auth].status = "issued",
                                !.projection[op.signature] =
                                    IF @ \in {"unminted", "authorized"} THEN "authorized" ELSE @]
    /\ op' = [op EXCEPT !.at = "store"]
    /\ UNCHANGED <<chain, made, rewound, wallet, claim, claims, used, durable, failed>>

SignerFails ==
    /\ op.at = "sign"
    /\ memory' = [memory EXCEPT !.auths[op.auth].status = "signing_unknown"]
    /\ Abort
    /\ UNCHANGED <<chain, made, rewound, wallet, claim, claims, used, durable, failed>>

StoreSignature == Checkpoint("store", "guard")

\* assertPostSignBoundary reads the chain's time once more.
Guard ==
    /\ op.at = "guard"
    /\ IF Now <= memory.auths[op.auth].deadline
       THEN op' = [op EXCEPT !.at = "finish"] ELSE Abort
    /\ UNCHANGED <<chain, made, rewound, wallet, claim, claims, used, memory,
                   durable, failed>>

\* Every operation ends in a checkpoint, and only then answers.
Finish ==
    /\ op.at = "finish"
    /\ \/ /\ Saved(memory)
          /\ op' = Idle
          /\ wallet' = IF op.auth = None THEN wallet
                       ELSE wallet \cup {[auth |-> op.auth, signature |-> op.signature,
                                          deadline |-> memory.auths[op.auth].deadline]}
       \/ SaveFails(memory) /\ UNCHANGED wallet
    /\ UNCHANGED <<chain, made, rewound, claim, claims, used, memory>>

(***************************************************************************)
(* withdraw: the claim and what the stored snapshot holds of it are        *)
(* deleted in one transaction, then memory forgets them too.               *)
(***************************************************************************)
DeleteClaim ==
    LET s == op.signature
        may == claim[s] = op.instance /\ CanWithdraw(memory, s) /\ CanWithdraw(durable, s)
        done == [at |-> "finish", kind |-> op.kind, signature |-> s,
                 instance |-> op.instance, auth |-> None]
    IN  /\ op.at = "delete"
        /\ op' = done
        /\ IF may
           THEN \/ /\ claim' = [claim EXCEPT ![s] = 0]
                   /\ durable' = Forget(durable, s)
                   /\ memory' = Forget(memory, s)
                \/ /\ LostReplies
                   /\ claim' = [claim EXCEPT ![s] = 0]
                   /\ durable' = Forget(durable, s)
                   /\ UNCHANGED memory
                \/ UNCHANGED <<claim, durable, memory>>
           ELSE UNCHANGED <<claim, durable, memory>>
        /\ UNCHANGED <<chain, made, rewound, wallet, claims, used, failed>>

ClaimAgain(s) ==
    /\ claim[s] = 0
    /\ claims[s] < MaxInstances
    /\ claims' = [claims EXCEPT ![s] = @ + 1]
    /\ claim' = [claim EXCEPT ![s] = claims[s] + 1]
    /\ UNCHANGED <<chain, made, rewound, wallet, used, memory, durable, failed, op>>

\* The process stops at any moment and another loads what is stored.
Restart ==
    /\ memory' = durable
    /\ failed' = FALSE
    /\ op' = Idle
    /\ UNCHANGED <<chain, made, rewound, wallet, claim, claims, used, durable>>

(***************************************************************************)
(* Anvil: it mines on its own, includes what the wallet submits and the    *)
(* contract accepts, and its operator may rewind it.                       *)
(***************************************************************************)
Acceptable ==
    {m \in wallet : /\ Len(chain) + 1 <= m.deadline
                    /\ ~\E d \in MintsOf(chain) : d.auth = m.auth \/ d.signature = m.signature}

Mine ==
    /\ made < MaxBlocks
    /\ made' = made + 1
    /\ \E m \in Acceptable \cup {None} :
          chain' = Append(chain, [id |-> made + 1, mint |-> m])
    /\ UNCHANGED <<rewound, wallet, claim, claims, used, memory, durable, failed, op>>

Rewind ==
    /\ Rewinds
    /\ ~rewound
    /\ rewound' = TRUE
    /\ \E n \in 1..(Len(chain) - 1) : chain' = SubSeq(chain, 1, n)
    /\ UNCHANGED <<made, wallet, claim, claims, used, memory, durable, failed, op>>

Tick == ReadHead \/ Scan \/ Verify \/ Conclude \/ Publish

Operation ==
    \/ Tick
    \/ Prepare \/ StoreIntent \/ Sign \/ SignerFails \/ StoreSignature \/ Guard
    \/ DeleteClaim
    \/ Finish

Steps ==
    \/ \E s \in Signatures :
          \/ \E kind \in {"poll", "issue", "withdraw"} : Begin(kind, s)
          \/ ClaimAgain(s)
    \/ Operation
    \/ Mine
    \/ Rewind

Next == Steps \/ Restart

Spec == Init /\ [][Next]_vars

(***************************************************************************)
(* Properties.                                                             *)
(***************************************************************************)
\* Whatever the wallet can mint is on record where a restart will find it,
\* unless its claim was withdrawn, which needs the deadline to have passed.
HandedOutIsDurable ==
    \A m \in wallet :
        \/ durable.auths[m.auth] # None /\ durable.auths[m.auth].status \in {"issued", "consumed", "expired"}
        \/ durable.auths[m.auth] = None /\ (rewound \/ Len(chain) > m.deadline)

\* An authorization that was released as expired, or forgotten with its claim,
\* is never redeemed: the block that passed its deadline was on the chain.
ReleasedIsDead ==
    rewound \/ \A m \in MintsOf(chain) :
        durable.auths[m.auth] # None /\ durable.auths[m.auth].status # "expired"

\* The cursor and the confirmed mints are stored together: a signature is shown
\* as minted exactly when a promoted block holds its mint.
CursorMatchesGallery ==
    ~durable.halted =>
        \A s \in Signatures :
            durable.projection[s] = "finalized"
                <=> \E m \in MintsOf(durable.promoted) : m.signature = s

\* A signature is authorized in the snapshot only while an issued authorization
\* of the claim still stands; nothing is stuck behind a lost one.
AuthorizedIsBacked ==
    \A s \in Signatures : durable.projection[s] = "authorized" =>
        \E a \in Held(durable, s) : durable.auths[a].status = "issued"

\* A withdrawn claim leaves no frozen metadata to a later claim of the artwork.
NothingResurrected ==
    \A s \in Signatures : claim[s] # 0 => durable.metadata[s] \in {0, claim[s]}
=============================================================================
