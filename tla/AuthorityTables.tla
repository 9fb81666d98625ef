--------------------------- MODULE AuthorityTables ---------------------------
(***************************************************************************)
(* The authority half of migration 002_v2_minting.sql (with 003): control  *)
(* row, wallet bindings, token metadata, mint authorizations and attempts, *)
(* gallery entry and erasure evidence of one signature in one deployment,  *)
(* as the triggers, constraints and unique indexes of the migration let    *)
(* them change.  No production writer exists, so a writer may issue any    *)
(* statement and the guards decide; what it reports of the chain and of    *)
(* the signer is true.  The row locks a guard takes (FOR UPDATE on the     *)
(* control row and on the binding head) serialize the transactions that    *)
(* conflict, so that one transaction is one action.  The deployment row,   *)
(* to which blocks and evidence refer, stays.                              *)
(*                                                                         *)
(* Time is block height: a block's timestamp is its number.  Blocks below  *)
(* `final' never change; above, the chain may be rewound.                  *)
(***************************************************************************)
EXTENDS Integers, Sequences, FiniteSets, SequencesExt

CONSTANTS
    Wallets,        \* wallet bindings of the claimant
    Auths,          \* authorization identifiers
    NoWallet,       \* no binding is the head
    Window,         \* blocks an authorization is valid for
    MaxHeight       \* bound: blocks of the chain

\* What the values of the constants must satisfy.
WindowAssumption == Window \in Nat \ {0}

VARIABLES
    chain,      \* what each block of the canonical chain holds
    final,      \* height of the finalized block
    observed,   \* canonical block observations, with their receipts and logs
    promoted,   \* how many of them are finalized
    reached,    \* promoted_finalized_height of the checkpoint, 0 while it has none
    control,    \* issuance_state of the signature's control row
    suppressed, \* the signature is suppressed in the deployment
    open,       \* the deployment is canonical and issues
    claimed,    \* the V1 signature row exists
    head,       \* active_wallet_binding_id, or NoWallet
    binding,    \* "none", "active" or "ended" for each binding
    metadata,   \* [state, current]: preparation, and whether control_version is the control's
    auth,       \* the authorization rows
    attempts,   \* authorizations with a transaction attempt
    evidence,   \* erasure chain evidence: [block, covered], block 0 while there is none
    gallery,    \* the signature has a finalized gallery entry
    attested    \* authorizations whose attestation has left the signer

chainVars == <<chain, final>>
viewVars == <<observed, promoted, reached>>
walletVars == <<head, binding>>
rowVars == <<control, suppressed, open, claimed, metadata, evidence, gallery>>
authVars == <<auth, attempts, attested>>
vars == <<chainVars, viewVars, walletVars, rowVars, authVars>>

Empty == [kind |-> "none", of |-> "none"]
Event(kind, a) == [kind |-> kind, of |-> a]
Upto(blocks, h) == {blocks[i] : i \in 1..h}
Mints(blocks, h) == {e.of : e \in {x \in Upto(blocks, h) : x.kind = "mint"}}
Revokes(blocks, h) == {e.of : e \in {x \in Upto(blocks, h) : x.kind = "revoke"}}

NoAuth == [wallet |-> NoWallet, deadline |-> 0, issuance |-> "none", state |-> "none", block |-> 0]
Rows == {a \in Auths : auth[a].issuance \notin {"none", "deleted"}}
NoEvidence == [block |-> 0, covered |-> 0]

Init ==
    /\ chain = <<>> /\ final = 0 /\ observed = <<>> /\ promoted = 0 /\ reached = 0
    /\ control = "enabled" /\ suppressed = FALSE /\ open = TRUE /\ claimed = TRUE
    /\ head = NoWallet /\ binding = [w \in Wallets |-> "none"]
    /\ metadata = [state |-> "none", current |-> TRUE]
    /\ auth = [a \in Auths |-> NoAuth] /\ attempts = {} /\ attested = {}
    /\ evidence = NoEvidence /\ gallery = FALSE

------------------------------------------------------------------------------
(* The chain and the contract.                                             *)

Height == Len(chain)

\* The contract takes an attestation once, until its deadline, unless revoked,
\* and mints a signature once.
Redeemable(a) ==
    /\ a \in attested /\ auth[a].deadline > Height
    /\ a \notin Revokes(chain, Height) /\ Mints(chain, Height) = {}

NewBlock ==
    /\ Height < MaxHeight
    /\ \E e \in {Empty} \cup {Event("mint", a) : a \in {x \in Auths : Redeemable(x)}}
                        \cup {Event("revoke", a) : a \in Rows \ Revokes(chain, Height)} :
         chain' = Append(chain, e)
    /\ UNCHANGED <<final, viewVars, walletVars, rowVars, authVars>>

Finalize ==
    /\ final < Height /\ final' = final + 1
    /\ UNCHANGED <<chain, viewVars, walletVars, rowVars, authVars>>

Reorganize ==
    /\ Height > final /\ chain' = Front(chain)
    /\ UNCHANGED <<final, viewVars, walletVars, rowVars, authVars>>

------------------------------------------------------------------------------
(* The observation tables: an observed block keeps its row, with its       *)
(* receipts and logs, until it is orphaned; a finalized one keeps it.      *)

Observe ==
    /\ IsPrefix(observed, chain) /\ Len(observed) < Height
    /\ observed' = Append(observed, chain[Len(observed) + 1])
    /\ UNCHANGED <<chainVars, promoted, reached, walletVars, rowVars, authVars>>

Orphan ==
    /\ ~ IsPrefix(observed, chain) /\ Len(observed) > promoted
    /\ observed' = Front(observed)
    /\ UNCHANGED <<chainVars, promoted, reached, walletVars, rowVars, authVars>>

\* The transaction may advance the checkpoint too.
Promote ==
    /\ promoted < Len(observed) /\ promoted < final
    /\ observed[promoted + 1] = chain[promoted + 1]
    /\ promoted' = promoted + 1 /\ reached' \in {reached, promoted + 1}
    /\ UNCHANGED <<chainVars, observed, walletVars, rowVars, authVars>>

\* An UPDATE keeps or raises the height; after a DELETE there is none.
WriteCheckpoint ==
    /\ \E height \in 0..promoted :
         (height > reached \/ height = 0) /\ reached' = height /\ height # reached
    /\ UNCHANGED <<chainVars, observed, promoted, walletVars, rowVars, authVars>>

SeenMint == Mints(observed, Len(observed)) # {}

FinalizedConsumption(a) == a \in Mints(observed, promoted)
FinalizedRevocation(a) == a \in Revokes(observed, promoted)
FinalizedExpiry(a) ==
    /\ auth[a].block > auth[a].deadline /\ auth[a].block <= reached
    /\ Mints(observed, promoted) = {} /\ ~ gallery

AuthorizationIsSafelyDead(a) ==
    \/ auth[a].issuance = "signing_failed" /\ auth[a].state = "unseen" /\ a \notin attempts
    \/ auth[a].state = "consumed_finalized" /\ FinalizedConsumption(a)
    \/ auth[a].state = "revoked_finalized" /\ FinalizedRevocation(a)
    \/ auth[a].state = "expired_unconsumed" /\ FinalizedExpiry(a)

UnresolvedAuthority == \E a \in Rows : ~ AuthorizationIsSafelyDead(a)

HasErasureEvidence(deadline) ==
    /\ evidence.block \in 1..reached /\ evidence.covered >= deadline /\ ~ SeenMint

GalleryEntry ==
    /\ claimed /\ ~ gallery /\ Mints(observed, promoted) # {} /\ gallery' = TRUE
    /\ UNCHANGED <<chainVars, viewVars, walletVars, control, suppressed, open, claimed,
                   metadata, evidence, authVars>>

------------------------------------------------------------------------------
(* Control, suppression and deployment.                                    *)

\* A change of the state advances the version, so that metadata reserved under
\* the old version is never current again.
ControlTransition(from, to) ==
    /\ from # to /\ from # "erased"
    /\ from = "erasure_pending" => to \in {"blocked", "erased"}

\* Checked when the transaction that writes the control commits.
ErasureCommit(to) ==
    /\ to \in {"erasure_pending", "erased"} => suppressed
    /\ to = "erased" =>
        /\ ~ gallery /\ Mints(observed, promoted) = {}
        /\ HasErasureEvidence(0) /\ ~ claimed

SetControl ==
    /\ \E to \in {"enabled", "blocked", "erasure_pending", "erased"} :
         /\ ControlTransition(control, to) /\ ErasureCommit(to)
         /\ control' = to
    /\ metadata' = [metadata EXCEPT !.current = FALSE]
    /\ UNCHANGED <<chainVars, viewVars, walletVars, suppressed, open, claimed, evidence, gallery,
                   authVars>>

Suppress ==
    /\ suppressed' = ~ suppressed
    /\ UNCHANGED <<chainVars, viewVars, walletVars, control, open, claimed, metadata, evidence,
                   gallery, authVars>>

SetDeployment ==
    /\ open' = ~ open
    /\ ~ suppressed => control \notin {"erasure_pending", "erased"}
    /\ UNCHANGED <<chainVars, viewVars, walletVars, control, suppressed, claimed, metadata, evidence,
                   gallery, authVars>>

------------------------------------------------------------------------------
(* Wallet bindings and their head.                                         *)

ClearHead ==
    /\ head # NoWallet /\ ~ UnresolvedAuthority
    /\ head' = NoWallet
    /\ UNCHANGED <<chainVars, viewVars, binding, rowVars, authVars>>

RestoreHead ==
    /\ head = NoWallet /\ ~ UnresolvedAuthority
    /\ \E w \in Wallets : binding[w] = "active" /\ head' = w
    /\ UNCHANGED <<chainVars, viewVars, binding, rowVars, authVars>>

\* A binding row and the head that names it are written in one transaction;
\* one binding of the identity is active.
ActivateBinding ==
    /\ \A w \in Wallets : binding[w] # "active"
    /\ ~ UnresolvedAuthority
    /\ \E w \in Wallets : binding[w] = "none" /\ head' = w
                          /\ binding' = [binding EXCEPT ![w] = "active"]
    /\ UNCHANGED <<chainVars, viewVars, rowVars, authVars>>

EndBinding ==
    /\ ~ UnresolvedAuthority
    /\ \E w \in Wallets : /\ binding[w] = "active" /\ head # w
                           /\ binding' = [binding EXCEPT ![w] = "ended"]
    /\ UNCHANGED <<chainVars, viewVars, head, rowVars, authVars>>

\* The head and the authorizations refer to the row (ON DELETE RESTRICT).
DeleteBinding ==
    /\ ~ UnresolvedAuthority
    /\ claimed => control \in {"erasure_pending", "erased"}
    /\ \E w \in Wallets \ {head} :
         /\ binding[w] # "none" /\ \A a \in Rows : auth[a].wallet # w
         /\ binding' = [binding EXCEPT ![w] = "none"]
    /\ UNCHANGED <<chainVars, viewVars, head, rowVars, authVars>>

------------------------------------------------------------------------------
(* Token metadata: what its preparation means to an authorization.         *)

Reserve ==
    /\ claimed /\ control = "enabled" /\ metadata.state = "none"
    /\ metadata' = [state |-> "open", current |-> TRUE]
    /\ UNCHANGED <<chainVars, viewVars, walletVars, control, suppressed, open, claimed, evidence,
                   gallery, authVars>>

Freeze ==
    /\ metadata.state = "open" /\ metadata.current /\ control = "enabled"
    /\ metadata' = [metadata EXCEPT !.state = "frozen"]
    /\ UNCHANGED <<chainVars, viewVars, walletVars, control, suppressed, open, claimed, evidence,
                   gallery, authVars>>

AbortMetadata ==
    /\ metadata.state = "open" /\ metadata' = [metadata EXCEPT !.state = "aborted"]
    /\ UNCHANGED <<chainVars, viewVars, walletVars, control, suppressed, open, claimed, evidence,
                   gallery, authVars>>

DeleteMetadata ==
    /\ control = "erasure_pending" /\ metadata.state \in {"aborted", "frozen"}
    /\ ~ gallery /\ HasErasureEvidence(0) /\ Rows = {}
    /\ metadata' = [metadata EXCEPT !.state = "none"]
    /\ UNCHANGED <<chainVars, viewVars, walletVars, control, suppressed, open, claimed, evidence,
                   gallery, authVars>>

------------------------------------------------------------------------------
(* Mint authorizations.                                                    *)

BadSlot == {a \in Rows : /\ auth[a].issuance \notin {"signing_failed", "signing_unknown"}  (* slip *)
                         /\ auth[a].state \notin {"consumed_finalized", "revoked_finalized",
                                                 "expired_unconsumed"}}

\* The rows the unresolved-slot index counts.
Slot == {a \in Rows : /\ auth[a].issuance # "signing_failed"
                      /\ auth[a].state \notin {"consumed_finalized", "revoked_finalized",
                                              "expired_unconsumed"}}

AuthorizationCommit(w) ==
    /\ claimed /\ metadata.state = "frozen" /\ metadata.current
    /\ binding[w] = "active" /\ head = w
    /\ control = "enabled" /\ ~ suppressed /\ open

Prepare(a, w) ==
    /\ auth[a].issuance = "none" /\ Slot = {} /\ AuthorizationCommit(w)
    /\ auth' = [auth EXCEPT ![a] = [wallet |-> w, deadline |-> Height + Window,
                                    issuance |-> "prepared", state |-> "unseen", block |-> 0]]
    /\ UNCHANGED <<chainVars, viewVars, walletVars, rowVars, attempts, attested>>

\* The signer answers; the answer may be lost.
SignerReleases(a) ==
    /\ auth[a].issuance \in {"prepared", "signing_unknown"} /\ a \notin attested
    /\ attested' = attested \cup {a}
    /\ UNCHANGED <<chainVars, viewVars, walletVars, rowVars, auth, attempts>>

Issuance(from, to) ==
    \/ from = "prepared" /\ to \in {"issued", "signing_failed", "signing_unknown"}
    \/ from = "signing_unknown" /\ to \in {"issued", "signing_failed"}

SetIssuance(a) ==
    /\ \E to \in {"issued", "signing_failed", "signing_unknown"} :
         /\ Issuance(auth[a].issuance, to)
         /\ to = "issued" => a \in attested
         /\ to = "signing_failed" => a \notin attested /\ auth[a].state = "unseen" /\ a \notin attempts
         /\ auth' = [auth EXCEPT ![a].issuance = to]
    /\ UNCHANGED <<chainVars, viewVars, walletVars, rowVars, attempts, attested>>

RecordAttempt(a) ==
    /\ auth[a].issuance = "issued"
    /\ attempts' = attempts \cup {a} /\ a \notin attempts
    /\ UNCHANGED <<chainVars, viewVars, walletVars, rowVars, auth, attested>>

ChainTransition(from, to) ==
    \/ from = "unseen" /\ to \notin {"unseen", "orphaned_use"}
    \/ from = "observed_used_unfinalized" /\ to \in {"consumed_finalized", "orphaned_use"}
    \/ from = "revoked_unfinalized" /\ to \in {"revoked_finalized", "unseen"}
    \/ from = "orphaned_use" /\ to # "orphaned_use"

\* What the database demands of a terminal state, and what a truthful writer
\* has seen when it writes another one.
Evidenced(a, to, b) ==
    /\ to = "consumed_finalized" => FinalizedConsumption(a)
    /\ to = "revoked_finalized" => FinalizedRevocation(a)
    /\ to = "expired_unconsumed" =>
        /\ b \in 1..reached /\ b > auth[a].deadline
        /\ Mints(chain, b) = {} /\ Mints(observed, promoted) = {} /\ ~ gallery
        /\ a \notin Revokes(chain, b)
    /\ to # "expired_unconsumed" => b = 0
    /\ to = "observed_used_unfinalized" => a \in Mints(observed, Len(observed))
    /\ to = "revoked_unfinalized" => a \in Revokes(observed, Len(observed))
    /\ to = "orphaned_use" => a \notin Mints(observed, Len(observed))

ChainStates == {"unseen", "observed_used_unfinalized", "consumed_finalized", "revoked_unfinalized",
                "revoked_finalized", "orphaned_use", "expired_unconsumed"}

SetChainState(a) ==
    /\ a \in Rows
    /\ \E to \in ChainStates, b \in 0..reached :
         /\ ChainTransition(auth[a].state, to) /\ Evidenced(a, to, b)
         /\ auth[a].issuance = "signing_failed" => to = "unseen"
         /\ auth' = [auth EXCEPT ![a].state = to, ![a].block = b]
    /\ UNCHANGED <<chainVars, viewVars, walletVars, rowVars, attempts, attested>>

------------------------------------------------------------------------------
(* Controlled erasure, and the withdrawal of a claim without mint history. *)

\* The block and the deadline a reconciliation receipt covers: a finalized
\* block past the deadline, read unminted, that leaves no live authority.
RecordEvidence ==
    /\ control = "erasure_pending" /\ evidence = NoEvidence
    /\ \E b \in 1..reached, covered \in 0..(MaxHeight - 1) :
         /\ b > covered /\ Mints(chain, b) = {}
         /\ \A a \in Rows : /\ auth[a].deadline <= covered
                              /\ auth[a].state # "consumed_finalized"
                              /\ AuthorizationIsSafelyDead(a)
         /\ evidence' = [block |-> b, covered |-> covered]
    /\ ~ SeenMint
    /\ UNCHANGED <<chainVars, viewVars, walletVars, control, suppressed, open, claimed, metadata,
                   gallery, authVars>>

Erasable(a) ==
    /\ control = "erasure_pending" /\ AuthorizationIsSafelyDead(a)
    /\ auth[a].state # "consumed_finalized" /\ HasErasureEvidence(auth[a].deadline)

DeleteAttempt(a) ==
    /\ a \in attempts /\ Erasable(a)
    /\ attempts' = attempts \ {a}
    /\ UNCHANGED <<chainVars, viewVars, walletVars, rowVars, auth, attested>>

DeleteAuthorization(a) ==
    /\ a \in Rows \ attempts /\ Erasable(a) /\ ~ FinalizedConsumption(a)
    /\ auth' = [auth EXCEPT ![a].issuance = "deleted"]
    /\ UNCHANGED <<chainVars, viewVars, walletVars, rowVars, attempts, attested>>

EraseSignature ==
    /\ claimed /\ control = "erasure_pending" /\ metadata.state = "none"
    /\ \A a \in Rows : AuthorizationIsSafelyDead(a)
    /\ HasErasureEvidence(0) /\ ~ gallery
    /\ claimed' = FALSE
    /\ UNCHANGED <<chainVars, viewVars, walletVars, control, suppressed, open, metadata, evidence,
                   gallery, authVars>>

\* Withdrawal advances the control version and leaves it enabled.
WithdrawClaim ==
    /\ claimed /\ control = "enabled" /\ metadata.state = "none" /\ Rows = {} /\ ~ gallery
    /\ ~ SeenMint /\ ~ suppressed
    /\ claimed' = FALSE
    /\ UNCHANGED <<chainVars, viewVars, walletVars, control, suppressed, open, metadata, evidence,
                   gallery, authVars>>

Claim ==
    /\ ~ claimed /\ claimed' = TRUE
    /\ UNCHANGED <<chainVars, viewVars, walletVars, control, suppressed, open, metadata, evidence,
                   gallery, authVars>>

------------------------------------------------------------------------------
Next ==
    \/ NewBlock \/ Finalize \/ Reorganize \/ Observe \/ Orphan \/ Promote \/ WriteCheckpoint
    \/ GalleryEntry
    \/ SetControl \/ Suppress \/ SetDeployment
    \/ ClearHead \/ RestoreHead \/ ActivateBinding \/ EndBinding \/ DeleteBinding
    \/ Reserve \/ Freeze \/ AbortMetadata \/ DeleteMetadata
    \/ \E a \in Auths :
         \/ \E w \in Wallets : Prepare(a, w)
         \/ SignerReleases(a) \/ SetIssuance(a) \/ RecordAttempt(a) \/ SetChainState(a)
         \/ DeleteAttempt(a) \/ DeleteAuthorization(a)
    \/ RecordEvidence \/ EraseSignature \/ WithdrawClaim \/ Claim

Spec == Init /\ [][Next]_vars

------------------------------------------------------------------------------
(* What could still be minted, whatever the chain above its finalized      *)
(* block becomes and whatever a pending signer answers.                    *)
Live == {a \in Auths :
            /\ auth[a].issuance \in {"prepared", "signing_unknown"} \/ a \in attested
            /\ auth[a].deadline > final
            /\ a \notin Revokes(chain, final) /\ Mints(chain, final) = {}}

\* An authorization that may still be redeemed is recorded, and its wallet is
\* the active binding the head names: the recipient cannot be changed under it.
LiveAuthorityKeepsItsWallet ==
    \A a \in Live : a \in Rows /\ auth[a].wallet = head /\ binding[head] = "active"

\* Two authorizations of the signature are never redeemable at once, not even
\* after a reorganization.
OneLiveAuthority == Cardinality(Live) <= 1

\* A signature whose erasure is sealed has no token and can never get one.
ErasedIsUnminted ==
    control = "erased" => Live = {} /\ Mints(chain, Height) = {}

\* While the gallery shows the signature, what minted it stays recorded.
ProvenanceIsKept ==
    gallery => /\ claimed /\ metadata.state = "frozen"
               /\ \A a \in Mints(chain, final) : a \in Rows

\* A terminal state is final: an authorization proven expired is never
\* counted as live authority again.
ExpiredStaysDead ==
    \A a \in Rows : auth[a].state = "expired_unconsumed" => AuthorizationIsSafelyDead(a)

==============================================================================
