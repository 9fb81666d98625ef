-------------------------- MODULE PublicationTables --------------------------
(***************************************************************************)
(* The publication half of migration 002_v2_minting.sql for one signature: *)
(* control row, deployments, suppressions, the publication outbox and the  *)
(* publication leases, and the erasure and withdrawal guards that demand   *)
(* they are drained.  A writer may try any statement; the guards decide.   *)
(* The gallery entry, whose own guard EvidenceTables models, moves forward *)
(* only.  Authorizations and chain evidence, which erasure demands as      *)
(* well, are AuthorityTables.                                              *)
(***************************************************************************)
EXTENDS Integers, FiniteSets

CONSTANTS
    Deployments, Leases, Items,   \* identifiers of the rows
    MaxVersion, MaxFence,         \* bounds: control versions, publication fences
    NoRow                         \* a row that is not there

VARIABLES
    control,    \* [state, version, fence]
    deployment, \* [exists, open]: open when it indexes or issues
    suppressed, \* deployments the signature is suppressed in
    claimed,    \* the V1 signature row exists
    gallery,    \* "none", "finalized" or "finality_revoked" in each deployment
    outbox,     \* rows of gallery_publication_outbox (action publish)
    lease,      \* rows of publication_leases
    expired     \* leases whose expires_at has passed

vars == <<control, deployment, suppressed, claimed, gallery, outbox, lease, expired>>

Controls == [state : {"enabled", "blocked", "erasure_pending", "erased"},
             version : 1..MaxVersion, fence : 0..MaxFence]
OutboxRows == [deployment : Deployments, version : 1..MaxVersion,
               state : {"pending", "processing", "completed", "failed", "aborted"}]
LeaseRows == [deployment : Deployments, version : 1..MaxVersion, fence : 1..MaxFence,
              state : {"staging", "ready", "activated", "aborted", "expired"}]

Init ==
    /\ control = [state |-> "enabled", version |-> 1, fence |-> 0]
    /\ \E d \in Deployments :
         deployment = [x \in Deployments |-> [exists |-> x = d, open |-> x = d]]
    /\ suppressed = {} /\ claimed = TRUE
    /\ gallery = [d \in Deployments |-> "none"]
    /\ outbox = [i \in Items |-> NoRow] /\ lease = [l \in Leases |-> NoRow]
    /\ expired = {}

Erasing(state) == state \in {"erasure_pending", "erased"}
Existing == {d \in Deployments : deployment[d].exists}
Finalized(d) == gallery[d] = "finalized"

LiveItems == {i \in Items : outbox[i] # NoRow /\ outbox[i].state \in {"pending", "processing", "failed"}}
LiveLeases == {l \in Leases : lease[l] # NoRow /\ lease[l].state \in {"staging", "ready"}}

------------------------------------------------------------------------------
ControlGuard(old, new) ==
    /\ old.state # "erased"
    /\ new.version >= old.version /\ new.fence >= old.fence
    /\ new.state # old.state => new.version > old.version
    /\ old.state = "erasure_pending" => new.state \in {"erasure_pending", "blocked", "erased"}

\* Checked when the transaction commits.
ControlCommit(new) ==
    /\ Erasing(new.state) => Existing \subseteq suppressed
    /\ new.state = "erased" => ~ claimed /\ \A d \in Deployments : gallery[d] = "none"

WriteControl ==
    /\ \E new \in Controls :
         ControlGuard(control, new) /\ ControlCommit(new) /\ control' = new
    /\ UNCHANGED <<deployment, suppressed, claimed, gallery, outbox, lease, expired>>

DeploymentCommit(d, new) ==
    new.open /\ (Erasing(control.state) \/ suppressed # {}) => d \in suppressed

WriteDeployment ==
    /\ \E d \in Deployments, open \in BOOLEAN :
         /\ DeploymentCommit(d, [exists |-> TRUE, open |-> open])
         /\ deployment' = [deployment EXCEPT ![d] = [exists |-> TRUE, open |-> open]]
    /\ UNCHANGED <<control, suppressed, claimed, gallery, outbox, lease, expired>>

\* Whatever refers to the row forbids its DELETE (ON DELETE RESTRICT).
DeleteDeployment ==
    /\ \E d \in Existing \ suppressed :
         /\ gallery[d] = "none"
         /\ \A i \in Items : outbox[i] # NoRow => outbox[i].deployment # d
         /\ \A l \in Leases : lease[l] # NoRow => lease[l].deployment # d
         /\ deployment' = [deployment EXCEPT ![d] = [exists |-> FALSE, open |-> FALSE]]
    /\ UNCHANGED <<control, suppressed, claimed, gallery, outbox, lease, expired>>

Suppress ==
    /\ \E d \in Existing \ suppressed : suppressed' = suppressed \cup {d}
    /\ UNCHANGED <<control, deployment, claimed, gallery, outbox, lease, expired>>

\* The trigger locks the control row and lets the row be deleted.
Unsuppress ==
    /\ \E d \in suppressed : suppressed' = suppressed \ {d}
    /\ UNCHANGED <<control, deployment, claimed, gallery, outbox, lease, expired>>

\* A gallery entry refers to the signature row, begins finalized, is never
\* deleted, and is revoked once.
WriteGallery ==
    /\ \E d \in Existing :
         \/ gallery[d] = "none" /\ claimed /\ gallery' = [gallery EXCEPT ![d] = "finalized"]
         \/ gallery[d] = "finalized" /\ gallery' = [gallery EXCEPT ![d] = "finality_revoked"]
    /\ UNCHANGED <<control, deployment, suppressed, claimed, outbox, lease, expired>>

------------------------------------------------------------------------------
MayPublish(version, d) ==
    control.state = "enabled" /\ control.version = version /\ d \notin suppressed

OutboxTransition(from, to) ==
    \/ from = to
    \/ from = "pending" /\ to \in {"processing", "failed", "aborted"}
    \/ from = "processing" /\ to \in {"completed", "failed", "aborted"}
    \/ from = "failed" /\ to \in {"processing", "aborted"}

OutboxGuard(old, new) ==
    /\ IF old = NoRow THEN new.state = "pending"
       ELSE /\ new.deployment = old.deployment /\ new.version = old.version
            /\ OutboxTransition(old.state, new.state)
    /\ new.state # "aborted" => MayPublish(new.version, new.deployment) /\ Finalized(new.deployment)

WriteOutbox ==
    /\ \E i \in Items, new \in OutboxRows :
         /\ OutboxGuard(outbox[i], new)
         /\ new.deployment \in Existing
         /\ \A j \in Items \ {i} : outbox[j] # NoRow =>
              <<outbox[j].deployment, outbox[j].version>> # <<new.deployment, new.version>>
         /\ outbox' = [outbox EXCEPT ![i] = new]
    /\ UNCHANGED <<control, deployment, suppressed, claimed, gallery, lease, expired>>

\* No trigger sees the DELETE of an outbox row or of a lease.
DeleteOutbox ==
    /\ \E i \in Items : outbox[i] # NoRow /\ outbox' = [outbox EXCEPT ![i] = NoRow]
    /\ UNCHANGED <<control, deployment, suppressed, claimed, gallery, lease, expired>>

DeleteLease ==
    /\ \E l \in Leases :
         lease[l] # NoRow /\ lease' = [lease EXCEPT ![l] = NoRow] /\ expired' = expired \ {l}
    /\ UNCHANGED <<control, deployment, suppressed, claimed, gallery, outbox>>

LeaseTransition(from, to) ==
    \/ from = to
    \/ from = "staging" /\ to \in {"ready", "aborted", "expired"}
    \/ from = "ready" /\ to \in {"activated", "aborted", "expired"}

LeaseGuard(l, old, new) ==
    /\ IF old = NoRow THEN new.state = "staging"
       ELSE new = [old EXCEPT !.state = new.state] /\ LeaseTransition(old.state, new.state)
    /\ new.state \in {"staging", "ready", "activated"} =>
         /\ l \notin expired
         /\ MayPublish(new.version, new.deployment) /\ control.fence = new.fence
         /\ Finalized(new.deployment)

WriteLease ==
    /\ \E l \in Leases, new \in LeaseRows :
         /\ LeaseGuard(l, lease[l], new)
         /\ new.deployment \in Existing
         /\ \A k \in Leases \ {l} : lease[k] # NoRow =>
              <<lease[k].deployment, lease[k].fence>> # <<new.deployment, new.fence>>
         /\ lease' = [lease EXCEPT ![l] = new]
    /\ UNCHANGED <<control, deployment, suppressed, claimed, gallery, outbox, expired>>

LeaseExpires ==
    /\ \E l \in LiveLeases \ expired : expired' = expired \cup {l}
    /\ UNCHANGED <<control, deployment, suppressed, claimed, gallery, outbox, lease>>

------------------------------------------------------------------------------
Drained == LiveItems = {} /\ LiveLeases = {}

\* The gallery entry refers to the signature row (ON DELETE RESTRICT).
EraseSignature ==
    /\ claimed /\ control.state = "erasure_pending"
    /\ Drained /\ \A d \in Deployments : gallery[d] = "none"
    /\ claimed' = FALSE
    /\ UNCHANGED <<control, deployment, suppressed, gallery, outbox, lease, expired>>

WithdrawClaim ==
    /\ claimed /\ control.state = "enabled"
    /\ suppressed = {} /\ \A d \in Deployments : gallery[d] = "none"
    /\ \A i \in Items : outbox[i] = NoRow
    /\ \A l \in Leases : lease[l] = NoRow
    /\ control.version < MaxVersion /\ control.fence < MaxFence
    /\ claimed' = FALSE
    /\ control' = [control EXCEPT !.version = @ + 1, !.fence = @ + 1]
    /\ UNCHANGED <<deployment, suppressed, gallery, outbox, lease, expired>>

Claim ==
    /\ ~ claimed /\ claimed' = TRUE
    /\ UNCHANGED <<control, deployment, suppressed, gallery, outbox, lease, expired>>

Next ==
    \/ WriteControl \/ WriteDeployment \/ DeleteDeployment \/ Suppress \/ Unsuppress \/ WriteGallery
    \/ WriteOutbox \/ DeleteOutbox \/ WriteLease \/ DeleteLease \/ LeaseExpires
    \/ EraseSignature \/ WithdrawClaim \/ Claim

Spec == Init /\ [][Next]_vars

------------------------------------------------------------------------------
\* A signature that is gone has no publication work left, and gets none until it
\* is claimed and minted again.
NothingPublishesTheErased == ~ claimed => LiveItems = {} /\ LiveLeases = {}
==============================================================================
