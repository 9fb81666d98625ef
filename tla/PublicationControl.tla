-------------------------- MODULE PublicationControl --------------------------
(***************************************************************************)
(* The publication control graph of one signature (v2/publication/         *)
(* control.ts): leases that stage and activate a gallery entry, the fence  *)
(* of each deployment, suppression, and the erasure that must prove that   *)
(* no authorization can still become a mint.                               *)
(*                                                                         *)
(* Every function of the code takes the state and returns the next one, so *)
(* a call is one step.  The evidence of an erasure is collected before the *)
(* call that uses it: the snapshot is a variable.  Time is a flag of each  *)
(* lease.  The chain of a deployment is the life of one authorization.     *)
(***************************************************************************)
EXTENDS Integers, FiniteSets

CONSTANTS
    Deployments,
    Initial,        \* the deployments the state is created with
    Leases,
    MaxVersion,     \* bound of the model: versions of the control
    MaxRevoked      \* bound of the model: finalized mints that are reorganised away

ASSUME DeploymentAssumption == Initial \subseteq Deployments
ASSUME BoundAssumption == {MaxVersion, MaxRevoked} \subseteq Nat

VARIABLES
    deployments,
    control,        \* [state, version, serving], state "missing" before the backfill
    global,         \* whether the signature is suppressed globally
    suppressed,     \* deployments with a gallery suppression
    proj,           \* [Deployments -> observed state of the chain]
    fence,          \* [Deployments -> fencing token]
    lease,          \* [Leases -> lease]
    pointer,        \* [Deployments -> pointer]
    purges,         \* requested purges: <<deployment, reason>>
    case,           \* the erasure case: "none", "pending", "ready_for_controlled_delete", ...
    present,        \* whether the personal records are present
    snapshot,       \* evidence collected for the case, or NoSnapshot
    auth,           \* [Deployments -> the authorization on the chain]
    revoked         \* history: [Deployments -> <<revocations, fence after the last that was observed>>]
gallery == <<suppressed, fence, lease, pointer, purges>>
vars == <<deployments, control, global, proj, gallery, case, present, snapshot, auth, revoked>>

NoLease == [d |-> "none", version |-> 0, token |-> 0, state |-> "none", late |-> FALSE, cleanup |-> FALSE]
NoPointer == [version |-> 0, token |-> 0, active |-> FALSE]
NoSnapshot == [seen |-> "nothing"]
Greatest(S) == CHOOSE x \in S : \A y \in S : x >= y

Init ==
    /\ deployments = Initial
    /\ control = [state |-> "missing", version |-> 0, serving |-> FALSE]
    /\ global = FALSE /\ suppressed = {} /\ purges = {} /\ case = "none" /\ present = TRUE
    /\ proj = [d \in Deployments |-> "unminted"] /\ fence = [d \in Deployments |-> 0]
    /\ lease = [l \in Leases |-> NoLease] /\ pointer = [d \in Deployments |-> NoPointer]
    /\ snapshot = NoSnapshot /\ auth = [d \in Deployments |-> "none"]
    /\ revoked = [d \in Deployments |-> <<0, 0>>]

-----------------------------------------------------------------------------
\* The chain and the time of leases.

Issuable == control.state = "enabled"
Step(d, from, to) == auth[d] = from /\ auth' = [auth EXCEPT ![d] = to]
ChainStep(d) ==
    /\ \/ Step(d, "none", "issued") /\ Issuable
       \/ Step(d, "issued", "submitted")
       \/ Step(d, "submitted", "included")
       \/ Step(d, "included", "submitted")
       \/ Step(d, "included", "finalized")
       \/ Step(d, "finalized", "submitted") /\ revoked[d][1] < MaxRevoked
       \/ Step(d, "issued", "dead") \/ Step(d, "submitted", "dead")
    /\ revoked' = IF auth[d] = "finalized" THEN [revoked EXCEPT ![d][1] = @ + 1] ELSE revoked
    /\ UNCHANGED <<deployments, control, global, proj, gallery, case, present, snapshot>>
Live == {"staging", "ready"}
Elapse(l) ==
    /\ lease[l].state \in Live /\ ~lease[l].late
    /\ lease' = [lease EXCEPT ![l].late = TRUE]
    /\ UNCHANGED <<deployments, control, global, proj, suppressed, fence, pointer, purges, case, present,
                   snapshot, auth, revoked>>

-----------------------------------------------------------------------------
\* Deployments and controls.

Copied(d) == IF global THEN suppressed \union {d} ELSE suppressed
AddDeployment(d) ==
    /\ d \notin deployments /\ deployments' = deployments \union {d}
    /\ suppressed' = Copied(d)
    /\ UNCHANGED <<control, global, proj, fence, lease, pointer, purges, case, present, snapshot, auth, revoked>>
Backfill ==
    /\ control.state = "missing"
    /\ control' = [state |-> "enabled", version |-> 1, serving |-> TRUE]
    /\ UNCHANGED <<deployments, global, proj, gallery, case, present, snapshot, auth, revoked>>

-----------------------------------------------------------------------------
\* Parts of several calls.

Deactivated(D) == [d \in Deployments |-> IF d \in D THEN [pointer[d] EXCEPT !.active = FALSE] ELSE pointer[d]]
LiveLeases(d) == {l \in Leases : lease[l].d = d /\ lease[l].state \in Live}
Aborted(l) == [lease[l] EXCEPT !.state = IF lease[l].late THEN "expired" ELSE "aborted", !.cleanup = TRUE]
Abortable(d) == LiveLeases(d)
\* The leases of the deployments D end, and their completions are late.
FenceAndAbort(D) ==
    /\ fence' = [d \in Deployments |->
                    IF d \in D /\ Abortable(d) # {}
                    THEN Greatest({fence[d] + 1} \union {lease[l].token + 1 : l \in Abortable(d)}) ELSE fence[d]]
    /\ lease' = [l \in Leases |-> IF \E d \in D : l \in Abortable(d) THEN Aborted(l) ELSE lease[l]]
Purge(D, reason) == purges' = purges \union (D \X {reason})

-----------------------------------------------------------------------------
\* What the indexer saw of a deployment's chain.

States(a) ==
    CASE a \in {"none", "dead"} -> {"unminted"} [] a = "issued" -> {"authorized"} [] a = "submitted" -> {"submitted"}
      [] a = "included" -> {"included_unfinalized"} [] a = "finalized" -> {"finalized", "validation_pending", "quarantined"}
Seen(d) == States(auth[d]) \union (IF revoked[d][1] > 0 THEN {"finality_revoked"} ELSE {})
ObserveChainProjection(d) ==
    /\ d \in deployments
    /\ \E s \in Seen(d) \ {proj[d]} :
          /\ proj' = [proj EXCEPT ![d] = s]
          /\ IF s = "finality_revoked"
             THEN /\ pointer' = Deactivated({d}) /\ FenceAndAbort({d}) /\ Purge({d}, s)
                  /\ revoked' = [revoked EXCEPT ![d] = <<@[1], fence'[d]>>]
             ELSE UNCHANGED <<pointer, fence, lease, purges, revoked>>
    /\ UNCHANGED <<deployments, control, global, suppressed, case, present, snapshot, auth>>

-----------------------------------------------------------------------------
\* Publication.

BeginPublicationLease(l, d) ==
    /\ lease[l] = NoLease /\ d \in deployments
    /\ control.state = "enabled" /\ control.serving
    /\ d \notin suppressed /\ proj[d] = "finalized"
    /\ fence' = [fence EXCEPT ![d] = @ + 1]
    /\ lease' = [lease EXCEPT ![l] = [NoLease EXCEPT !.d = d, !.version = control.version,
                                                    !.token = fence[d] + 1, !.state = "staging"]]
    /\ UNCHANGED <<deployments, control, global, proj, suppressed, pointer, purges, case, present, snapshot,
                   auth, revoked>>
MarkPublicationReady(l) ==
    /\ lease[l].state = "staging"
    /\ lease' = [lease EXCEPT ![l] = IF @.late THEN Aborted(l) ELSE [@ EXCEPT !.state = "ready"]]
    /\ UNCHANGED <<deployments, control, global, proj, suppressed, fence, pointer, purges, case, present,
                   snapshot, auth, revoked>>
BadMayActivate(r) ==        \* slip: the fence is not compared
    /\ control.state = "enabled" /\ control.serving /\ control.version = r.version
    /\ r.d \notin suppressed /\ proj[r.d] = "finalized"
MayActivate(r) ==
    /\ control.state = "enabled" /\ control.serving /\ control.version = r.version
    /\ r.d \notin suppressed /\ proj[r.d] = "finalized" /\ fence[r.d] = r.token
ActivatePublicationLease(l) ==
    LET r == lease[l] IN
    /\ r.state = "ready"
    /\ IF ~r.late /\ MayActivate(r)
       THEN /\ lease' = [lease EXCEPT ![l].state = "activated", ![l].cleanup = FALSE]
            /\ pointer' = [pointer EXCEPT ![r.d] = [version |-> r.version, token |-> r.token, active |-> TRUE]]
       ELSE lease' = [lease EXCEPT ![l] = Aborted(l)] /\ UNCHANGED pointer
    /\ UNCHANGED <<deployments, control, global, proj, suppressed, fence, purges, case, present, snapshot, auth,
                   revoked>>
AcknowledgeStagedCleanup(l) ==
    /\ lease[l].state \in {"aborted", "expired"} /\ lease[l].cleanup
    /\ lease' = [lease EXCEPT ![l].cleanup = FALSE]
    /\ UNCHANGED <<deployments, control, global, proj, suppressed, fence, pointer, purges, case, present,
                   snapshot, auth, revoked>>

-----------------------------------------------------------------------------
\* Suppression and erasure.

Suppressible == control.state \notin {"missing", "erased"}
SuppressSignatureGlobally ==
    /\ Suppressible /\ control.version < MaxVersion
    /\ control' = [control EXCEPT !.version = @ + 1, !.serving = FALSE]
    /\ global' = TRUE /\ suppressed' = suppressed \union deployments
    /\ pointer' = Deactivated(deployments) /\ FenceAndAbort(deployments)
    /\ Purge(deployments, "gallery_suppression")
    /\ UNCHANGED <<deployments, proj, case, present, snapshot, auth, revoked>>
BeginErasure ==
    /\ case = "none" /\ control.state \notin {"missing", "erased"} /\ control.version < MaxVersion
    /\ control' = [state |-> "erasure_pending", version |-> control.version + 1, serving |-> FALSE]
    /\ global' = TRUE /\ suppressed' = suppressed \union deployments
    /\ pointer' = Deactivated(deployments) /\ Purge(deployments, "erasure_pending")
    /\ case' = "pending"
    /\ UNCHANGED <<deployments, proj, fence, lease, present, snapshot, auth, revoked>>
DrainPublicationLeases ==
    /\ control.state = "erasure_pending" \/ global
    /\ FenceAndAbort(deployments)
    /\ UNCHANGED <<deployments, control, global, proj, suppressed, pointer, purges, case, present, snapshot,
                   auth, revoked>>

\* What the caller collects: the authorizations of the store and their state on the chain,
\* which may be unavailable, and whether the writers of metadata and content have drained.
Collect ==
    /\ case = "pending"
    /\ \E available, quiet \in BOOLEAN : snapshot' = [seen |-> auth, available |-> available, quiet |-> quiet]
    /\ UNCHANGED <<deployments, control, global, proj, gallery, case, present, auth, revoked>>
Known(s) == {d \in Deployments : s.seen[d] # "none"}
PermanentMint(s) ==
    \/ \E d \in Deployments : proj[d] \in {"finalized", "finality_revoked"}
    \/ \E d \in Known(s) : s.seen[d] = "finalized"
Drained == \A l \in Leases : lease[l].state \notin Live /\ ~lease[l].cleanup
Terminal(a) == a = "dead"
BadUnproved(s) == ~s.quiet      \* slip: what the store says of authorizations is not a blocker
Unproved(s) ==
    \/ ~s.quiet \/ ~s.available
    \/ \E d \in Known(s) : ~Terminal(s.seen[d])
Blocked(s) ==
    \/ ~(deployments \subseteq suppressed) \/ ~Drained \/ Unproved(s)
    \/ \E d \in Deployments : proj[d] \in {"submitted", "included_unfinalized", "validation_pending", "quarantined"}
TransitionMintedSuppressed ==
    /\ control' = [state |-> "blocked", serving |-> FALSE,
                   version |-> control.version + (IF control.state = "blocked" THEN 0 ELSE 1)]
    /\ case' = "minted_suppressed"
    /\ suppressed' = suppressed \union deployments
    /\ pointer' = Deactivated(deployments) /\ Purge(deployments, "minted_suppression")
ReconcileErasure ==
    /\ case = "pending" /\ snapshot # NoSnapshot
    /\ IF PermanentMint(snapshot) THEN TransitionMintedSuppressed
       ELSE /\ case' = IF Blocked(snapshot) THEN "pending" ELSE "ready_for_controlled_delete"
            /\ UNCHANGED <<control, suppressed, pointer, purges>>
    /\ snapshot' = NoSnapshot
    /\ UNCHANGED <<deployments, global, proj, fence, lease, present, auth, revoked>>
CompleteControlledErasure ==
    /\ case = "ready_for_controlled_delete" /\ Drained /\ control.state = "erasure_pending"
    /\ present' = FALSE
    /\ control' = [state |-> "erased", version |-> control.version + 1, serving |-> FALSE]
    /\ case' = "erased"
    /\ UNCHANGED <<deployments, global, proj, gallery, snapshot, auth, revoked>>

Visible(d) ==
    /\ control.state = "enabled" /\ control.serving /\ d \notin suppressed /\ proj[d] = "finalized"
    /\ pointer[d].active /\ pointer[d].version = control.version /\ pointer[d].token = fence[d]

-----------------------------------------------------------------------------
Publish(l) ==
    \/ \E d \in Deployments : BeginPublicationLease(l, d)
    \/ Elapse(l) \/ MarkPublicationReady(l) \/ ActivatePublicationLease(l) \/ AcknowledgeStagedCleanup(l)
Next ==
    \/ \E d \in Deployments : ChainStep(d) \/ AddDeployment(d) \/ ObserveChainProjection(d)
    \/ Backfill \/ SuppressSignatureGlobally \/ BeginErasure \/ DrainPublicationLeases
    \/ Collect \/ ReconcileErasure \/ CompleteControlledErasure
    \/ \E l \in Leases : Publish(l)
Spec == Init /\ [][Next]_vars

-----------------------------------------------------------------------------
(* A globally suppressed signature is suppressed in every deployment, also  *)
(* in those added later (addDeployment, upsertSuppression).                 *)
SuppressionHasNoGap == global => deployments \subseteq suppressed

(* Behind a global gate no pointer is active, whatever leases still finish. *)
GateHidesAll == global => \A d \in deployments : ~pointer[d].active

(* After finality was revoked only a lease begun later makes the entry      *)
(* visible, though the chain may be observed as finalized again.            *)
RevokedNeedsNewLease == \A d \in Deployments : Visible(d) => pointer[d].token > revoked[d][2]

(* What is erased is not minted and never will be, in any deployment.       *)
ErasedHasNoMint ==
    control.state = "erased" => \A d \in Deployments : auth[d] \in {"none", "dead"}

(* An erased signature leaves no lease at work and nothing staged behind.   *)
ErasedIsClean ==
    control.state = "erased" =>
        ~present /\ \A l \in Leases : lease[l].state \notin Live /\ ~lease[l].cleanup

(* What is not published: nothing behind a gate, nothing of a finality that *)
(* was revoked, and nothing of an erased signature (control.ts).            *)
PublicationHolds ==
    /\ SuppressionHasNoGap /\ GateHidesAll /\ RevokedNeedsNewLease
    /\ ErasedHasNoMint /\ ErasedIsClean

(* A lease never replaces what a newer lease published, and the tombstone   *)
(* of an erased signature is final.                                         *)
NothingGoesBack ==
    [][ /\ \A d \in Deployments : pointer'[d].token >= pointer[d].token
        /\ control.state = "erased" => UNCHANGED <<control, case, present>> ]_vars
=============================================================================
