------------------------ MODULE PublicationControl_proofs ------------------------
(***************************************************************************)
(* Proofs about the publication control, for any deployments, leases and   *)
(* versions, and any number of revocations (PublicationControl), and about *)
(* the stored content, for any signatures, objects, references, writers    *)
(* and collectors (ContentCoordinator, the instance Content of             *)
(* MCPublication).                                                         *)
(***************************************************************************)
EXTENDS MCPublication, TLAPS

Stages == {"none", "staging", "ready", "activated", "aborted", "expired"}
Lives == {"none", "issued", "submitted", "included", "finalized", "dead"}
Views == {"unminted", "authorized", "submitted", "included_unfinalized", "finalized", "validation_pending",
          "quarantined", "finality_revoked"}
LeaseRecords == [d : Deployments \cup {"none"}, version : Nat, token : Nat, state : Stages,
                 late : BOOLEAN, cleanup : BOOLEAN]
Pointers == [version : Nat, token : Nat, active : BOOLEAN]
Snapshots == [seen : [Deployments -> Lives], available : BOOLEAN, quiet : BOOLEAN]

Controls == [state : {"missing", "enabled", "erasure_pending", "blocked", "erased"},
             version : Nat, serving : BOOLEAN]

PublicationTypeOK ==
    /\ deployments \in SUBSET Deployments /\ suppressed \in SUBSET Deployments
    /\ control \in Controls
    /\ global \in BOOLEAN /\ present \in BOOLEAN
    /\ proj \in [Deployments -> Views] /\ auth \in [Deployments -> Lives]
    /\ fence \in [Deployments -> Nat] /\ revoked \in [Deployments -> Nat \X Nat]
    /\ lease \in [Leases -> LeaseRecords] /\ pointer \in [Deployments -> Pointers]
    /\ case \in {"none", "pending", "ready_for_controlled_delete", "minted_suppressed", "erased"}
    /\ snapshot \in Snapshots \cup {NoSnapshot}

\* A lease that was begun has a deployment and a token that was given out; one at work
\* was begun after the last revocation.
LeaseOK(l) ==
    /\ lease[l].state # "none" => lease[l].d \in deployments
    /\ lease[l].d \in Deployments => lease[l].token <= fence[lease[l].d]
    /\ lease[l].state \in Live => lease[l].token > revoked[lease[l].d][2]
    /\ lease[l].cleanup => lease[l].state # "none"
\* A pointer has a token that was given out; an active one is of a known deployment and
\* younger than the last revocation.
PointerOK(d) ==
    /\ pointer[d].token <= fence[d] /\ revoked[d][2] <= fence[d]
    /\ pointer[d].active => d \in deployments /\ pointer[d].token > revoked[d][2]

\* Once erasure began nothing is issued, and what was seen as never issued or dead stays so.
Void(a) == a \in {"none", "dead"}
ErasureOK ==
    /\ case # "none" => control.state \notin {"missing", "enabled"}
    /\ snapshot # NoSnapshot => case # "none" /\ \A d \in Deployments : Void(snapshot.seen[d]) => Void(auth[d])
    /\ case = "ready_for_controlled_delete" => \A d \in Deployments : Void(auth[d])
    /\ control.state = "erased" => case = "erased"

PublicationInv ==
    /\ PublicationTypeOK
    /\ \A l \in Leases : LeaseOK(l)
    /\ \A d \in Deployments : PointerOK(d)
    /\ ErasureOK /\ SuppressionHasNoGap /\ GateHidesAll /\ ErasedHasNoMint /\ ErasedIsClean
-----------------------------------------------------------------------------
(* What calls have in common. *)

LEMMA GreatestIs ==
    ASSUME NEW S, NEW n \in Nat, n \in S, \A x \in S : x \in Nat /\ x <= n
    PROVE  Greatest(S) = n
<1>1. \A y \in S : n >= y
  OBVIOUS
<1>2. Greatest(S) \in S /\ \A y \in S : Greatest(S) >= y
  BY <1>1 DEF Greatest
<1>3. Greatest(S) >= n /\ Greatest(S) \in Nat /\ Greatest(S) <= n
  BY <1>2
<1> QED BY <1>3

LEMMA Aborting ==
    ASSUME PublicationTypeOK, NEW l \in Leases
    PROVE  /\ Aborted(l) \in LeaseRecords /\ Aborted(l).d = lease[l].d /\ Aborted(l).token = lease[l].token
           /\ Aborted(l).state \in {"aborted", "expired"}
<1>1. lease[l] \in LeaseRecords
  BY DEF PublicationTypeOK
<1>2. \A r \in LeaseRecords, s \in Stages :
         LET q == [r EXCEPT !.state = s, !.cleanup = TRUE] IN
         q \in LeaseRecords /\ q.d = r.d /\ q.token = r.token /\ q.state = s
  BY DEF LeaseRecords
<1>3. (IF lease[l].late THEN "expired" ELSE "aborted") \in Stages
  BY DEF Stages
<1>4. (IF lease[l].late THEN "expired" ELSE "aborted") \in {"aborted", "expired"}
  OBVIOUS
<1> QED BY <1>1, <1>2, <1>3, <1>4 DEF Aborted

\* The leases that end; their tokens are no longer the fence.
LEMMA Fencing ==
    ASSUME PublicationTypeOK, \A l \in Leases : LeaseOK(l), NEW D \in SUBSET Deployments, FenceAndAbort(D)
    PROVE  /\ fence' \in [Deployments -> Nat] /\ lease' \in [Leases -> LeaseRecords]
           /\ \A d \in Deployments : fence'[d] >= fence[d]
           /\ \A l \in Leases :
                 \/ lease'[l] = lease[l]
                 \/ /\ lease'[l].d = lease[l].d /\ lease'[l].token = lease[l].token
                    /\ lease[l].state \in Live /\ lease'[l].state \in {"aborted", "expired"}
           /\ \A l \in Leases : lease[l].d \in D => lease'[l].state \notin Live
<1>1. ASSUME NEW d \in Deployments, Abortable(d) # {}
      PROVE  Greatest({fence[d] + 1} \union {lease[l].token + 1 : l \in Abortable(d)}) = fence[d] + 1
  <2>1. fence[d] \in Nat
    BY DEF PublicationTypeOK
  <2>2. \A l \in Abortable(d) : lease[l].token \in Nat /\ lease[l].token <= fence[d]
    BY DEF Abortable, LiveLeases, LeaseOK, PublicationTypeOK, LeaseRecords
  <2> DEFINE S == {fence[d] + 1} \union {lease[l].token + 1 : l \in Abortable(d)}
  <2>3. fence[d] + 1 \in Nat /\ fence[d] + 1 \in S
    BY <2>1
  <2>4. \A x \in S : x \in Nat /\ x <= fence[d] + 1
    BY <2>1, <2>2
  <2> HIDE DEF S
  <2>5. Greatest(S) = fence[d] + 1
    BY <2>3, <2>4, GreatestIs
  <2> QED BY <2>5 DEF S
<1>2. ASSUME NEW d \in Deployments
      PROVE  fence'[d] \in Nat /\ fence'[d] >= fence[d]
  <2>1. fence[d] \in Nat
    BY DEF PublicationTypeOK
  <2>2. fence'[d] = fence[d] \/ fence'[d] = fence[d] + 1
    BY <1>1 DEF FenceAndAbort
  <2> QED BY <2>1, <2>2
<1>3. fence' \in [Deployments -> Nat] /\ \A d \in Deployments : fence'[d] >= fence[d]
  BY <1>2 DEF FenceAndAbort
<1>4. \A l \in Leases :
         /\ Aborted(l) \in LeaseRecords /\ Aborted(l).d = lease[l].d /\ Aborted(l).token = lease[l].token
         /\ Aborted(l).state \in {"aborted", "expired"}
  BY Aborting
<1>5. lease' \in [Leases -> LeaseRecords]
  BY <1>4 DEF FenceAndAbort, PublicationTypeOK
<1>6. ASSUME NEW l \in Leases
      PROVE  /\ \/ lease'[l] = lease[l]
                \/ /\ lease'[l].d = lease[l].d /\ lease'[l].token = lease[l].token
                   /\ lease[l].state \in Live /\ lease'[l].state \in {"aborted", "expired"}
             /\ lease[l].d \in D => lease'[l].state \notin Live
  <2>1. CASE \E d \in D : l \in Abortable(d)
    <3>1. lease'[l] = Aborted(l) /\ lease[l].state \in Live
      BY <2>1 DEF FenceAndAbort, Abortable, LiveLeases
    <3> QED BY <3>1, <1>4 DEF Live
  <2>2. CASE ~\E d \in D : l \in Abortable(d)
    <3>1. lease'[l] = lease[l]
      BY <2>2 DEF FenceAndAbort
    <3>2. lease[l].d \in D => lease[l].state \notin Live
      BY <2>2 DEF Abortable, LiveLeases
    <3> QED BY <3>1, <3>2
  <2> QED BY <2>1, <2>2
<1> QED BY <1>3, <1>5, <1>6

LEMMA Deactivating ==
    ASSUME PublicationTypeOK, NEW D, pointer' = Deactivated(D)
    PROVE  /\ pointer' \in [Deployments -> Pointers]
           /\ \A d \in Deployments : /\ pointer'[d].token = pointer[d].token
                                     /\ pointer'[d].active => pointer[d].active /\ d \notin D
BY DEF PublicationTypeOK, Deactivated, Pointers

LEMMA Revoking ==
    ASSUME PublicationTypeOK, NEW d \in Deployments, revoked' = [revoked EXCEPT ![d][1] = @ + 1]
    PROVE  revoked' \in [Deployments -> Nat \X Nat] /\ \A e \in Deployments : revoked'[e][2] = revoked[e][2]
<1>1. revoked \in [Deployments -> Nat \X Nat]
  BY DEF PublicationTypeOK
<1>2. \A t \in Nat \X Nat : [t EXCEPT ![1] = t[1] + 1] \in Nat \X Nat /\ [t EXCEPT ![1] = t[1] + 1][2] = t[2]
  OBVIOUS
<1>3. \A e \in Deployments :
         revoked'[e] = IF e = d THEN [revoked[d] EXCEPT ![1] = revoked[d][1] + 1] ELSE revoked[e]
  BY <1>1
<1>4. ASSUME NEW e \in Deployments PROVE revoked'[e] \in Nat \X Nat /\ revoked'[e][2] = revoked[e][2]
  <2>1. revoked[e] \in Nat \X Nat /\ revoked[d] \in Nat \X Nat
    BY <1>1
  <2>2. CASE e = d
    BY <2>1, <2>2, <1>2, <1>3
  <2>3. CASE e # d
    BY <2>1, <2>3, <1>3
  <2> QED BY <2>2, <2>3
<1>5. revoked' = [e \in Deployments |-> revoked'[e]]
  BY <1>1
<1> QED BY <1>4, <1>5

-----------------------------------------------------------------------------
(* Types. *)

LEMMA PublicationInit == Init => PublicationInv
<1> SUFFICES ASSUME Init PROVE PublicationInv
  OBVIOUS
<1> USE DEF Init
<1>1. PublicationTypeOK
  <2>1. NoLease \in LeaseRecords /\ NoPointer \in Pointers
    BY DEF NoLease, NoPointer, LeaseRecords, Stages, Pointers
  <2> QED BY <2>1, DeploymentAssumption DEF PublicationTypeOK, Controls, Views, Lives
<1>2. \A l \in Leases : LeaseOK(l)
  BY DEF LeaseOK, NoLease, Live
<1>3. \A d \in Deployments : PointerOK(d)
  BY DEF PointerOK, NoPointer
<1>4. ErasureOK
  BY DEF ErasureOK
<1> QED BY <1>1, <1>2, <1>3, <1>4
        DEF PublicationInv, SuppressionHasNoGap, GateHidesAll, ErasedHasNoMint, ErasedIsClean

LEMMA PublicationTypes ==
    ASSUME PublicationTypeOK, \A l \in Leases : LeaseOK(l), ErasureOK, [Next]_vars
    PROVE  PublicationTypeOK'
<1>1. ASSUME NEW d \in Deployments, ChainStep(d) PROVE PublicationTypeOK'
  <2>1. auth' \in [Deployments -> Lives]
    BY <1>1 DEF ChainStep, Step, PublicationTypeOK, Lives
  <2>2. revoked' \in [Deployments -> Nat \X Nat]
    BY <1>1, Revoking DEF ChainStep, PublicationTypeOK
  <2> QED BY <1>1, <2>1, <2>2 DEF ChainStep, PublicationTypeOK, gallery
<1>2. ASSUME NEW d \in Deployments, AddDeployment(d) PROVE PublicationTypeOK'
  BY <1>2 DEF AddDeployment, Copied, PublicationTypeOK
<1>3. ASSUME NEW d \in Deployments, ObserveChainProjection(d) PROVE PublicationTypeOK'
  <2>1. PICK s \in Seen(d) \ {proj[d]} :
           /\ proj' = [proj EXCEPT ![d] = s]
           /\ IF s = "finality_revoked"
              THEN /\ pointer' = Deactivated({d}) /\ FenceAndAbort({d}) /\ Purge({d}, s)
                   /\ revoked' = [revoked EXCEPT ![d] = <<@[1], fence'[d]>>]
              ELSE UNCHANGED <<pointer, fence, lease, purges, revoked>>
    BY <1>3 DEF ObserveChainProjection
  <2>2. s \in Views
    <3>1. auth[d] \in Lives
      BY DEF PublicationTypeOK
    <3>2. \A a \in Lives : States(a) \in SUBSET Views
      BY DEF States, Lives, Views
    <3> QED BY <3>1, <3>2 DEF Seen, Views
  <2>3. proj' \in [Deployments -> Views]
    BY <2>1, <2>2 DEF PublicationTypeOK
  <2>4. CASE s = "finality_revoked"
    <3>1. /\ pointer' \in [Deployments -> Pointers] /\ lease' \in [Leases -> LeaseRecords]
          /\ fence' \in [Deployments -> Nat]
      BY <2>1, <2>4, Deactivating, Fencing
    <3>2. revoked[d] \in Nat \X Nat
      BY DEF PublicationTypeOK
    <3>3. <<revoked[d][1], fence'[d]>> \in Nat \X Nat
      BY <3>1, <3>2
    <3>4. revoked' = [revoked EXCEPT ![d] = <<revoked[d][1], fence'[d]>>]
      BY <2>1, <2>4
    <3>5. revoked' \in [Deployments -> Nat \X Nat]
      BY <3>3, <3>4 DEF PublicationTypeOK
    <3> QED BY <1>3, <2>3, <3>1, <3>5 DEF ObserveChainProjection, PublicationTypeOK
  <2>5. CASE s # "finality_revoked"
    BY <1>3, <2>1, <2>3, <2>5 DEF ObserveChainProjection, PublicationTypeOK
  <2> QED BY <2>4, <2>5
<1>4. CASE Backfill \/ Collect
  <2>1. CASE Backfill
    BY <2>1 DEF Backfill, PublicationTypeOK, Controls, gallery
  <2>2. CASE Collect
    <3>1. PICK available \in BOOLEAN, quiet \in BOOLEAN :
             snapshot' = [seen |-> auth, available |-> available, quiet |-> quiet]
      BY <2>2 DEF Collect
    <3>2. snapshot' \in Snapshots
      BY <3>1 DEF Snapshots, PublicationTypeOK
    <3> QED BY <2>2, <3>2 DEF Collect, PublicationTypeOK, gallery
  <2> QED BY <1>4, <2>1, <2>2
<1>5. CASE SuppressSignatureGlobally
  <2>1. /\ fence' \in [Deployments -> Nat] /\ lease' \in [Leases -> LeaseRecords]
        /\ pointer' \in [Deployments -> Pointers]
    <3>1. deployments \in SUBSET Deployments
      BY DEF PublicationTypeOK
    <3> QED BY <1>5, <3>1, Deactivating, Fencing DEF SuppressSignatureGlobally
  <2>2. control' \in Controls
    <3>1. \A c \in Controls, n \in Nat : [c EXCEPT !.version = n, !.serving = FALSE] \in Controls
      BY DEF Controls
    <3>4. control.version + 1 \in Nat
      BY DEF PublicationTypeOK, Controls
    <3>2. control' = [control EXCEPT !.version = control.version + 1, !.serving = FALSE]
      BY <1>5 DEF SuppressSignatureGlobally
    <3>3. control \in Controls
      BY DEF PublicationTypeOK
    <3> QED BY <3>1, <3>2, <3>3, <3>4
  <2> QED BY <1>5, <2>1, <2>2 DEF SuppressSignatureGlobally, PublicationTypeOK
<1>6. CASE BeginErasure
  <2>1. pointer' \in [Deployments -> Pointers]
    BY <1>6, Deactivating DEF BeginErasure
  <2>2. control' \in Controls
    BY <1>6 DEF BeginErasure, PublicationTypeOK, Controls
  <2> QED BY <1>6, <2>1, <2>2 DEF BeginErasure, PublicationTypeOK
<1>7. CASE DrainPublicationLeases
  <2>1. deployments \in SUBSET Deployments
    BY DEF PublicationTypeOK
  <2>2. fence' \in [Deployments -> Nat] /\ lease' \in [Leases -> LeaseRecords]
    BY <1>7, <2>1, Fencing DEF DrainPublicationLeases
  <2> QED BY <1>7, <2>2 DEF DrainPublicationLeases, PublicationTypeOK
<1>8. CASE ReconcileErasure
  <2>1. CASE TransitionMintedSuppressed
    <3>1. pointer' \in [Deployments -> Pointers]
      BY <2>1, Deactivating DEF TransitionMintedSuppressed
    <3>2. control' \in Controls
      BY <2>1 DEF TransitionMintedSuppressed, PublicationTypeOK, Controls
    <3> QED BY <1>8, <2>1, <3>1, <3>2 DEF ReconcileErasure, TransitionMintedSuppressed, PublicationTypeOK
  <2>2. CASE UNCHANGED <<control, suppressed, pointer, purges>> /\ case' \in {"pending", "ready_for_controlled_delete"}
    BY <1>8, <2>2 DEF ReconcileErasure, PublicationTypeOK
  <2> QED BY <1>8, <2>1, <2>2 DEF ReconcileErasure
<1>9. CASE CompleteControlledErasure
  <2>1. control' \in Controls
    BY <1>9 DEF CompleteControlledErasure, PublicationTypeOK, Controls
  <2> QED BY <1>9, <2>1 DEF CompleteControlledErasure, PublicationTypeOK, gallery
<1>10. ASSUME NEW l \in Leases, NEW d \in Deployments, BeginPublicationLease(l, d) PROVE PublicationTypeOK'
  <2>1. fence' \in [Deployments -> Nat] /\ fence[d] + 1 \in Nat
    BY <1>10 DEF BeginPublicationLease, PublicationTypeOK
  <2>2. [NoLease EXCEPT !.d = d, !.version = control.version, !.token = fence[d] + 1, !.state = "staging"] \in LeaseRecords
    <3>1. control.version \in Nat
      BY DEF PublicationTypeOK, Controls
    <3> QED BY <2>1, <3>1 DEF NoLease, LeaseRecords, Stages
  <2>3. lease' \in [Leases -> LeaseRecords]
    BY <1>10, <2>2 DEF BeginPublicationLease, PublicationTypeOK
  <2> QED BY <1>10, <2>1, <2>3 DEF BeginPublicationLease, PublicationTypeOK
<1>11. ASSUME NEW l \in Leases, Elapse(l) \/ MarkPublicationReady(l) \/ AcknowledgeStagedCleanup(l) PROVE PublicationTypeOK'
  <2>1. lease \in [Leases -> LeaseRecords]
    BY DEF PublicationTypeOK
  <2>2. \A r \in LeaseRecords : /\ [r EXCEPT !.late = TRUE] \in LeaseRecords
                                /\ [r EXCEPT !.state = "ready"] \in LeaseRecords
                                /\ [r EXCEPT !.cleanup = FALSE] \in LeaseRecords
    BY DEF LeaseRecords, Stages
  <2>3. lease' \in [Leases -> LeaseRecords]
    <3>1. lease[l] \in LeaseRecords /\ Aborted(l) \in LeaseRecords
      BY <2>1, Aborting
    <3>2. CASE Elapse(l)
      BY <2>1, <2>2, <3>1, <3>2 DEF Elapse
    <3>3. CASE MarkPublicationReady(l)
      BY <2>1, <2>2, <3>1, <3>3 DEF MarkPublicationReady
    <3>4. CASE AcknowledgeStagedCleanup(l)
      BY <2>1, <2>2, <3>1, <3>4 DEF AcknowledgeStagedCleanup
    <3> QED BY <1>11, <3>2, <3>3, <3>4
  <2> QED BY <1>11, <2>3 DEF Elapse, MarkPublicationReady, AcknowledgeStagedCleanup, PublicationTypeOK
<1>12. ASSUME NEW l \in Leases, ActivatePublicationLease(l) PROVE PublicationTypeOK'
  <2> DEFINE r == lease[l]
  <2>1. r \in LeaseRecords /\ lease \in [Leases -> LeaseRecords] /\ pointer \in [Deployments -> Pointers]
    BY DEF PublicationTypeOK
  <2>2. r.d \in Deployments
    <3>1. r.state = "ready"
      BY <1>12 DEF ActivatePublicationLease
    <3>2. LeaseOK(l) /\ deployments \subseteq Deployments
      BY DEF PublicationTypeOK
    <3> QED BY <3>1, <3>2 DEF LeaseOK
  <2>3. [version |-> r.version, token |-> r.token, active |-> TRUE] \in Pointers
    BY <2>1 DEF LeaseRecords, Pointers
  <2>4. pointer' \in [Deployments -> Pointers]
    BY <1>12, <2>1, <2>2, <2>3 DEF ActivatePublicationLease
  <2>5. \A x \in LeaseRecords : [x EXCEPT !.state = "activated"] \in LeaseRecords /\ [x EXCEPT !.cleanup = FALSE] \in LeaseRecords
    BY DEF LeaseRecords, Stages
  <2>6. lease' \in [Leases -> LeaseRecords]
    <3>1. CASE lease' = [lease EXCEPT ![l].state = "activated", ![l].cleanup = FALSE]
      BY <2>1, <2>5, <3>1
    <3>2. CASE lease' = [lease EXCEPT ![l] = Aborted(l)]
      BY <2>1, <3>2, Aborting
    <3> QED BY <1>12, <3>1, <3>2 DEF ActivatePublicationLease
  <2> QED BY <1>12, <2>4, <2>6 DEF ActivatePublicationLease, PublicationTypeOK
<1>13. CASE UNCHANGED vars
  BY <1>13 DEF vars, gallery, PublicationTypeOK
<1> QED BY <1>1, <1>2, <1>3, <1>4, <1>5, <1>6, <1>7, <1>8, <1>9, <1>10, <1>11, <1>12, <1>13 DEF Next, Publish

-----------------------------------------------------------------------------
(* The leases and the pointers. *)

\* What an action on a lease does to it.
LEMMA LeaseActions ==
    ASSUME PublicationTypeOK, NEW l \in Leases, Elapse(l) \/ MarkPublicationReady(l)
                                                \/ ActivatePublicationLease(l) \/ AcknowledgeStagedCleanup(l)
    PROVE  /\ UNCHANGED <<deployments, control, global, fence, revoked, suppressed, case, snapshot, auth, present>>
           /\ lease[l].state # "none"
           /\ \A m \in Leases \ {l} : lease'[m] = lease[m]
           /\ lease'[l].d = lease[l].d /\ lease'[l].token = lease[l].token /\ lease'[l].state # "none"
           /\ lease'[l].state \in Live => lease[l].state \in Live
<1>1. lease \in [Leases -> LeaseRecords] /\ lease[l] \in LeaseRecords
  BY DEF PublicationTypeOK
<1>2. /\ Aborted(l).d = lease[l].d /\ Aborted(l).token = lease[l].token
      /\ Aborted(l).state \notin Live /\ Aborted(l).state # "none"
  BY Aborting DEF Live
<1>3. \A r \in LeaseRecords :
         /\ [r EXCEPT !.late = TRUE].d = r.d /\ [r EXCEPT !.late = TRUE].token = r.token
         /\ [r EXCEPT !.late = TRUE].state = r.state
         /\ [r EXCEPT !.state = "ready"].d = r.d /\ [r EXCEPT !.state = "ready"].token = r.token
         /\ [r EXCEPT !.state = "ready"].state = "ready"
         /\ [r EXCEPT !.cleanup = FALSE].d = r.d /\ [r EXCEPT !.cleanup = FALSE].token = r.token
         /\ [r EXCEPT !.cleanup = FALSE].state = r.state
         /\ [r EXCEPT !.state = "activated", !.cleanup = FALSE].d = r.d
         /\ [r EXCEPT !.state = "activated", !.cleanup = FALSE].token = r.token
         /\ [r EXCEPT !.state = "activated", !.cleanup = FALSE].state = "activated"
  BY DEF LeaseRecords
<1>4. CASE Elapse(l)
  <2>1. lease' = [lease EXCEPT ![l] = [lease[l] EXCEPT !.late = TRUE]]
    BY <1>4 DEF Elapse
  <2> QED BY <1>1, <1>3, <1>4, <2>1 DEF Elapse, Live
<1>5. CASE MarkPublicationReady(l)
  <2>1. lease'[l] = Aborted(l) \/ lease'[l] = [lease[l] EXCEPT !.state = "ready"]
    BY <1>1, <1>5 DEF MarkPublicationReady
  <2>2. \A m \in Leases \ {l} : lease'[m] = lease[m]
    BY <1>1, <1>5 DEF MarkPublicationReady
  <2> QED BY <1>1, <1>2, <1>3, <1>5, <2>1, <2>2 DEF MarkPublicationReady, Live
<1>6. CASE ActivatePublicationLease(l)
  <2>1. \/ lease' = [lease EXCEPT ![l] = Aborted(l)]
        \/ lease' = [lease EXCEPT ![l].state = "activated", ![l].cleanup = FALSE]
    BY <1>6 DEF ActivatePublicationLease
  <2>2. lease'[l] = Aborted(l) \/ lease'[l] = [lease[l] EXCEPT !.state = "activated", !.cleanup = FALSE]
    BY <1>1, <2>1
  <2>3. \A m \in Leases \ {l} : lease'[m] = lease[m]
    BY <1>1, <2>1
  <2>4. lease[l].state = "ready" /\ UNCHANGED <<deployments, control, global, fence, revoked, suppressed, case,
                                                snapshot, auth, present>>
    BY <1>6 DEF ActivatePublicationLease
  <2> QED BY <1>1, <1>2, <1>3, <2>2, <2>3, <2>4 DEF Live
<1>7. CASE AcknowledgeStagedCleanup(l)
  <2>1. lease' = [lease EXCEPT ![l] = [lease[l] EXCEPT !.cleanup = FALSE]]
    BY <1>7 DEF AcknowledgeStagedCleanup
  <2> QED BY <1>1, <1>3, <1>7, <2>1 DEF AcknowledgeStagedCleanup, Live
<1> QED BY <1>4, <1>5, <1>6, <1>7

\* A lease that the call does not touch, whose deployment's fence does not go back.
LEMMA LeaseStays ==
    ASSUME PublicationTypeOK, PublicationTypeOK', NEW l \in Leases, LeaseOK(l),
           deployments \subseteq deployments',
           \A d \in Deployments : fence'[d] >= fence[d],
           lease'[l].d = lease[l].d, lease'[l].token = lease[l].token,
           lease'[l].state = "none" => lease[l].state = "none",
           lease[l].state = "none" => lease'[l] = lease[l],
           lease'[l].state \in Live =>
               lease[l].state \in Live /\ (lease[l].d \in deployments =>
                                           revoked'[lease[l].d][2] = revoked[lease[l].d][2])
    PROVE  LeaseOK(l)'
<1>1. lease[l] \in LeaseRecords /\ lease'[l] \in LeaseRecords
  BY DEF PublicationTypeOK
<1>2. lease[l].d \in Deployments => fence[lease[l].d] \in Nat /\ fence'[lease[l].d] \in Nat
  BY DEF PublicationTypeOK
<1>3. lease[l].token \in Nat
  BY <1>1 DEF LeaseRecords
<1>4. lease'[l].d \in Deployments => lease'[l].token <= fence'[lease'[l].d]
  BY <1>2, <1>3 DEF LeaseOK
<1>5. lease'[l].state # "none" => lease'[l].d \in deployments'
  BY DEF LeaseOK
<1>6. lease'[l].state \in Live => lease'[l].token > revoked'[lease'[l].d][2]
  BY DEF LeaseOK, Live
<1>7. lease'[l].cleanup => lease'[l].state # "none"
  BY DEF LeaseOK
<1> QED BY <1>4, <1>5, <1>6, <1>7 DEF LeaseOK

LEMMA LeasesKept ==
    ASSUME PublicationTypeOK, PublicationTypeOK', ErasureOK, [Next]_vars,
           \A l \in Leases : LeaseOK(l), \A d \in Deployments : PointerOK(d)
    PROVE  \A l \in Leases : LeaseOK(l)'
<1> SUFFICES ASSUME NEW l \in Leases PROVE LeaseOK(l)'
  OBVIOUS
<1>0. LeaseOK(l) /\ lease \in [Leases -> LeaseRecords] /\ fence \in [Deployments -> Nat]
      /\ \A d \in Deployments : fence[d] >= fence[d]
  BY DEF PublicationTypeOK
<1>1. ASSUME NEW d \in Deployments, ChainStep(d) PROVE LeaseOK(l)'
  <2>1. \A e \in Deployments : revoked'[e][2] = revoked[e][2]
    BY <1>1, Revoking DEF ChainStep
  <2>2. UNCHANGED <<deployments, lease, fence>>
    BY <1>1 DEF ChainStep, gallery
  <2>3. deployments \subseteq Deployments
    BY DEF PublicationTypeOK
  <2> QED BY <1>0, <2>1, <2>2, <2>3, LeaseStays
<1>2. ASSUME NEW d \in Deployments, AddDeployment(d) PROVE LeaseOK(l)'
  BY <1>0, <1>2, LeaseStays DEF AddDeployment
<1>3. ASSUME NEW d \in Deployments, ObserveChainProjection(d) PROVE LeaseOK(l)'
  <2>1. PICK s \in Seen(d) \ {proj[d]} :
           IF s = "finality_revoked"
           THEN /\ FenceAndAbort({d})
                /\ revoked' = [revoked EXCEPT ![d] = <<@[1], fence'[d]>>]
           ELSE UNCHANGED <<pointer, fence, lease, purges, revoked>>
    BY <1>3 DEF ObserveChainProjection
  <2>2. UNCHANGED deployments
    BY <1>3 DEF ObserveChainProjection
  <2>3. CASE s = "finality_revoked"
    <3>1. /\ \A e \in Deployments : fence'[e] >= fence[e]
          /\ \/ lease'[l] = lease[l]
             \/ /\ lease'[l].d = lease[l].d /\ lease'[l].token = lease[l].token
                /\ lease[l].state \in Live /\ lease'[l].state \in {"aborted", "expired"}
          /\ lease[l].d = d => lease'[l].state \notin Live
      <4> DEFINE D == {d}
      <4>1. D \in SUBSET Deployments /\ FenceAndAbort(D)
        BY <2>1, <2>3
      <4>2. lease[l].d = d => lease[l].d \in D
        OBVIOUS
      <4> HIDE DEF D
      <4> QED BY <4>1, <4>2, Fencing
    <3>2. revoked \in [Deployments -> Nat \X Nat]
      BY DEF PublicationTypeOK
    <3>3. \A e \in Deployments \ {d} : revoked'[e] = revoked[e]
      BY <2>1, <2>3, <3>2
    <3>4. lease'[l].state \in Live => lease[l].state \in Live /\ lease[l].d # d
      BY <3>1 DEF Live
    <3>5. deployments \subseteq Deployments
      BY DEF PublicationTypeOK
    <3> QED BY <1>0, <2>2, <3>1, <3>3, <3>4, <3>5, LeaseStays DEF Live
  <2>4. CASE s # "finality_revoked"
    BY <1>0, <2>1, <2>2, <2>4, LeaseStays
  <2> QED BY <2>3, <2>4
<1>4. CASE Backfill \/ Collect \/ BeginErasure \/ ReconcileErasure \/ CompleteControlledErasure \/ UNCHANGED vars
  <2>1. UNCHANGED <<deployments, lease, fence, revoked>>
    BY <1>4 DEF Backfill, Collect, BeginErasure, ReconcileErasure, CompleteControlledErasure, gallery, vars
  <2> QED BY <1>0, <2>1, LeaseStays
<1>5. CASE SuppressSignatureGlobally \/ DrainPublicationLeases
  <2>1. FenceAndAbort(deployments) /\ UNCHANGED <<deployments, revoked>> /\ deployments \in SUBSET Deployments
    BY <1>5 DEF SuppressSignatureGlobally, DrainPublicationLeases, PublicationTypeOK
  <2>2. /\ \A e \in Deployments : fence'[e] >= fence[e]
        /\ \/ lease'[l] = lease[l]
           \/ /\ lease'[l].d = lease[l].d /\ lease'[l].token = lease[l].token
              /\ lease[l].state \in Live /\ lease'[l].state \in {"aborted", "expired"}
    BY <2>1, Fencing
  <2> QED BY <1>0, <2>1, <2>2, LeaseStays DEF Live
<1>6. ASSUME NEW m \in Leases, NEW d \in Deployments, BeginPublicationLease(m, d) PROVE LeaseOK(l)'
  <2>1. UNCHANGED <<deployments, revoked>> /\ d \in deployments /\ fence' = [fence EXCEPT ![d] = fence[d] + 1]
    BY <1>6 DEF BeginPublicationLease
  <2>2. \A e \in Deployments : fence'[e] >= fence[e]
    BY <1>0, <2>1
  <2>3. CASE l = m
    <3>1. /\ lease'[l].d = d /\ lease'[l].token = fence[d] + 1
          /\ lease'[l].state = "staging" /\ lease'[l].cleanup = FALSE
      BY <1>0, <1>6, <2>3 DEF BeginPublicationLease, NoLease
    <3>2. fence'[d] = fence[d] + 1 /\ fence[d] \in Nat
      BY <1>0, <2>1
    <3>3. revoked[d][2] \in Nat /\ revoked[d][2] <= fence[d]
      BY DEF PointerOK, PublicationTypeOK
    <3>4. lease'[l].token <= fence'[d] /\ lease'[l].token > revoked'[d][2]
      BY <2>1, <3>1, <3>2, <3>3
    <3> QED BY <2>1, <3>1, <3>4 DEF LeaseOK
  <2>4. CASE l # m
    <3>1. lease'[l] = lease[l]
      BY <1>0, <1>6, <2>4 DEF BeginPublicationLease
    <3> QED BY <1>0, <2>1, <2>2, <3>1, LeaseStays
  <2> QED BY <2>3, <2>4
<1>7. ASSUME NEW m \in Leases,
             Elapse(m) \/ MarkPublicationReady(m) \/ ActivatePublicationLease(m) \/ AcknowledgeStagedCleanup(m)
      PROVE  LeaseOK(l)'
  <2>1. UNCHANGED <<deployments, fence, revoked>>
    BY <1>7, LeaseActions
  <2>2. CASE l = m
    BY <1>0, <1>7, <2>1, <2>2, LeaseActions, LeaseStays
  <2>3. CASE l # m
    <3>1. lease'[l] = lease[l]
      BY <1>7, <2>3, LeaseActions
    <3> QED BY <1>0, <2>1, <3>1, LeaseStays
  <2> QED BY <2>2, <2>3
<1> QED BY <1>1, <1>2, <1>3, <1>4, <1>5, <1>6, <1>7 DEF Next, Publish

LEMMA PointerStays ==
    ASSUME PublicationTypeOK, PublicationTypeOK', NEW e \in Deployments, PointerOK(e),
           deployments \subseteq deployments', fence'[e] >= fence[e], revoked'[e][2] = revoked[e][2],
           pointer'[e].token = pointer[e].token, pointer'[e].active => pointer[e].active
    PROVE  PointerOK(e)'
<1>1. fence[e] \in Nat /\ fence'[e] \in Nat /\ revoked[e][2] \in Nat /\ pointer[e].token \in Nat
  BY DEF PublicationTypeOK, Pointers
<1>2. pointer'[e].token <= fence'[e] /\ revoked'[e][2] <= fence'[e]
  BY <1>1 DEF PointerOK
<1>3. pointer'[e].active => e \in deployments' /\ pointer'[e].token > revoked'[e][2]
  BY DEF PointerOK
<1> QED BY <1>2, <1>3 DEF PointerOK

\* What a call that is no activation does to the pointers.
LEMMA PointersOf ==
    ASSUME PublicationTypeOK, [Next]_vars, \A l \in Leases : ~ActivatePublicationLease(l), NEW e \in Deployments
    PROVE  pointer'[e].token = pointer[e].token /\ (pointer'[e].active => pointer[e].active)
<1>1. pointer' = pointer \/ \E D \in SUBSET Deployments : pointer' = Deactivated(D)
  <2>1. deployments \in SUBSET Deployments
    BY DEF PublicationTypeOK
  <2>2. ASSUME NEW d \in Deployments, ObserveChainProjection(d)
        PROVE  pointer' = pointer \/ pointer' = Deactivated({d})
    BY <2>2 DEF ObserveChainProjection
  <2>3. CASE ReconcileErasure
    BY <2>1, <2>3 DEF ReconcileErasure, TransitionMintedSuppressed
  <2>4. CASE SuppressSignatureGlobally \/ BeginErasure
    BY <2>1, <2>4 DEF SuppressSignatureGlobally, BeginErasure
  <2>5. ASSUME NEW d \in Deployments, ChainStep(d) \/ AddDeployment(d) PROVE pointer' = pointer
    BY <2>5 DEF ChainStep, AddDeployment, gallery
  <2>6. CASE Backfill \/ Collect \/ CompleteControlledErasure \/ DrainPublicationLeases \/ UNCHANGED vars
    BY <2>6 DEF Backfill, Collect, CompleteControlledErasure, DrainPublicationLeases, gallery, vars
  <2>7. ASSUME NEW l \in Leases, Publish(l) PROVE pointer' = pointer
    BY <2>7 DEF Publish, BeginPublicationLease, Elapse, MarkPublicationReady, AcknowledgeStagedCleanup
  <2> QED BY <2>2, <2>3, <2>4, <2>5, <2>6, <2>7 DEF Next
<1> QED BY <1>1, Deactivating

\* An activation publishes a lease at work, whose token is the fence.
LEMMA Activating ==
    ASSUME PublicationTypeOK, NEW l \in Leases, ActivatePublicationLease(l), LeaseOK(l), pointer' # pointer
    PROVE  /\ lease[l].d \in deployments /\ lease[l].d \in Deployments /\ lease[l].d \notin suppressed
           /\ lease[l].token = fence[lease[l].d] /\ lease[l].token > revoked[lease[l].d][2]
           /\ pointer'[lease[l].d].token = lease[l].token
           /\ \A e \in Deployments \ {lease[l].d} : pointer'[e] = pointer[e]
<1> DEFINE r == lease[l]
<1>1. /\ r.state = "ready" /\ MayActivate(r)
      /\ pointer' = [pointer EXCEPT ![r.d] = [version |-> r.version, token |-> r.token, active |-> TRUE]]
  BY DEF ActivatePublicationLease
<1>2. r.d \in deployments /\ r.d \in Deployments /\ r.token > revoked[r.d][2]
  BY <1>1 DEF LeaseOK, Live, PublicationTypeOK
<1>3. r.d \notin suppressed /\ fence[r.d] = r.token
  BY <1>1 DEF MayActivate
<1>4. pointer \in [Deployments -> Pointers]
  BY DEF PublicationTypeOK
<1>5. /\ pointer'[r.d] = [version |-> r.version, token |-> r.token, active |-> TRUE]
      /\ \A e \in Deployments \ {r.d} : pointer'[e] = pointer[e]
  BY <1>1, <1>2, <1>4
<1>6. pointer'[r.d].token = r.token
  BY <1>5
<1> QED BY <1>2, <1>3, <1>5, <1>6

LEMMA PointersKept ==
    ASSUME PublicationTypeOK, PublicationTypeOK', [Next]_vars,
           \A l \in Leases : LeaseOK(l), \A d \in Deployments : PointerOK(d)
    PROVE  \A d \in Deployments : PointerOK(d)'
<1> SUFFICES ASSUME NEW e \in Deployments PROVE PointerOK(e)'
  OBVIOUS
<1>0. /\ PointerOK(e) /\ fence \in [Deployments -> Nat] /\ fence[e] >= fence[e]
      /\ deployments \in SUBSET Deployments
  BY DEF PublicationTypeOK
<1>1. ASSUME NEW l \in Leases, ActivatePublicationLease(l) PROVE PointerOK(e)'
  <2>1. UNCHANGED <<deployments, fence, revoked>>
    BY <1>1, LeaseActions
  <2>2. CASE pointer' = pointer
    BY <1>0, <2>1, <2>2, PointerStays
  <2>3. CASE pointer' # pointer /\ e # lease[l].d
    <3>1. pointer'[e] = pointer[e]
      BY <1>1, <2>3, Activating
    <3> QED BY <1>0, <2>1, <3>1, PointerStays
  <2>4. CASE pointer' # pointer /\ e = lease[l].d
    <3>1. e \in deployments /\ pointer'[e].token = fence[e] /\ pointer'[e].token > revoked[e][2]
      BY <1>1, <2>4, Activating
    <3>2. fence[e] \in Nat /\ revoked[e][2] <= fence[e]
      BY <1>0 DEF PointerOK
    <3> QED BY <2>1, <3>1, <3>2 DEF PointerOK
  <2> QED BY <2>2, <2>3, <2>4
<1>2. ASSUME NEW d \in Deployments, ObserveChainProjection(d), \A l \in Leases : ~ActivatePublicationLease(l)
      PROVE  PointerOK(e)'
  <2>1. PICK s \in Seen(d) \ {proj[d]} :
           IF s = "finality_revoked"
           THEN /\ pointer' = Deactivated({d}) /\ FenceAndAbort({d})
                /\ revoked' = [revoked EXCEPT ![d] = <<@[1], fence'[d]>>]
           ELSE UNCHANGED <<pointer, fence, lease, purges, revoked>>
    BY <1>2 DEF ObserveChainProjection
  <2>2. UNCHANGED deployments
    BY <1>2 DEF ObserveChainProjection
  <2>3. CASE s = "finality_revoked"
    <3> DEFINE D == {d}
    <3>1. D \in SUBSET Deployments /\ FenceAndAbort(D) /\ pointer' = Deactivated(D)
      BY <2>1, <2>3
    <3>2. revoked \in [Deployments -> Nat \X Nat] /\ revoked' = [revoked EXCEPT ![d] = <<revoked[d][1], fence'[d]>>]
      BY <2>1, <2>3 DEF PublicationTypeOK
    <3>3. e = d => e \in D
      OBVIOUS
    <3> HIDE DEF D
    <3>4. fence'[e] >= fence[e]
      BY <3>1, Fencing
    <3>5. pointer'[e].token = pointer[e].token /\ (pointer'[e].active => pointer[e].active /\ e \notin D)
      BY <3>1, Deactivating
    <3>6. CASE e = d
      <4>1. revoked'[e][2] = fence'[e]
        BY <3>2, <3>6
      <4>2. fence[e] \in Nat /\ fence'[e] \in Nat /\ pointer[e].token \in Nat
        BY DEF PublicationTypeOK, Pointers
      <4>3. pointer'[e].token <= fence'[e] /\ revoked'[e][2] <= fence'[e]
        BY <1>0, <3>4, <3>5, <4>1, <4>2 DEF PointerOK
      <4> QED BY <3>3, <3>5, <3>6, <4>3 DEF PointerOK
    <3>7. CASE e # d
      <4>1. revoked'[e] = revoked[e]
        BY <3>2, <3>7
      <4> QED BY <1>0, <2>2, <3>4, <3>5, <4>1, PointerStays
    <3> QED BY <3>6, <3>7
  <2>4. CASE s # "finality_revoked"
    BY <1>0, <2>1, <2>2, <2>4, PointerStays
  <2> QED BY <2>3, <2>4
<1>3. ASSUME \A l \in Leases : ~ActivatePublicationLease(l), \A d \in Deployments : ~ObserveChainProjection(d)
      PROVE  PointerOK(e)'
  <2>1. pointer'[e].token = pointer[e].token /\ (pointer'[e].active => pointer[e].active)
    BY <1>3, PointersOf
  <2>2. deployments \subseteq deployments' /\ fence'[e] >= fence[e] /\ revoked'[e][2] = revoked[e][2]
    <3>1. ASSUME NEW d \in Deployments, ChainStep(d) PROVE <2>2!:
      BY <1>0, <3>1, Revoking DEF ChainStep, gallery
    <3>2. ASSUME NEW d \in Deployments, AddDeployment(d) PROVE <2>2!:
      BY <1>0, <3>2 DEF AddDeployment
    <3>3. CASE Backfill \/ Collect \/ BeginErasure \/ ReconcileErasure \/ CompleteControlledErasure \/ UNCHANGED vars
      BY <1>0, <3>3 DEF Backfill, Collect, BeginErasure, ReconcileErasure, CompleteControlledErasure, gallery, vars
    <3>4. CASE SuppressSignatureGlobally \/ DrainPublicationLeases
      <4>1. FenceAndAbort(deployments) /\ UNCHANGED <<deployments, revoked>>
        BY <3>4 DEF SuppressSignatureGlobally, DrainPublicationLeases
      <4> QED BY <1>0, <4>1, Fencing
    <3>5. ASSUME NEW l \in Leases, NEW d \in Deployments, BeginPublicationLease(l, d) PROVE <2>2!:
      <4>1. UNCHANGED <<deployments, revoked>> /\ fence' = [fence EXCEPT ![d] = fence[d] + 1]
        BY <3>5 DEF BeginPublicationLease
      <4> QED BY <1>0, <4>1
    <3>6. ASSUME NEW l \in Leases, Elapse(l) \/ MarkPublicationReady(l) \/ AcknowledgeStagedCleanup(l) PROVE <2>2!:
      BY <1>0, <3>6, LeaseActions
    <3> QED BY <1>3, <3>1, <3>2, <3>3, <3>4, <3>5, <3>6 DEF Next, Publish
  <2> QED BY <1>0, <2>1, <2>2, PointerStays
<1> QED BY <1>1, <1>2, <1>3

-----------------------------------------------------------------------------
(* Erasure, gates and the theorems. *)

\* Calls that touch neither the control nor the case, and lives that do not begin.
LEMMA ErasureStays ==
    ASSUME ErasureOK, UNCHANGED <<control, case>>, snapshot' = snapshot \/ snapshot' = NoSnapshot,
           case # "none" => \A d \in Deployments : Void(auth[d]) => Void(auth'[d])
    PROVE  ErasureOK'
BY DEF ErasureOK

LEMMA LivesKept ==
    ASSUME PublicationTypeOK, NEW d \in Deployments, ChainStep(d), control.state # "enabled", NEW e \in Deployments, Void(auth[e])
    PROVE  Void(auth'[e])
<1>1. PICK from \in Lives, to \in Lives : Step(d, from, to) /\ from # "none" /\ from # "dead"
  BY DEF ChainStep, Issuable, Lives
<1>2. e # d
  BY <1>1 DEF Void, Step
<1>3. auth'[e] = auth[e]
  BY <1>1, <1>2 DEF Step, PublicationTypeOK
<1> QED BY <1>3

LEMMA ErasureKept ==
    ASSUME PublicationTypeOK, [Next]_vars, ErasureOK
    PROVE  ErasureOK'
<1>1. ASSUME NEW d \in Deployments, ChainStep(d) PROVE ErasureOK'
  <2>1. case # "none" => \A e \in Deployments : Void(auth[e]) => Void(auth'[e])
    BY <1>1, LivesKept DEF ErasureOK
  <2> QED BY <1>1, <2>1, ErasureStays DEF ChainStep
<1>2. CASE Backfill
  BY <1>2 DEF Backfill, ErasureOK
<1>3. CASE SuppressSignatureGlobally
  <2>1. control'.state = control.state
    BY <1>3 DEF SuppressSignatureGlobally, PublicationTypeOK, Controls
  <2> QED BY <1>3, <2>1 DEF SuppressSignatureGlobally, ErasureOK
<1>4. CASE BeginErasure
  BY <1>4 DEF BeginErasure, ErasureOK
<1>5. CASE Collect
  <2>1. PICK available \in BOOLEAN, quiet \in BOOLEAN :
           snapshot' = [seen |-> auth, available |-> available, quiet |-> quiet]
    BY <1>5 DEF Collect
  <2>2. snapshot'.seen = auth
    BY <2>1
  <2> QED BY <1>5, <2>2 DEF Collect, ErasureOK
<1>6. CASE ReconcileErasure
  <2>1. CASE PermanentMint(snapshot)
    <3>1. control'.state = "blocked" /\ case' = "minted_suppressed" /\ snapshot' = NoSnapshot
      BY <1>6, <2>1 DEF ReconcileErasure, TransitionMintedSuppressed
    <3> QED BY <3>1 DEF ErasureOK
  <2>2. CASE ~PermanentMint(snapshot)
    <3>1. /\ case' = IF Blocked(snapshot) THEN "pending" ELSE "ready_for_controlled_delete"
          /\ control' = control /\ snapshot' = NoSnapshot /\ auth' = auth
          /\ case = "pending" /\ snapshot # NoSnapshot
      BY <1>6, <2>2 DEF ReconcileErasure
    <3>2. ~Blocked(snapshot) => \A d \in Deployments : Void(snapshot.seen[d])
      BY DEF Blocked, Unproved, Known, Terminal, Void
    <3> QED BY <3>1, <3>2 DEF ErasureOK
  <2> QED BY <2>1, <2>2
<1>7. CASE CompleteControlledErasure
  BY <1>7 DEF CompleteControlledErasure, ErasureOK
<1>8. ASSUME UNCHANGED <<control, case, snapshot, auth>> PROVE ErasureOK'
  BY <1>8 DEF ErasureOK
<1>9. ASSUME NEW d \in Deployments, AddDeployment(d) \/ ObserveChainProjection(d) PROVE ErasureOK'
  BY <1>8, <1>9 DEF AddDeployment, ObserveChainProjection
<1>10. CASE DrainPublicationLeases \/ UNCHANGED vars
  BY <1>8, <1>10 DEF DrainPublicationLeases, vars
<1>11. ASSUME NEW l \in Leases, Publish(l) PROVE ErasureOK'
  BY <1>8, <1>11 DEF Publish, BeginPublicationLease, Elapse, MarkPublicationReady, ActivatePublicationLease,
                     AcknowledgeStagedCleanup
<1> QED BY <1>1, <1>2, <1>3, <1>4, <1>5, <1>6, <1>7, <1>9, <1>10, <1>11 DEF Next

\* The gates of suppression: of the deployments, and of what is published.
LEMMA GatesKept ==
    ASSUME PublicationTypeOK, [Next]_vars, \A l \in Leases : LeaseOK(l), \A d \in Deployments : PointerOK(d),
           SuppressionHasNoGap, GateHidesAll
    PROVE  SuppressionHasNoGap' /\ GateHidesAll'
<1>0. deployments \in SUBSET Deployments
  BY DEF PublicationTypeOK
<1>1. ASSUME NEW d \in Deployments, AddDeployment(d) PROVE SuppressionHasNoGap' /\ GateHidesAll'
  <2>1. ~pointer[d].active
    BY <1>1 DEF AddDeployment, PointerOK
  <2> QED BY <1>1, <2>1 DEF AddDeployment, Copied, SuppressionHasNoGap, GateHidesAll
<1>2. CASE SuppressSignatureGlobally \/ BeginErasure
  <2>1. /\ deployments' = deployments /\ suppressed' = suppressed \union deployments
        /\ pointer' = Deactivated(deployments)
    BY <1>2 DEF SuppressSignatureGlobally, BeginErasure
  <2>2. \A d \in deployments : ~pointer'[d].active
    BY <1>0, <2>1, Deactivating
  <2> QED BY <2>1, <2>2 DEF SuppressionHasNoGap, GateHidesAll
<1>3. ASSUME NEW l \in Leases, ActivatePublicationLease(l) PROVE SuppressionHasNoGap' /\ GateHidesAll'
  <2>1. UNCHANGED <<deployments, global, suppressed>>
    BY <1>3, LeaseActions
  <2>2. pointer' = pointer \/ ~global
    BY <1>3, Activating DEF SuppressionHasNoGap
  <2> QED BY <2>1, <2>2 DEF SuppressionHasNoGap, GateHidesAll
<1>4. ASSUME UNCHANGED <<deployments, global>>, suppressed \subseteq suppressed', \A l \in Leases : ~ActivatePublicationLease(l)
      PROVE  SuppressionHasNoGap' /\ GateHidesAll'
  BY <1>0, <1>4, PointersOf DEF SuppressionHasNoGap, GateHidesAll
<1>5. ASSUME NEW d \in Deployments, ChainStep(d) \/ ObserveChainProjection(d)
      PROVE  UNCHANGED <<deployments, global>> /\ suppressed \subseteq suppressed'
  BY <1>5 DEF ChainStep, ObserveChainProjection, gallery
<1>6. CASE Backfill \/ Collect \/ CompleteControlledErasure \/ DrainPublicationLeases \/ UNCHANGED vars
  <2>1. UNCHANGED <<deployments, global, suppressed>>
    BY <1>6 DEF Backfill, Collect, CompleteControlledErasure, DrainPublicationLeases, gallery, vars
  <2> QED BY <1>3, <1>4, <2>1
<1>7. CASE ReconcileErasure
  <2>1. UNCHANGED <<deployments, global>> /\ suppressed \subseteq suppressed'
    BY <1>7 DEF ReconcileErasure, TransitionMintedSuppressed
  <2> QED BY <1>3, <1>4, <2>1
<1>8. ASSUME NEW l \in Leases, Publish(l) PROVE SuppressionHasNoGap' /\ GateHidesAll'
  <2>1. UNCHANGED <<deployments, global, suppressed>>
    BY <1>8 DEF Publish, BeginPublicationLease, Elapse, MarkPublicationReady, ActivatePublicationLease,
                AcknowledgeStagedCleanup
  <2> QED BY <1>3, <1>4, <2>1
<1> QED BY <1>1, <1>2, <1>3, <1>4, <1>5, <1>6, <1>7, <1>8 DEF Next

\* What an erased signature is, and that no call changes it.
LEMMA ErasedKept ==
    ASSUME PublicationInv, [Next]_vars, control.state = "erased"
    PROVE  /\ UNCHANGED <<control, case, present>>
           /\ \A d \in Deployments : Void(auth'[d])
           /\ \A l \in Leases : lease'[l].state \notin Live /\ ~lease'[l].cleanup
<1> USE DEF PublicationInv
<1>0. /\ case = "erased" /\ \A d \in Deployments : Void(auth[d])
      /\ ~present /\ \A l \in Leases : lease[l].state \notin Live /\ ~lease[l].cleanup
  BY DEF ErasureOK, ErasedHasNoMint, ErasedIsClean, Void
<1>1. ~Backfill /\ ~SuppressSignatureGlobally /\ ~BeginErasure /\ ~Collect /\ ~ReconcileErasure /\ ~CompleteControlledErasure
  BY <1>0 DEF Backfill, SuppressSignatureGlobally, Suppressible, BeginErasure, Collect, ReconcileErasure,
              CompleteControlledErasure
<1>2. ASSUME NEW l \in Leases PROVE ~Publish(l)
  BY <1>0 DEF Publish, BeginPublicationLease, Elapse, MarkPublicationReady, ActivatePublicationLease,
              AcknowledgeStagedCleanup, Live
<1>3. ASSUME UNCHANGED <<control, case, present, lease, auth>>
      PROVE  /\ UNCHANGED <<control, case, present>>
             /\ \A d \in Deployments : Void(auth'[d])
             /\ \A l \in Leases : lease'[l].state \notin Live /\ ~lease'[l].cleanup
  BY <1>0, <1>3
<1>4. ASSUME NEW D \in SUBSET Deployments, FenceAndAbort(D) PROVE \A l \in Leases : lease'[l] = lease[l]
  BY <1>0, <1>4, Fencing
<1>5. ASSUME NEW d \in Deployments, ChainStep(d) PROVE <1>3!2
  <2>1. \A e \in Deployments : Void(auth'[e])
    BY <1>0, <1>5, LivesKept
  <2>2. UNCHANGED <<control, case, present, lease>>
    BY <1>5 DEF ChainStep, gallery
  <2> QED BY <1>0, <2>1, <2>2
<1>6. ASSUME NEW d \in Deployments, AddDeployment(d) PROVE <1>3!2
  BY <1>3, <1>6 DEF AddDeployment
<1>7. ASSUME NEW d \in Deployments, ObserveChainProjection(d) PROVE <1>3!2
  <2> DEFINE D == {d}
  <2>1. D \in SUBSET Deployments /\ (FenceAndAbort(D) \/ lease' = lease)
    BY <1>7 DEF ObserveChainProjection
  <2>2. UNCHANGED <<control, case, present, auth>>
    BY <1>7 DEF ObserveChainProjection
  <2> HIDE DEF D
  <2>3. \A l \in Leases : lease'[l] = lease[l]
    BY <1>4, <2>1
  <2> QED BY <1>0, <2>2, <2>3
<1>8. CASE DrainPublicationLeases
  <2>1. deployments \in SUBSET Deployments /\ FenceAndAbort(deployments) /\ UNCHANGED <<control, case, present, auth>>
    BY <1>8 DEF DrainPublicationLeases, PublicationTypeOK
  <2>2. \A l \in Leases : lease'[l] = lease[l]
    BY <1>4, <2>1
  <2> QED BY <1>0, <2>1, <2>2
<1>9. CASE UNCHANGED vars
  BY <1>3, <1>9 DEF vars, gallery
<1> QED BY <1>1, <1>2, <1>5, <1>6, <1>7, <1>8, <1>9 DEF Next

LEMMA ErasedBegins ==
    ASSUME PublicationInv, [Next]_vars, control.state # "erased", control'.state = "erased"
    PROVE  CompleteControlledErasure
<1>1. ~Backfill /\ ~SuppressSignatureGlobally /\ ~BeginErasure
  <2>1. control \in Controls
    BY DEF PublicationInv, PublicationTypeOK
  <2>2. SuppressSignatureGlobally => control'.state = control.state
    BY <2>1 DEF SuppressSignatureGlobally, Controls
  <2> QED BY <2>2 DEF Backfill, BeginErasure
<1>2. ~ReconcileErasure
  BY DEF ReconcileErasure, TransitionMintedSuppressed
<1>3. ~Collect /\ ~DrainPublicationLeases /\ ~UNCHANGED vars
  BY DEF Collect, DrainPublicationLeases, vars
<1>4. ASSUME NEW d \in Deployments PROVE ~ChainStep(d) /\ ~AddDeployment(d) /\ ~ObserveChainProjection(d)
  BY DEF ChainStep, AddDeployment, ObserveChainProjection
<1>5. ASSUME NEW l \in Leases PROVE ~Publish(l)
  BY DEF Publish, BeginPublicationLease, Elapse, MarkPublicationReady, ActivatePublicationLease, AcknowledgeStagedCleanup
<1> QED BY <1>1, <1>2, <1>3, <1>4, <1>5 DEF Next

LEMMA PublicationNext == PublicationInv /\ [Next]_vars => PublicationInv'
<1> SUFFICES ASSUME PublicationInv, [Next]_vars PROVE PublicationInv'
  OBVIOUS
<1>1. PublicationTypeOK'
  BY PublicationTypes DEF PublicationInv
<1>2. (\A l \in Leases : LeaseOK(l)') /\ (\A d \in Deployments : PointerOK(d)')
  BY <1>1, LeasesKept, PointersKept DEF PublicationInv
<1>3. ErasureOK' /\ SuppressionHasNoGap' /\ GateHidesAll'
  BY ErasureKept, GatesKept DEF PublicationInv
<1>4. ErasedHasNoMint' /\ ErasedIsClean'
  <2>1. CASE control.state = "erased"
    <3>1. ~present
      BY <2>1 DEF PublicationInv, ErasedIsClean
    <3> QED BY <2>1, <3>1, ErasedKept DEF ErasedHasNoMint, ErasedIsClean, Void
  <2>2. CASE control.state # "erased" /\ control'.state = "erased"
    <3>1. CompleteControlledErasure
      BY <2>2, ErasedBegins
    <3>2. ~present' /\ UNCHANGED <<auth, lease>> /\ Drained /\ case = "ready_for_controlled_delete"
      BY <3>1 DEF CompleteControlledErasure, gallery
    <3> QED BY <3>2 DEF PublicationInv, ErasureOK, Drained, ErasedHasNoMint, ErasedIsClean, Void
  <2>3. CASE control'.state # "erased"
    BY <2>3 DEF ErasedHasNoMint, ErasedIsClean
  <2> QED BY <2>1, <2>2, <2>3
<1> QED BY <1>1, <1>2, <1>3, <1>4 DEF PublicationInv

\* The inductive invariant always holds.
THEOREM PublicationInvariance == Spec => []PublicationInv
<1>1. PublicationInv /\ UNCHANGED vars => PublicationInv'
  BY PublicationNext
<1> QED BY PublicationInit, PublicationNext, PTL DEF Spec

\* Nothing is published behind a gate, of a finality that was revoked or of an erased
\* signature, and what is erased has no mint and leaves nothing staged.
THEOREM PublicationAlwaysHolds == Spec => []PublicationHolds
<1>1. PublicationInv => PublicationHolds
  BY DEF PublicationInv, PublicationHolds, PointerOK, RevokedNeedsNewLease, Visible
<1> QED BY <1>1, PublicationInvariance, PTL

\* No pointer falls back to an older lease, and the tombstone of an erasure is final.
THEOREM PublicationNeverGoesBack == Spec => NothingGoesBack
<1> DEFINE A == /\ \A d \in Deployments : pointer'[d].token >= pointer[d].token
                /\ control.state = "erased" => UNCHANGED <<control, case, present>>
<1>1. PublicationInv /\ [Next]_vars => [A]_vars
  <2> SUFFICES ASSUME PublicationInv, [Next]_vars PROVE A
    OBVIOUS
  <2>1. control.state = "erased" => UNCHANGED <<control, case, present>>
    BY ErasedKept
  <2>2. ASSUME NEW d \in Deployments PROVE pointer'[d].token >= pointer[d].token
    <3>0. PublicationTypeOK /\ pointer[d].token \in Nat /\ fence[d] \in Nat /\ pointer[d].token <= fence[d]
      BY DEF PublicationInv, PublicationTypeOK, Pointers, PointerOK
    <3>1. CASE \A l \in Leases : ~ActivatePublicationLease(l)
      BY <3>0, <3>1, PointersOf
    <3>2. ASSUME NEW l \in Leases, ActivatePublicationLease(l) PROVE pointer'[d].token >= pointer[d].token
      <4>1. CASE pointer' = pointer \/ d # lease[l].d
        <5>1. pointer'[d] = pointer[d]
          BY <3>0, <3>2, <4>1, Activating DEF PublicationInv
        <5> QED BY <3>0, <5>1
      <4>2. CASE pointer' # pointer /\ d = lease[l].d
        <5>1. pointer'[d].token = fence[d]
          BY <3>0, <3>2, <4>2, Activating DEF PublicationInv
        <5> QED BY <3>0, <5>1
      <4> QED BY <4>1, <4>2
    <3> QED BY <3>1, <3>2
  <2> QED BY <2>1, <2>2
<1> QED BY <1>1, PublicationInvariance, PTL DEF Spec, NothingGoesBack

-----------------------------------------------------------------------------
(* The content coordinator (memoryContentCoordinator.ts).                   *)

ContentControls == [state : {"missing", "enabled", "blocked", "erasure_pending", "erased"}, version : Nat]
Guards == [state : {"absent", "deletion_pending", "present"}, token : Nat, over : BOOLEAN]
WriteLeases ==
    [ref : References \cup {"none"}, token : Nat, state : {"none", "writing", "aborted", "expired", "committed"},
     late : BOOLEAN, version : Nat, prepared : Nat, put : BOOLEAN, verified : BOOLEAN]
Preparations ==
    [state : {"none", "reserved", "publishing", "verified", "frozen", "aborting", "aborted"}, version : Nat,
     token : Nat, owner : Owners \cup {"none"}, late : BOOLEAN]
Fences == [object : Objects \cup {"none"}, token : Nat]

ContentTypeOK ==
    /\ contentControl \in [Signatures -> ContentControls]
    /\ guard \in [Objects -> Guards]
    /\ contentLease \in [Leases -> WriteLeases]
    /\ references \in SUBSET References /\ released \in SUBSET References
    /\ stored \in [Objects -> {"missing", "stored", "verified"}]
    /\ metadata \in [Signatures -> Preparations]
    /\ handle \in [Owners -> [Signatures -> Nat]]
    /\ contentFence \in [Collectors -> Fences]

\* A writer at work has a reference, and the signature of it is not erased.
Writing(w) == contentLease[w].state = "writing"
WritersOK == \A w \in Leases : Writing(w) =>
    contentLease[w].ref \in References /\ contentControl[SignatureOf[contentLease[w].ref]].state # "erased"
\* The signature of a durable reference is not erased; what is erased has no preparation.
ErasureHolds ==
    /\ \A r \in references : contentControl[SignatureOf[r]].state # "erased"
    /\ \A s \in Signatures : contentControl[s].state = "erased" => metadata[s] = Content!NoPreparation
RetentionOK ==
    \A r \in references : guard[ObjectOf[r]].state = "present" /\ stored[ObjectOf[r]] # "missing"

ContentInv ==
    ContentTypeOK /\ WritersOK /\ ErasureHolds /\ RetentionOK /\ Content!FrozenKeepsReplicas

\* What an update of one field leaves.
LEMMA LeaseMoves ==
    ASSUME NEW l \in WriteLeases
    PROVE  /\ [l EXCEPT !.put = TRUE] \in WriteLeases /\ [l EXCEPT !.put = TRUE].ref = l.ref
           /\ [l EXCEPT !.put = TRUE].state = l.state
           /\ [l EXCEPT !.verified = TRUE] \in WriteLeases /\ [l EXCEPT !.verified = TRUE].ref = l.ref
           /\ [l EXCEPT !.verified = TRUE].state = l.state
           /\ [l EXCEPT !.late = TRUE] \in WriteLeases /\ [l EXCEPT !.late = TRUE].ref = l.ref
           /\ [l EXCEPT !.late = TRUE].state = l.state
BY DEF WriteLeases

LEMMA LeaseEnds ==
    ASSUME NEW l \in WriteLeases, NEW e \in {"aborted", "expired", "committed"}
    PROVE  /\ [l EXCEPT !.state = e] \in WriteLeases /\ [l EXCEPT !.state = e].ref = l.ref
           /\ [l EXCEPT !.state = e].state = e
BY DEF WriteLeases

LEMMA GuardPresent ==
    ASSUME NEW g \in Guards
    PROVE  [g EXCEPT !.state = "present"] \in Guards /\ [g EXCEPT !.state = "present"].state = "present"
BY DEF Guards

LEMMA OneTokenOn ==
    ASSUME NEW g \in Guards
    PROVE  [g EXCEPT !.token = @ + 1] \in Guards /\ [g EXCEPT !.token = @ + 1].state = g.state
<1>1. g.token \in Nat /\ g.token + 1 \in Nat
  BY DEF Guards
<1> QED BY <1>1 DEF Guards

LEMMA ContentInit == Content!Init => ContentInv
<1> SUFFICES ASSUME Content!Init PROVE ContentInv
  OBVIOUS
<1> USE DEF Content!Init
<1>1. ContentTypeOK
  BY DEF ContentTypeOK, ContentControls, Guards, WriteLeases, Preparations, Fences, Content!NoLease,
         Content!NoPreparation, Content!NoFence
<1>2. WritersOK
  BY DEF WritersOK, Writing, Content!NoLease
<1>3. ErasureHolds /\ RetentionOK
  BY DEF ErasureHolds, RetentionOK
<1>4. Content!FrozenKeepsReplicas
  BY DEF Content!FrozenKeepsReplicas, Content!Settled, Content!NoPreparation
<1> QED BY <1>1, <1>2, <1>3, <1>4 DEF ContentInv

LEMMA ContentPromises == ASSUME ContentInv, Content!ContentAssumption PROVE ContentHolds
<1>1. Content!ErasedIsGone
  BY DEF ContentInv, WritersOK, Writing, ErasureHolds, Content!ErasedIsGone, Content!Holder
<1>2. Content!ReferencesRetained
  BY DEF ContentInv, ErasureHolds, RetentionOK, Content!ReferencesRetained
<1> QED BY <1>1, <1>2 DEF ContentInv, ContentHolds

(* Signatures. *)

LEMMA ContentRegisters ==
    ASSUME ContentInv, Content!ContentAssumption, NEW s \in Signatures, Content!RegisterSignature(s)
    PROVE  ContentInv'
<1> USE DEF ContentInv, Content!ContentAssumption, Content!RegisterSignature
<1>1. contentControl' \in [Signatures -> ContentControls]
  BY DEF ContentTypeOK, ContentControls
<1>2. \A k \in Signatures : contentControl'[k].state = "erased" => contentControl[k].state = "erased"
  BY DEF ContentTypeOK
<1> QED BY <1>1, <1>2 DEF ContentTypeOK, WritersOK, Writing, ErasureHolds, RetentionOK, Content!FrozenKeepsReplicas, Content!Settled

LEMMA AbortedPreparation ==
    ASSUME NEW p \in Preparations
    PROVE  /\ Content!Aborting(p) \in Preparations
           /\ Content!Aborting(p).state \in {"verified", "frozen"} => p.state \in {"verified", "frozen"}
<1>1. CASE p.state \in {"reserved", "publishing", "verified"}
  <2>1. PICK n \in Nat : n = p.token + 1
    BY DEF Preparations
  <2>2. Content!Aborting(p) = [p EXCEPT !.state = "aborting", !.token = n, !.owner = "none", !.late = FALSE]
    BY <1>1, <2>1 DEF Content!Aborting
  <2> QED BY <2>2 DEF Preparations
<1>2. CASE p.state \notin {"reserved", "publishing", "verified"}
  BY <1>2 DEF Content!Aborting
<1> QED BY <1>1, <1>2

LEMMA FencedGuards ==
    ASSUME ContentInv, NEW s \in Signatures, Content!FenceSignatureWorkers(s)
    PROVE  /\ guard' \in [Objects -> Guards] /\ \A o \in Objects : guard'[o].state = guard[o].state
           /\ contentLease' \in [Leases -> WriteLeases]
           /\ \A w \in Leases : contentLease'[w].ref = contentLease[w].ref /\ (Writing(w)' => Writing(w))
           /\ metadata' \in [Signatures -> Preparations]
           /\ metadata'[s].state \in {"verified", "frozen"} => metadata[s].state \in {"verified", "frozen"}
           /\ \A k \in Signatures \ {s} : metadata'[k] = metadata[k]
<1> USE DEF ContentInv, ContentTypeOK
<1>1. /\ guard' \in [Objects -> Guards] /\ \A o \in Objects : guard'[o].state = guard[o].state
  <2>1. ASSUME NEW o \in Objects
        PROVE  [guard[o] EXCEPT !.token = @ + 1] \in Guards /\ [guard[o] EXCEPT !.token = @ + 1].state = guard[o].state
    BY OneTokenOn
  <2>2. ASSUME NEW o \in Objects PROVE guard'[o] \in {guard[o], [guard[o] EXCEPT !.token = @ + 1]}
    BY DEF Content!FenceSignatureWorkers
  <2>3. ASSUME NEW o \in Objects PROVE guard'[o] \in Guards /\ guard'[o].state = guard[o].state
    BY <2>1, <2>2
  <2>4. guard' = [o \in Objects |-> guard'[o]]
    BY DEF Content!FenceSignatureWorkers
  <2> QED BY <2>3, <2>4
<1>2. /\ contentLease' \in [Leases -> WriteLeases]
      /\ \A w \in Leases : contentLease'[w].ref = contentLease[w].ref /\ (Writing(w)' => Writing(w))
  <2>1. ASSUME NEW w \in Leases
        PROVE  contentLease'[w] \in {contentLease[w], [contentLease[w] EXCEPT !.state = "aborted"]}
    BY DEF Content!FenceSignatureWorkers
  <2>2. ASSUME NEW w \in Leases
        PROVE  contentLease'[w] \in WriteLeases /\ contentLease'[w].ref = contentLease[w].ref
               /\ (contentLease'[w].state = "writing" => contentLease[w].state = "writing")
    <3>1. PICK l \in WriteLeases : l = contentLease[w]
      OBVIOUS
    <3>2. /\ [l EXCEPT !.state = "aborted"] \in WriteLeases /\ [l EXCEPT !.state = "aborted"].ref = l.ref
          /\ [l EXCEPT !.state = "aborted"].state = "aborted"
      BY LeaseEnds
    <3> QED BY <2>1, <3>1, <3>2
  <2>3. contentLease' = [w \in Leases |-> contentLease'[w]]
    BY DEF Content!FenceSignatureWorkers
  <2> QED BY <2>2, <2>3 DEF Writing
<1>3. /\ metadata' \in [Signatures -> Preparations]
      /\ metadata'[s].state \in {"verified", "frozen"} => metadata[s].state \in {"verified", "frozen"}
      /\ \A k \in Signatures \ {s} : metadata'[k] = metadata[k]
  <2>1. PICK p \in Preparations : p = metadata[s]
    OBVIOUS
  <2>2. metadata' = [metadata EXCEPT ![s] = Content!Aborting(p)]
    BY <2>1 DEF Content!FenceSignatureWorkers
  <2>3. Content!Aborting(p) \in Preparations
        /\ (Content!Aborting(p).state \in {"verified", "frozen"} => p.state \in {"verified", "frozen"})
    BY AbortedPreparation
  <2> QED BY <2>1, <2>2, <2>3
<1> QED BY <1>1, <1>2, <1>3

LEMMA ContentRestricted ==
    ASSUME ContentInv, Content!ContentAssumption, NEW s \in Signatures,
           Content!BlockSignature(s) \/ Content!BeginErasure(s)
    PROVE  ContentInv'
<1> USE DEF ContentInv, Content!ContentAssumption
<1>1. PICK to \in {"blocked", "erasure_pending"}, from \in {{"enabled"}, {"enabled", "blocked"}} :
         Content!Restrict(s, from, to)
  BY DEF Content!BlockSignature, Content!BeginErasure
<1>2. contentControl' \in [Signatures -> ContentControls]
  BY <1>1 DEF ContentTypeOK, ContentControls, Content!Restrict
<1>3. /\ contentControl[s].state # "erased" /\ contentControl'[s].state # "erased"
      /\ \A k \in Signatures \ {s} : contentControl'[k] = contentControl[k]
  BY <1>1 DEF ContentTypeOK, Content!Restrict
<1>4. Content!FenceSignatureWorkers(s) /\ UNCHANGED <<references, released, stored, handle, contentFence>>
  BY <1>1 DEF Content!Restrict
<1>5. ContentTypeOK'
  BY <1>2, <1>4, FencedGuards DEF ContentTypeOK
<1>6. WritersOK'
  BY <1>3, <1>4, FencedGuards DEF WritersOK
<1>7. ErasureHolds'
  <2>1. \A k \in Signatures \ {s} : metadata'[k] = metadata[k]
    BY <1>4, FencedGuards
  <2>2. \A k \in Signatures : contentControl'[k].state = "erased" =>
           contentControl[k].state = "erased" /\ metadata'[k] = metadata[k]
    BY <1>3, <2>1
  <2> QED BY <1>4, <2>2 DEF ErasureHolds, ContentTypeOK
<1>8. RetentionOK'
  BY <1>4, FencedGuards DEF RetentionOK, ContentTypeOK
<1>9. Content!FrozenKeepsReplicas'
  BY <1>4, FencedGuards DEF Content!FrozenKeepsReplicas, Content!Settled, Content!Required
<1> QED BY <1>5, <1>6, <1>7, <1>8, <1>9

LEMMA ContentErased ==
    ASSUME ContentInv, Content!ContentAssumption, NEW s \in Signatures, Content!CompleteErasure(s)
    PROVE  ContentInv'
<1> USE DEF ContentInv, Content!ContentAssumption, Content!CompleteErasure
<1>1. contentControl' \in [Signatures -> ContentControls]
  BY DEF ContentTypeOK, ContentControls
<1>2. \A k \in Signatures \ {s} : contentControl'[k] = contentControl[k]
  BY DEF ContentTypeOK
<1>3. /\ metadata[s] = Content!NoPreparation
      /\ \A r \in references : SignatureOf[r] # s
      /\ \A w \in Leases : Writing(w) => SignatureOf[contentLease[w].ref] # s
  BY DEF Content!Erasable, Content!Holder, Writing
<1>4. ContentTypeOK'
  BY <1>1 DEF ContentTypeOK
<1>5. WritersOK'
  BY <1>2, <1>3 DEF WritersOK, Writing
<1>6. ErasureHolds'
  BY <1>2, <1>3 DEF ErasureHolds, ContentTypeOK
<1> QED BY <1>4, <1>5, <1>6 DEF RetentionOK, Content!FrozenKeepsReplicas, Content!Settled

(* The preparation of metadata. *)

LEMMA Prepares ==
    ASSUME ContentInv, Content!ContentAssumption, NEW s \in Signatures, NEW p \in Preparations,
           metadata' = [metadata EXCEPT ![s] = p], handle' \in [Owners -> [Signatures -> Nat]],
           references' \in SUBSET references, references \ references' \subseteq Content!Required(s),
           UNCHANGED <<contentControl, guard, contentLease, released, stored, contentFence>>,
           contentControl[s].state = "erased" => p = Content!NoPreparation,
           p.state \in {"verified", "frozen"} => Content!Required(s) \subseteq references' \cup released
    PROVE  ContentInv'
<1> USE DEF ContentInv, Content!ContentAssumption
<1>1. ContentTypeOK'
  BY DEF ContentTypeOK
<1>2. WritersOK'
  BY DEF WritersOK, Writing
<1>3. ErasureHolds'
  BY DEF ErasureHolds, ContentTypeOK
<1>4. RetentionOK'
  BY DEF RetentionOK
<1>5. Content!FrozenKeepsReplicas'
  <2>1. ASSUME NEW k \in Signatures, metadata'[k].state \in {"verified", "frozen"}
        PROVE  Content!Required(k) \subseteq references' \cup released'
    <3>1. CASE k = s
      BY <2>1, <3>1 DEF ContentTypeOK
    <3>2. CASE k # s
      <4>1. Content!Required(k) \subseteq references \cup released
        BY <2>1, <3>2 DEF ContentTypeOK, Content!FrozenKeepsReplicas, Content!Settled
      <4>2. Content!Required(k) \cap Content!Required(s) = {}
        BY <3>2 DEF Content!Required
      <4> QED BY <4>1, <4>2
    <3> QED BY <3>1, <3>2
  <2> QED BY <2>1 DEF Content!FrozenKeepsReplicas, Content!Settled, Content!Required
<1> QED BY <1>1, <1>2, <1>3, <1>4, <1>5

LEMMA ContentReserves ==
    ASSUME ContentInv, Content!ContentAssumption, NEW a \in Owners, NEW s \in Signatures,
           Content!ReserveMetadata(a, s)
    PROVE  ContentInv'
<1> DEFINE p == metadata[s]
<1> DEFINE token == IF p.state = "none" THEN 1 ELSE IF p.owner = a /\ ~p.late THEN p.token ELSE p.token + 1
<1> DEFINE q == IF p.state = "none"
                THEN [state |-> "reserved", version |-> contentControl[s].version, token |-> 1, owner |-> a,
                      late |-> FALSE]
                ELSE [p EXCEPT !.token = token, !.owner = a, !.late = FALSE]
<1>1. /\ contentControl[s].state = "enabled" /\ p.state \in {"none", "reserved", "publishing"}
      /\ metadata' = [metadata EXCEPT ![s] = q] /\ handle' = [handle EXCEPT ![a][s] = token]
      /\ UNCHANGED <<contentControl, guard, contentLease, references, released, stored, contentFence>>
  BY DEF Content!ReserveMetadata, Content!Enabled
<1>2. p \in Preparations /\ contentControl[s].version \in Nat
  BY DEF ContentInv, ContentTypeOK, ContentControls
<1> HIDE DEF p
<1>3. token \in Nat
  BY <1>2 DEF Preparations
<1> HIDE DEF token
<1>4. q \in Preparations /\ q.state \in {"reserved", "publishing"}
  <2>1. CASE p.state = "none"
    BY <1>2, <2>1 DEF Preparations
  <2>2. CASE p.state # "none"
    <3>1. q = [p EXCEPT !.token = token, !.owner = a, !.late = FALSE]
      BY <2>2
    <3> HIDE DEF q
    <3> QED BY <1>1, <1>2, <1>3, <2>2, <3>1 DEF Preparations
  <2> QED BY <2>1, <2>2
<1> HIDE DEF q
<1>5. handle' \in [Owners -> [Signatures -> Nat]]
  BY <1>1, <1>3 DEF ContentInv, ContentTypeOK
<1> QED BY <1>1, <1>4, <1>5, Prepares

LEMMA ContentPrepares ==
    ASSUME ContentInv, Content!ContentAssumption, NEW a \in Owners, NEW s \in Signatures,
           Content!BeginMetadataPublishing(a, s) \/ Content!MarkMetadataVerified(a, s)
    PROVE  ContentInv'
<1>1. PICK p \in Preparations : p = metadata[s]
  BY DEF ContentInv, ContentTypeOK
<1>2. handle \in [Owners -> [Signatures -> Nat]] /\ metadata \in [Signatures -> Preparations]
  BY DEF ContentInv, ContentTypeOK
<1>3. CASE Content!BeginMetadataPublishing(a, s)
  <2>1. PICK q : q = [p EXCEPT !.state = "publishing"]
    OBVIOUS
  <2>2. q \in Preparations /\ q.state = "publishing"
    BY <2>1 DEF Preparations
  <2>3. metadata' = [metadata EXCEPT ![s] = q]
    BY <1>1, <1>2, <1>3, <2>1 DEF Content!BeginMetadataPublishing
  <2> QED BY <1>2, <1>3, <2>2, <2>3, Prepares
          DEF Content!BeginMetadataPublishing, Content!LiveHandle, Content!Enabled
<1>4. CASE Content!MarkMetadataVerified(a, s)
  <2>1. PICK q : q = [p EXCEPT !.state = "verified", !.owner = "none", !.late = FALSE]
    OBVIOUS
  <2>2. q \in Preparations
    BY <2>1 DEF Preparations
  <2>3. metadata' = [metadata EXCEPT ![s] = q]
    BY <1>1, <1>2, <1>4, <2>1 DEF Content!MarkMetadataVerified, Preparations
  <2>4. Content!Required(s) \subseteq references /\ contentControl[s].state = "enabled"
    BY <1>4 DEF Content!MarkMetadataVerified, Content!Replicated, Content!LiveHandle, Content!Enabled
  <2> QED BY <1>2, <1>4, <2>2, <2>3, <2>4, Prepares DEF Content!MarkMetadataVerified
<1> QED BY <1>3, <1>4

LEMMA ContentSettles ==
    ASSUME ContentInv, Content!ContentAssumption, NEW s \in Signatures,
           Content!FreezeMetadata(s) \/ Content!FinishMetadataAbort(s) \/ Content!EraseMetadata(s)
    PROVE  ContentInv'
<1>1. PICK p \in Preparations : p = metadata[s]
  BY DEF ContentInv, ContentTypeOK
<1>2. handle \in [Owners -> [Signatures -> Nat]] /\ metadata \in [Signatures -> Preparations]
  BY DEF ContentInv, ContentTypeOK
<1>3. CASE Content!FreezeMetadata(s)
  <2>1. PICK q : q = [p EXCEPT !.state = "frozen"]
    OBVIOUS
  <2>2. q \in Preparations
    BY <2>1 DEF Preparations
  <2>3. metadata' = [metadata EXCEPT ![s] = q]
    BY <1>1, <1>2, <1>3, <2>1 DEF Content!FreezeMetadata
  <2>4. Content!Required(s) \subseteq references \cup released /\ contentControl[s].state = "enabled"
    BY <1>3 DEF Content!FreezeMetadata, Content!Enabled, ContentInv, Content!FrozenKeepsReplicas, Content!Settled
  <2> QED BY <1>2, <1>3, <2>2, <2>3, <2>4, Prepares DEF Content!FreezeMetadata
<1>4. CASE Content!FinishMetadataAbort(s)
  <2>1. PICK q : q = [p EXCEPT !.state = "aborted", !.owner = "none", !.late = FALSE]
    OBVIOUS
  <2>2. q \in Preparations /\ q.state = "aborted"
    BY <2>1 DEF Preparations
  <2>3. metadata' = [metadata EXCEPT ![s] = q]
    BY <1>1, <1>2, <1>4, <2>1 DEF Content!FinishMetadataAbort, Preparations
  <2>4. contentControl[s].state # "erased"
    BY <1>4 DEF Content!FinishMetadataAbort, ContentInv, ErasureHolds, Content!NoPreparation
  <2> QED BY <1>2, <1>4, <2>2, <2>3, <2>4, Prepares DEF Content!FinishMetadataAbort
<1>5. CASE Content!EraseMetadata(s)
  <2>1. Content!NoPreparation \in Preparations /\ Content!NoPreparation.state = "none"
    BY DEF Content!NoPreparation, Preparations
  <2> QED BY <1>2, <1>5, <2>1, Prepares DEF Content!EraseMetadata
<1> QED BY <1>3, <1>4, <1>5

(* The writing of an object. *)

LEMMA ContentBegins ==
    ASSUME ContentInv, Content!ContentAssumption, NEW w \in Leases, NEW r \in References,
           NEW a \in Owners \cup {"v1"}, Content!BeginWrite(w, r, a)
    PROVE  ContentInv'
<1> DEFINE s == SignatureOf[r]
           o == ObjectOf[r]
<1>1. s \in Signatures /\ o \in Objects
  BY DEF Content!ContentAssumption
<1>2. PICK n, v, p :
         n = guard[o].token + 1 /\ v = contentControl[s].version
         /\ p = IF r \in Pins THEN metadata[s].token ELSE 0
  OBVIOUS
<1>3. n \in Nat /\ v \in Nat /\ p \in Nat
  <2>1. guard[o].token \in Nat /\ contentControl[s].version \in Nat /\ metadata[s].token \in Nat
    BY <1>1 DEF ContentInv, ContentTypeOK, Guards, ContentControls, Preparations
  <2> HIDE DEF s, o
  <2>2. CASE r \in Pins
    BY <1>2, <2>1, <2>2
  <2>3. CASE r \notin Pins
    BY <1>2, <2>1, <2>3
  <2> QED BY <2>2, <2>3
<1>4. PICK g : g = [guard[o] EXCEPT !.token = n]
  OBVIOUS
<1>5. g \in Guards /\ g.state = guard[o].state
  <2>1. PICK k \in Guards : k = guard[o]
    BY <1>1 DEF ContentInv, ContentTypeOK
  <2>2. [k EXCEPT !.token = @ + 1] = g
    BY <1>2, <1>4, <2>1
  <2> QED BY <2>1, <2>2, OneTokenOn
<1>6. guard' = [guard EXCEPT ![o] = g]
  BY <1>1, <1>2, <1>4 DEF Content!BeginWrite, ContentInv, ContentTypeOK
<1>7. PICK l : l = [Content!NoLease EXCEPT !.ref = r, !.token = n, !.state = "writing", !.version = v, !.prepared = p]
  OBVIOUS
<1>8. l \in WriteLeases /\ l.ref = r /\ l.state = "writing"
  BY <1>3, <1>7 DEF WriteLeases, Content!NoLease
<1>9. contentLease' = [contentLease EXCEPT ![w] = l]
  BY <1>2, <1>7 DEF Content!BeginWrite
<1>10. contentControl[s].state = "enabled"
  BY DEF Content!BeginWrite, Content!Publishing, Content!LiveHandle, Content!Enabled
<1>11. UNCHANGED <<contentControl, references, released, stored, metadata, handle, contentFence>>
  BY DEF Content!BeginWrite
<1> HIDE DEF s, o
<1>12. ContentTypeOK'
  BY <1>1, <1>5, <1>6, <1>8, <1>9, <1>11 DEF ContentInv, ContentTypeOK
<1>13. WritersOK'
  BY <1>8, <1>9, <1>10, <1>11 DEF ContentInv, ContentTypeOK, WritersOK, Writing, s
<1>14. RetentionOK'
  BY <1>1, <1>5, <1>6, <1>11 DEF ContentInv, ContentTypeOK, RetentionOK, Content!ContentAssumption
<1> QED BY <1>11, <1>12, <1>13, <1>14 DEF ContentInv, ErasureHolds, Content!FrozenKeepsReplicas, Content!Settled, Content!Required

\* A lease that only moves on, with an object that stays as far as it is stored.
LEMMA LeasesMove ==
    ASSUME ContentInv, Content!ContentAssumption, contentLease' \in [Leases -> WriteLeases],
           \A w \in Leases : contentLease'[w].ref = contentLease[w].ref /\ (Writing(w)' => Writing(w)),
           stored' \in [Objects -> {"missing", "stored", "verified"}],
           \A o \in Objects : stored[o] # "missing" => stored'[o] # "missing",
           UNCHANGED <<contentControl, guard, references, released, metadata, handle, contentFence>>
    PROVE  ContentInv'
<1>1. ContentTypeOK'
  BY DEF ContentInv, ContentTypeOK
<1>2. WritersOK'
  BY DEF ContentInv, WritersOK
<1>3. RetentionOK'
  BY DEF ContentInv, ContentTypeOK, RetentionOK, Content!ContentAssumption
<1> QED BY <1>1, <1>2, <1>3 DEF ContentInv, ErasureHolds, Content!FrozenKeepsReplicas, Content!Settled, Content!Required

LEMMA ContentStores ==
    ASSUME ContentInv, Content!ContentAssumption, NEW w \in Leases,
           Content!PutExternal(w) \/ Content!VerifyExternal(w)
    PROVE  ContentInv'
<1>1. PICK l \in WriteLeases : l = contentLease[w]
  BY DEF ContentInv, ContentTypeOK
<1>2. contentLease \in [Leases -> WriteLeases] /\ stored \in [Objects -> {"missing", "stored", "verified"}]
  BY DEF ContentInv, ContentTypeOK
<1>3. PICK m \in WriteLeases : contentLease' = [contentLease EXCEPT ![w] = m] /\ m.ref = l.ref /\ m.state = l.state
  <2>1. CASE Content!PutExternal(w)
    <3>1. contentLease' = [contentLease EXCEPT ![w] = [l EXCEPT !.put = TRUE]]
      BY <1>1, <1>2, <2>1 DEF Content!PutExternal
    <3> QED BY <3>1, LeaseMoves
  <2>2. CASE Content!VerifyExternal(w)
    <3>1. contentLease' = [contentLease EXCEPT ![w] = [l EXCEPT !.verified = TRUE]]
      BY <1>1, <1>2, <2>2 DEF Content!VerifyExternal
    <3> QED BY <3>1, LeaseMoves
  <2> QED BY <2>1, <2>2
<1>4. /\ stored' \in [Objects -> {"missing", "stored", "verified"}]
      /\ \A o \in Objects : stored[o] # "missing" => stored'[o] # "missing"
  BY <1>2 DEF Content!PutExternal, Content!VerifyExternal
<1>5. /\ contentLease' \in [Leases -> WriteLeases]
      /\ \A v \in Leases : contentLease'[v].ref = contentLease[v].ref /\ (Writing(v)' => Writing(v))
  BY <1>1, <1>2, <1>3 DEF Writing
<1>6. UNCHANGED <<contentControl, guard, references, released, metadata, handle, contentFence>>
  BY DEF Content!PutExternal, Content!VerifyExternal
<1> QED BY <1>4, <1>5, <1>6, LeasesMove

LEMMA ContentEnds ==
    ASSUME ContentInv, Content!ContentAssumption,
           (\E w \in Leases : Content!AbortWrite(w)) \/ Content!ExpireWriterLeases
    PROVE  ContentInv'
<1>1. contentLease \in [Leases -> WriteLeases] /\ stored \in [Objects -> {"missing", "stored", "verified"}]
  BY DEF ContentInv, ContentTypeOK
<1>2. ASSUME NEW v \in Leases, NEW e \in {"aborted", "expired"}
      PROVE  LET l == [contentLease[v] EXCEPT !.state = e] IN
             l \in WriteLeases /\ l.ref = contentLease[v].ref /\ l.state # "writing"
  <2>1. PICK l \in WriteLeases : l = contentLease[v]
    BY <1>1
  <2>2. e \in {"aborted", "expired", "committed"} /\ e # "writing"
    OBVIOUS
  <2>3. /\ [l EXCEPT !.state = e] \in WriteLeases /\ [l EXCEPT !.state = e].ref = l.ref
        /\ [l EXCEPT !.state = e].state = e
    BY <2>2, LeaseEnds
  <2> QED BY <2>1, <2>2, <2>3
<1>3. /\ contentLease' \in [Leases -> WriteLeases]
      /\ \A v \in Leases : contentLease'[v].ref = contentLease[v].ref /\ (Writing(v)' => Writing(v))
  <2>1. CASE \E w \in Leases : Content!AbortWrite(w)
    <3>1. PICK w \in Leases : contentLease' = [contentLease EXCEPT ![w] = [contentLease[w] EXCEPT !.state = "aborted"]]
      BY <1>1, <2>1 DEF Content!AbortWrite
    <3> DEFINE l == [contentLease[w] EXCEPT !.state = "aborted"]
    <3>2. l \in WriteLeases /\ l.ref = contentLease[w].ref /\ l.state # "writing"
      BY <1>2
    <3>3. contentLease' = [contentLease EXCEPT ![w] = l]
      BY <3>1
    <3> HIDE DEF l
    <3> QED BY <1>1, <3>2, <3>3 DEF Writing
  <2>2. CASE Content!ExpireWriterLeases
    <3>1. contentLease' = [v \in Leases |-> IF Writing(v) /\ contentLease[v].late
                                            THEN [contentLease[v] EXCEPT !.state = "expired"] ELSE contentLease[v]]
      BY <2>2 DEF Content!ExpireWriterLeases, Writing
    <3>2. ASSUME NEW v \in Leases
          PROVE  contentLease'[v] \in {contentLease[v], [contentLease[v] EXCEPT !.state = "expired"]}
      BY <3>1
    <3>3. ASSUME NEW v \in Leases
          PROVE  contentLease'[v] \in WriteLeases /\ contentLease'[v].ref = contentLease[v].ref
                 /\ (contentLease'[v].state = "writing" => contentLease[v].state = "writing")
      BY <1>1, <1>2, <3>2
    <3>4. contentLease' = [v \in Leases |-> contentLease'[v]]
      BY <3>1
    <3> QED BY <3>3, <3>4 DEF Writing
  <2> QED BY <2>1, <2>2
<1>4. UNCHANGED <<contentControl, guard, references, released, stored, metadata, handle, contentFence>>
  BY DEF Content!AbortWrite, Content!ExpireWriterLeases
<1> QED BY <1>1, <1>3, <1>4, LeasesMove

LEMMA ContentCommits ==
    ASSUME ContentInv, Content!ContentAssumption, NEW w \in Leases, Content!CommitWrite(w)
    PROVE  ContentInv'
<1>1. contentLease \in [Leases -> WriteLeases] /\ stored \in [Objects -> {"missing", "stored", "verified"}]
      /\ guard \in [Objects -> Guards]
  BY DEF ContentInv, ContentTypeOK
<1>2. PICK e \in {"expired", "committed"} :
         contentLease' = [contentLease EXCEPT ![w] = [contentLease[w] EXCEPT !.state = e]]
  BY <1>1 DEF Content!CommitWrite
<1> DEFINE l == [contentLease[w] EXCEPT !.state = e]
<1>3. l \in WriteLeases /\ l.ref = contentLease[w].ref /\ l.state = e
  <2>1. PICK k \in WriteLeases : k = contentLease[w]
    BY <1>1
  <2>2. e \in {"aborted", "expired", "committed"}
    OBVIOUS
  <2>3. /\ [k EXCEPT !.state = e] \in WriteLeases /\ [k EXCEPT !.state = e].ref = k.ref
        /\ [k EXCEPT !.state = e].state = e
    BY <2>2, LeaseEnds
  <2> QED BY <2>1, <2>3
<1> HIDE DEF l
<1>4. /\ contentLease' \in [Leases -> WriteLeases]
      /\ \A v \in Leases : contentLease'[v].ref = contentLease[v].ref /\ (Writing(v)' => Writing(v))
  <2>1. contentLease' = [contentLease EXCEPT ![w] = l]
    BY <1>2 DEF l
  <2> QED BY <1>1, <1>3, <2>1 DEF Writing
<1>5. UNCHANGED <<contentControl, released, stored, metadata, handle, contentFence>>
  BY DEF Content!CommitWrite
<1>6. CASE contentLease[w].late
  <2>1. UNCHANGED <<references, guard>>
    BY <1>6 DEF Content!CommitWrite
  <2> QED BY <1>1, <1>4, <1>5, <2>1, LeasesMove
<1>7. CASE ~contentLease[w].late
  <2>1. PICK r \in References : r = contentLease[w].ref
    BY DEF ContentInv, WritersOK, Writing, Content!CommitWrite
  <2>2. PICK o \in Objects, s \in Signatures : o = ObjectOf[r] /\ s = SignatureOf[r]
    BY DEF Content!ContentAssumption
  <2>3. /\ contentControl[s].state = "enabled" /\ stored[o] # "missing"
        /\ references' = references \cup {r} /\ guard' = [guard EXCEPT ![o] = [guard[o] EXCEPT !.state = "present"]]
    BY <1>1, <1>7, <2>1, <2>2
       DEF Content!CommitWrite, Content!Authorized, Content!Enabled, Content!Holder, Content!Object
  <2> DEFINE g == [guard[o] EXCEPT !.state = "present"]
  <2>4. g \in Guards /\ g.state = "present"
    <3>1. PICK k \in Guards : k = guard[o]
      BY <1>1
    <3> QED BY <3>1, GuardPresent
  <2>5. guard' = [guard EXCEPT ![o] = g]
    BY <2>3
  <2> HIDE DEF g
  <2>6. ContentTypeOK'
    BY <1>4, <1>5, <2>3, <2>4, <2>5 DEF ContentInv, ContentTypeOK
  <2>7. WritersOK'
    BY <1>4, <1>5 DEF ContentInv, WritersOK
  <2>8. ErasureHolds'
    BY <1>5, <2>2, <2>3 DEF ContentInv, ErasureHolds
  <2>9. RetentionOK'
    <3>1. ASSUME NEW k \in references' PROVE guard'[ObjectOf[k]].state = "present" /\ stored[ObjectOf[k]] # "missing"
      <4>1. CASE ObjectOf[k] = o
        BY <1>1, <2>3, <2>4, <2>5, <4>1
      <4>2. CASE ObjectOf[k] # o
        <5>1. k \in references
          BY <2>2, <2>3, <4>2
        <5> QED BY <1>1, <2>5, <4>2, <5>1 DEF ContentInv, RetentionOK
      <4> QED BY <4>1, <4>2
    <3> QED BY <1>5, <3>1 DEF RetentionOK
  <2>10. Content!FrozenKeepsReplicas'
    BY <1>5, <2>3 DEF ContentInv, Content!FrozenKeepsReplicas, Content!Settled, Content!Required
  <2> QED BY <2>6, <2>7, <2>8, <2>9, <2>10 DEF ContentInv
<1> QED BY <1>6, <1>7

\* A reference dropped by name is accounted for where frozen metadata counted on it.
LEMMA ContentReleases ==
    ASSUME ContentInv, Content!ContentAssumption, NEW r \in References, Content!ReleaseReference(r)
    PROVE  ContentInv'
<1>1. /\ references' = references \ {r} /\ released' \in {released, released \cup {r}}
      /\ UNCHANGED <<contentControl, guard, contentLease, stored, metadata, handle, contentFence>>
  BY DEF Content!ReleaseReference
<1>2. ContentTypeOK' /\ WritersOK' /\ ErasureHolds' /\ RetentionOK'
  BY <1>1 DEF ContentInv, ContentTypeOK, WritersOK, Writing, ErasureHolds, RetentionOK
<1>3. ASSUME NEW s \in Signatures, Content!Settled(s) PROVE Content!Required(s) \subseteq references' \cup released'
  <2>1. Content!Required(s) \subseteq references \cup released
    BY <1>3 DEF ContentInv, Content!FrozenKeepsReplicas
  <2>2. r \in Content!Required(s) => r \in released'
    BY <1>3 DEF Content!ReleaseReference, Content!Required
  <2> QED BY <1>1, <2>1, <2>2
<1>4. Content!FrozenKeepsReplicas'
  BY <1>1, <1>3 DEF Content!FrozenKeepsReplicas, Content!Settled, Content!Required
<1> QED BY <1>2, <1>4 DEF ContentInv

(* The collection of objects, and time. *)

\* An object loses its guard or its bytes only while nothing refers to it.
LEMMA Collecting ==
    ASSUME ContentInv, Content!ContentAssumption, NEW o \in Objects,
           guard' \in [Objects -> Guards], stored' \in [Objects -> {"missing", "stored", "verified"}],
           contentFence' \in [Collectors -> Fences],
           UNCHANGED <<contentControl, contentLease, references, released, metadata, handle>>,
           \A k \in Objects \ {o} : guard'[k] = guard[k] /\ stored'[k] = stored[k],
           Content!Unreferenced(o) \/ (guard'[o].state = guard[o].state /\ stored'[o] = stored[o])
    PROVE  ContentInv'
<1>1. ContentTypeOK'
  BY DEF ContentInv, ContentTypeOK
<1>2. RetentionOK'
  <2>1. ASSUME NEW r \in references, NEW k \in Objects, k = ObjectOf[r]
        PROVE  guard'[k].state = "present" /\ stored'[k] # "missing"
    <3>1. guard[k].state = "present" /\ stored[k] # "missing"
      BY <2>1 DEF ContentInv, RetentionOK
    <3>2. CASE k = o
      BY <2>1, <3>1, <3>2 DEF Content!Unreferenced
    <3>3. CASE k # o
      BY <3>1, <3>3
    <3> QED BY <3>2, <3>3
  <2> QED BY <2>1 DEF RetentionOK, Content!ContentAssumption, ContentInv, ContentTypeOK
<1> QED BY <1>1, <1>2
        DEF ContentInv, WritersOK, Writing, ErasureHolds, Content!FrozenKeepsReplicas, Content!Settled, Content!Required

LEMMA ContentCollects ==
    ASSUME ContentInv, Content!ContentAssumption, NEW g \in Collectors, NEW o \in Objects, Content!Collect(g, o)
    PROVE  ContentInv'
<1>1. /\ guard \in [Objects -> Guards] /\ stored \in [Objects -> {"missing", "stored", "verified"}]
      /\ contentFence \in [Collectors -> Fences]
  BY DEF ContentInv, ContentTypeOK
<1>2. UNCHANGED <<contentControl, contentLease, references, released, metadata, handle>>
  BY DEF Content!Collect, Content!BeginGc, Content!DeleteExternalForGc, Content!CompleteGc
<1>3. PICK k \in Guards : k = guard[o]
  BY <1>1
<1>4. CASE Content!BeginGc(g, o)
  <2>1. PICK n \in Nat : n = k.token + 1
    BY DEF Guards
  <2>2. /\ guard' \in [Objects -> Guards] /\ \A x \in Objects \ {o} : guard'[x] = guard[x]
        /\ Content!Unreferenced(o) \/ guard'[o].state = guard[o].state
    <3>1. CASE UNCHANGED guard
      BY <1>1, <3>1
    <3>2. CASE guard' = [guard EXCEPT ![o] = [state |-> "deletion_pending", token |-> guard[o].token + 1, over |-> FALSE]]
               /\ Content!Unreferenced(o)
      <4>1. [state |-> "deletion_pending", token |-> n, over |-> FALSE] \in Guards
        BY DEF Guards
      <4> QED BY <1>1, <1>3, <2>1, <3>2, <4>1
    <3> QED BY <1>1, <1>4, <3>1, <3>2 DEF Content!BeginGc
  <2>3. contentFence' \in [Collectors -> Fences]
    <3>1. guard'[o].token \in Nat
      BY <2>2 DEF Guards
    <3>2. [object |-> o, token |-> guard'[o].token] \in Fences
      BY <3>1 DEF Fences
    <3> QED BY <1>1, <1>4, <3>2 DEF Content!BeginGc
  <2>4. UNCHANGED stored
    BY <1>4 DEF Content!BeginGc
  <2> QED BY <1>1, <1>2, <2>2, <2>3, <2>4, Collecting
<1>5. CASE Content!DeleteExternalForGc(g, o)
  <2>1. Content!Unreferenced(o) /\ stored' = [stored EXCEPT ![o] = "missing"] /\ UNCHANGED <<guard, contentFence>>
    BY <1>5 DEF Content!DeleteExternalForGc
  <2> QED BY <1>1, <1>2, <2>1, Collecting
<1>6. CASE Content!CompleteGc(g, o)
  <2> DEFINE x == [k EXCEPT !.state = "absent", !.over = FALSE]
  <2>1. x \in Guards
    BY DEF Guards
  <2>2. guard' = [guard EXCEPT ![o] = x]
    BY <1>1, <1>3, <1>6 DEF Content!CompleteGc, Guards
  <2> HIDE DEF x
  <2>3. Content!Unreferenced(o) /\ UNCHANGED <<stored, contentFence>>
    BY <1>6 DEF Content!CompleteGc
  <2> QED BY <1>1, <1>2, <2>1, <2>2, <2>3, Collecting
<1> QED BY <1>4, <1>5, <1>6 DEF Content!Collect

LEMMA ContentSweeps ==
    ASSUME ContentInv, Content!ContentAssumption, NEW o \in Objects, Content!SweepOrphan(o)
    PROVE  ContentInv'
<1>1. /\ guard \in [Objects -> Guards] /\ stored \in [Objects -> {"missing", "stored", "verified"}]
      /\ contentFence \in [Collectors -> Fences]
  BY DEF ContentInv, ContentTypeOK
<1>2. /\ Content!Unreferenced(o) /\ stored' = [stored EXCEPT ![o] = "missing"]
      /\ UNCHANGED <<contentControl, guard, contentLease, references, released, metadata, handle, contentFence>>
  BY DEF Content!SweepOrphan
<1> QED BY <1>1, <1>2, Collecting

LEMMA ContentAges ==
    ASSUME ContentInv, Content!ContentAssumption, Content!TimePasses
    PROVE  ContentInv'
<1>1. UNCHANGED <<contentControl, references, released, stored, handle, contentFence>>
  BY DEF Content!TimePasses
<1>2. /\ guard \in [Objects -> Guards] /\ stored \in [Objects -> {"missing", "stored", "verified"}]
      /\ contentFence \in [Collectors -> Fences] /\ handle \in [Owners -> [Signatures -> Nat]]
      /\ contentLease \in [Leases -> WriteLeases] /\ metadata \in [Signatures -> Preparations]
      /\ references \in SUBSET references
  BY DEF ContentInv, ContentTypeOK
<1>3. CASE \E w \in Leases : contentLease' = [contentLease EXCEPT ![w].late = TRUE] /\ UNCHANGED <<metadata, guard>>
  <2>1. PICK w \in Leases : contentLease' = [contentLease EXCEPT ![w].late = TRUE]
    BY <1>3
  <2>2. PICK l \in WriteLeases : l = contentLease[w]
    BY <1>2
  <2>3. contentLease' = [contentLease EXCEPT ![w] = [l EXCEPT !.late = TRUE]]
    BY <1>2, <2>1, <2>2
  <2>4. PICK m \in WriteLeases : m = [l EXCEPT !.late = TRUE] /\ m.ref = l.ref /\ m.state = l.state
    BY LeaseMoves
  <2>5. /\ contentLease' \in [Leases -> WriteLeases]
        /\ \A v \in Leases : contentLease'[v].ref = contentLease[v].ref /\ (Writing(v)' => Writing(v))
    BY <1>2, <2>2, <2>3, <2>4 DEF Writing
  <2> QED BY <1>1, <1>2, <1>3, <2>5, LeasesMove
<1>4. CASE \E s \in Signatures : /\ metadata[s].owner # "none" /\ metadata' = [metadata EXCEPT ![s].late = TRUE]
                                 /\ UNCHANGED <<contentLease, guard>>
  <2>1. PICK s \in Signatures : metadata[s].owner # "none" /\ metadata' = [metadata EXCEPT ![s].late = TRUE]
    BY <1>4
  <2>2. PICK p \in Preparations : p = metadata[s]
    BY <1>2
  <2> DEFINE q == [p EXCEPT !.late = TRUE]
  <2>3. q \in Preparations /\ q.state = p.state
    BY DEF Preparations
  <2>4. metadata' = [metadata EXCEPT ![s] = q]
    BY <1>2, <2>1, <2>2
  <2> HIDE DEF q
  <2>5. contentControl[s].state # "erased"
    BY <2>1 DEF ContentInv, ErasureHolds, Content!NoPreparation
  <2>6. p.state \in {"verified", "frozen"} => Content!Required(s) \subseteq references \cup released
    BY <2>2 DEF ContentInv, Content!FrozenKeepsReplicas, Content!Settled
  <2> QED BY <1>1, <1>2, <1>4, <2>3, <2>4, <2>5, <2>6, Prepares
<1>5. CASE \E o \in Objects : guard' = [guard EXCEPT ![o].over = TRUE] /\ UNCHANGED <<contentLease, metadata>>
  <2>1. PICK o \in Objects : guard' = [guard EXCEPT ![o].over = TRUE]
    BY <1>5
  <2>2. PICK k \in Guards : k = guard[o]
    BY <1>2
  <2> DEFINE x == [k EXCEPT !.over = TRUE]
  <2>3. x \in Guards /\ x.state = k.state
    BY DEF Guards
  <2>4. guard' = [guard EXCEPT ![o] = x]
    BY <1>2, <2>1, <2>2
  <2> HIDE DEF x
  <2> QED BY <1>1, <1>2, <1>5, <2>2, <2>3, <2>4, Collecting
<1> QED BY <1>3, <1>4, <1>5 DEF Content!TimePasses, Content!Elapse

LEMMA ContentStep ==
    ASSUME ContentInv, Content!ContentAssumption, Content!Next \/ UNCHANGED ContentVars
    PROVE  ContentInv'
<1>1. CASE UNCHANGED ContentVars
  BY <1>1 DEF ContentVars, ContentInv, ContentTypeOK, WritersOK, Writing, ErasureHolds, RetentionOK,
              Content!FrozenKeepsReplicas, Content!Settled, Content!Required
<1>2. CASE \E s \in Signatures :
              \/ Content!RegisterSignature(s) \/ Content!BlockSignature(s) \/ Content!BeginErasure(s)
              \/ Content!FreezeMetadata(s) \/ Content!EraseStep(s)
  BY <1>2, ContentRegisters, ContentRestricted, ContentSettles, ContentErased DEF Content!EraseStep
<1>3. CASE \E a \in Owners, s \in Signatures : Content!Prepare(a, s)
  BY <1>3, ContentReserves, ContentPrepares DEF Content!Prepare
<1>4. CASE \E w \in Leases : \/ Content!Write(w)
                             \/ \E r \in References, a \in Owners \cup {"v1"} : Content!BeginWrite(w, r, a)
  BY <1>4, ContentBegins, ContentStores, ContentCommits, ContentEnds DEF Content!Write
<1>5. CASE \E r \in References : Content!ReleaseReference(r)
  BY <1>5, ContentReleases
<1>6. CASE \E g \in Collectors, o \in Objects : Content!Collect(g, o)
  BY <1>6, ContentCollects
<1>7. CASE \E o \in Objects : Content!SweepOrphan(o)
  BY <1>7, ContentSweeps
<1>8. CASE Content!ExpireWriterLeases \/ Content!TimePasses
  BY <1>8, ContentEnds, ContentAges
<1> QED BY <1>1, <1>2, <1>3, <1>4, <1>5, <1>6, <1>7, <1>8 DEF Content!Next

(* For any signatures, objects, references, writers and collectors: a       *)
(* durable reference keeps its object, frozen metadata keeps its replicas,  *)
(* and nothing is held, or ever will be, for a signature that was erased.   *)
THEOREM ContentAlwaysHolds == PackSpec => []ContentHolds
<1>1. PackInit => ContentInv
  BY ContentInit DEF PackInit
<1>2. ContentInv /\ [PackNext]_All => ContentInv'
  <2> SUFFICES ASSUME ContentInv, [PackNext]_All PROVE ContentInv'
    OBVIOUS
  <2>1. Content!Next \/ UNCHANGED ContentVars
    BY DEF PackNext, All
  <2> QED BY <2>1, ContentStep, ContentIsAssumed
<1>3. ContentInv => ContentHolds
  BY ContentPromises, ContentIsAssumed
<1> QED BY <1>1, <1>2, <1>3, PTL DEF PackSpec

(* Bytes that a deletion waits for are deleted by the holder of its fence,  *)
(* once the grace of this deletion is over.                                 *)
THEOREM GraceAlwaysHonored == PackSpec => GraceHonored
<1>1. ASSUME ContentInv, Content!Next
      PROVE  \A o \in Objects : stored[o] # "missing" /\ stored'[o] = "missing"
                               /\ guard[o].state = "deletion_pending" => guard[o].over
  <2>1. stored \in [Objects -> {"missing", "stored", "verified"}]
    BY <1>1 DEF ContentInv, ContentTypeOK
  <2>2. SUFFICES ASSUME NEW o \in Objects, stored[o] # "missing", stored'[o] = "missing"
                 PROVE  guard[o].state = "deletion_pending" => guard[o].over
    OBVIOUS
  <2>3. ASSUME NEW s \in Signatures, \/ Content!RegisterSignature(s) \/ Content!BlockSignature(s)
               \/ Content!BeginErasure(s) \/ Content!FreezeMetadata(s) \/ Content!EraseStep(s)
        PROVE  UNCHANGED stored
    BY <2>3 DEF Content!RegisterSignature, Content!BlockSignature, Content!BeginErasure, Content!Restrict,
                Content!FreezeMetadata, Content!EraseStep, Content!FinishMetadataAbort, Content!EraseMetadata,
                Content!CompleteErasure
  <2>4. ASSUME NEW a \in Owners, NEW s \in Signatures, Content!Prepare(a, s)
        PROVE  UNCHANGED stored
    BY <2>4 DEF Content!Prepare, Content!ReserveMetadata, Content!BeginMetadataPublishing,
                Content!MarkMetadataVerified
  <2>5. ASSUME NEW w \in Leases, Content!Write(w)
        PROVE  UNCHANGED stored \/ \A k \in Objects : stored[k] # "missing" => stored'[k] # "missing"
    <3>1. CASE Content!PutExternal(w) \/ Content!VerifyExternal(w)
      BY <2>1, <3>1 DEF Content!PutExternal, Content!VerifyExternal
    <3>2. CASE Content!CommitWrite(w) \/ Content!AbortWrite(w)
      BY <3>2 DEF Content!CommitWrite, Content!AbortWrite
    <3> QED BY <2>5, <3>1, <3>2 DEF Content!Write
  <2>6. ASSUME NEW w \in Leases, NEW r \in References, NEW a \in Owners \cup {"v1"}, Content!BeginWrite(w, r, a)
        PROVE  UNCHANGED stored
    BY <2>6 DEF Content!BeginWrite
  <2>7. ASSUME NEW g \in Collectors, NEW k \in Objects, Content!Collect(g, k)
        PROVE  guard[o].state = "deletion_pending" => guard[o].over
    <3>1. CASE Content!DeleteExternalForGc(g, k)
      BY <2>1, <2>2, <3>1 DEF Content!DeleteExternalForGc, Content!HoldsGcFence
    <3>2. CASE Content!BeginGc(g, k) \/ Content!CompleteGc(g, k)
      BY <2>2, <3>2 DEF Content!BeginGc, Content!CompleteGc
    <3> QED BY <2>7, <3>1, <3>2 DEF Content!Collect
  <2>8. ASSUME NEW k \in Objects, Content!SweepOrphan(k)
        PROVE  guard[o].state = "deletion_pending" => guard[o].over
    BY <2>1, <2>2, <2>8 DEF Content!SweepOrphan, Content!Sweepable
  <2>9. ASSUME Content!ExpireWriterLeases \/ Content!TimePasses \/ \E r \in References : Content!ReleaseReference(r)
        PROVE  UNCHANGED stored
    BY <2>9 DEF Content!ExpireWriterLeases, Content!TimePasses, Content!ReleaseReference
  <2> QED BY <1>1, <2>2, <2>3, <2>4, <2>5, <2>6, <2>7, <2>8, <2>9 DEF Content!Next
<1>2. ASSUME ContentInv, [PackNext]_All
      PROVE  [\A o \in Objects : stored[o] # "missing" /\ stored'[o] = "missing"
                                 /\ guard[o].state = "deletion_pending" => guard[o].over]_(Content!vars)
  <2>1. Content!Next \/ UNCHANGED ContentVars
    BY <1>2 DEF PackNext, All
  <2> QED BY <1>1, <1>2, <2>1 DEF ContentVars, Content!vars
<1>3. PackInit => ContentInv
  BY ContentInit DEF PackInit
<1>4. ContentInv /\ [PackNext]_All => ContentInv'
  <2> SUFFICES ASSUME ContentInv, [PackNext]_All PROVE ContentInv'
    OBVIOUS
  <2>1. Content!Next \/ UNCHANGED ContentVars
    BY DEF PackNext, All
  <2> QED BY <2>1, ContentStep, ContentIsAssumed
<1> QED BY <1>2, <1>3, <1>4, PTL DEF PackSpec, GraceHonored, Content!GraceHonored
=================================================================================
