---------------------------- MODULE ContentTables ----------------------------
(***************************************************************************)
(* The retention half of migration 002_v2_minting.sql for one stored       *)
(* object, whose bytes several signatures may share: the object's guard,   *)
(* the write leases and references on it, and the metadata preparation and *)
(* the signature rows that own them.  A writer may try any statement; the  *)
(* triggers decide, the deferred ones when the statement's transaction     *)
(* commits.  Times are the set of deadlines that have passed.  The chain   *)
(* evidence erasure demands as well is AuthorityTables.                    *)
(***************************************************************************)
EXTENDS Integers, FiniteSets

CONSTANTS
    Signatures, Leases, Workers,         \* rows, and lease_owner of token_metadata
    Kinds,                               \* "v1": the claim's artifact, "v2": a metadata pin
    MaxVersion, MaxFence, MaxPreparation, \* bounds: control versions, both fences
    NoRow, NoWorker                      \* a row, a lease_owner that is NULL

VARIABLES
    guard,       \* content_object_guards, NoRow or [state, fence]
    graceOver,   \* its delete_after has passed
    lease,       \* content_object_write_leases
    lapsed,      \* those whose expires_at has passed
    references,  \* content_object_references
    control,     \* signature_mint_controls
    claimed,     \* signatures with a V1 row
    metadata,    \* token_metadata, NoRow or [state, version, worker, fence]
    late,        \* signatures whose metadata lease_expires_at has passed
    held         \* history: the workers of each preparation fence

object == <<guard, graceOver>>
writers == <<lease, lapsed>>
owners == <<control, claimed>>
preparation == <<metadata, late, held>>
vars == <<object, writers, references, owners, preparation>>

\* Who may write: V1 leases carry no metadata fence.
Authorities ==
    [kind : Kinds \cap {"v1"}, signature : Signatures, version : 1..MaxVersion,
     preparation : {0}, worker : {NoWorker}]
    \cup [kind : Kinds \ {"v1"}, signature : Signatures, version : 1..MaxVersion,
          preparation : 1..MaxPreparation, worker : Workers]

\* lease_owner and lease_expires_at come together; a frozen row has neither.
MetadataRows ==
    [state : {"frozen"}, version : 1..MaxVersion, worker : {NoWorker}, fence : 0..MaxPreparation]
    \cup [state : {"reserved", "publishing", "verified", "aborting", "aborted"},
          version : 1..MaxVersion, worker : Workers \cup {NoWorker}, fence : 0..MaxPreparation]

\* What the values of the constants must satisfy.
ContentAssumption ==
    /\ Kinds \subseteq {"v1", "v2"} /\ {MaxVersion, MaxPreparation} \subseteq Nat /\ IsFiniteSet(Signatures)
    /\ NoRow \notin [state : {"absent", "present", "deletion_pending"}, fence : Nat] \cup MetadataRows

Unstored ==
    /\ guard = NoRow
    /\ lease = [l \in Leases |-> NoRow] /\ references = {}

\* The migration finds the object stored, and for each signature in turn
\* advances its fence, commits a lease and attaches the reference.
Backfilled ==
    /\ "v1" \in Kinds
    /\ guard = [state |-> "present", fence |-> 1 + Cardinality(Signatures)]
    /\ \E turn \in [Signatures -> 2..MaxFence], of \in [Signatures -> Leases] :
         /\ {turn[s] : s \in Signatures} = 2..guard.fence
         /\ \A s, t \in Signatures : of[s] = of[t] => s = t
         /\ LET Claimant(s) == [kind |-> "v1", signature |-> s, version |-> 1,
                               preparation |-> 0, worker |-> NoWorker]
            IN /\ lease = [l \in Leases |->
                    IF l \in {of[s] : s \in Signatures}
                    THEN LET s == CHOOSE s \in Signatures : of[s] = l IN
                           [authority |-> Claimant(s), fence |-> turn[s], state |-> "committed"]
                    ELSE NoRow]
               /\ references = {[authority |-> Claimant(s), lease |-> of[s]] : s \in Signatures}

Init ==
    /\ Unstored \/ Backfilled
    /\ graceOver = FALSE /\ lapsed = {}
    /\ control = [s \in Signatures |-> [state |-> "enabled", version |-> 1]]
    /\ claimed = Signatures
    /\ metadata = [s \in Signatures |-> NoRow] /\ late = {}
    /\ held = [s \in Signatures |-> {}]

Enabled(s, version) == control[s].state = "enabled" /\ control[s].version = version
Writing == {l \in Leases : lease[l] # NoRow /\ lease[l].state = "writing"}
LiveWriters == Writing \ lapsed

------------------------------------------------------------------------------
(* The object.                                                             *)

GuardTransition(from, to) ==
    \/ from = to
    \/ from = "absent" /\ to \in {"present", "deletion_pending"}
    \/ from = "present" /\ to = "deletion_pending"
    \/ from = "deletion_pending" /\ to = "absent"

BadUnused == LiveWriters = {}  (* slip: references are left to the collector *)

Unused == references = {} /\ LiveWriters = {}

ObjectGuard(old, new) ==
    /\ new.fence >= old.fence /\ GuardTransition(old.state, new.state)
    /\ old.state # "deletion_pending" /\ new.state = "deletion_pending" =>
         new.fence > old.fence /\ Unused
    /\ old.state = "deletion_pending" /\ new.state = "absent" => graceOver /\ Unused

WriteGuard ==
    /\ \E new \in [state : {"absent", "present", "deletion_pending"}, fence : 0..MaxFence] :
         /\ guard # NoRow => ObjectGuard(guard, new)
         /\ guard' = new
         /\ graceOver' = (guard # NoRow /\ guard.state = new.state /\ graceOver)
    /\ UNCHANGED <<writers, references, owners, preparation>>

\* No trigger sees the DELETE; leases and references forbid it (ON DELETE RESTRICT).
DeleteGuard ==
    /\ guard # NoRow /\ references = {} /\ \A l \in Leases : lease[l] = NoRow
    /\ guard' = NoRow /\ graceOver' = FALSE
    /\ UNCHANGED <<writers, references, owners, preparation>>

GraceElapses ==
    /\ guard # NoRow /\ guard.state = "deletion_pending" /\ ~ graceOver
    /\ graceOver' = TRUE
    /\ UNCHANGED <<guard, writers, references, owners, preparation>>

------------------------------------------------------------------------------
(* Writers and references.                                                 *)

\* The signature row names the object, or the live preparation does.
OwnerWrites(a) ==
    /\ Enabled(a.signature, a.version)
    /\ IF a.kind = "v1" THEN a.signature \in claimed
       ELSE /\ metadata[a.signature] =
                 [state |-> "publishing", version |-> a.version,
                  worker |-> a.worker, fence |-> a.preparation]
            /\ a.signature \notin late

LeaseTransition(from, to) ==
    from = to \/ (from = "writing" /\ to \in {"committed", "aborted", "expired"})

\* Of a row that is there only the state may change.
LeaseRows(old) ==
    IF old = NoRow THEN [authority : Authorities, fence : 1..MaxFence, state : {"writing"}]
    ELSE {[old EXCEPT !.state = to] : to \in {"writing", "committed", "aborted", "expired"}}

LeaseGuard(l, old, new) ==
    /\ old # NoRow => LeaseTransition(old.state, new.state)
    /\ new.state \in {"writing", "committed"} =>
         /\ l \notin lapsed /\ OwnerWrites(new.authority)
         /\ guard # NoRow /\ guard.state # "deletion_pending" /\ guard.fence = new.fence
         /\ new.state = "committed" => guard.state = "present"

WriteLease ==
    /\ \E l \in Leases : \E new \in LeaseRows(lease[l]) :
         /\ lease[l] # new /\ guard # NoRow
         /\ LeaseGuard(l, lease[l], new)
         /\ \A k \in Leases \ {l} : lease[k] # NoRow => lease[k].fence # new.fence
         /\ lease' = [lease EXCEPT ![l] = new]
    /\ UNCHANGED <<object, lapsed, references, owners, preparation>>

\* Only a reference to it keeps the row.
DeleteLease ==
    /\ \E l \in Leases :
         /\ lease[l] # NoRow /\ \A r \in references : r.lease # l
         /\ lease' = [lease EXCEPT ![l] = NoRow] /\ lapsed' = lapsed \ {l}
    /\ UNCHANGED <<object, references, owners, preparation>>

LeaseLapses ==
    /\ \E l \in LiveWriters : lapsed' = lapsed \cup {l}
    /\ UNCHANGED <<object, lease, references, owners, preparation>>

\* The reference is written while its owner may still write (OwnerWrites), and
\* commits under the exact writer's committed lease and the object's fence.
ReferenceCommit(ref) ==
    /\ lease[ref.lease] # NoRow
    /\ lease[ref.lease].authority = ref.authority /\ lease[ref.lease].state = "committed"
    /\ guard.state = "present" /\ guard.fence = lease[ref.lease].fence

Attach ==
    /\ \E a \in Authorities, l \in Leases :
         LET ref == [authority |-> a, lease |-> l] IN
           /\ OwnerWrites(a) /\ ReferenceCommit(ref)
           /\ \A r \in references :
                r.authority.kind # a.kind \/ r.authority.signature # a.signature
           /\ references' = references \cup {ref}
    /\ UNCHANGED <<object, writers, owners, preparation>>

Detach ==
    /\ \E r \in references : references' = references \ {r}
    /\ UNCHANGED <<object, writers, owners, preparation>>

------------------------------------------------------------------------------
(* Metadata preparation.                                                   *)

MetadataTransition(from, to) ==
    \/ from = to
    \/ from = "reserved" /\ to \in {"publishing", "aborting"}
    \/ from = "publishing" /\ to \in {"verified", "aborting"}
    \/ from = "verified" /\ to \in {"frozen", "aborting"}
    \/ from = "aborting" /\ to = "aborted"

Cleanup(state) == state \in {"aborting", "aborted"}

MetadataGuard(s, old, new) ==
    /\ ~ Cleanup(new.state) => Enabled(s, new.version)
    /\ new.version = old.version /\ old.state # "frozen" /\ new.fence >= old.fence
    /\ MetadataTransition(old.state, new.state)
    /\ new.worker \notin {old.worker, NoWorker} => new.fence > old.fence
    /\ old.worker # NoWorker /\ s \in late /\ ~ Cleanup(new.state) =>
         new.fence > old.fence /\ new.worker # NoWorker

WriteMetadata ==
    /\ "v2" \in Kinds
    /\ \E s \in claimed, new \in MetadataRows :
         /\ IF metadata[s] = NoRow THEN new.state = "reserved" /\ Enabled(s, new.version)
            ELSE MetadataGuard(s, metadata[s], new)
         /\ metadata' = [metadata EXCEPT ![s] = new]
         /\ \/ late' = late \ {s}
            \/ metadata[s] # NoRow /\ Cleanup(new.state) /\ late' = late
         /\ held' = [held EXCEPT ![s] = @ \cup {<<new.version, new.fence, new.worker>>}]
    /\ UNCHANGED <<object, writers, references, owners>>

MetadataLapses ==
    /\ \E s \in Signatures \ late :
         metadata[s] # NoRow /\ metadata[s].worker # NoWorker /\ late' = late \cup {s}
    /\ UNCHANGED <<object, writers, references, owners, metadata, held>>

ReferencesOf(s, kind) == {r \in references : r.authority.signature = s /\ r.authority.kind = kind}

DeleteMetadata ==
    /\ \E s \in Signatures :
         /\ metadata[s] # NoRow /\ control[s].state = "erasure_pending"
         /\ metadata[s].state \in {"aborted", "frozen"} /\ metadata[s].worker = NoWorker
         /\ ReferencesOf(s, "v2") = {} /\ Writing = {}
         /\ metadata' = [metadata EXCEPT ![s] = NoRow] /\ late' = late \ {s}
    /\ UNCHANGED <<object, writers, references, owners, held>>

------------------------------------------------------------------------------
(* Signatures and their controls.                                          *)

WriteControl ==
    /\ \E s \in Signatures, state \in {"enabled", "blocked", "erasure_pending", "erased"} :
         /\ control[s].state \notin {"erased", state} /\ control[s].version < MaxVersion
         /\ control[s].state = "erasure_pending" => state \in {"blocked", "erased"}
         /\ state = "erased" => s \notin claimed
         /\ control' = [control EXCEPT ![s] = [state |-> state, version |-> @.version + 1]]
    /\ UNCHANGED <<object, writers, references, claimed, preparation>>

\* token_metadata refers to the signature row (ON DELETE RESTRICT).
EraseSignature ==
    /\ \E s \in claimed :
         /\ control[s].state = "erasure_pending" /\ metadata[s] = NoRow
         /\ ReferencesOf(s, "v1") = {} /\ LiveWriters = {}
         /\ claimed' = claimed \ {s}
    /\ UNCHANGED <<object, writers, references, control, preparation>>

WithdrawClaim ==
    /\ \E s \in claimed :
         /\ control[s].state = "enabled" /\ control[s].version < MaxVersion
         /\ metadata[s] = NoRow
         /\ \A l \in LiveWriters : lease[l].authority.signature # s
         /\ \A r \in references : r.authority.signature # s
         /\ claimed' = claimed \ {s}
         /\ control' = [control EXCEPT ![s].version = @ + 1]
    /\ UNCHANGED <<object, writers, references, preparation>>

Claim ==
    /\ \E s \in Signatures \ claimed : claimed' = claimed \cup {s}
    /\ UNCHANGED <<object, writers, references, control, preparation>>

Next ==
    \/ WriteGuard \/ DeleteGuard \/ GraceElapses
    \/ WriteLease \/ DeleteLease \/ LeaseLapses \/ Attach \/ Detach
    \/ WriteMetadata \/ MetadataLapses \/ DeleteMetadata
    \/ WriteControl \/ EraseSignature \/ WithdrawClaim \/ Claim

Spec == Init /\ [][Next]_vars

------------------------------------------------------------------------------
\* Shared bytes stay while any signature refers to them.
ReferencedIsPresent == references # {} => guard # NoRow /\ guard.state = "present"

\* No deletion is pending, or done, under a writer whose lease still runs.
WriterKeepsObject ==
    LiveWriters # {} => guard # NoRow /\ guard.state # "deletion_pending"

\* No reference outlives its owner: the claim of a V1 reference exists, and the
\* metadata of a V2 reference exists and is of the generation that attached it.
ReferencesHaveOwners ==
    \A r \in references :
        LET a == r.authority IN
        IF a.kind = "v1" THEN a.signature \in claimed
        ELSE metadata[a.signature] # NoRow /\ metadata[a.signature].version = a.version

\* A preparation fence names one worker for ever, across cleanup, erasure and a
\* new reservation: what it authorizes cannot be confused with another's.
FenceNamesOneWorker ==
    \A s \in Signatures : \A h, k \in held[s] :
        h[1] = k[1] /\ h[2] = k[2] /\ h[3] # NoWorker /\ k[3] # NoWorker => h[3] = k[3]

==============================================================================
