--------------------------- MODULE ContentCoordinator ---------------------------
(***************************************************************************)
(* The content coordinator (v2/content/memoryContentCoordinator.ts): write *)
(* leases and references of content-addressed objects, the preparation of  *)
(* a signature's metadata, the garbage collection of unreferenced objects, *)
(* and the erasure of a signature.                                         *)
(*                                                                         *)
(* Each method is one step, as the code stands for one transaction each;   *)
(* what a worker does between them, the external put among it, happens at  *)
(* any time, also after the worker lost its lease.  Deadlines are flags.   *)
(* Left out: the bytes of an object, which a content-addressed key fixes;  *)
(* the identities of references are those of one owner each.               *)
(***************************************************************************)
EXTENDS Integers, FiniteSets

CONSTANTS
    Signatures, Objects, References, Leases, Owners, Collectors,
    SignatureOf, ObjectOf,  \* [References -> Signatures], [References -> Objects]
    Pins,                   \* the references of metadata; the others are artifacts of v1
    MaxToken,               \* [Objects -> Nat], bound of the model: fencing tokens of a guard
    MaxPrepared             \* bound of the model: fencing tokens of a preparation

\* Each reference is of one object, for one signature.
ContentAssumption ==
    /\ SignatureOf \in [References -> Signatures] /\ ObjectOf \in [References -> Objects]
    /\ Pins \subseteq References /\ MaxToken \in [Objects -> Nat] /\ MaxPrepared \in Nat

VARIABLES
    control,    \* [Signatures -> [state, version]]
    guard,      \* [Objects -> [state, token, over]], over when the grace of a deletion is over
    lease,      \* [Leases -> write lease]
    references, \* the durable references
    released,   \* history: the pins of verified or frozen metadata that were released by name
    stored,     \* [Objects -> "missing", "stored", "verified"]
    metadata,   \* [Signatures -> the preparation, or NoPreparation]
    handle,     \* [Owners -> [Signatures -> the fencing token it was given]]
    fence       \* [Collectors -> the deletion fence it was given]
vars == <<control, guard, lease, references, released, stored, metadata, handle, fence>>

NoLease == [ref |-> "none", token |-> 0, state |-> "none", late |-> FALSE, version |-> 0, prepared |-> 0,
            put |-> FALSE, verified |-> FALSE]
NoPreparation == [state |-> "none", version |-> 0, token |-> 0, owner |-> "none", late |-> FALSE]
NoFence == [object |-> "none", token |-> 0]
Required(s) == {r \in Pins : SignatureOf[r] = s}

Init ==
    /\ control = [s \in Signatures |-> [state |-> "missing", version |-> 0]]
    /\ guard = [o \in Objects |-> [state |-> "absent", token |-> 0, over |-> FALSE]]
    /\ lease = [w \in Leases |-> NoLease] /\ references = {} /\ released = {}
    /\ stored = [o \in Objects |-> "missing"]
    /\ metadata = [s \in Signatures |-> NoPreparation]
    /\ handle = [a \in Owners |-> [s \in Signatures |-> 0]]
    /\ fence = [g \in Collectors |-> NoFence]

Enabled(s) == control[s].state = "enabled"
Object(w) == ObjectOf[lease[w].ref]
Holder(w) == SignatureOf[lease[w].ref]

-----------------------------------------------------------------------------
\* Signatures.

RegisterSignature(s) ==
    /\ control[s].state = "missing"
    /\ control' = [control EXCEPT ![s] = [state |-> "enabled", version |-> 1]]
    /\ UNCHANGED <<guard, lease, references, released, stored, metadata, handle, fence>>

Aborting(p) ==
    IF p.state \in {"reserved", "publishing", "verified"}
    THEN [p EXCEPT !.state = "aborting", !.token = @ + 1, !.owner = "none", !.late = FALSE] ELSE p
Fenced(s) == {w \in Leases : lease[w].state = "writing" /\ Holder(w) = s}
FenceSignatureWorkers(s) ==
    /\ metadata' = [metadata EXCEPT ![s] = Aborting(@)]
    /\ lease' = [w \in Leases |-> IF w \in Fenced(s) THEN [lease[w] EXCEPT !.state = "aborted"] ELSE lease[w]]
    /\ guard' = [o \in Objects |->
                    IF guard[o].state # "deletion_pending"
                       /\ \E w \in Fenced(s) : Object(w) = o /\ lease[w].token = guard[o].token
                    THEN [guard[o] EXCEPT !.token = @ + 1] ELSE guard[o]]
Restrict(s, from, to) ==
    /\ control[s].state \in from
    /\ control' = [control EXCEPT ![s] = [state |-> to, version |-> @.version + 1]]
    /\ FenceSignatureWorkers(s)
    /\ UNCHANGED <<references, released, stored, handle, fence>>
BlockSignature(s) == Restrict(s, {"enabled"}, "blocked")
BeginErasure(s) == Restrict(s, {"enabled", "blocked"}, "erasure_pending")
Erasable(s) ==
    /\ metadata[s] = NoPreparation
    /\ \A r \in references : SignatureOf[r] # s
    /\ \A w \in Leases : lease[w].state = "writing" => Holder(w) # s
CompleteErasure(s) ==
    /\ control[s].state = "erasure_pending" /\ Erasable(s)
    /\ control' = [control EXCEPT ![s] = [state |-> "erased", version |-> @.version + 1]]
    /\ UNCHANGED <<guard, lease, references, released, stored, metadata, handle, fence>>

-----------------------------------------------------------------------------
\* The preparation of metadata.

ReserveMetadata(a, s) ==
    LET p == metadata[s]
        token == IF p.state = "none" THEN 1
                 ELSE IF p.owner = a /\ ~p.late THEN p.token ELSE p.token + 1 IN
    /\ Enabled(s) /\ Required(s) # {} /\ token <= MaxPrepared
    /\ p.state \in {"none", "reserved", "publishing"} /\ (p.state = "none" \/ p.late \/ p.owner = a)
    /\ metadata' = [metadata EXCEPT ![s] =
                       IF p.state = "none"
                       THEN [state |-> "reserved", version |-> control[s].version, token |-> 1, owner |-> a,
                             late |-> FALSE]
                       ELSE [p EXCEPT !.token = token, !.owner = a, !.late = FALSE]]
    /\ handle' = [handle EXCEPT ![a][s] = token]
    /\ UNCHANGED <<control, guard, lease, references, released, stored, fence>>
LiveHandle(a, s) ==
    LET p == metadata[s] IN
    /\ p.state # "none" /\ p.owner = a /\ p.token = handle[a][s] /\ ~p.late
    /\ Enabled(s) /\ control[s].version = p.version
BeginMetadataPublishing(a, s) ==
    /\ LiveHandle(a, s) /\ metadata[s].state = "reserved"
    /\ metadata' = [metadata EXCEPT ![s].state = "publishing"]
    /\ UNCHANGED <<control, guard, lease, references, released, stored, handle, fence>>
Replicated(s) ==
    \A r \in Required(s) : r \in references /\ guard[ObjectOf[r]].state = "present" /\ stored[ObjectOf[r]] = "verified"
MarkMetadataVerified(a, s) ==
    /\ LiveHandle(a, s) /\ metadata[s].state = "publishing" /\ Replicated(s)
    /\ metadata' = [metadata EXCEPT ![s].state = "verified", ![s].owner = "none", ![s].late = FALSE]
    /\ UNCHANGED <<control, guard, lease, references, released, stored, handle, fence>>
FreezeMetadata(s) ==
    /\ metadata[s].state = "verified" /\ Enabled(s) /\ metadata[s].version = control[s].version
    /\ metadata' = [metadata EXCEPT ![s].state = "frozen"]
    /\ UNCHANGED <<control, guard, lease, references, released, stored, handle, fence>>
FinishMetadataAbort(s) ==
    /\ metadata[s].state = "aborting"
    /\ references' = references \ Required(s)
    /\ metadata' = [metadata EXCEPT ![s].state = "aborted", ![s].owner = "none", ![s].late = FALSE]
    /\ UNCHANGED <<control, guard, lease, released, stored, handle, fence>>
EraseMetadata(s) ==
    /\ control[s].state = "erasure_pending" /\ metadata[s].state \in {"aborted", "frozen"}
    /\ references' = references \ Required(s)
    /\ metadata' = [metadata EXCEPT ![s] = NoPreparation]
    /\ UNCHANGED <<control, guard, lease, released, stored, handle, fence>>

-----------------------------------------------------------------------------
\* Writing an object.

Publishing(a, r) ==
    /\ a \in Owners /\ LiveHandle(a, SignatureOf[r]) /\ metadata[SignatureOf[r]].state = "publishing"
\* a is the metadata worker, or "v1" for the writer of an artifact.
BeginWrite(w, r, a) ==
    LET s == SignatureOf[r]  o == ObjectOf[r] IN
    /\ lease[w] = NoLease /\ guard[o].token < MaxToken[o]
    /\ IF r \in Pins THEN Publishing(a, r) ELSE a = "v1" /\ Enabled(s)
    /\ guard[o].state # "deletion_pending"
    /\ guard' = [guard EXCEPT ![o].token = @ + 1]
    /\ lease' = [lease EXCEPT ![w] = [NoLease EXCEPT !.ref = r, !.token = guard[o].token + 1, !.state = "writing",
                    !.version = control[s].version, !.prepared = IF r \in Pins THEN metadata[s].token ELSE 0]]
    /\ UNCHANGED <<control, references, released, stored, metadata, handle, fence>>
\* The remote request may have started before the lease was lost.
PutExternal(w) ==
    /\ lease[w] # NoLease /\ (~lease[w].put \/ stored[Object(w)] = "missing")
    /\ stored' = [stored EXCEPT ![Object(w)] = IF @ = "missing" THEN "stored" ELSE @]
    /\ lease' = [lease EXCEPT ![w].put = TRUE]
    /\ UNCHANGED <<control, guard, references, released, metadata, handle, fence>>
VerifyExternal(w) ==
    /\ lease[w].put /\ stored[Object(w)] # "missing"
    /\ ~(lease[w].verified /\ stored[Object(w)] = "verified")
    /\ lease' = [lease EXCEPT ![w].verified = TRUE]
    /\ stored' = [stored EXCEPT ![Object(w)] = "verified"]
    /\ UNCHANGED <<control, guard, references, released, metadata, handle, fence>>
Authorized(w) ==
    LET s == Holder(w) IN
    /\ Enabled(s) /\ control[s].version = lease[w].version
    /\ lease[w].ref \in Pins => metadata[s].state = "publishing" /\ metadata[s].token = lease[w].prepared
CommitWrite(w) ==
    LET o == Object(w) IN
    /\ lease[w].state = "writing"
    /\ IF lease[w].late
       THEN lease' = [lease EXCEPT ![w].state = "expired"] /\ UNCHANGED <<references, guard>>
       ELSE /\ Authorized(w)
            /\ guard[o].state # "deletion_pending" /\ guard[o].token = lease[w].token
            /\ stored[o] # "missing" /\ lease[w].verified
            /\ references' = references \union {lease[w].ref}
            /\ lease' = [lease EXCEPT ![w].state = "committed"]
            /\ guard' = [guard EXCEPT ![o].state = "present"]
    /\ UNCHANGED <<control, released, stored, metadata, handle, fence>>
AbortWrite(w) ==
    /\ lease[w].state = "writing"
    /\ lease' = [lease EXCEPT ![w].state = "aborted"]
    /\ UNCHANGED <<control, guard, references, released, stored, metadata, handle, fence>>
ExpireWriterLeases ==
    /\ \E w \in Leases : lease[w].state = "writing" /\ lease[w].late
    /\ lease' = [w \in Leases |-> IF lease[w].state = "writing" /\ lease[w].late
                                  THEN [lease[w] EXCEPT !.state = "expired"] ELSE lease[w]]
    /\ UNCHANGED <<control, guard, references, released, stored, metadata, handle, fence>>
\* Whoever names a reference drops it, whatever still counts on it.
Settled(s) == metadata[s].state \in {"verified", "frozen"}
ReleaseReference(r) ==
    /\ r \in references /\ references' = references \ {r}
    /\ released' = IF r \in Required(SignatureOf[r]) /\ Settled(SignatureOf[r]) THEN released \cup {r} ELSE released
    /\ UNCHANGED <<control, guard, lease, stored, metadata, handle, fence>>

-----------------------------------------------------------------------------
\* The collection of objects.

BadUnreferenced(o) == \A r \in references \ Pins : ObjectOf[r] # o      \* slip: pins are not counted
Unreferenced(o) == \A r \in references : ObjectOf[r] # o
LiveWriter(o) == \E w \in Leases : lease[w].state = "writing" /\ ~lease[w].late /\ Object(w) = o
BeginGc(g, o) ==
    /\ fence[g] # [object |-> o, token |-> guard[o].token]
    /\ \/ guard[o].state = "deletion_pending" /\ UNCHANGED guard
       \/ /\ guard[o].state # "deletion_pending" /\ guard[o].token < MaxToken[o]
          /\ Unreferenced(o) /\ ~LiveWriter(o)
          /\ guard' = [guard EXCEPT ![o] = [state |-> "deletion_pending", token |-> @.token + 1, over |-> FALSE]]
    /\ fence' = [fence EXCEPT ![g] = [object |-> o, token |-> guard'[o].token]]
    /\ UNCHANGED <<control, lease, references, released, stored, metadata, handle>>
BadHoldsGcFence(g, o) ==    \* slip: any fence of the object will do, and its own grace
    fence[g].object = o /\ guard[o].state = "deletion_pending"
    /\ (fence[g].token = guard[o].token => guard[o].over)
HoldsGcFence(g, o) ==
    /\ fence[g].object = o /\ guard[o].state = "deletion_pending" /\ fence[g].token = guard[o].token
    /\ guard[o].over
DeleteExternalForGc(g, o) ==
    /\ HoldsGcFence(g, o) /\ Unreferenced(o) /\ ~LiveWriter(o)
    /\ stored[o] # "missing" /\ stored' = [stored EXCEPT ![o] = "missing"]
    /\ UNCHANGED <<control, guard, lease, references, released, metadata, handle, fence>>
CompleteGc(g, o) ==
    /\ HoldsGcFence(g, o) /\ Unreferenced(o) /\ ~LiveWriter(o) /\ stored[o] = "missing"
    /\ guard' = [guard EXCEPT ![o].state = "absent", ![o].over = FALSE]
    /\ UNCHANGED <<control, lease, references, released, stored, metadata, handle, fence>>
Sweepable(o) == guard[o].state = "absent"
SweepOrphan(o) ==
    /\ Sweepable(o) /\ Unreferenced(o) /\ ~LiveWriter(o)
    /\ stored[o] # "missing" /\ stored' = [stored EXCEPT ![o] = "missing"]
    /\ UNCHANGED <<control, guard, lease, references, released, metadata, handle, fence>>

-----------------------------------------------------------------------------
\* Deadlines pass.

Elapse ==
    \/ \E w \in Leases :
          /\ lease[w].state = "writing" /\ ~lease[w].late /\ lease' = [lease EXCEPT ![w].late = TRUE]
          /\ UNCHANGED <<metadata, guard>>
    \/ \E s \in Signatures :
          /\ metadata[s].owner # "none" /\ ~metadata[s].late /\ metadata' = [metadata EXCEPT ![s].late = TRUE]
          /\ UNCHANGED <<lease, guard>>
    \/ \E o \in Objects :
          /\ guard[o].state = "deletion_pending" /\ ~guard[o].over /\ guard' = [guard EXCEPT ![o].over = TRUE]
          /\ UNCHANGED <<lease, metadata>>
TimePasses == Elapse /\ UNCHANGED <<control, references, released, stored, handle, fence>>

Prepare(a, s) == ReserveMetadata(a, s) \/ BeginMetadataPublishing(a, s) \/ MarkMetadataVerified(a, s)
Write(w) == PutExternal(w) \/ VerifyExternal(w) \/ CommitWrite(w) \/ AbortWrite(w)
Collect(g, o) == BeginGc(g, o) \/ DeleteExternalForGc(g, o) \/ CompleteGc(g, o)
EraseStep(s) == FinishMetadataAbort(s) \/ EraseMetadata(s) \/ CompleteErasure(s)
Next ==
    \/ \E s \in Signatures :
          RegisterSignature(s) \/ BlockSignature(s) \/ BeginErasure(s) \/ FreezeMetadata(s) \/ EraseStep(s)
    \/ \E a \in Owners, s \in Signatures : Prepare(a, s)
    \/ \E w \in Leases : Write(w) \/ \E r \in References, a \in Owners \union {"v1"} : BeginWrite(w, r, a)
    \/ \E r \in References : ReleaseReference(r)
    \/ \E g \in Collectors, o \in Objects : Collect(g, o)
    \/ \E o \in Objects : SweepOrphan(o)
    \/ ExpireWriterLeases \/ TimePasses
Spec == Init /\ [][Next]_vars

-----------------------------------------------------------------------------
(* A durable reference points to a stored object whose guard keeps it, and  *)
(* is never one of an erased signature (assertInvariants).                  *)
ReferencesRetained ==
    \A r \in references :
        /\ guard[ObjectOf[r]].state = "present" /\ stored[ObjectOf[r]] # "missing"
        /\ control[SignatureOf[r]].state # "erased"

(* Verified or frozen metadata keeps every replica it was verified with     *)
(* until its signature is erased, through aborts, erasures, collections and *)
(* other writers of the same bytes.  A release by name is the exception:    *)
(* releaseReference asks nothing, and a pin so released breaks what         *)
(* assertInvariants (:817-823) says of every preparation.                   *)
FrozenKeepsReplicas ==
    \A s \in Signatures : Settled(s) => Required(s) \subseteq references \cup released

(* Nothing is held for an erased signature, and nothing is ever again.      *)
ErasedIsGone ==
    \A s \in Signatures : control[s].state = "erased" =>
        /\ metadata[s] = NoPreparation
        /\ \A r \in references : SignatureOf[r] # s
        /\ \A w \in Leases : lease[w].state = "writing" => Holder(w) # s

(* A collection deletes an object only when the grace of this deletion, and *)
(* not of an earlier one, is over.                                          *)
GraceHonored ==
    [][\A o \in Objects :
          stored[o] # "missing" /\ stored'[o] = "missing" /\ guard[o].state = "deletion_pending" => guard[o].over]_vars
=============================================================================
