---------------------------- MODULE MCPublication ----------------------------
(***************************************************************************)
(* Publication, erasure and the stored content, in memory, for TLC.  A     *)
(* behaviour is of the publication control: two leases of a deployment     *)
(* that is added at any time ("leases"), or an erasure racing them         *)
(* ("erasure"); or of the content coordinator: artifacts of two signatures *)
(* with the same bytes ("sharing"), two collectors of one object           *)
(* ("grace"), two pins of one preparation ("pins"), or two writers of one  *)
(* pin ("writers").  The two share no state.                               *)
(***************************************************************************)
EXTENDS PublicationControl, TLC

CONSTANTS
    d1, l1, l2, s1, s2, s3, s4, o1, o2, o3, v1, v2, v3, p1, p2, p3, a1, g1, g2
CONSTANTS
    Signatures, Objects, References, Owners, Collectors, SignatureOf, ObjectOf,
    Pins, MaxToken, MaxPrepared                     \* of ContentCoordinator

VARIABLE part    \* which of them this behaviour is of
VARIABLES
    contentControl, guard, contentLease, references, released, stored, metadata, handle,
    contentFence

PackSymmetry == Permutations({l1, l2}) \cup Permutations({g1, g2})

\* Artifacts v1, v2 and v3, and pins p1, p2 and p3; two collections take five tokens.
SignatureOfReference == v1 :> s1 @@ v2 :> s2 @@ v3 :> s1 @@ p1 :> s3 @@ p2 :> s3 @@ p3 :> s4
ObjectOfReference == v1 :> o1 @@ v2 :> o1 @@ v3 :> o3 @@ p1 :> o1 @@ p2 :> o2 @@ p3 :> o1
TokensOfObject == o1 :> 2 @@ o2 :> 2 @@ o3 :> 5

Erasing == INSTANCE PublicationControl WITH
    Initial <- {d1}, MaxVersion <- 4, MaxRevoked <- 1
Content == INSTANCE ContentCoordinator WITH
    control <- contentControl, lease <- contentLease, fence <- contentFence

ContentVars ==
    <<contentControl, guard, contentLease, references, released, stored, metadata,
      handle, contentFence>>

All == <<part, vars, ContentVars>>

\* Who acts in a behaviour of the content coordinator.
Scopes ==
    "sharing" :> [signatures |-> {s1, s2}, objects |-> {o1}, writers |-> 2, collectors |-> 1]
    @@ "grace" :> [signatures |-> {s1}, objects |-> {o3}, writers |-> 2, collectors |-> 2]
    @@ "pins" :> [signatures |-> {s3}, objects |-> {o1, o2}, writers |-> 1, collectors |-> 1]
    @@ "writers" :> [signatures |-> {s4}, objects |-> {o1}, writers |-> 2, collectors |-> 1]
Within(scope) ==
    /\ \A s \in Signatures \ scope.signatures : contentControl[s].state = "missing"
    /\ \A o \in Objects \ scope.objects : guard[o].token = 0
    /\ Cardinality({w \in Leases : contentLease[w] # Content!NoLease}) <= scope.writers
    /\ Cardinality({g \in Collectors : contentFence[g] # Content!NoFence}) <= scope.collectors

PackInit ==
    /\ part \in {"leases", "erasure"} \cup DOMAIN Scopes
    /\ \/ part # "erasure" /\ Init
       \/ part = "erasure" /\ Erasing!Init
    /\ Content!Init

PackNext ==
    \/ part = "leases" /\ Next /\ UNCHANGED <<part, ContentVars>>
    \/ part = "erasure" /\ Erasing!Next /\ UNCHANGED <<part, ContentVars>>
    \/ part \in DOMAIN Scopes /\ UNCHANGED <<part, vars>> /\ Content!Next /\ Within(Scopes[part])'

PackSpec == PackInit /\ [][PackNext]_All

(* A durable reference points to a stored object whose guard keeps it;      *)
(* frozen metadata keeps its replicas; of an erased signature nothing is    *)
(* held or ever will be (memoryContentCoordinator.ts, assertInvariants).    *)
ContentHolds ==
    Content!ErasedIsGone /\ Content!ReferencesRetained /\ Content!FrozenKeepsReplicas

(* A collection deletes an object only when the grace of this deletion, and *)
(* not of an earlier one, is over (collectGarbage).                         *)
GraceHonored == Content!GraceHonored

ASSUME ContentIsAssumed == Content!ContentAssumption
==============================================================================
