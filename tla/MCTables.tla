------------------------------ MODULE MCTables -------------------------------
(***************************************************************************)
(* The tables of migration 002 and what any writer may do to them, for     *)
(* TLC.  A behaviour is of the chain evidence: its rows ("rows") or the    *)
(* indexer's lease ("fence"); of the mint authority: two wallets and two   *)
(* authorizations ("wallets"), administrators that erase ("erasure"), also *)
(* while the indexer's checkpoint is deleted and written again             *)
(* ("checkpoint"), or every kind of record ("records"); of the publication *)
(* leases ("leases"); or of a stored object: shared by two signatures      *)
(* ("shared"), of one whose rows come and go ("owners"), or prepared by    *)
(* two workers ("workers").  They share no state.                          *)
(***************************************************************************)
EXTENDS Integers, Sequences, FiniteSets, TLC

CONSTANTS
    p1, p2, q1, q2, w1, w2, x1, NoWallet, NoWorker
CONSTANTS
    Blocks, HeightOf, Owners, MaxFence, NoRow, NoOwner,      \* of EvidenceTables
    Wallets, Auths, Validity, MaxHeight,                     \* of AuthorityTables
    Deployments, Publications, Items, MaxControl, MaxRaised, \* of PublicationTables
    Signatures, Leases, Workers, Kinds, MaxVersion, MaxTaken, MaxPreparation  \* of ContentTables

VARIABLE part    \* which of them this behaviour is of
VARIABLES
    block, receipt, log, gallery, checkpoint, held
VARIABLES
    chain, final, observed, promoted, reached, control, suppressed, open, claimed,
    head, binding, metadata, auth, attempts, evidence, authorityGallery,
    attested
VARIABLES
    publicationControl, deployment, publicationSuppressed, publicationClaimed,
    publicationGallery, outbox, lease, expired
VARIABLES
    guard, graceOver, contentLease, lapsed, references, contentControl,
    contentClaimed, contentMetadata, late, contentHeld

SameHeight == (p1 :> 1) @@ (p2 :> 1)
Swap == Permutations({p1, p2}) \cup Permutations({q1, q2}) \cup Permutations({w1, w2})

Evidence == INSTANCE EvidenceTables
Authority == INSTANCE AuthorityTables WITH Window <- Validity, gallery <- authorityGallery
Publication == INSTANCE PublicationTables WITH
    Leases <- Publications, MaxVersion <- MaxControl, MaxFence <- MaxRaised,
    control <- publicationControl, suppressed <- publicationSuppressed,
    claimed <- publicationClaimed, gallery <- publicationGallery
Content == INSTANCE ContentTables WITH
    MaxFence <- MaxTaken, lease <- contentLease, control <- contentControl,
    claimed <- contentClaimed, metadata <- contentMetadata, held <- contentHeld

(* The rows and the checkpoint do not depend on each other. *)
Rows == Evidence!Next /\ UNCHANGED <<checkpoint, held>>
Fenced == Evidence!Next /\ UNCHANGED <<block, receipt, log, gallery>>

EvidenceVars == <<block, receipt, log, gallery, checkpoint, held>>
AuthorityVars ==
    <<chain, final, observed, promoted, reached, control, suppressed, open, claimed,
      head, binding, metadata, auth, attempts, evidence, authorityGallery,
      attested>>
PublicationVars ==
    <<publicationControl, deployment, publicationSuppressed,
      publicationClaimed, publicationGallery, outbox, lease, expired>>
ContentVars ==
    <<guard, graceOver, contentLease, lapsed, references, contentControl,
      contentClaimed, contentMetadata, late, contentHeld>>

All == <<part, EvidenceVars, AuthorityVars, PublicationVars, ContentVars>>

\* What happens in a behaviour of the mint authority beside issuing and minting.
Authorities ==
    "wallets" :> [uses |-> {"reorg"}, wallets |-> 2, auths |-> 2, height |-> 3]
    @@ "erasure" :> [uses |-> {"admin", "reorg"}, wallets |-> 1, auths |-> 2, height |-> 2]
    @@ "checkpoint" :> [uses |-> {"admin", "checkpoint"}, wallets |-> 1, auths |-> 1, height |-> 2]
    @@ "records" :> [uses |-> {"admin", "deploy", "attempt", "revoke", "abort", "provisional", "withdraw"},
                     wallets |-> 1, auths |-> 1, height |-> 2]
Provisional == {"observed_used_unfinalized", "revoked_unfinalized", "orphaned_use"}
Permitted(scope) ==
    /\ <<control, suppressed>>' # <<control, suppressed>> => "admin" \in scope.uses
    /\ open' # open => "deploy" \in scope.uses
    /\ Len(chain') < Len(chain) => "reorg" \in scope.uses
    /\ reached' # promoted' => "checkpoint" \in scope.uses
    /\ attempts' # {} => "attempt" \in scope.uses
    /\ metadata'.state = "aborted" => "abort" \in scope.uses
    /\ control = "enabled" /\ claimed /\ ~claimed' => "withdraw" \in scope.uses
    /\ Authority!Revokes(chain', Len(chain')) # {} => "revoke" \in scope.uses
    /\ \A a \in Auths : auth'[a].state \in Provisional => "provisional" \in scope.uses
    /\ Cardinality({w \in Wallets : binding'[w] # "none"}) <= scope.wallets
    /\ Cardinality({a \in Auths : auth'[a].issuance # "none"}) <= scope.auths
    /\ Len(chain') <= scope.height

\* Who acts on the stored object.
Stores ==
    "shared" :> [signatures |-> 2, leases |-> 2, version |-> 2, fence |-> 3, kinds |-> {"v1"}, workers |-> 0]
    @@ "owners" :> [signatures |-> 1, leases |-> 1, version |-> 3, fence |-> 1, kinds |-> {"v1", "v2"}, workers |-> 1]
    @@ "workers" :> [signatures |-> 1, leases |-> 0, version |-> 4, fence |-> 0, kinds |-> {"v2"}, workers |-> 2]
Acting(s) ==
    \/ contentControl[s].version > 1 \/ s \notin contentClaimed \/ contentMetadata[s] # NoRow
    \/ \E l \in Leases : contentLease[l] # NoRow /\ contentLease[l].authority.signature = s
Within(scope) ==
    /\ Cardinality({s \in Signatures : Acting(s)}) <= scope.signatures
    /\ Cardinality({l \in Leases : contentLease[l] # NoRow}) <= scope.leases
    /\ Cardinality(UNION {{h[3] : h \in contentHeld[s]} : s \in Signatures} \ {NoWorker}) <= scope.workers
    /\ \A s \in Signatures :
         /\ contentControl[s].version <= scope.version
         /\ contentMetadata[s] # NoRow => "v2" \in scope.kinds
    /\ \A l \in Leases : contentLease[l] # NoRow => contentLease[l].authority.kind \in scope.kinds
    /\ guard # NoRow => scope.leases > 0 /\ guard.fence <= scope.fence

PackInit ==
    /\ part \in {"rows", "fence", "leases"} \cup DOMAIN Authorities \cup DOMAIN Stores
    /\ Evidence!Init /\ Authority!Init /\ Publication!Init /\ Content!Init
    /\ part # "shared" => guard = NoRow

PackNext ==
    \/ part = "rows" /\ Rows /\ UNCHANGED <<part, AuthorityVars, PublicationVars, ContentVars>>
    \/ part = "fence" /\ Fenced /\ UNCHANGED <<part, AuthorityVars, PublicationVars, ContentVars>>
    \/ /\ part \in DOMAIN Authorities /\ UNCHANGED <<part, EvidenceVars, PublicationVars, ContentVars>>
       /\ Authority!Next /\ Permitted(Authorities[part])
    \/ part = "leases" /\ Publication!Next /\ UNCHANGED <<part, EvidenceVars, AuthorityVars, ContentVars>>
    \/ /\ part \in DOMAIN Stores /\ UNCHANGED <<part, EvidenceVars, AuthorityVars, PublicationVars>>
       /\ Content!Next /\ Within(Stores[part])'

PackSpec == PackInit /\ [][PackNext]_All

(* Final mints have one history, the gallery rests on it, and a fencing    *)
(* token names one indexer while the checkpoint's row lives, whatever      *)
(* INSERT, UPDATE or DELETE a writer tries (002_v2_minting.sql; TRUNCATE   *)
(* fires no row trigger and is left out).                                  *)
EvidenceHolds == Evidence!EvidenceHolds

(* What was recorded final stays final, and a finalized log stays or is    *)
(* explicitly revoked (002_v2_minting.sql).                                *)
FinalEvidenceStays == Evidence!FinalEvidenceStays

(* Whatever statement a writer tries: one redeemable authorization at a     *)
(* time, whose wallet cannot be replaced; what is erased has no token and   *)
(* gets none; what minted a signature in the gallery stays recorded         *)
(* (002_v2_minting.sql).                                                    *)
AuthorityHolds ==
    /\ Authority!LiveAuthorityKeepsItsWallet /\ Authority!OneLiveAuthority
    /\ Authority!ErasedIsUnminted /\ Authority!ProvenanceIsKept

(* A signature that is gone has no publication work; shared bytes stay      *)
(* while anyone refers to them or writes them; no reference outlives its    *)
(* owner; and a preparation fence names one worker for ever                 *)
(* (002_v2_minting.sql).                                                    *)
RetentionHolds ==
    /\ Publication!NothingPublishesTheErased
    /\ Content!ReferencedIsPresent /\ Content!WriterKeepsObject
    /\ Content!ReferencesHaveOwners /\ Content!FenceNamesOneWorker

(* An authorization proven expired is never counted as live authority again *)
(* (002_v2_minting.sql).                                                    *)
ExpiredStaysDead == Authority!ExpiredStaysDead
ExpiringSpec == PackInit /\ part = "wallets" /\ [][PackNext]_All

ASSUME TablesAssumption ==
    Evidence!EvidenceAssumption /\ Authority!WindowAssumption /\ Content!ContentAssumption
==============================================================================
