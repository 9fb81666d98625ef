---------------------------- MODULE Gallery_proofs ----------------------------
(***************************************************************************)
(* Proofs about the gallery.  The tables of migration 002: the chain       *)
(* evidence, the mint authority, and the retention of publications and     *)
(* stored objects, each of its own tables (EvidenceTables,                 *)
(* AuthorityTables, PublicationTables, ContentTables), which share no      *)
(* state, under any statement a writer may try and for any number of rows; *)
(* the scopes of MCTables, which bound the runs, are not assumed.  Last,   *)
(* the contract beside the replay of its events (GalleryOfSignatures).     *)
(***************************************************************************)
EXTENDS MCTables, GalleryOfSignatures, FiniteSetTheorems, SequenceTheorems, TLAPS

------------------------------------------------------------------------------
(* The chain evidence, for any blocks and heights, indexers and fencing tokens. *)

EvidenceTypeOK ==
    /\ block \in [Blocks -> Evidence!Observations \cup {NoRow}]
    /\ receipt \in [Blocks -> Evidence!Receipts \cup {NoRow}]
    /\ log \in [Blocks -> Evidence!Logs \cup {NoRow}]
    /\ gallery \in Evidence!Entries \cup {NoRow}
    /\ checkpoint \in Evidence!Checkpoints \cup {NoRow}
    /\ held \in [0..MaxFence -> SUBSET Owners]

\* A log that was finalized once has its block and receipt for ever.
SupportInv ==
    \A b \in Blocks : log[b] # NoRow /\ log[b].finality # "unfinalized" =>
        Evidence!FinalBlock(b) /\ Evidence!FinalReceipt(b, 1) /\ log[b].validation = "validated"
HeightInv ==
    \A b, c \in Blocks : b # c /\ HeightOf[b] = HeightOf[c] /\ block[b] # NoRow /\ block[c] # NoRow =>
        ~ (block[b].canonical /\ block[c].canonical)
\* While there is no checkpoint no token is held; under one, nobody has held a fencing
\* token that is still to come, and only the holder of the lease the present one.
FenceInv ==
    /\ checkpoint = NoRow => \A f \in 0..MaxFence : held[f] = {}
    /\ checkpoint # NoRow =>
         /\ \A f \in 0..MaxFence : f > checkpoint.fence => held[f] = {}
         /\ checkpoint.owner # NoOwner => held[checkpoint.fence] \subseteq {checkpoint.owner}
    /\ \A f \in 0..MaxFence : \A x, y \in held[f] : x = y

EvidenceInv == EvidenceTypeOK /\ SupportInv /\ HeightInv /\ Evidence!GalleryIsSupported /\ FenceInv

\* What the guards keep in the row of a block, whatever is written.
LEMMA FinalStays ==
    ASSUME EvidenceTypeOK, NEW b \in Blocks, [Evidence!Next]_(Evidence!vars)
    PROVE  /\ Evidence!FinalBlock(b) => Evidence!FinalBlock(b)'
           /\ Evidence!FinalReceipt(b, 1) => Evidence!FinalReceipt(b, 1)'
<1>1. CASE Evidence!WriteBlock
  <2>1. PICK c \in Blocks, new \in Evidence!Observations : Evidence!BlockGuard(c, new) /\ block' = [block EXCEPT ![c] = new]
    BY <1>1 DEF Evidence!WriteBlock
  <2>2. new # NoRow
    BY TablesAssumption DEF Evidence!EvidenceAssumption
  <2> QED BY <1>1, <2>1, <2>2 DEF Evidence!WriteBlock, Evidence!BlockGuard, Evidence!ObservationGuard, Evidence!FinalBlock, Evidence!FinalReceipt, EvidenceTypeOK
<1>2. CASE Evidence!WriteReceipt
  <2>1. PICK c \in Blocks, new \in Evidence!Receipts : Evidence!ReceiptGuard(c, new) /\ receipt' = [receipt EXCEPT ![c] = new]
    BY <1>2 DEF Evidence!WriteReceipt
  <2>2. new # NoRow
    BY TablesAssumption DEF Evidence!EvidenceAssumption
  <2> QED BY <1>2, <2>1, <2>2 DEF Evidence!WriteReceipt, Evidence!ReceiptGuard, Evidence!ObservationGuard, Evidence!FinalBlock, Evidence!FinalReceipt, EvidenceTypeOK
<1>3. CASE UNCHANGED <<block, receipt>>
  BY <1>3 DEF Evidence!FinalBlock, Evidence!FinalReceipt
<1> QED BY <1>1, <1>2, <1>3 DEF Evidence!Next, Evidence!WriteLog, Evidence!WriteGallery, Evidence!WriteCheckpoint, Evidence!DeleteCheckpoint, Evidence!vars

\* What a log has become.
LEMMA LogMoves ==
    ASSUME EvidenceTypeOK, SupportInv, NEW b \in Blocks, [Evidence!Next]_(Evidence!vars)
    PROVE  /\ log[b] # NoRow => log'[b] # NoRow
           /\ log[b] # NoRow /\ log[b].finality # "unfinalized" =>
                 /\ log'[b].finality \in {log[b].finality, "finality_revoked"}
                 /\ log'[b].finality # "unfinalized"
                 /\ log'[b].validation = log[b].validation
                 /\ log[b].finality = "finality_revoked" => log'[b] = log[b]
           /\ log'[b] # NoRow /\ log'[b].finality # "unfinalized" =>
                 \/ log[b] # NoRow /\ log[b].finality # "unfinalized"
                 \/ Evidence!FinalBlock(b)' /\ Evidence!FinalReceipt(b, 1)' /\ log'[b].validation = "validated"
<1>1. CASE Evidence!WriteLog
  <2>1. PICK c \in Blocks, new \in Evidence!Logs : Evidence!LogGuard(c, new) /\ log' = [log EXCEPT ![c] = new]
    BY <1>1 DEF Evidence!WriteLog
  <2>2. new # NoRow /\ new.finality \in {"unfinalized", "finalized", "finality_revoked"}
    BY TablesAssumption DEF Evidence!EvidenceAssumption, Evidence!Logs
  <2>3. CASE c # b
    BY <2>1, <2>3 DEF EvidenceTypeOK
  <2>4. CASE c = b
    <3>1. log'[b] = new
      BY <2>1, <2>4 DEF EvidenceTypeOK
    <3>2. UNCHANGED <<block, receipt>>
      BY <1>1 DEF Evidence!WriteLog
    <3>3. log[b] # NoRow => log[b].finality \in {"unfinalized", "finalized", "finality_revoked"}
      BY DEF EvidenceTypeOK, Evidence!Logs
    <3>4. CASE log[b] # NoRow /\ log[b].finality # "unfinalized"
      BY <2>1, <2>2, <2>4, <3>1, <3>3, <3>4 DEF Evidence!LogGuard
    <3>5. CASE ~ (log[b] # NoRow /\ log[b].finality # "unfinalized")
      <4>1. new.finality # "unfinalized" => new.finality = "finalized"
        BY <2>1, <2>2, <2>4, <3>5 DEF Evidence!LogGuard
      <4>2. new.finality = "finalized" => Evidence!FinalBlock(b) /\ Evidence!FinalReceipt(b, new.status) /\ new.validation = "validated"
        BY <2>1, <2>4 DEF Evidence!LogGuard
      <4>3. new.validation = "validated" => new.status = 1
        BY DEF Evidence!Logs
      <4> QED BY <2>2, <3>1, <3>2, <3>5, <4>1, <4>2, <4>3 DEF Evidence!FinalBlock, Evidence!FinalReceipt
    <3> QED BY <3>4, <3>5
  <2> QED BY <2>3, <2>4
<1>2. CASE UNCHANGED log
  BY <1>2 DEF EvidenceTypeOK, Evidence!Logs
<1> QED BY <1>1, <1>2 DEF Evidence!Next, Evidence!WriteBlock, Evidence!WriteReceipt, Evidence!WriteGallery, Evidence!WriteCheckpoint, Evidence!DeleteCheckpoint, Evidence!vars

LEMMA EvidenceInit == Evidence!Init => EvidenceInv
<1> SUFFICES ASSUME Evidence!Init PROVE EvidenceInv
  OBVIOUS
<1>1. EvidenceTypeOK
  BY TablesAssumption DEF Evidence!EvidenceAssumption, Evidence!Init, EvidenceTypeOK
<1>2. FenceInv
  BY <1>1 DEF Evidence!Init, FenceInv
<1> QED BY <1>1, <1>2 DEF Evidence!Init, EvidenceInv, SupportInv, HeightInv, Evidence!GalleryIsSupported

LEMMA EvidenceTypes == EvidenceTypeOK /\ [Evidence!Next]_(Evidence!vars) => EvidenceTypeOK'
<1> SUFFICES ASSUME EvidenceTypeOK, [Evidence!Next]_(Evidence!vars) PROVE EvidenceTypeOK'
  OBVIOUS
<1> USE DEF EvidenceTypeOK
<1>1. CASE Evidence!WriteBlock \/ Evidence!WriteReceipt \/ Evidence!WriteLog
  BY <1>1 DEF Evidence!WriteBlock, Evidence!WriteReceipt, Evidence!WriteLog
<1>2. CASE Evidence!WriteGallery
  BY <1>2 DEF Evidence!WriteGallery
<1>3. CASE Evidence!WriteCheckpoint
  <2>1. PICK new \in Evidence!Checkpoints :
           checkpoint' = new /\ held' = [held EXCEPT ![new.fence] = @ \cup ({new.owner} \ {NoOwner})]
    BY <1>3 DEF Evidence!WriteCheckpoint
  <2>2. new.fence \in 0..MaxFence /\ {new.owner} \ {NoOwner} \subseteq Owners
    BY DEF Evidence!Checkpoints
  <2> QED BY <1>3, <2>1, <2>2 DEF Evidence!WriteCheckpoint
<1>4. CASE Evidence!DeleteCheckpoint
  BY <1>4 DEF Evidence!DeleteCheckpoint
<1>5. CASE UNCHANGED Evidence!vars
  BY <1>5 DEF Evidence!vars
<1> QED BY <1>1, <1>2, <1>3, <1>4, <1>5 DEF Evidence!Next

LEMMA FenceKept == EvidenceTypeOK /\ FenceInv /\ [Evidence!Next]_(Evidence!vars) => FenceInv'
<1> SUFFICES ASSUME EvidenceTypeOK, FenceInv, [Evidence!Next]_(Evidence!vars) PROVE FenceInv'
  OBVIOUS
<1>1. CASE Evidence!WriteCheckpoint
  <2>1. PICK new \in Evidence!Checkpoints :
           /\ checkpoint # NoRow => Evidence!CheckpointGuard(checkpoint, new)
           /\ checkpoint' = new
           /\ held' = [held EXCEPT ![new.fence] = @ \cup ({new.owner} \ {NoOwner})]
    BY <1>1 DEF Evidence!WriteCheckpoint
  <2>2. /\ new # NoRow /\ new.fence \in 0..MaxFence
        /\ checkpoint # NoRow => checkpoint.fence \in 0..MaxFence
        /\ held \in [0..MaxFence -> SUBSET Owners]
    BY TablesAssumption DEF EvidenceTypeOK, Evidence!Checkpoints, Evidence!EvidenceAssumption
  <2> DEFINE added == {new.owner} \ {NoOwner}
  <2>3. \A f \in 0..MaxFence : held'[f] = IF f = new.fence THEN held[f] \cup added ELSE held[f]
    BY <2>1, <2>2
  <2>0. CASE checkpoint = NoRow
    <3>1. \A f \in 0..MaxFence : held[f] = {}
      BY <2>0 DEF FenceInv
    <3>2. /\ held'[new.fence] = added
          /\ \A f \in 0..MaxFence : f # new.fence => held'[f] = {}
      BY <2>2, <2>3, <3>1
    <3>3. \A f \in 0..MaxFence : f > new.fence => held'[f] = {}
      BY <2>2, <3>2
    <3>4. \A f \in 0..MaxFence : \A x, y \in held'[f] : x = y
      BY <3>2
    <3> QED BY <2>1, <2>2, <3>2, <3>3, <3>4 DEF FenceInv
  <2>4. CASE checkpoint # NoRow /\ new.fence > checkpoint.fence
    <3>1. held'[new.fence] = added
      BY <2>2, <2>3, <2>4 DEF FenceInv
    <3>2. \A f \in 0..MaxFence : f > new.fence => f > checkpoint.fence /\ f # new.fence
      BY <2>2, <2>4
    <3> QED BY <2>1, <2>2, <2>3, <3>1, <3>2 DEF FenceInv
  <2>5. CASE checkpoint # NoRow /\ new.fence = checkpoint.fence
    <3>1. new.owner = checkpoint.owner \/ new.owner = NoOwner
      BY <2>1, <2>2, <2>5 DEF Evidence!CheckpointGuard
    <3>0. held'[new.fence] = held[new.fence] \cup added
      BY <2>2, <2>3
    <3>2. checkpoint.owner # NoOwner => held'[new.fence] \subseteq {checkpoint.owner}
      <4>1. checkpoint.owner # NoOwner => held[new.fence] \subseteq {checkpoint.owner}
        BY <2>5 DEF FenceInv
      <4> QED BY <3>0, <3>1, <4>1
    <3>3. checkpoint.owner = NoOwner => held'[new.fence] = held[new.fence]
      BY <3>0, <3>1
    <3>4. \A f \in 0..MaxFence : f > new.fence => held'[f] = {}
      <4>1. \A f \in 0..MaxFence : f > new.fence => f # new.fence /\ f > checkpoint.fence
        BY <2>2, <2>5
      <4> QED BY <2>3, <4>1 DEF FenceInv
    <3>5. \A f \in 0..MaxFence : \A x, y \in held'[f] : x = y
      <4>1. \A x, y \in held'[new.fence] : x = y
        BY <2>2, <3>2, <3>3 DEF FenceInv
      <4>2. \A f \in 0..MaxFence : f # new.fence => held'[f] = held[f]
        BY <2>3
      <4> QED BY <4>1, <4>2 DEF FenceInv
    <3>6. checkpoint'.owner # NoOwner => held'[checkpoint'.fence] \subseteq {checkpoint'.owner}
      BY <2>1, <3>1, <3>2
    <3> QED BY <2>1, <2>2, <3>4, <3>5, <3>6 DEF FenceInv
  <2>6. checkpoint # NoRow => new.fence > checkpoint.fence \/ new.fence = checkpoint.fence
    BY <2>1, <2>2 DEF Evidence!CheckpointGuard
  <2> QED BY <2>0, <2>4, <2>5, <2>6
<1>2. CASE UNCHANGED <<checkpoint, held>>
  BY <1>2 DEF FenceInv
<1>3. CASE Evidence!DeleteCheckpoint
  BY <1>3 DEF Evidence!DeleteCheckpoint, FenceInv
<1> QED BY <1>1, <1>2, <1>3 DEF Evidence!Next, Evidence!WriteBlock, Evidence!WriteReceipt, Evidence!WriteLog, Evidence!WriteGallery, Evidence!vars

LEMMA HeightKept == EvidenceTypeOK /\ HeightInv /\ [Evidence!Next]_(Evidence!vars) => HeightInv'
<1> SUFFICES ASSUME EvidenceTypeOK, HeightInv, [Evidence!Next]_(Evidence!vars) PROVE HeightInv'
  OBVIOUS
<1>1. CASE Evidence!WriteBlock
  <2>1. PICK c \in Blocks, new \in Evidence!Observations :
           Evidence!CanonicalHeight(c, new) /\ block' = [block EXCEPT ![c] = new]
    BY <1>1 DEF Evidence!WriteBlock, Evidence!BlockGuard
  <2> QED BY <2>1 DEF HeightInv, Evidence!CanonicalHeight, EvidenceTypeOK
<1>2. CASE UNCHANGED block
  BY <1>2 DEF HeightInv
<1> QED BY <1>1, <1>2 DEF Evidence!Next, Evidence!WriteReceipt, Evidence!WriteLog, Evidence!WriteGallery, Evidence!WriteCheckpoint, Evidence!DeleteCheckpoint, Evidence!vars

LEMMA GalleryKept == EvidenceTypeOK /\ SupportInv /\ Evidence!GalleryIsSupported /\ [Evidence!Next]_(Evidence!vars) => Evidence!GalleryIsSupported'
<1> SUFFICES ASSUME EvidenceTypeOK, SupportInv, Evidence!GalleryIsSupported, [Evidence!Next]_(Evidence!vars), gallery' # NoRow
             PROVE  /\ log'[gallery'.event] # NoRow
                    /\ log'[gallery'.event].finality \in {"finalized", "finality_revoked"}
                    /\ gallery'.state = "finality_revoked" => log'[gallery'.event].finality = "finality_revoked"
  BY DEF Evidence!GalleryIsSupported
<1>1. CASE Evidence!WriteGallery
  BY <1>1 DEF Evidence!WriteGallery, Evidence!GalleryCommit, Evidence!Entries
<1>2. CASE UNCHANGED gallery
  <2> DEFINE b == gallery.event
  <2>1. b \in Blocks
    BY <1>2 DEF EvidenceTypeOK, Evidence!Entries
  <2>2. /\ log[b] # NoRow /\ log[b].finality \in {"finalized", "finality_revoked"}
        /\ gallery.state = "finality_revoked" => log[b].finality = "finality_revoked"
    BY <1>2 DEF Evidence!GalleryIsSupported
  <2> QED BY <1>2, <2>1, <2>2, LogMoves
<1> QED BY <1>1, <1>2 DEF Evidence!Next, Evidence!WriteBlock, Evidence!WriteReceipt, Evidence!WriteLog, Evidence!WriteCheckpoint, Evidence!DeleteCheckpoint, Evidence!vars

LEMMA EvidenceStep == EvidenceInv /\ [Evidence!Next]_(Evidence!vars) => EvidenceInv'
<1> SUFFICES ASSUME EvidenceInv, [Evidence!Next]_(Evidence!vars) PROVE EvidenceInv'
  OBVIOUS
<1>1. SupportInv'
  BY LogMoves, FinalStays DEF EvidenceInv, SupportInv
<1> QED BY <1>1, EvidenceTypes, FenceKept, HeightKept, GalleryKept DEF EvidenceInv

\* Final mints have one history, the gallery rests on it, and a fencing token names
\* one indexer while the checkpoint's row lives, whatever row statements are tried
\* (002_v2_minting.sql).
THEOREM EvidenceAlwaysHolds == Evidence!Spec => []EvidenceHolds
<1>1. ASSUME EvidenceInv PROVE EvidenceHolds
  <2>1. Evidence!FinalizedLogsAreSupported
    BY <1>1 DEF EvidenceInv, SupportInv, Evidence!FinalizedLogsAreSupported
  <2>2. Evidence!OneFinalizedHistory
    BY <1>1 DEF EvidenceInv, SupportInv, HeightInv, Evidence!FinalBlock, Evidence!OneFinalizedHistory
  <2>3. ASSUME NEW f \in 0..MaxFence PROVE Cardinality(held[f]) <= 1
    <3>1. CASE held[f] = {}
      BY <3>1, FS_EmptySet
    <3>2. ASSUME NEW x \in held[f] PROVE Cardinality(held[f]) <= 1
      <4>1. held[f] = {x}
        BY <1>1 DEF EvidenceInv, FenceInv
      <4> QED BY <4>1, FS_Singleton
    <3> QED BY <3>1, <3>2
  <2> QED BY <1>1, <2>1, <2>2, <2>3 DEF EvidenceInv, EvidenceHolds, Evidence!EvidenceHolds, Evidence!FenceNamesOneOwner, Evidence!Cardinality, Cardinality
<1>2. Evidence!Spec => []EvidenceInv
  BY EvidenceInit, EvidenceStep, PTL DEF Evidence!Spec
<1> QED BY <1>1, <1>2, PTL

\* What was recorded final stays final, and a finalized log stays or is revoked
\* (002_v2_minting.sql).
THEOREM FinalEvidenceIsKept == Evidence!Spec => FinalEvidenceStays
<1>1. ASSUME EvidenceInv, [Evidence!Next]_(Evidence!vars), NEW b \in Blocks
      PROVE  /\ Evidence!FinalBlock(b) => Evidence!FinalBlock(b)'
             /\ log[b] # NoRow /\ log[b].finality # "unfinalized" =>
                  log'[b].finality \in {log[b].finality, "finality_revoked"}
  BY <1>1, FinalStays, LogMoves DEF EvidenceInv
<1>2. EvidenceInv /\ [Evidence!Next]_(Evidence!vars) =>
         [\A b \in Blocks :
            /\ Evidence!FinalBlock(b) => Evidence!FinalBlock(b)'
            /\ log[b] # NoRow /\ log[b].finality # "unfinalized" =>
                 log'[b].finality \in {log[b].finality, "finality_revoked"}]_(Evidence!vars)
  BY <1>1
<1>3. Evidence!Spec => []EvidenceInv
  BY EvidenceInit, EvidenceStep, PTL DEF Evidence!Spec
<1> QED BY <1>2, <1>3, PTL DEF Evidence!Spec, FinalEvidenceStays, Evidence!FinalEvidenceStays

------------------------------------------------------------------------------
(* The mint authority. *)

Events == [kind : {"none", "mint", "revoke"}, of : Auths \cup {"none"}]
ChainTypes ==
    /\ chain \in Seq(Events) /\ observed \in Seq(Events)
    /\ final \in 0..Len(chain) /\ promoted \in 0..final /\ promoted <= Len(observed)
    /\ reached \in 0..promoted
    /\ \A i \in 1..promoted : observed[i] = chain[i]
AuthTypes ==
    /\ attested \subseteq Auths
    /\ auth \in [Auths -> [wallet : Wallets \cup {NoWallet}, deadline : Nat,
                           issuance : {"none", "prepared", "signing_unknown", "issued", "signing_failed", "deleted"},
                           state : Authority!ChainStates \cup {"none"}, block : Nat]]
    /\ binding \in [Wallets -> {"none", "active", "ended"}]

\* What the contract allows: one mint, of an attestation, in its time, and not after its revocation.
MintInv ==
    \A i \in 1..Len(chain) : chain[i].kind = "mint" =>
        /\ chain[i].of \in attested /\ i <= auth[chain[i].of].deadline
        /\ \A j \in 1..i : ~ (chain[j].kind = "revoke" /\ chain[j].of = chain[i].of)
        /\ \A j \in 1..Len(chain) : chain[j].kind = "mint" => j = i

\* No more can be minted with it, however the chain is rewound.
IsSpent(a) ==
    \/ a \notin attested /\ auth[a].issuance \notin {"prepared", "signing_unknown"}
    \/ auth[a].deadline <= promoted
    \/ a \in Authority!Revokes(observed, promoted)

StateInv ==
    \A a \in Auths :
        /\ auth[a].issuance \in {"none", "signing_failed"} => a \notin attested
        /\ auth[a].issuance = "deleted" => IsSpent(a)
        /\ auth[a].state = "consumed_finalized" => a \in Authority!Mints(observed, promoted)
        /\ auth[a].state = "revoked_finalized" => a \in Authority!Revokes(observed, promoted)
        /\ auth[a].state = "expired_unconsumed" => auth[a].deadline <= promoted

HeadInv == \A a \in Authority!Live : a \in Authority!Rows /\ auth[a].wallet = head /\ binding[head] = "active"
OneInv == \A a, b \in Authority!Live : a = b
RecordInv ==
    /\ metadata \in [state : {"none", "open", "frozen", "aborted"}, current : BOOLEAN]
    /\ \A a \in Authority!Mints(chain, Len(chain)) : a \in Authority!Rows
    /\ Authority!Rows # {} => metadata.state = "frozen"
    /\ authorityGallery => claimed /\ metadata.state = "frozen"
GoneInv ==
    ~ claimed \/ control = "erased" => Authority!Mints(chain, Len(chain)) = {} /\ \A a \in Auths : IsSpent(a)

AuthorityInv == ChainTypes /\ AuthTypes /\ MintInv /\ StateInv /\ HeadInv /\ OneInv /\ RecordInv /\ GoneInv

LEMMA MintsAre ==
    ASSUME NEW blocks, NEW h, NEW a
    PROVE  a \in Authority!Mints(blocks, h) <=> \E i \in 1..h : blocks[i].kind = "mint" /\ blocks[i].of = a
BY DEF Authority!Mints, Authority!Upto

LEMMA RevokesAre ==
    ASSUME NEW blocks, NEW h, NEW a
    PROVE  a \in Authority!Revokes(blocks, h) <=> \E i \in 1..h : blocks[i].kind = "revoke" /\ blocks[i].of = a
BY DEF Authority!Revokes, Authority!Upto

\* What the tables say of a finalized block the chain says.
LEMMA FinalIsOnChain ==
    ASSUME ChainTypes
    PROVE  /\ Authority!Mints(observed, promoted) \subseteq Authority!Mints(chain, final)
           /\ Authority!Revokes(observed, promoted) \subseteq Authority!Revokes(chain, final)
           /\ Authority!Mints(observed, promoted) \subseteq Authority!Mints(observed, Len(observed))
           /\ Authority!Mints(chain, final) \subseteq Authority!Mints(chain, Len(chain))
           /\ Authority!Revokes(chain, final) \subseteq Authority!Revokes(chain, Len(chain))
<1>1. Len(chain) \in Nat /\ Len(observed) \in Nat
  BY LenProperties DEF ChainTypes
<1>2. 1..promoted \subseteq 1..final /\ 1..promoted \subseteq 1..Len(observed) /\ 1..final \subseteq 1..Len(chain)
  BY <1>1 DEF ChainTypes
<1> QED BY <1>2, MintsAre, RevokesAre DEF ChainTypes

\* What is spent and was minted, was minted at or below the promoted height.
LEMMA SpentIsSeen ==
    ASSUME ChainTypes, AuthTypes, MintInv, NEW a \in Authority!Mints(chain, Len(chain)), IsSpent(a)
    PROVE  a \in Authority!Mints(observed, promoted)
<1>1. PICK i \in 1..Len(chain) : chain[i].kind = "mint" /\ chain[i].of = a
  BY MintsAre
<1>2. /\ a \in attested /\ i <= auth[a].deadline
      /\ \A j \in 1..i : ~ (chain[j].kind = "revoke" /\ chain[j].of = a)
  BY <1>1 DEF MintInv
<1>3. Len(chain) \in Nat /\ promoted \in Nat /\ auth[a].deadline \in Nat
  BY <1>2, LenProperties DEF ChainTypes, AuthTypes
<1>4. i <= promoted
  <2>1. CASE auth[a].deadline <= promoted
    BY <1>2, <1>3, <2>1
  <2>2. CASE a \in Authority!Revokes(observed, promoted)
    <3>1. PICK j \in 1..promoted : observed[j].kind = "revoke" /\ observed[j].of = a
      BY <2>2, RevokesAre
    <3>2. chain[j].kind = "revoke" /\ chain[j].of = a
      BY <3>1 DEF ChainTypes
    <3> QED BY <1>2, <1>3, <3>1, <3>2
  <2> QED BY <1>2, <2>1, <2>2 DEF IsSpent
<1>5. observed[i] = chain[i] /\ i \in 1..promoted
  BY <1>3, <1>4 DEF ChainTypes
<1> QED BY <1>1, <1>5, MintsAre

LEMMA SpentIsDead ==
    ASSUME ChainTypes, AuthTypes, NEW a \in Auths, IsSpent(a)
    PROVE  a \notin Authority!Live
<1>1. final \in Nat /\ promoted \in Nat /\ promoted <= final /\ auth[a].deadline \in Nat
  BY LenProperties DEF ChainTypes, AuthTypes
<1> QED BY <1>1, FinalIsOnChain DEF IsSpent, Authority!Live

\* What the database counts as resolved is dead: spent, or the finalized mint itself.
LEMMA DeadIsSpent ==
    ASSUME ChainTypes, AuthTypes, StateInv, NEW a \in Authority!Rows, Authority!AuthorizationIsSafelyDead(a)
    PROVE  IsSpent(a) \/ (auth[a].state = "consumed_finalized" /\ a \in Authority!Mints(observed, promoted))
BY DEF Authority!AuthorizationIsSafelyDead, StateInv, Authority!Rows, IsSpent, Authority!FinalizedConsumption, Authority!FinalizedRevocation

LEMMA DeadIsNotLive ==
    ASSUME ChainTypes, AuthTypes, StateInv, NEW a \in Authority!Rows, Authority!AuthorizationIsSafelyDead(a)
    PROVE  a \notin Authority!Live
<1>1. a \in Auths
  BY DEF Authority!Rows
<1>2. CASE IsSpent(a)
  BY <1>1, <1>2, SpentIsDead
<1>3. CASE a \in Authority!Mints(observed, promoted)
  BY <1>3, FinalIsOnChain DEF Authority!Live
<1> QED BY <1>2, <1>3, DeadIsSpent

\* While no authority is unresolved, none is live.
LEMMA ResolvedIsDead ==
    ASSUME ChainTypes, AuthTypes, StateInv, HeadInv, ~ Authority!UnresolvedAuthority
    PROVE  Authority!Live = {}
BY DeadIsNotLive DEF HeadInv, Authority!UnresolvedAuthority

\* What the unresolved-slot index does not count is dead.
LEMMA OutsideTheSlot ==
    ASSUME ChainTypes, AuthTypes, StateInv, HeadInv, Authority!Slot = {}
    PROVE  Authority!Live = {}
<1> SUFFICES ASSUME NEW a \in Authority!Live PROVE FALSE
  OBVIOUS
<1>1. a \in Authority!Rows /\ a \in Auths
  BY DEF HeadInv, Authority!Rows
<1>2. auth[a].issuance = "signing_failed" \/ auth[a].state \in {"consumed_finalized", "revoked_finalized", "expired_unconsumed"}
  BY <1>1 DEF Authority!Slot
<1>3. CASE auth[a].issuance = "signing_failed"
  BY <1>1, <1>3, SpentIsDead DEF StateInv, IsSpent
<1>4. CASE auth[a].state = "consumed_finalized"
  BY <1>1, <1>4, FinalIsOnChain DEF StateInv, Authority!Live
<1>5. CASE auth[a].state \in {"revoked_finalized", "expired_unconsumed"}
  BY <1>1, <1>5, SpentIsDead DEF StateInv, IsSpent
<1> QED BY <1>2, <1>3, <1>4, <1>5

ChainSteps == Authority!NewBlock \/ Authority!Finalize \/ Authority!Reorganize \/ Authority!Observe \/ Authority!Orphan \/ Authority!Promote \/ Authority!WriteCheckpoint

LEMMA ChainIsLeft ==
    ASSUME [Authority!Next]_(Authority!vars), ~ ChainSteps
    PROVE  UNCHANGED <<chain, final, observed, promoted, reached>>
<1>0. CASE UNCHANGED Authority!vars
  BY <1>0 DEF Authority!vars, Authority!chainVars, Authority!viewVars
<1>1. CASE Authority!GalleryEntry \/ Authority!SetControl \/ Authority!Suppress \/ Authority!SetDeployment
  BY <1>1 DEF Authority!GalleryEntry, Authority!SetControl, Authority!Suppress, Authority!SetDeployment, Authority!chainVars, Authority!viewVars
<1>2. CASE Authority!ClearHead \/ Authority!RestoreHead \/ Authority!ActivateBinding \/ Authority!EndBinding \/ Authority!DeleteBinding
  BY <1>2 DEF Authority!ClearHead, Authority!RestoreHead, Authority!ActivateBinding, Authority!EndBinding, Authority!DeleteBinding, Authority!chainVars, Authority!viewVars
<1>3. CASE Authority!Reserve \/ Authority!Freeze \/ Authority!AbortMetadata \/ Authority!DeleteMetadata
  BY <1>3 DEF Authority!Reserve, Authority!Freeze, Authority!AbortMetadata, Authority!DeleteMetadata, Authority!chainVars, Authority!viewVars
<1>4. ASSUME NEW a \in Auths,
             \/ \E w \in Wallets : Authority!Prepare(a, w)
             \/ Authority!SignerReleases(a) \/ Authority!SetIssuance(a) \/ Authority!RecordAttempt(a) \/ Authority!SetChainState(a)
             \/ Authority!DeleteAttempt(a) \/ Authority!DeleteAuthorization(a)
      PROVE  UNCHANGED <<chain, final, observed, promoted, reached>>
  BY <1>4 DEF Authority!Prepare, Authority!SignerReleases, Authority!SetIssuance, Authority!RecordAttempt, Authority!SetChainState, Authority!DeleteAttempt,
              Authority!DeleteAuthorization, Authority!chainVars, Authority!viewVars
<1>5. CASE Authority!RecordEvidence \/ Authority!EraseSignature \/ Authority!WithdrawClaim \/ Authority!Claim
  BY <1>5 DEF Authority!RecordEvidence, Authority!EraseSignature, Authority!WithdrawClaim, Authority!Claim, Authority!chainVars, Authority!viewVars
<1> QED BY <1>0, <1>1, <1>2, <1>3, <1>4, <1>5 DEF Authority!Next, ChainSteps

LEMMA FrontIsShorter ==
    ASSUME NEW s \in Seq(Events), NEW n \in Nat, Len(s) = n + 1
    PROVE  /\ Authority!Front(s) \in Seq(Events) /\ Len(Authority!Front(s)) = n
           /\ \A i \in 1..n : Authority!Front(s)[i] = s[i]
<1>1. Authority!Front(s) = SubSeq(s, 1, n)
  BY DEF Authority!Front
<1>2. \A i \in 1..n : s[i] \in Events
  BY ElementOfSeq
<1>3. /\ SubSeq(s, 1, n) \in Seq(Events)
      /\ Len(SubSeq(s, 1, n)) = IF 1 <= n THEN n - 1 + 1 ELSE 0
      /\ \A i \in 1..(n - 1 + 1) : SubSeq(s, 1, n)[i] = s[1 + i - 1]
  BY <1>2, SubSeqProperties
<1> QED BY <1>1, <1>3

\* A reorganization takes the last block of the chain, and an orphan the last observed one.
LEMMA ShortensChain ==
    ASSUME chain \in Seq(Events), final \in Nat, Authority!Reorganize
    PROVE  /\ chain' \in Seq(Events) /\ Len(chain) > final /\ Len(chain') = Len(chain) - 1
           /\ \A i \in 1..(Len(chain) - 1) : chain'[i] = chain[i]
<1>1. chain' = Authority!Front(chain) /\ Authority!Height > final
  BY Zenon DEF Authority!Reorganize
<1>2. Len(chain) > final
  BY <1>1 DEF Authority!Height
<1>3. Len(chain) - 1 \in Nat /\ Len(chain) = (Len(chain) - 1) + 1
  BY <1>2, LenProperties
<1> QED BY Zenon, <1>1, <1>2, <1>3, FrontIsShorter

LEMMA ShortensView ==
    ASSUME observed \in Seq(Events), promoted \in Nat, Authority!Orphan
    PROVE  /\ observed' \in Seq(Events) /\ Len(observed) > promoted /\ Len(observed') = Len(observed) - 1
           /\ \A i \in 1..(Len(observed) - 1) : observed'[i] = observed[i]
<1>1. observed' = Authority!Front(observed) /\ Len(observed) > promoted
  BY Zenon DEF Authority!Orphan
<1>2. Len(observed) - 1 \in Nat /\ Len(observed) = (Len(observed) - 1) + 1
  BY <1>1, LenProperties
<1> QED BY Zenon, <1>1, <1>2, FrontIsShorter

\* What a chain step leaves: below the final block the chain, and below the promoted height
\* the observations.
LEMMA ChainMoves ==
    ASSUME ChainTypes, [Authority!Next]_(Authority!vars)
    PROVE  /\ ChainTypes'
           /\ final <= final' /\ promoted <= promoted'
           /\ \A i \in 1..final : chain'[i] = chain[i]
           /\ \A i \in 1..promoted : observed'[i] = observed[i]
<1>0. /\ chain \in Seq(Events) /\ observed \in Seq(Events) /\ Len(chain) \in Nat /\ Len(observed) \in Nat
      /\ final \in Nat /\ promoted \in Nat /\ promoted <= final /\ final <= Len(chain)
      /\ promoted <= Len(observed) /\ \A i \in 1..promoted : observed[i] = chain[i]
      /\ reached \in 0..promoted
  BY LenProperties DEF ChainTypes
<1>1. CASE Authority!NewBlock
  <2>1. PICK e : /\ chain' = Append(chain, e)
                 /\ e \in {Authority!Empty} \cup {Authority!Event("mint", a) : a \in {x \in Auths : Authority!Redeemable(x)}}
                               \cup {Authority!Event("revoke", a) : a \in Authority!Rows \ Authority!Revokes(chain, Authority!Height)}
    BY <1>1 DEF Authority!NewBlock
  <2>2. e \in Events
    BY <2>1 DEF Events, Authority!Empty, Authority!Event, Authority!Rows
  <2>3. /\ chain' \in Seq(Events) /\ Len(chain') = Len(chain) + 1
        /\ \A i \in 1..Len(chain) : chain'[i] = chain[i]
    BY <1>0, <2>1, <2>2, AppendProperties
  <2>4. UNCHANGED <<final, observed, promoted, reached>>
    BY <1>1 DEF Authority!NewBlock, Authority!viewVars
  <2> QED BY <1>0, <2>3, <2>4 DEF ChainTypes
<1>2. CASE Authority!Finalize
  <2>1. UNCHANGED <<chain, observed, promoted, reached>> /\ final < Len(chain) /\ final' = final + 1
    BY <1>2 DEF Authority!Finalize, Authority!viewVars, Authority!Height
  <2> QED BY <1>0, <2>1 DEF ChainTypes
<1>3. CASE Authority!Reorganize
  <2>1. UNCHANGED <<final, observed, promoted, reached>>
    BY <1>3 DEF Authority!Reorganize, Authority!viewVars
  <2>2. /\ chain' \in Seq(Events) /\ Len(chain) > final /\ Len(chain') = Len(chain) - 1
        /\ \A i \in 1..(Len(chain) - 1) : chain'[i] = chain[i]
    BY <1>0, <1>3, ShortensChain
  <2> QED BY <1>0, <2>1, <2>2 DEF ChainTypes
<1>4. CASE Authority!Observe
  <2>1. UNCHANGED <<chain, final, promoted, reached>> /\ Len(observed) < Len(chain)
        /\ observed' = Append(observed, chain[Len(observed) + 1])
    BY <1>4 DEF Authority!Observe, Authority!chainVars, Authority!Height
  <2>2. chain[Len(observed) + 1] \in Events
    BY <1>0, <2>1, ElementOfSeq
  <2>3. /\ observed' \in Seq(Events) /\ Len(observed') = Len(observed) + 1
        /\ \A i \in 1..Len(observed) : observed'[i] = observed[i]
    BY <1>0, <2>1, <2>2, AppendProperties
  <2> QED BY <1>0, <2>1, <2>3 DEF ChainTypes
<1>5. CASE Authority!Orphan
  <2>1. UNCHANGED <<chain, final, promoted, reached>>
    BY <1>5 DEF Authority!Orphan, Authority!chainVars
  <2>2. /\ observed' \in Seq(Events) /\ Len(observed) > promoted /\ Len(observed') = Len(observed) - 1
        /\ \A i \in 1..(Len(observed) - 1) : observed'[i] = observed[i]
    BY <1>0, <1>5, ShortensView
  <2> QED BY <1>0, <2>1, <2>2 DEF ChainTypes
<1>6. CASE Authority!Promote
  <2>1. UNCHANGED <<chain, final, observed>> /\ promoted < Len(observed) /\ promoted < final
        /\ observed[promoted + 1] = chain[promoted + 1] /\ promoted' = promoted + 1
        /\ reached' \in {reached, promoted + 1}
    BY <1>6 DEF Authority!Promote, Authority!chainVars
  <2> QED BY <1>0, <2>1 DEF ChainTypes
<1>7. CASE Authority!WriteCheckpoint
  <2>1. UNCHANGED <<chain, final, observed, promoted>> /\ reached' \in 0..promoted
    BY <1>7 DEF Authority!WriteCheckpoint, Authority!chainVars
  <2> QED BY <1>0, <2>1 DEF ChainTypes
<1>8. CASE ~ ChainSteps
  BY <1>0, <1>8, ChainIsLeft DEF ChainTypes
<1> QED BY <1>1, <1>2, <1>3, <1>4, <1>5, <1>6, <1>7, <1>8 DEF ChainSteps

\* What was final or promoted stays so.
LEMMA FinalChainStays ==
    ASSUME ChainTypes, [Authority!Next]_(Authority!vars)
    PROVE  /\ Authority!Mints(chain, final) \subseteq (Authority!Mints(chain, final))'
           /\ Authority!Revokes(chain, final) \subseteq (Authority!Revokes(chain, final))'
           /\ Authority!Mints(observed, promoted) \subseteq (Authority!Mints(observed, promoted))'
           /\ Authority!Revokes(observed, promoted) \subseteq (Authority!Revokes(observed, promoted))'
<1>1. /\ 1..final \subseteq 1..final' /\ 1..promoted \subseteq 1..promoted'
      /\ \A i \in 1..final : chain'[i] = chain[i]
      /\ \A i \in 1..promoted : observed'[i] = observed[i]
  BY ChainMoves, LenProperties DEF ChainTypes
<1>2. \A blocks, h, a : a \in Authority!Mints(blocks, h) <=> \E i \in 1..h : blocks[i].kind = "mint" /\ blocks[i].of = a
  BY MintsAre
<1>3. \A blocks, h, a : a \in Authority!Revokes(blocks, h) <=> \E i \in 1..h : blocks[i].kind = "revoke" /\ blocks[i].of = a
  BY RevokesAre
<1>4. /\ (Authority!Mints(chain, final))' = Authority!Mints(chain', final') /\ (Authority!Revokes(chain, final))' = Authority!Revokes(chain', final')
      /\ (Authority!Mints(observed, promoted))' = Authority!Mints(observed', promoted')
      /\ (Authority!Revokes(observed, promoted))' = Authority!Revokes(observed', promoted')
  BY DEF Authority!Mints, Authority!Revokes, Authority!Upto
<1>5. Authority!Mints(chain, final) \subseteq Authority!Mints(chain', final') /\ Authority!Revokes(chain, final) \subseteq Authority!Revokes(chain', final')
  BY <1>1, <1>2, <1>3
<1>6. /\ Authority!Mints(observed, promoted) \subseteq Authority!Mints(observed', promoted')
      /\ Authority!Revokes(observed, promoted) \subseteq Authority!Revokes(observed', promoted')
  BY <1>1, <1>2, <1>3
<1> QED BY <1>4, <1>5, <1>6

AuthSteps(a) ==
    \/ \E w \in Wallets : Authority!Prepare(a, w)
    \/ Authority!SignerReleases(a) \/ Authority!SetIssuance(a) \/ Authority!SetChainState(a) \/ Authority!DeleteAuthorization(a)

LEMMA AuthIsLeft ==
    ASSUME [Authority!Next]_(Authority!vars), ~ \E a \in Auths : AuthSteps(a)
    PROVE  UNCHANGED <<auth, attested>>
<1>0. CASE UNCHANGED Authority!vars
  BY <1>0 DEF Authority!vars, Authority!authVars
<1>1. CASE Authority!NewBlock \/ Authority!Finalize \/ Authority!Reorganize \/ Authority!Observe \/ Authority!Orphan \/ Authority!Promote \/ Authority!WriteCheckpoint \/ Authority!GalleryEntry
  BY <1>1 DEF Authority!NewBlock, Authority!Finalize, Authority!Reorganize, Authority!Observe, Authority!Orphan, Authority!Promote, Authority!WriteCheckpoint, Authority!GalleryEntry, Authority!authVars
<1>2. CASE Authority!SetControl \/ Authority!Suppress \/ Authority!SetDeployment \/ Authority!ClearHead \/ Authority!RestoreHead \/ Authority!ActivateBinding \/ Authority!EndBinding \/ Authority!DeleteBinding
  BY <1>2 DEF Authority!SetControl, Authority!Suppress, Authority!SetDeployment, Authority!ClearHead, Authority!RestoreHead, Authority!ActivateBinding, Authority!EndBinding, Authority!DeleteBinding, Authority!authVars
<1>3. CASE Authority!Reserve \/ Authority!Freeze \/ Authority!AbortMetadata \/ Authority!DeleteMetadata
  BY <1>3 DEF Authority!Reserve, Authority!Freeze, Authority!AbortMetadata, Authority!DeleteMetadata, Authority!authVars
<1>4. CASE \E a \in Auths : Authority!RecordAttempt(a) \/ Authority!DeleteAttempt(a)
  BY <1>4 DEF Authority!RecordAttempt, Authority!DeleteAttempt
<1>5. CASE Authority!RecordEvidence \/ Authority!EraseSignature \/ Authority!WithdrawClaim \/ Authority!Claim
  BY <1>5 DEF Authority!RecordEvidence, Authority!EraseSignature, Authority!WithdrawClaim, Authority!Claim, Authority!authVars
<1> QED BY <1>0, <1>1, <1>2, <1>3, <1>4, <1>5 DEF Authority!Next, AuthSteps

\* What a statement on an authorization does to its row.
Prepared(a) ==
    /\ auth[a].issuance = "none" /\ Authority!Slot = {} /\ attested' = attested
    /\ \E w \in Wallets : Authority!AuthorizationCommit(w) /\ auth'[a].wallet = w
    /\ auth'[a].issuance = "prepared" /\ auth'[a].state = "unseen"
Released(a) ==
    /\ auth[a].issuance \in {"prepared", "signing_unknown"} /\ auth'[a] = auth[a]
    /\ attested' = attested \cup {a}
Answered(a) ==
    /\ auth[a].issuance \in {"prepared", "signing_unknown"}
    /\ auth'[a].issuance \in {"issued", "signing_failed", "signing_unknown"}
    /\ auth'[a].issuance = "issued" => a \in attested
    /\ auth'[a].issuance = "signing_failed" => a \notin attested
    /\ auth'[a].wallet = auth[a].wallet /\ auth'[a].deadline = auth[a].deadline
    /\ auth'[a].state = auth[a].state /\ attested' = attested
Settled(a) ==
    /\ a \in Authority!Rows /\ auth'[a].issuance = auth[a].issuance
    /\ auth'[a].wallet = auth[a].wallet /\ auth'[a].deadline = auth[a].deadline
    /\ auth'[a].state = "consumed_finalized" => a \in Authority!Mints(observed, promoted)
    /\ auth'[a].state = "revoked_finalized" => a \in Authority!Revokes(observed, promoted)
    /\ auth'[a].state = "expired_unconsumed" => auth[a].deadline <= promoted
    /\ attested' = attested
Deleted(a) ==
    /\ a \in Authority!Rows /\ Authority!AuthorizationIsSafelyDead(a) /\ auth[a].state # "consumed_finalized"
    /\ a \notin Authority!Mints(observed, promoted)
    /\ auth'[a].issuance = "deleted"
    /\ auth'[a].wallet = auth[a].wallet /\ auth'[a].deadline = auth[a].deadline
    /\ auth'[a].state = auth[a].state /\ attested' = attested

LEMMA AuthMoves ==
    ASSUME ChainTypes, AuthTypes, NEW a \in Auths, AuthSteps(a)
    PROVE  /\ AuthTypes'
           /\ UNCHANGED <<chain, final, observed, promoted, head, binding, control, claimed, metadata, authorityGallery>>
           /\ \A b \in Auths \ {a} : auth'[b] = auth[b]
           /\ Prepared(a) \/ Released(a) \/ Answered(a) \/ Settled(a) \/ Deleted(a)
<1> DEFINE AuthRows == [wallet : Wallets \cup {NoWallet}, deadline : Nat,
                        issuance : {"none", "prepared", "signing_unknown", "issued", "signing_failed", "deleted"},
                        state : Authority!ChainStates \cup {"none"}, block : Nat]
<1>0. /\ auth \in [Auths -> AuthRows] /\ auth[a] \in AuthRows
      /\ attested \subseteq Auths /\ binding \in [Wallets -> {"none", "active", "ended"}]
  BY DEF AuthTypes
<1>1. ASSUME NEW row \in AuthRows, auth' = [auth EXCEPT ![a] = row], attested' \subseteq Auths, binding' = binding
      PROVE  AuthTypes' /\ auth'[a] = row /\ \A b \in Auths \ {a} : auth'[b] = auth[b]
  BY <1>0, <1>1 DEF AuthTypes
<1>2. ASSUME NEW w \in Wallets, Authority!Prepare(a, w)
      PROVE  /\ UNCHANGED <<chain, final, observed, promoted, head, binding, control, claimed, metadata, authorityGallery>>
             /\ AuthTypes' /\ \A b \in Auths \ {a} : auth'[b] = auth[b]
             /\ Prepared(a)
  <2> DEFINE row == [wallet |-> w, deadline |-> Authority!Height + Validity,
                     issuance |-> "prepared", state |-> "unseen", block |-> 0]
  <2>1. Authority!Height + Validity \in Nat
    BY TablesAssumption, LenProperties DEF Authority!WindowAssumption, ChainTypes, Authority!Height
  <2>2. row \in AuthRows /\ row.wallet = w /\ row.issuance = "prepared" /\ row.state = "unseen"
    BY <2>1 DEF Authority!ChainStates
  <2>3. /\ auth' = [auth EXCEPT ![a] = row] /\ attested' = attested
        /\ auth[a].issuance = "none" /\ Authority!Slot = {} /\ Authority!AuthorizationCommit(w)
        /\ UNCHANGED <<chain, final, observed, promoted, head, binding, control, claimed, metadata, authorityGallery>>
    BY <1>2 DEF Authority!Prepare, Authority!chainVars, Authority!viewVars, Authority!walletVars, Authority!rowVars
  <2> HIDE DEF row, AuthRows
  <2> QED BY <1>0, <1>1, <2>2, <2>3 DEF Prepared
<1>3. CASE Authority!SignerReleases(a)
  <2>1. /\ attested' = attested \cup {a} /\ auth' = auth
        /\ auth[a].issuance \in {"prepared", "signing_unknown"}
        /\ UNCHANGED <<chain, final, observed, promoted, head, binding, control, claimed, metadata, authorityGallery>>
    BY <1>3 DEF Authority!SignerReleases, Authority!chainVars, Authority!viewVars, Authority!walletVars, Authority!rowVars
  <2> QED BY <1>0, <2>1 DEF AuthTypes, Released
<1>4. CASE Authority!SetIssuance(a)
  <2>1. PICK to \in {"issued", "signing_failed", "signing_unknown"} :
           /\ Authority!Issuance(auth[a].issuance, to)
           /\ to = "issued" => a \in attested
           /\ to = "signing_failed" => a \notin attested
           /\ auth' = [auth EXCEPT ![a].issuance = to]
    BY <1>4 DEF Authority!SetIssuance
  <2> DEFINE row == [auth[a] EXCEPT !.issuance = to]
  <2>2. /\ row \in AuthRows /\ row.issuance = to /\ row.wallet = auth[a].wallet
        /\ row.deadline = auth[a].deadline /\ row.state = auth[a].state
    BY <1>0
  <2>3. /\ auth' = [auth EXCEPT ![a] = row] /\ attested' = attested
        /\ UNCHANGED <<chain, final, observed, promoted, head, binding, control, claimed, metadata, authorityGallery>>
    BY <1>0, <1>4, <2>1 DEF Authority!SetIssuance, Authority!chainVars, Authority!viewVars, Authority!walletVars, Authority!rowVars
  <2>4. auth[a].issuance \in {"prepared", "signing_unknown"}
    BY <2>1 DEF Authority!Issuance
  <2> HIDE DEF row, AuthRows
  <2> QED BY <1>0, <1>1, <2>1, <2>2, <2>3, <2>4 DEF Answered
<1>5. CASE Authority!SetChainState(a)
  <2>1. PICK to \in Authority!ChainStates, b \in 0..reached :
           Authority!Evidenced(a, to, b) /\ auth' = [auth EXCEPT ![a].state = to, ![a].block = b]
    BY <1>5 DEF Authority!SetChainState
  <2> DEFINE row == [auth[a] EXCEPT !.state = to, !.block = b]
  <2>2. /\ row \in AuthRows /\ row.issuance = auth[a].issuance /\ row.wallet = auth[a].wallet
        /\ row.deadline = auth[a].deadline /\ row.state = to
    <3>1. b \in Nat
      BY LenProperties DEF ChainTypes
    <3> QED BY <1>0, <3>1
  <2>3. /\ auth' = [auth EXCEPT ![a] = row] /\ attested' = attested /\ a \in Authority!Rows
        /\ UNCHANGED <<chain, final, observed, promoted, head, binding, control, claimed, metadata, authorityGallery>>
    BY <1>0, <1>5, <2>1 DEF Authority!SetChainState, Authority!chainVars, Authority!viewVars, Authority!walletVars, Authority!rowVars
  <2>4. /\ to = "consumed_finalized" => a \in Authority!Mints(observed, promoted)
        /\ to = "revoked_finalized" => a \in Authority!Revokes(observed, promoted)
        /\ to = "expired_unconsumed" => b \in 1..reached /\ b > auth[a].deadline
    BY <2>1 DEF Authority!Evidenced, Authority!FinalizedConsumption, Authority!FinalizedRevocation
  <2>5. auth[a].deadline \in Nat /\ promoted \in Nat /\ reached \in 0..promoted
    BY <1>0, LenProperties DEF ChainTypes
  <2>6. to = "expired_unconsumed" => auth[a].deadline <= promoted
    BY <2>4, <2>5
  <2> HIDE DEF row, AuthRows
  <2> QED BY <1>0, <1>1, <2>2, <2>3, <2>4, <2>6 DEF Settled
<1>6. CASE Authority!DeleteAuthorization(a)
  <2> DEFINE row == [auth[a] EXCEPT !.issuance = "deleted"]
  <2>2. /\ row \in AuthRows /\ row.issuance = "deleted" /\ row.wallet = auth[a].wallet
        /\ row.deadline = auth[a].deadline /\ row.state = auth[a].state
    BY <1>0
  <2>3. /\ auth' = [auth EXCEPT ![a] = row] /\ attested' = attested /\ a \in Authority!Rows
        /\ UNCHANGED <<chain, final, observed, promoted, head, binding, control, claimed, metadata, authorityGallery>>
    BY <1>0, <1>6 DEF Authority!DeleteAuthorization, Authority!chainVars, Authority!viewVars, Authority!walletVars, Authority!rowVars
  <2>4. /\ Authority!AuthorizationIsSafelyDead(a) /\ auth[a].state # "consumed_finalized"
        /\ a \notin Authority!Mints(observed, promoted)
    BY <1>6 DEF Authority!DeleteAuthorization, Authority!Erasable, Authority!FinalizedConsumption
  <2> HIDE DEF row, AuthRows
  <2> QED BY <1>0, <1>1, <2>2, <2>3, <2>4 DEF Deleted
<1> QED BY <1>2, <1>3, <1>4, <1>5, <1>6 DEF AuthSteps

LEMMA WalletsAreLeft ==
    ASSUME [Authority!Next]_(Authority!vars)
    PROVE  /\ binding' = binding \/ Authority!ActivateBinding \/ Authority!EndBinding \/ Authority!DeleteBinding
           /\ head' = head \/ Authority!ClearHead \/ Authority!RestoreHead \/ Authority!ActivateBinding
<1>0. CASE UNCHANGED Authority!vars
  BY <1>0 DEF Authority!vars, Authority!walletVars
<1>1. CASE Authority!NewBlock \/ Authority!Finalize \/ Authority!Reorganize \/ Authority!Observe \/ Authority!Orphan \/ Authority!Promote \/ Authority!WriteCheckpoint \/ Authority!GalleryEntry
  BY <1>1 DEF Authority!NewBlock, Authority!Finalize, Authority!Reorganize, Authority!Observe, Authority!Orphan, Authority!Promote, Authority!WriteCheckpoint, Authority!GalleryEntry, Authority!walletVars
<1>2. CASE Authority!SetControl \/ Authority!Suppress \/ Authority!SetDeployment \/ Authority!ClearHead \/ Authority!RestoreHead \/ Authority!EndBinding \/ Authority!DeleteBinding
  BY <1>2 DEF Authority!SetControl, Authority!Suppress, Authority!SetDeployment, Authority!ClearHead, Authority!RestoreHead, Authority!EndBinding, Authority!DeleteBinding, Authority!walletVars
<1>3. CASE Authority!Reserve \/ Authority!Freeze \/ Authority!AbortMetadata \/ Authority!DeleteMetadata
  BY <1>3 DEF Authority!Reserve, Authority!Freeze, Authority!AbortMetadata, Authority!DeleteMetadata, Authority!walletVars
<1>4. ASSUME NEW a \in Auths,
             \/ \E w \in Wallets : Authority!Prepare(a, w)
             \/ Authority!SignerReleases(a) \/ Authority!SetIssuance(a) \/ Authority!RecordAttempt(a) \/ Authority!SetChainState(a)
             \/ Authority!DeleteAttempt(a) \/ Authority!DeleteAuthorization(a)
      PROVE  UNCHANGED <<head, binding>>
  BY <1>4 DEF Authority!Prepare, Authority!SignerReleases, Authority!SetIssuance, Authority!RecordAttempt, Authority!SetChainState, Authority!DeleteAttempt,
              Authority!DeleteAuthorization, Authority!walletVars
<1>5. CASE Authority!RecordEvidence \/ Authority!EraseSignature \/ Authority!WithdrawClaim \/ Authority!Claim
  BY <1>5 DEF Authority!RecordEvidence, Authority!EraseSignature, Authority!WithdrawClaim, Authority!Claim, Authority!walletVars
<1> QED BY <1>0, <1>1, <1>2, <1>3, <1>4, <1>5 DEF Authority!Next

\* A row after a step: as it was, or what the one statement made of it.
LEMMA RowMoves ==
    ASSUME ChainTypes, AuthTypes, [Authority!Next]_(Authority!vars), NEW b \in Auths
    PROVE  \/ auth'[b] = auth[b] /\ (b \in attested' <=> b \in attested)
           \/ Prepared(b) \/ Released(b) \/ Answered(b) \/ Settled(b) \/ Deleted(b)
<1>1. CASE ~ \E a \in Auths : AuthSteps(a)
  BY <1>1, AuthIsLeft
<1>2. ASSUME NEW a \in Auths, AuthSteps(a), a # b
      PROVE  auth'[b] = auth[b] /\ (b \in attested' <=> b \in attested)
  <2>1. attested' = attested \/ attested' = attested \cup {a}
    BY <1>2, AuthMoves DEF Prepared, Released, Answered, Settled, Deleted
  <2> QED BY <1>2, <2>1, AuthMoves
<1>3. CASE AuthSteps(b)
  BY <1>3, AuthMoves
<1> QED BY <1>1, <1>2, <1>3

LEMMA AuthTypesStay == ChainTypes /\ AuthTypes /\ [Authority!Next]_(Authority!vars) => AuthTypes'
<1> SUFFICES ASSUME ChainTypes, AuthTypes, [Authority!Next]_(Authority!vars) PROVE AuthTypes'
  OBVIOUS
<1>1. CASE \E a \in Auths : AuthSteps(a)
  BY <1>1, AuthMoves
<1>2. CASE ~ \E a \in Auths : AuthSteps(a)
  <2>1. UNCHANGED <<auth, attested>>
    BY <1>2, AuthIsLeft
  <2>2. CASE Authority!ActivateBinding \/ Authority!EndBinding \/ Authority!DeleteBinding
    BY <2>1, <2>2 DEF Authority!ActivateBinding, Authority!EndBinding, Authority!DeleteBinding, AuthTypes
  <2>3. CASE ~ (Authority!ActivateBinding \/ Authority!EndBinding \/ Authority!DeleteBinding)
    <3>1. binding' = binding
      BY <2>3, WalletsAreLeft
    <3> QED BY <2>1, <3>1 DEF AuthTypes
  <2> QED BY <2>2, <2>3
<1> QED BY <1>1, <1>2

\* What is spent stays spent, until a new row takes the identifier.
LEMMA SpentStays ==
    ASSUME ChainTypes, AuthTypes, [Authority!Next]_(Authority!vars), NEW b \in Auths, IsSpent(b)
    PROVE  IsSpent(b)' \/ Prepared(b)
<1>1. promoted \in Nat /\ promoted' \in Nat /\ promoted <= promoted' /\ auth[b].deadline \in Nat
  BY ChainMoves, LenProperties DEF ChainTypes, AuthTypes
<1>2. b \in Authority!Revokes(observed, promoted) => b \in (Authority!Revokes(observed, promoted))'
  BY FinalChainStays
<1>3. IsSpent(b)' <=> \/ b \notin attested' /\ auth'[b].issuance \notin {"prepared", "signing_unknown"}
                    \/ auth'[b].deadline <= promoted'
                    \/ b \in (Authority!Revokes(observed, promoted))'
  BY DEF IsSpent
<1>4. CASE auth'[b] = auth[b] /\ (b \in attested' <=> b \in attested)
  BY <1>1, <1>2, <1>3, <1>4 DEF IsSpent
<1>5. CASE Released(b)
  BY <1>1, <1>2, <1>3, <1>5 DEF IsSpent, Released
<1>6. CASE Answered(b)
  BY <1>1, <1>2, <1>3, <1>6 DEF IsSpent, Answered
<1>7. CASE Settled(b)
  BY <1>1, <1>2, <1>3, <1>7 DEF IsSpent, Settled
<1>8. CASE Deleted(b)
  BY <1>1, <1>2, <1>3, <1>8 DEF IsSpent, Deleted
<1> QED BY <1>4, <1>5, <1>6, <1>7, <1>8, RowMoves

LEMMA StateStep == ChainTypes /\ AuthTypes /\ StateInv /\ [Authority!Next]_(Authority!vars) => StateInv'
<1> SUFFICES ASSUME ChainTypes, AuthTypes, StateInv, [Authority!Next]_(Authority!vars), NEW b \in Auths
             PROVE  /\ auth'[b].issuance \in {"none", "signing_failed"} => b \notin attested'
                    /\ auth'[b].issuance = "deleted" => IsSpent(b)'
                    /\ auth'[b].state = "consumed_finalized" => b \in (Authority!Mints(observed, promoted))'
                    /\ auth'[b].state = "revoked_finalized" => b \in (Authority!Revokes(observed, promoted))'
                    /\ auth'[b].state = "expired_unconsumed" => auth'[b].deadline <= promoted'
  BY DEF StateInv
<1>1. promoted \in Nat /\ promoted' \in Nat /\ promoted <= promoted' /\ auth[b].deadline \in Nat
  BY ChainMoves, LenProperties DEF ChainTypes, AuthTypes
<1>2. /\ b \in Authority!Revokes(observed, promoted) => b \in (Authority!Revokes(observed, promoted))'
      /\ b \in Authority!Mints(observed, promoted) => b \in (Authority!Mints(observed, promoted))'
  BY FinalChainStays
<1>3. /\ auth[b].issuance \in {"none", "signing_failed"} => b \notin attested
      /\ auth[b].issuance = "deleted" => IsSpent(b)
      /\ auth[b].state = "consumed_finalized" => b \in Authority!Mints(observed, promoted)
      /\ auth[b].state = "revoked_finalized" => b \in Authority!Revokes(observed, promoted)
      /\ auth[b].state = "expired_unconsumed" => auth[b].deadline <= promoted
  BY DEF StateInv
<1>4. IsSpent(b) => IsSpent(b)' \/ Prepared(b)
  BY SpentStays
<1>5. CASE auth'[b] = auth[b] /\ (b \in attested' <=> b \in attested)
  BY <1>1, <1>2, <1>3, <1>4, <1>5 DEF Prepared
<1>6. CASE Prepared(b)
  BY <1>3, <1>6 DEF Prepared
<1>7. CASE Released(b)
  BY <1>1, <1>2, <1>3, <1>7 DEF Released
<1>8. CASE Answered(b)
  BY <1>1, <1>2, <1>3, <1>8 DEF Answered
<1>9. CASE Settled(b)
  BY <1>1, <1>2, <1>3, <1>4, <1>9 DEF Settled, Prepared, Authority!Rows
<1>10. CASE Deleted(b)
  <2>1. IsSpent(b)
    BY <1>10, DeadIsSpent DEF Deleted
  <2> QED BY <1>1, <1>2, <1>3, <1>4, <1>10, <2>1 DEF Deleted, Prepared
<1> QED BY <1>5, <1>6, <1>7, <1>8, <1>9, <1>10, RowMoves

LEMMA AttestedStays ==
    ASSUME ChainTypes, AuthTypes, StateInv, [Authority!Next]_(Authority!vars), NEW b \in attested
    PROVE  b \in attested' /\ auth'[b].deadline = auth[b].deadline
<1>1. b \in Auths
  BY DEF AuthTypes
<1>2. auth[b].issuance # "none"
  BY <1>1 DEF StateInv
<1> QED BY <1>1, <1>2, RowMoves DEF Prepared, Released, Answered, Settled, Deleted

LEMMA MintStep == ChainTypes /\ AuthTypes /\ StateInv /\ MintInv /\ [Authority!Next]_(Authority!vars) => MintInv'
<1> SUFFICES ASSUME ChainTypes, AuthTypes, StateInv, MintInv, [Authority!Next]_(Authority!vars),
                    NEW i \in 1..Len(chain'), chain'[i].kind = "mint"
             PROVE  /\ chain'[i].of \in attested' /\ i <= auth'[chain'[i].of].deadline
                    /\ \A j \in 1..i : ~ (chain'[j].kind = "revoke" /\ chain'[j].of = chain'[i].of)
                    /\ \A j \in 1..Len(chain') : chain'[j].kind = "mint" => j = i
  BY DEF MintInv
<1>0. chain \in Seq(Events) /\ Len(chain) \in Nat /\ final \in Nat /\ final <= Len(chain)
  BY LenProperties DEF ChainTypes
<1>1. CASE Authority!NewBlock
  <2>1. PICK e : /\ chain' = Append(chain, e)
                 /\ e \in {Authority!Empty} \cup {Authority!Event("mint", a) : a \in {x \in Auths : Authority!Redeemable(x)}}
                               \cup {Authority!Event("revoke", a) : a \in Authority!Rows \ Authority!Revokes(chain, Authority!Height)}
    BY <1>1 DEF Authority!NewBlock
  <2>2. e \in Events
    BY <2>1 DEF Events, Authority!Empty, Authority!Event, Authority!Rows
  <2>3. /\ Len(chain') = Len(chain) + 1 /\ chain'[Len(chain) + 1] = e
        /\ \A j \in 1..Len(chain) : chain'[j] = chain[j]
    BY <1>0, <2>1, <2>2, AppendProperties
  <2>4. UNCHANGED <<auth, attested>>
    BY <1>1 DEF Authority!NewBlock, Authority!authVars
  <2>5. CASE e.kind = "mint"
    <3>1. PICK a \in Auths : e = Authority!Event("mint", a) /\ Authority!Redeemable(a)
      BY <2>1, <2>5 DEF Authority!Event, Authority!Empty
    <3>2. \A j \in 1..Len(chain) : chain[j].kind # "mint" /\ ~ (chain[j].kind = "revoke" /\ chain[j].of = a)
      <4>1. a \notin Authority!Revokes(chain, Len(chain)) /\ Authority!Mints(chain, Len(chain)) = {}
        BY <3>1 DEF Authority!Redeemable, Authority!Height
      <4>2. ASSUME NEW j \in 1..Len(chain), chain[j].kind = "mint" PROVE FALSE
        <5>1. chain[j].of \in Authority!Mints(chain, Len(chain))
          BY <4>2, MintsAre
        <5> QED BY <4>1, <5>1
      <4>3. ASSUME NEW j \in 1..Len(chain), chain[j].kind = "revoke", chain[j].of = a PROVE FALSE
        <5>1. a \in Authority!Revokes(chain, Len(chain))
          BY <4>3, RevokesAre
        <5> QED BY <4>1, <5>1
      <4> QED BY <4>2, <4>3
    <3>3. a \in attested /\ auth[a].deadline > Len(chain) /\ auth[a].deadline \in Nat
      BY <3>1 DEF Authority!Redeemable, Authority!Height, AuthTypes
    <3>4. i = Len(chain) + 1
      BY <1>0, <2>3, <3>2
    <3>5. chain'[i].of = a /\ chain'[i].kind = "mint"
      BY <2>3, <3>1, <3>4 DEF Authority!Event
    <3>6. chain'[i].of \in attested' /\ i <= auth'[chain'[i].of].deadline
      BY <1>0, <2>4, <3>3, <3>4, <3>5
    <3>7. ASSUME NEW j \in 1..Len(chain') PROVE j = i \/ (j \in 1..Len(chain) /\ chain'[j] = chain[j])
      BY <1>0, <2>3, <3>4
    <3>8. \A j \in 1..i : ~ (chain'[j].kind = "revoke" /\ chain'[j].of = chain'[i].of)
      BY <1>0, <2>3, <3>2, <3>4, <3>5, <3>7
    <3>9. \A j \in 1..Len(chain') : chain'[j].kind = "mint" => j = i
      BY <3>2, <3>7
    <3> QED BY <3>6, <3>8, <3>9
  <2>6. CASE e.kind # "mint"
    <3>1. i \in 1..Len(chain) /\ chain[i].kind = "mint"
      BY <1>0, <2>3, <2>6
    <3>2. chain'[i] = chain[i] /\ \A j \in 1..i : j \in 1..Len(chain) /\ chain'[j] = chain[j]
      BY <1>0, <2>3, <3>1
    <3>3. /\ chain[i].of \in attested /\ i <= auth[chain[i].of].deadline
          /\ \A j \in 1..i : ~ (chain[j].kind = "revoke" /\ chain[j].of = chain[i].of)
          /\ \A j \in 1..Len(chain) : chain[j].kind = "mint" => j = i
      BY <3>1 DEF MintInv
    <3>4. ASSUME NEW j \in 1..Len(chain'), chain'[j].kind = "mint" PROVE j = i
      <4>1. j \in 1..Len(chain) /\ chain[j].kind = "mint"
        BY <1>0, <2>3, <2>6, <3>4
      <4> QED BY <3>3, <4>1
    <3> QED BY <2>4, <3>2, <3>3, <3>4
  <2> QED BY <2>5, <2>6
<1>2. CASE Authority!Reorganize
  <2>1. UNCHANGED <<auth, attested>>
    BY <1>2 DEF Authority!Reorganize, Authority!authVars
  <2>2. Len(chain') = Len(chain) - 1 /\ \A j \in 1..(Len(chain) - 1) : chain'[j] = chain[j]
    BY <1>0, <1>2, ShortensChain
  <2> QED BY <1>0, <2>1, <2>2 DEF MintInv
<1>3. CASE ~ (Authority!NewBlock \/ Authority!Reorganize)
  <2>1. chain' = chain
    BY <1>3, ChainIsLeft DEF ChainSteps, Authority!Finalize, Authority!Observe, Authority!Orphan, Authority!Promote, Authority!WriteCheckpoint, Authority!chainVars
  <2>2. i \in 1..Len(chain) /\ chain[i].kind = "mint" /\ chain[i].of \in attested
    BY <2>1 DEF MintInv
  <2>3. chain[i].of \in attested' /\ auth'[chain[i].of].deadline = auth[chain[i].of].deadline
    BY <2>2, AttestedStays
  <2> QED BY <2>1, <2>2, <2>3 DEF MintInv
<1> QED BY <1>1, <1>2, <1>3

LEMMA LiveMoves ==
    ASSUME ChainTypes, AuthTypes, [Authority!Next]_(Authority!vars), NEW b \in Authority!Live'
    PROVE  b \in Auths /\ (b \in Authority!Live \/ Prepared(b))
<1>1. /\ auth'[b].issuance \in {"prepared", "signing_unknown"} \/ b \in attested'
      /\ auth'[b].deadline > final'
      /\ b \notin (Authority!Revokes(chain, final))' /\ (Authority!Mints(chain, final))' = {}
  BY DEF Authority!Live
<1>2. b \notin Authority!Revokes(chain, final) /\ Authority!Mints(chain, final) = {}
  BY <1>1, FinalChainStays
<1>3. b \in Auths
  BY <1>1 DEF Authority!Live
<1>4. final \in Nat /\ final' \in Nat /\ final <= final' /\ auth[b].deadline \in Nat
  BY <1>3, ChainMoves, LenProperties DEF ChainTypes, AuthTypes
<1>5. ASSUME ~ Prepared(b)
      PROVE  /\ auth'[b].deadline = auth[b].deadline
             /\ auth[b].issuance \in {"prepared", "signing_unknown"} \/ b \in attested
  BY <1>1, <1>3, <1>5, RowMoves DEF Released, Answered, Settled, Deleted
<1> QED BY <1>1, <1>2, <1>3, <1>4, <1>5 DEF Authority!Live

\* Only a row that a statement has just prepared becomes live, and none was live before.
LEMMA OnePrepares ==
    ASSUME ChainTypes, AuthTypes, StateInv, HeadInv, [Authority!Next]_(Authority!vars), NEW a \in Auths, Prepared(a)
    PROVE  /\ Authority!Live = {} /\ \A b \in Auths : Prepared(b) => a = b
           /\ UNCHANGED <<chain, final, observed, promoted, head, binding, control, claimed, metadata, authorityGallery>>
           /\ \E w \in Wallets : Authority!AuthorizationCommit(w) /\ auth'[a].wallet = w
<1>1. Authority!Live = {}
  BY OutsideTheSlot DEF Prepared
<1>2. PICK c \in Auths : AuthSteps(c)
  BY AuthIsLeft DEF Prepared
<1>3. \A b \in Auths : Prepared(b) => b = c
  BY <1>2, AuthMoves DEF Prepared
<1> QED BY <1>1, <1>2, <1>3, AuthMoves DEF Prepared

LEMMA OneStep ==
    ChainTypes /\ AuthTypes /\ StateInv /\ HeadInv /\ OneInv /\ [Authority!Next]_(Authority!vars) => OneInv'
<1> SUFFICES ASSUME ChainTypes, AuthTypes, StateInv, HeadInv, OneInv, [Authority!Next]_(Authority!vars),
                    NEW a \in Authority!Live', NEW b \in Authority!Live'
             PROVE  a = b
  BY DEF OneInv
<1>1. a \in Auths /\ b \in Auths /\ (a \in Authority!Live \/ Prepared(a)) /\ (b \in Authority!Live \/ Prepared(b))
  BY LiveMoves
<1>2. CASE a \in Authority!Live /\ b \in Authority!Live
  BY <1>2 DEF OneInv
<1>3. CASE Prepared(a)
  BY <1>1, <1>3, OnePrepares
<1>4. CASE Prepared(b)
  BY <1>1, <1>4, OnePrepares
<1> QED BY <1>1, <1>2, <1>3, <1>4

LEMMA HeadStep == ChainTypes /\ AuthTypes /\ StateInv /\ HeadInv /\ [Authority!Next]_(Authority!vars) => HeadInv'
<1> SUFFICES ASSUME ChainTypes, AuthTypes, StateInv, HeadInv, [Authority!Next]_(Authority!vars), NEW b \in Authority!Live'
             PROVE  b \in Authority!Rows' /\ auth'[b].wallet = head' /\ binding'[head'] = "active"
  BY DEF HeadInv
<1>1. b \in Auths /\ (b \in Authority!Live \/ Prepared(b))
  BY LiveMoves
<1>2. b \in Authority!Rows' <=> auth'[b].issuance \notin {"none", "deleted"}
  BY <1>1 DEF Authority!Rows
<1>3. CASE Prepared(b)
  <2>1. UNCHANGED <<head, binding>> /\ \E w \in Wallets : Authority!AuthorizationCommit(w) /\ auth'[b].wallet = w
    BY <1>1, <1>3, OnePrepares
  <2> QED BY <1>2, <1>3, <2>1 DEF Prepared, Authority!AuthorizationCommit
<1>4. CASE b \in Authority!Live /\ ~ Prepared(b)
  <2>1. b \in Authority!Rows /\ auth[b].wallet = head /\ binding[head] = "active"
    BY <1>4 DEF HeadInv
  <2>2. Authority!UnresolvedAuthority
    BY <1>4, ResolvedIsDead
  <2>3. UNCHANGED <<head, binding>>
    BY <2>2, WalletsAreLeft DEF Authority!ClearHead, Authority!RestoreHead, Authority!ActivateBinding, Authority!EndBinding, Authority!DeleteBinding
  <2>4. ~ Deleted(b)
    BY <1>4, <2>1, DeadIsNotLive DEF Deleted
  <2>5. auth'[b].wallet = auth[b].wallet /\ auth'[b].issuance \notin {"none", "deleted"}
    BY <1>1, <1>4, <2>1, <2>4, RowMoves DEF Released, Answered, Settled, Authority!Rows
  <2> QED BY <1>2, <2>1, <2>3, <2>5
<1> QED BY <1>1, <1>3, <1>4

LEMMA RecordsAreLeft ==
    ASSUME [Authority!Next]_(Authority!vars)
    PROVE  /\ authorityGallery' = authorityGallery \/ Authority!GalleryEntry
           /\ claimed' = claimed \/ Authority!EraseSignature \/ Authority!WithdrawClaim \/ Authority!Claim
           /\ control' = control \/ Authority!SetControl
           /\ metadata' = metadata \/ Authority!SetControl \/ Authority!Reserve \/ Authority!Freeze \/ Authority!AbortMetadata \/ Authority!DeleteMetadata
<1>0. CASE UNCHANGED Authority!vars
  BY <1>0 DEF Authority!vars, Authority!rowVars
<1>1. CASE Authority!NewBlock \/ Authority!Finalize \/ Authority!Reorganize \/ Authority!Observe \/ Authority!Orphan \/ Authority!Promote \/ Authority!WriteCheckpoint \/ Authority!GalleryEntry
  BY <1>1 DEF Authority!NewBlock, Authority!Finalize, Authority!Reorganize, Authority!Observe, Authority!Orphan, Authority!Promote, Authority!WriteCheckpoint, Authority!GalleryEntry, Authority!rowVars
<1>2. CASE Authority!SetControl \/ Authority!Suppress \/ Authority!SetDeployment \/ Authority!ClearHead \/ Authority!RestoreHead \/ Authority!ActivateBinding \/ Authority!EndBinding \/ Authority!DeleteBinding
  BY <1>2 DEF Authority!SetControl, Authority!Suppress, Authority!SetDeployment, Authority!ClearHead, Authority!RestoreHead, Authority!ActivateBinding, Authority!EndBinding, Authority!DeleteBinding, Authority!rowVars
<1>3. CASE Authority!Reserve \/ Authority!Freeze \/ Authority!AbortMetadata \/ Authority!DeleteMetadata
  BY <1>3 DEF Authority!Reserve, Authority!Freeze, Authority!AbortMetadata, Authority!DeleteMetadata
<1>4. ASSUME NEW a \in Auths,
             \/ \E w \in Wallets : Authority!Prepare(a, w)
             \/ Authority!SignerReleases(a) \/ Authority!SetIssuance(a) \/ Authority!RecordAttempt(a) \/ Authority!SetChainState(a)
             \/ Authority!DeleteAttempt(a) \/ Authority!DeleteAuthorization(a)
      PROVE  UNCHANGED <<authorityGallery, claimed, control, metadata>>
  BY <1>4 DEF Authority!Prepare, Authority!SignerReleases, Authority!SetIssuance, Authority!RecordAttempt, Authority!SetChainState, Authority!DeleteAttempt,
              Authority!DeleteAuthorization, Authority!rowVars
<1>5. CASE Authority!RecordEvidence \/ Authority!EraseSignature \/ Authority!WithdrawClaim \/ Authority!Claim
  BY <1>5 DEF Authority!RecordEvidence, Authority!EraseSignature, Authority!WithdrawClaim, Authority!Claim
<1> QED BY <1>0, <1>1, <1>2, <1>3, <1>4, <1>5 DEF Authority!Next

LEMMA RedeemableIsUnspent ==
    ASSUME ChainTypes, AuthTypes, NEW a \in Auths, Authority!Redeemable(a)
    PROVE  ~ IsSpent(a)
<1>1. /\ Len(chain) \in Nat /\ promoted \in Nat /\ promoted <= Len(chain) /\ auth[a].deadline \in Nat
  BY LenProperties DEF ChainTypes, AuthTypes
<1> QED BY <1>1, FinalIsOnChain DEF Authority!Redeemable, IsSpent, Authority!Height

LEMMA MintedMoves ==
    ASSUME ChainTypes, AuthTypes, [Authority!Next]_(Authority!vars), NEW a \in (Authority!Mints(chain, Len(chain)))'
    PROVE  a \in Authority!Mints(chain, Len(chain)) \/ (a \in Auths /\ Authority!Redeemable(a) /\ UNCHANGED <<auth, attested>>)
<1>0. /\ chain \in Seq(Events) /\ Len(chain) \in Nat /\ final \in Nat /\ final <= Len(chain)
      /\ (Authority!Mints(chain, Len(chain)))' = Authority!Mints(chain', Len(chain'))
  BY LenProperties DEF ChainTypes, Authority!Mints, Authority!Upto
<1>1. PICK i \in 1..Len(chain') : chain'[i].kind = "mint" /\ chain'[i].of = a
  BY <1>0, MintsAre
<1>2. CASE Authority!NewBlock
  <2>1. PICK e : /\ chain' = Append(chain, e)
                 /\ e \in {Authority!Empty} \cup {Authority!Event("mint", b) : b \in {x \in Auths : Authority!Redeemable(x)}}
                               \cup {Authority!Event("revoke", b) : b \in Authority!Rows \ Authority!Revokes(chain, Authority!Height)}
    BY <1>2 DEF Authority!NewBlock
  <2>2. e \in Events
    BY <2>1 DEF Events, Authority!Empty, Authority!Event, Authority!Rows
  <2>3. /\ Len(chain') = Len(chain) + 1 /\ chain'[Len(chain) + 1] = e
        /\ \A j \in 1..Len(chain) : chain'[j] = chain[j]
    BY <1>0, <2>1, <2>2, AppendProperties
  <2>4. UNCHANGED <<auth, attested>>
    BY <1>2 DEF Authority!NewBlock, Authority!authVars
  <2>5. CASE i = Len(chain) + 1
    BY <1>1, <2>1, <2>3, <2>4, <2>5 DEF Authority!Event, Authority!Empty
  <2>6. CASE i \in 1..Len(chain)
    BY <1>1, <2>3, <2>6, MintsAre
  <2> QED BY <1>0, <2>3, <2>5, <2>6
<1>3. CASE Authority!Reorganize
  <2>1. Len(chain) > final
    BY <1>0, <1>3, ShortensChain
  <2>2. Len(chain') = Len(chain) - 1 /\ \A j \in 1..(Len(chain) - 1) : chain'[j] = chain[j]
    BY <1>0, <1>3, ShortensChain
  <2>3. i \in 1..Len(chain) /\ chain'[i] = chain[i]
    BY <1>0, <2>2
  <2> QED BY <1>1, <2>3, MintsAre
<1>4. CASE ~ (Authority!NewBlock \/ Authority!Reorganize)
  <2>1. chain' = chain
    BY <1>4, ChainIsLeft DEF ChainSteps, Authority!Finalize, Authority!Observe, Authority!Orphan, Authority!Promote, Authority!WriteCheckpoint, Authority!chainVars
  <2> QED BY <1>1, <2>1, MintsAre
<1> QED BY <1>2, <1>3, <1>4

LEMMA MintedKeepsRow ==
    ASSUME ChainTypes, AuthTypes, MintInv, StateInv, RecordInv, [Authority!Next]_(Authority!vars),
           NEW a \in (Authority!Mints(chain, Len(chain)))'
    PROVE  a \in Authority!Rows'
<1>1. CASE a \in Authority!Mints(chain, Len(chain))
  <2>1. a \in Authority!Rows /\ a \in Auths
    BY <1>1 DEF RecordInv, Authority!Rows
  <2>2. ~ Deleted(a)
    <3>1. Deleted(a) => IsSpent(a) /\ a \notin Authority!Mints(observed, promoted)
      BY DeadIsSpent DEF Deleted
    <3> QED BY <1>1, <3>1, SpentIsSeen
  <2> QED BY <2>1, <2>2, RowMoves DEF Prepared, Released, Answered, Settled, Authority!Rows
<1>2. CASE a \in Auths /\ Authority!Redeemable(a) /\ UNCHANGED <<auth, attested>>
  <2>1. a \in attested /\ ~ IsSpent(a)
    BY <1>2, RedeemableIsUnspent DEF Authority!Redeemable
  <2>2. auth[a].issuance \notin {"none", "deleted"}
    BY <1>2, <2>1 DEF StateInv
  <2> QED BY <1>2, <2>2 DEF Authority!Rows
<1> QED BY <1>1, <1>2, MintedMoves

LEMMA RecordStep == ChainTypes /\ AuthTypes /\ MintInv /\ StateInv /\ HeadInv /\ RecordInv /\ [Authority!Next]_(Authority!vars) => RecordInv'
<1> SUFFICES ASSUME ChainTypes, AuthTypes, MintInv, StateInv, HeadInv, RecordInv, [Authority!Next]_(Authority!vars) PROVE RecordInv'
  OBVIOUS
<1>0. /\ metadata \in [state : {"none", "open", "frozen", "aborted"}, current : BOOLEAN]
      /\ Authority!Rows # {} => metadata.state = "frozen"
      /\ authorityGallery => claimed /\ metadata.state = "frozen"
  BY DEF RecordInv
<1>1. /\ metadata' \in [state : {"none", "open", "frozen", "aborted"}, current : BOOLEAN]
      /\ metadata.state = "frozen" => metadata'.state = "frozen" \/ (Authority!DeleteMetadata /\ ~ authorityGallery /\ Authority!Rows = {})
  <2>1. CASE metadata' = metadata
    BY <1>0, <2>1
  <2>2. CASE Authority!SetControl
    BY <1>0, <2>2 DEF Authority!SetControl
  <2>3. CASE Authority!Reserve
    BY <1>0, <2>3 DEF Authority!Reserve
  <2>5. CASE Authority!Freeze
    BY <1>0, <2>5 DEF Authority!Freeze
  <2>6. CASE Authority!AbortMetadata
    BY <1>0, <2>6 DEF Authority!AbortMetadata
  <2>4. CASE Authority!DeleteMetadata
    BY <1>0, <2>4 DEF Authority!DeleteMetadata
  <2> QED BY <2>1, <2>2, <2>3, <2>4, <2>5, <2>6, RecordsAreLeft
<1>2. \A a \in (Authority!Mints(chain, Len(chain)))' : a \in Authority!Rows'
  BY MintedKeepsRow
<1>3. ASSUME NEW b \in Authority!Rows' PROVE metadata'.state = "frozen"
  <2>1. b \in Auths /\ auth'[b].issuance \notin {"none", "deleted"}
    BY <1>3 DEF Authority!Rows
  <2>2. CASE Prepared(b)
    <3>1. metadata' = metadata /\ \E w \in Wallets : Authority!AuthorizationCommit(w)
      BY <2>1, <2>2, OnePrepares
    <3> QED BY <3>1 DEF Authority!AuthorizationCommit
  <2>3. CASE ~ Prepared(b)
    <3>1. b \in Authority!Rows
      BY <2>1, <2>3, RowMoves DEF Released, Answered, Settled, Deleted, Authority!Rows
    <3> QED BY <1>0, <1>1, <3>1
  <2> QED BY <2>2, <2>3
<1>4. authorityGallery' => claimed' /\ metadata'.state = "frozen"
  <2>1. CASE Authority!GalleryEntry
    <3>1. claimed /\ claimed' = claimed /\ metadata' = metadata /\ Authority!Mints(observed, promoted) # {}
      BY <2>1 DEF Authority!GalleryEntry
    <3>2. Authority!Rows # {}
      BY <3>1, FinalIsOnChain DEF RecordInv
    <3> QED BY <1>0, <3>1, <3>2
  <2>2. CASE authorityGallery' = authorityGallery
    <3>1. authorityGallery => claimed'
      BY <1>0, RecordsAreLeft DEF Authority!EraseSignature, Authority!WithdrawClaim, Authority!Claim
    <3> QED BY <1>0, <1>1, <2>2, <3>1
  <2> QED BY <2>1, <2>2, RecordsAreLeft
<1> QED BY <1>1, <1>2, <1>3, <1>4 DEF RecordInv

\* Once every authorization is spent and nothing was minted, nothing will be.
LEMMA GoneStays ==
    ASSUME ChainTypes, AuthTypes, [Authority!Next]_(Authority!vars), Authority!Mints(chain, Len(chain)) = {}, \A a \in Auths : IsSpent(a),
           \A a \in Auths : ~ Prepared(a)
    PROVE  (Authority!Mints(chain, Len(chain)))' = {} /\ \A a \in Auths : IsSpent(a)'
BY SpentStays, MintedMoves, RedeemableIsUnspent

LEMMA GoneStep ==
    ChainTypes /\ AuthTypes /\ MintInv /\ StateInv /\ HeadInv /\ RecordInv /\ GoneInv /\ [Authority!Next]_(Authority!vars) => GoneInv'
<1> SUFFICES ASSUME ChainTypes, AuthTypes, MintInv, StateInv, HeadInv, RecordInv, GoneInv, [Authority!Next]_(Authority!vars),
                    ~ claimed' \/ control' = "erased"
             PROVE  (Authority!Mints(chain, Len(chain)))' = {} /\ \A a \in Auths : IsSpent(a)'
  BY DEF GoneInv
<1>1. ASSUME NEW a \in Auths, Prepared(a) PROVE FALSE
  BY <1>1, OnePrepares DEF Authority!AuthorizationCommit
<1>2. ASSUME ~ Authority!SeenMint, \A a \in Authority!Rows : Authority!AuthorizationIsSafelyDead(a)
      PROVE  Authority!Mints(chain, Len(chain)) = {} /\ \A a \in Auths : IsSpent(a)
  <2>1. Authority!Mints(observed, promoted) = {}
    BY <1>2, FinalIsOnChain DEF Authority!SeenMint
  <2>2. ASSUME NEW a \in Auths PROVE IsSpent(a)
    <3>1. CASE a \in Authority!Rows
      BY <1>2, <2>1, <3>1, DeadIsSpent
    <3>2. CASE a \notin Authority!Rows
      BY <3>2 DEF Authority!Rows, StateInv, IsSpent
    <3> QED BY <3>1, <3>2
  <2>3. ASSUME NEW a \in Authority!Mints(chain, Len(chain)) PROVE FALSE
    <3>1. a \in Auths
      BY <2>3 DEF RecordInv, Authority!Rows
    <3> QED BY <2>1, <2>2, <2>3, <3>1, SpentIsSeen
  <2> QED BY <2>2, <2>3
<1>3. CASE Authority!EraseSignature
  <2>1. ~ Authority!SeenMint /\ \A a \in Authority!Rows : Authority!AuthorizationIsSafelyDead(a)
    BY <1>3 DEF Authority!EraseSignature, Authority!HasErasureEvidence
  <2> QED BY <1>1, <1>2, <2>1, GoneStays
<1>4. CASE Authority!WithdrawClaim
  <2>1. ~ Authority!SeenMint /\ \A a \in Authority!Rows : Authority!AuthorizationIsSafelyDead(a)
    BY <1>4 DEF Authority!WithdrawClaim
  <2> QED BY <1>1, <1>2, <2>1, GoneStays
<1>5. CASE ~ (Authority!EraseSignature \/ Authority!WithdrawClaim)
  <2>1. ~ claimed \/ control = "erased"
    BY <1>5, RecordsAreLeft DEF Authority!Claim, Authority!SetControl, Authority!ErasureCommit
  <2> QED BY <1>1, <2>1, GoneStays DEF GoneInv
<1> QED BY <1>3, <1>4, <1>5

LEMMA AuthorityInit == Authority!Init => AuthorityInv
<1> SUFFICES ASSUME Authority!Init PROVE AuthorityInv
  OBVIOUS
<1>1. ChainTypes /\ MintInv
  BY DEF Authority!Init, ChainTypes, MintInv
<1>2. AuthTypes
  BY DEF Authority!Init, AuthTypes, Authority!NoAuth
<1>3. Authority!Rows = {} /\ Authority!Live = {}
  BY DEF Authority!Init, Authority!Rows, Authority!Live, Authority!NoAuth
<1>4. Authority!Mints(chain, Len(chain)) = {}
  BY DEF Authority!Init, Authority!Mints, Authority!Upto
<1>5. StateInv
  BY DEF Authority!Init, StateInv, Authority!NoAuth
<1> QED BY <1>1, <1>2, <1>3, <1>4, <1>5 DEF Authority!Init, AuthorityInv, HeadInv, OneInv, RecordInv, GoneInv

LEMMA AuthorityStep == AuthorityInv /\ [Authority!Next]_(Authority!vars) => AuthorityInv'
<1> SUFFICES ASSUME AuthorityInv, [Authority!Next]_(Authority!vars) PROVE AuthorityInv'
  OBVIOUS
<1>1. ChainTypes' /\ AuthTypes'
  BY ChainMoves, AuthTypesStay DEF AuthorityInv
<1> QED BY <1>1, MintStep, StateStep, HeadStep, OneStep, RecordStep, GoneStep DEF AuthorityInv

\* One authorization at a time can be redeemed, and only to the wallet it names; what is
\* erased has no token and gets none; what minted a signature in the gallery stays
\* recorded: whatever statements are tried and however the chain is rewound above its
\* final block (002_v2_minting.sql).
THEOREM AuthorityAlwaysHolds == Authority!Spec => []AuthorityHolds
<1>1. ASSUME AuthorityInv PROVE AuthorityHolds
  <2>0. /\ ChainTypes /\ AuthTypes /\ StateInv /\ HeadInv /\ OneInv /\ RecordInv /\ GoneInv
    BY <1>1 DEF AuthorityInv
  <2>1. Authority!LiveAuthorityKeepsItsWallet
    BY <2>0 DEF HeadInv, Authority!LiveAuthorityKeepsItsWallet
  <2>2. Authority!OneLiveAuthority
    <3>1. CASE Authority!Live = {}
      BY <3>1, FS_EmptySet DEF Cardinality, Authority!Cardinality, Authority!OneLiveAuthority
    <3>2. ASSUME NEW a \in Authority!Live PROVE Authority!OneLiveAuthority
      <4>1. Authority!Live = {a}
        BY <2>0, <3>2 DEF OneInv
      <4>2. Cardinality({a}) = 1
        BY FS_Singleton
      <4>3. Authority!Cardinality(Authority!Live) = Cardinality(Authority!Live)
        BY DEF Cardinality, Authority!Cardinality
      <4> QED BY <4>1, <4>2, <4>3 DEF Authority!OneLiveAuthority
    <3> QED BY <3>1, <3>2
  <2>3. Authority!ErasedIsUnminted
    <3>1. \A a \in Authority!Live : a \in Auths
      BY DEF Authority!Live
    <3> QED BY <2>0, <3>1, SpentIsDead DEF GoneInv, Authority!ErasedIsUnminted, Authority!Height
  <2>4. Authority!ProvenanceIsKept
    BY <2>0, FinalIsOnChain DEF RecordInv, Authority!ProvenanceIsKept
  <2> QED BY <2>1, <2>2, <2>3, <2>4 DEF AuthorityHolds
<1>2. Authority!Spec => []AuthorityInv
  BY AuthorityInit, AuthorityStep, PTL DEF Authority!Spec
<1> QED BY <1>1, <1>2, PTL

------------------------------------------------------------------------------
(* The publication of one signature. *)

PublicationInv ==
    /\ publicationGallery \in [Deployments -> {"none", "finalized", "finality_revoked"}]
    /\ outbox \in [Items -> Publication!OutboxRows \cup {NoRow}]
    /\ lease \in [Publications -> Publication!LeaseRows \cup {NoRow}]
    /\ ~ publicationClaimed => Publication!LiveItems = {} /\ Publication!LiveLeases = {} /\ \A d \in Deployments : publicationGallery[d] = "none"

LEMMA PublicationInit == Publication!Init => PublicationInv
BY DEF Publication!Init, PublicationInv, Publication!LiveItems, Publication!LiveLeases

LEMMA PublicationStep == PublicationInv /\ [Publication!Next]_(Publication!vars) => PublicationInv'
<1> SUFFICES ASSUME PublicationInv, [Publication!Next]_(Publication!vars) PROVE PublicationInv'
  OBVIOUS
<1>0. /\ publicationGallery \in [Deployments -> {"none", "finalized", "finality_revoked"}]
      /\ outbox \in [Items -> Publication!OutboxRows \cup {NoRow}]
      /\ lease \in [Publications -> Publication!LeaseRows \cup {NoRow}]
      /\ ~ publicationClaimed => Publication!LiveItems = {} /\ Publication!LiveLeases = {} /\ \A d \in Deployments : publicationGallery[d] = "none"
  BY DEF PublicationInv
<1>1. ASSUME UNCHANGED <<publicationGallery, outbox, lease>>, publicationClaimed' = publicationClaimed \/ publicationClaimed'
      PROVE  PublicationInv'
  BY <1>0, <1>1 DEF PublicationInv, Publication!LiveItems, Publication!LiveLeases
<1>2. CASE Publication!WriteGallery
  <2>1. PICK d \in Publication!Existing :
           \/ publicationGallery[d] = "none" /\ publicationClaimed /\ publicationGallery' = [publicationGallery EXCEPT ![d] = "finalized"]
           \/ publicationGallery[d] = "finalized" /\ publicationGallery' = [publicationGallery EXCEPT ![d] = "finality_revoked"]
    BY <1>2 DEF Publication!WriteGallery
  <2>2. UNCHANGED <<publicationClaimed, outbox, lease>> /\ d \in Deployments
    BY <1>2 DEF Publication!WriteGallery, Publication!Existing
  <2>3. publicationClaimed /\ publicationGallery' \in [Deployments -> {"none", "finalized", "finality_revoked"}]
    BY <1>0, <2>1, <2>2
  <2> QED BY <1>0, <2>2, <2>3 DEF PublicationInv
<1>3. CASE Publication!WriteOutbox
  <2>1. PICK i \in Items, new \in Publication!OutboxRows :
           Publication!OutboxGuard(outbox[i], new) /\ outbox' = [outbox EXCEPT ![i] = new]
    BY <1>3 DEF Publication!WriteOutbox
  <2>2. UNCHANGED <<publicationClaimed, publicationGallery, lease>>
    BY <1>3 DEF Publication!WriteOutbox
  <2>3. ~ publicationClaimed => new.state = "aborted"
    BY <1>0, <2>1 DEF Publication!OutboxGuard, Publication!Finalized, Publication!OutboxRows
  <2>4. \A j \in Items : outbox'[j] = IF j = i THEN new ELSE outbox[j]
    BY <1>0, <2>1
  <2>5. ~ publicationClaimed => Publication!LiveItems' = {}
    BY <1>0, <2>3, <2>4 DEF Publication!LiveItems
  <2>6. Publication!LiveLeases' = Publication!LiveLeases /\ outbox' \in [Items -> Publication!OutboxRows \cup {NoRow}]
    BY <1>0, <2>1, <2>2 DEF Publication!LiveLeases
  <2> QED BY <1>0, <2>2, <2>5, <2>6 DEF PublicationInv
<1>4. CASE Publication!WriteLease
  <2>1. PICK l \in Publications, new \in Publication!LeaseRows :
           Publication!LeaseGuard(l, lease[l], new) /\ lease' = [lease EXCEPT ![l] = new]
    BY <1>4 DEF Publication!WriteLease
  <2>2. UNCHANGED <<publicationClaimed, publicationGallery, outbox>>
    BY <1>4 DEF Publication!WriteLease
  <2>3. ~ publicationClaimed => new.state \notin {"staging", "ready"}
    BY <1>0, <2>1 DEF Publication!LeaseGuard, Publication!Finalized, Publication!LeaseRows
  <2>4. \A k \in Publications : lease'[k] = IF k = l THEN new ELSE lease[k]
    BY <1>0, <2>1
  <2>5. ~ publicationClaimed => Publication!LiveLeases' = {}
    BY <1>0, <2>3, <2>4 DEF Publication!LiveLeases
  <2>6. Publication!LiveItems' = Publication!LiveItems /\ lease' \in [Publications -> Publication!LeaseRows \cup {NoRow}]
    BY <1>0, <2>1, <2>2 DEF Publication!LiveItems
  <2> QED BY <1>0, <2>2, <2>5, <2>6 DEF PublicationInv
<1>5. CASE Publication!EraseSignature
  BY <1>0, <1>5 DEF Publication!EraseSignature, Publication!Drained, PublicationInv, Publication!LiveItems, Publication!LiveLeases
<1>6. CASE Publication!WithdrawClaim
  BY <1>0, <1>6 DEF Publication!WithdrawClaim, PublicationInv, Publication!LiveItems, Publication!LiveLeases
<1>9. CASE Publication!DeleteOutbox
  <2>1. PICK i \in Items : outbox' = [outbox EXCEPT ![i] = NoRow]
    BY <1>9 DEF Publication!DeleteOutbox
  <2>2. UNCHANGED <<publicationClaimed, publicationGallery, lease>>
    BY <1>9 DEF Publication!DeleteOutbox
  <2>3. \A j \in Items : outbox'[j] = NoRow \/ outbox'[j] = outbox[j]
    BY <1>0, <2>1
  <2>4. Publication!LiveItems' \subseteq Publication!LiveItems
    BY <2>3 DEF Publication!LiveItems
  <2>5. Publication!LiveLeases' = Publication!LiveLeases /\ outbox' \in [Items -> Publication!OutboxRows \cup {NoRow}]
    BY <1>0, <2>1, <2>2 DEF Publication!LiveLeases
  <2> QED BY <1>0, <2>2, <2>4, <2>5 DEF PublicationInv
<1>10. CASE Publication!DeleteLease
  <2>1. PICK l \in Publications : lease' = [lease EXCEPT ![l] = NoRow]
    BY <1>10 DEF Publication!DeleteLease
  <2>2. UNCHANGED <<publicationClaimed, publicationGallery, outbox>>
    BY <1>10 DEF Publication!DeleteLease
  <2>3. \A k \in Publications : lease'[k] = NoRow \/ lease'[k] = lease[k]
    BY <1>0, <2>1
  <2>4. Publication!LiveLeases' \subseteq Publication!LiveLeases
    BY <2>3 DEF Publication!LiveLeases
  <2>5. Publication!LiveItems' = Publication!LiveItems /\ lease' \in [Publications -> Publication!LeaseRows \cup {NoRow}]
    BY <1>0, <2>1, <2>2 DEF Publication!LiveItems
  <2> QED BY <1>0, <2>2, <2>4, <2>5 DEF PublicationInv
<1>7. CASE Publication!WriteControl \/ Publication!WriteDeployment \/ Publication!DeleteDeployment \/ Publication!Suppress \/ Publication!Unsuppress \/ Publication!LeaseExpires \/ Publication!Claim
  BY <1>1, <1>7 DEF Publication!WriteControl, Publication!WriteDeployment, Publication!DeleteDeployment, Publication!Suppress, Publication!Unsuppress, Publication!LeaseExpires, Publication!Claim
<1>8. CASE UNCHANGED Publication!vars
  BY <1>1, <1>8 DEF Publication!vars
<1> QED BY <1>2, <1>3, <1>4, <1>5, <1>6, <1>7, <1>8, <1>9, <1>10 DEF Publication!Next

------------------------------------------------------------------------------
(* A stored object, its writers, references and owners. *)

WriterTypes == [kind : Kinds, signature : Signatures, version : Nat, preparation : Nat,
                worker : Workers \cup {NoWorker}]
ContentTypes ==
    /\ guard # NoRow => guard.state \in {"absent", "present", "deletion_pending"}
    /\ contentLease \in [Leases -> [authority : WriterTypes, fence : Nat,
                             state : {"writing", "committed", "aborted", "expired"}] \cup {NoRow}]
    /\ references \subseteq [authority : WriterTypes, lease : Leases]
    /\ contentControl \in [Signatures -> [state : {"enabled", "blocked", "erasure_pending", "erased"}, version : Nat]]
    /\ contentClaimed \subseteq Signatures
    /\ contentMetadata \in [Signatures -> Content!MetadataRows \cup {NoRow}]
    /\ contentHeld \in [Signatures -> SUBSET (Nat \X Nat \X (Workers \cup {NoWorker}))]

LeaseInv == \A l \in Leases : contentLease[l] # NoRow => guard # NoRow

\* Of a signature's preparation fences: all are of control versions up to the present one, which is
\* new when nobody prepares; and the newest fence names the worker of the row.
WorkerInv(s) ==
    /\ \A h \in contentHeld[s] : h[1] <= contentControl[s].version
    /\ contentMetadata[s] = NoRow \/ contentControl[s].state # "enabled" => \A h \in contentHeld[s] : h[1] < contentControl[s].version
    /\ contentMetadata[s] # NoRow =>
         /\ contentMetadata[s].version <= contentControl[s].version
         /\ contentControl[s].state # "enabled" => contentMetadata[s].version < contentControl[s].version
         /\ \A h \in contentHeld[s] : h[1] = contentMetadata[s].version =>
              /\ h[2] <= contentMetadata[s].fence
              /\ h[2] = contentMetadata[s].fence /\ h[3] # NoWorker /\ contentMetadata[s].worker # NoWorker =>
                   h[3] = contentMetadata[s].worker
    /\ \A h, k \in contentHeld[s] :
         h[1] = k[1] /\ h[2] = k[2] /\ h[3] # NoWorker /\ k[3] # NoWorker => h[3] = k[3]

ContentInv ==
    /\ ContentTypes /\ LeaseInv
    /\ Content!ReferencedIsPresent /\ Content!WriterKeepsObject /\ Content!ReferencesHaveOwners
    /\ \A s \in Signatures : WorkerInv(s)

LEMMA ContentIsLeft ==
    ASSUME [Content!Next]_(Content!vars)
    PROVE  /\ guard' = guard \/ Content!WriteGuard \/ Content!DeleteGuard
           /\ contentLease' = contentLease \/ Content!WriteLease \/ Content!DeleteLease
           /\ lapsed' = lapsed \/ Content!LeaseLapses \/ Content!DeleteLease
           /\ references' = references \/ Content!Attach \/ Content!Detach
           /\ contentControl' = contentControl \/ Content!WriteControl \/ Content!WithdrawClaim
           /\ contentClaimed' = contentClaimed \/ Content!EraseSignature \/ Content!WithdrawClaim \/ Content!Claim
           /\ UNCHANGED <<contentMetadata, contentHeld>> \/ Content!WriteMetadata \/ Content!DeleteMetadata
<1>0. CASE UNCHANGED Content!vars
  BY <1>0 DEF Content!vars, Content!object, Content!writers, Content!owners, Content!preparation
<1>1. CASE Content!WriteGuard \/ Content!DeleteGuard \/ Content!GraceElapses \/ Content!WriteLease \/ Content!DeleteLease
           \/ Content!LeaseLapses \/ Content!Attach \/ Content!Detach
  BY <1>1 DEF Content!WriteGuard, Content!DeleteGuard, Content!GraceElapses, Content!WriteLease, Content!DeleteLease, Content!LeaseLapses, Content!Attach, Content!Detach, Content!object, Content!writers, Content!owners, Content!preparation
<1>2. CASE Content!WriteMetadata \/ Content!MetadataLapses \/ Content!DeleteMetadata
  BY <1>2 DEF Content!WriteMetadata, Content!MetadataLapses, Content!DeleteMetadata, Content!object, Content!writers, Content!owners
<1>3. CASE Content!WriteControl \/ Content!EraseSignature \/ Content!WithdrawClaim \/ Content!Claim
  BY <1>3 DEF Content!WriteControl, Content!EraseSignature, Content!WithdrawClaim, Content!Claim, Content!object, Content!writers, Content!preparation
<1> QED BY <1>0, <1>1, <1>2, <1>3 DEF Content!Next

\* Who may write owns: the claim of a V1 object, the preparation of a V2 object.
LEMMA WritersOwn ==
    ASSUME ContentTypes, NEW a \in Content!Authorities, Content!OwnerWrites(a)
    PROVE  IF a.kind = "v1" THEN a.signature \in contentClaimed
           ELSE contentMetadata[a.signature] # NoRow /\ contentMetadata[a.signature].version = a.version
<1>1. CASE a.kind = "v1"
  BY <1>1 DEF Content!OwnerWrites
<1>2. CASE a.kind # "v1"
  <2>1. /\ a.version \in 1..MaxVersion /\ a.preparation \in 1..MaxPreparation /\ a.worker \in Workers
    BY <1>2 DEF Content!Authorities
  <2> DEFINE row == [state |-> "publishing", version |-> a.version, worker |-> a.worker, fence |-> a.preparation]
  <2>2. row \in Content!MetadataRows /\ row.version = a.version
    BY <2>1 DEF Content!MetadataRows
  <2>3. contentMetadata[a.signature] = row
    BY <1>2 DEF Content!OwnerWrites
  <2> HIDE DEF row
  <2> QED BY <1>2, <2>2, <2>3, TablesAssumption DEF Content!ContentAssumption
<1> QED BY <1>1, <1>2

LEMMA AuthoritiesAreWriters == Content!Authorities \subseteq WriterTypes
BY TablesAssumption DEF Content!ContentAssumption, Content!Authorities, WriterTypes

LEMMA ContentTypesStay == ContentTypes /\ [Content!Next]_(Content!vars) => ContentTypes'
<1> SUFFICES ASSUME ContentTypes, [Content!Next]_(Content!vars) PROVE ContentTypes'
  OBVIOUS
<1> DEFINE LeaseTypes == [authority : WriterTypes, fence : Nat,
                          state : {"writing", "committed", "aborted", "expired"}]
           ControlTypes == [state : {"enabled", "blocked", "erasure_pending", "erased"}, version : Nat]
<1>0. /\ guard # NoRow => guard.state \in {"absent", "present", "deletion_pending"}
      /\ contentLease \in [Leases -> LeaseTypes \cup {NoRow}]
      /\ references \subseteq [authority : WriterTypes, lease : Leases]
      /\ contentControl \in [Signatures -> ControlTypes]
      /\ contentClaimed \subseteq Signatures
      /\ contentMetadata \in [Signatures -> Content!MetadataRows \cup {NoRow}]
      /\ contentHeld \in [Signatures -> SUBSET (Nat \X Nat \X (Workers \cup {NoWorker}))]
  BY DEF ContentTypes
<1>1. guard' # NoRow => guard'.state \in {"absent", "present", "deletion_pending"}
  BY <1>0, ContentIsLeft DEF Content!WriteGuard, Content!DeleteGuard
<1>2. contentLease' \in [Leases -> LeaseTypes \cup {NoRow}]
  <2>1. CASE Content!WriteLease
    <3>1. PICK l \in Leases : \E new \in Content!LeaseRows(contentLease[l]) : contentLease' = [contentLease EXCEPT ![l] = new]
      BY <2>1 DEF Content!WriteLease
    <3>2. PICK new \in Content!LeaseRows(contentLease[l]) : contentLease' = [contentLease EXCEPT ![l] = new]
      BY <3>1
    <3>3. new \in LeaseTypes
      <4>1. CASE contentLease[l] = NoRow
        <5>1. new \in [authority : Content!Authorities, fence : 1..MaxTaken, state : {"writing"}]
          BY <3>2, <4>1 DEF Content!LeaseRows
        <5> QED BY <5>1, AuthoritiesAreWriters
      <4>2. CASE contentLease[l] # NoRow
        <5>1. PICK to \in {"writing", "committed", "aborted", "expired"} : new = [contentLease[l] EXCEPT !.state = to]
          BY <3>2, <4>2 DEF Content!LeaseRows
        <5>2. contentLease[l] \in LeaseTypes
          BY <1>0, <4>2
        <5> QED BY <5>1, <5>2
      <4> QED BY <4>1, <4>2
    <3> HIDE DEF LeaseTypes
    <3> QED BY <1>0, <3>2, <3>3
  <2>2. CASE Content!DeleteLease
    <3>1. PICK l \in Leases : contentLease' = [contentLease EXCEPT ![l] = NoRow]
      BY <2>2 DEF Content!DeleteLease
    <3> HIDE DEF LeaseTypes
    <3> QED BY <1>0, <3>1
  <2> QED BY <1>0, <2>1, <2>2, ContentIsLeft
<1>3. references' \subseteq [authority : WriterTypes, lease : Leases]
  <2>1. CASE Content!Attach
    <3>1. PICK a \in Content!Authorities, l \in Leases : references' = references \cup {[authority |-> a, lease |-> l]}
      BY <2>1 DEF Content!Attach
    <3>2. a \in WriterTypes
      BY AuthoritiesAreWriters
    <3> QED BY <1>0, <3>1, <3>2
  <2>2. CASE Content!Detach
    BY <1>0, <2>2 DEF Content!Detach
  <2> QED BY <1>0, <2>1, <2>2, ContentIsLeft
<1>4. contentControl' \in [Signatures -> ControlTypes]
  <2>1. CASE Content!WriteControl
    BY <1>0, <2>1 DEF Content!WriteControl
  <2>2. CASE Content!WithdrawClaim
    <3>1. PICK s \in contentClaimed : contentControl' = [contentControl EXCEPT ![s].version = @ + 1]
      BY <2>2 DEF Content!WithdrawClaim
    <3> QED BY <1>0, <3>1
  <2> QED BY <1>0, <2>1, <2>2, ContentIsLeft
<1>5. contentClaimed' \subseteq Signatures
  BY <1>0, ContentIsLeft DEF Content!EraseSignature, Content!WithdrawClaim, Content!Claim
<1>6. /\ contentMetadata' \in [Signatures -> Content!MetadataRows \cup {NoRow}]
      /\ contentHeld' \in [Signatures -> SUBSET (Nat \X Nat \X (Workers \cup {NoWorker}))]
  <2>1. CASE Content!WriteMetadata
    <3>1. PICK s \in contentClaimed, new \in Content!MetadataRows :
             /\ contentMetadata' = [contentMetadata EXCEPT ![s] = new]
             /\ contentHeld' = [contentHeld EXCEPT ![s] = @ \cup {<<new.version, new.fence, new.worker>>}]
      BY <2>1 DEF Content!WriteMetadata
    <3>2. new.version \in Nat /\ new.fence \in Nat /\ new.worker \in Workers \cup {NoWorker} /\ s \in Signatures
      BY <1>0, TablesAssumption DEF Content!ContentAssumption, Content!MetadataRows
    <3>3. contentMetadata' \in [Signatures -> Content!MetadataRows \cup {NoRow}]
      BY <1>0, <3>1, <3>2
    <3>4. <<new.version, new.fence, new.worker>> \in Nat \X Nat \X (Workers \cup {NoWorker})
      BY <3>2
    <3> QED BY <1>0, <3>1, <3>3, <3>4
  <2>2. CASE Content!DeleteMetadata
    BY <1>0, <2>2 DEF Content!DeleteMetadata
  <2> QED BY <1>0, <2>1, <2>2, ContentIsLeft
<1> QED BY <1>1, <1>2, <1>3, <1>4, <1>5, <1>6 DEF ContentTypes

\* The object under its references and writers.
LEMMA ObjectStep ==
    ContentTypes /\ LeaseInv /\ Content!ReferencedIsPresent /\ Content!WriterKeepsObject /\ [Content!Next]_(Content!vars) =>
        LeaseInv' /\ Content!ReferencedIsPresent' /\ Content!WriterKeepsObject'
<1> SUFFICES ASSUME ContentTypes, LeaseInv, Content!ReferencedIsPresent, Content!WriterKeepsObject, [Content!Next]_(Content!vars)
             PROVE  LeaseInv' /\ Content!ReferencedIsPresent' /\ Content!WriterKeepsObject'
  OBVIOUS
<1>1. CASE Content!WriteGuard
  <2>1. PICK new \in [state : {"absent", "present", "deletion_pending"}, fence : 0..MaxTaken] :
           (guard # NoRow => Content!ObjectGuard(guard, new)) /\ guard' = new
    BY <1>1 DEF Content!WriteGuard
  <2>2. new # NoRow
    BY TablesAssumption DEF Content!ContentAssumption
  <2>3. UNCHANGED <<contentLease, lapsed, references>>
    BY <1>1 DEF Content!WriteGuard, Content!writers
  <2>4. Content!LiveWriters' = Content!LiveWriters
    BY <2>3 DEF Content!LiveWriters, Content!Writing
  <2>5. guard # NoRow => guard.state \in {"absent", "present", "deletion_pending"}
    BY DEF ContentTypes
  <2>6. references # {} => new.state = "present"
    BY <2>1, <2>5 DEF Content!ReferencedIsPresent, Content!ObjectGuard, Content!GuardTransition, Content!Unused
  <2>7. Content!LiveWriters # {} => new.state # "deletion_pending"
    BY <2>1, <2>5 DEF Content!WriterKeepsObject, Content!ObjectGuard, Content!GuardTransition, Content!Unused
  <2> QED BY <2>1, <2>2, <2>3, <2>4, <2>6, <2>7 DEF LeaseInv, Content!ReferencedIsPresent, Content!WriterKeepsObject
<1>2. CASE Content!WriteLease
  <2>1. UNCHANGED <<guard, lapsed, references>>
    BY <1>2 DEF Content!WriteLease, Content!object
  <2>2. PICK l \in Leases : \E new \in Content!LeaseRows(contentLease[l]) :
           Content!LeaseGuard(l, contentLease[l], new) /\ guard # NoRow /\ contentLease' = [contentLease EXCEPT ![l] = new]
    BY <1>2 DEF Content!WriteLease
  <2>3. PICK new \in Content!LeaseRows(contentLease[l]) :
           Content!LeaseGuard(l, contentLease[l], new) /\ guard # NoRow /\ contentLease' = [contentLease EXCEPT ![l] = new]
    BY <2>2
  <2>4. contentLease'[l] = new /\ \A k \in Leases : k # l => contentLease'[k] = contentLease[k]
    BY <2>3 DEF ContentTypes
  <2>5. ASSUME NEW k \in Content!LiveWriters' PROVE guard.state # "deletion_pending"
    <3>1. k \in Leases /\ contentLease'[k] # NoRow /\ contentLease'[k].state = "writing" /\ k \notin lapsed
      BY <2>1, <2>5 DEF Content!LiveWriters, Content!Writing
    <3>2. CASE k = l
      BY <2>3, <2>4, <3>1, <3>2 DEF Content!LeaseGuard
    <3>3. CASE k # l
      <4>1. k \in Content!LiveWriters
        BY <2>4, <3>1, <3>3 DEF Content!LiveWriters, Content!Writing
      <4> QED BY <4>1 DEF Content!WriterKeepsObject
    <3> QED BY <3>2, <3>3
  <2> QED BY <2>1, <2>3, <2>5 DEF LeaseInv, Content!ReferencedIsPresent, Content!WriterKeepsObject
<1>3. CASE Content!Attach
  <2>1. UNCHANGED <<guard, contentLease, lapsed>>
    BY <1>3 DEF Content!Attach, Content!object, Content!writers
  <2>2. PICK a \in Content!Authorities, l \in Leases : contentLease[l] # NoRow /\ guard.state = "present"
    BY <1>3 DEF Content!Attach, Content!ReferenceCommit
  <2> QED BY <2>1, <2>2 DEF LeaseInv, Content!ReferencedIsPresent, Content!WriterKeepsObject, Content!LiveWriters, Content!Writing
<1>4. CASE Content!Detach
  <2>1. UNCHANGED <<guard, contentLease, lapsed>> /\ references # {}
    BY <1>4 DEF Content!Detach, Content!object, Content!writers
  <2> QED BY <2>1 DEF LeaseInv, Content!ReferencedIsPresent, Content!WriterKeepsObject, Content!LiveWriters, Content!Writing
<1>5. CASE Content!LeaseLapses
  <2>1. UNCHANGED <<guard, contentLease, references>> /\ lapsed \subseteq lapsed'
    BY <1>5 DEF Content!LeaseLapses, Content!object
  <2> QED BY <2>1 DEF LeaseInv, Content!ReferencedIsPresent, Content!WriterKeepsObject, Content!LiveWriters, Content!Writing
<1>6. CASE UNCHANGED <<guard, contentLease, lapsed, references>>
  BY <1>6 DEF LeaseInv, Content!ReferencedIsPresent, Content!WriterKeepsObject, Content!LiveWriters, Content!Writing
<1>7. CASE Content!DeleteGuard
  <2>1. /\ references' = {} /\ UNCHANGED <<contentLease, lapsed>> /\ \A l \in Leases : contentLease[l] = NoRow
    BY <1>7 DEF Content!DeleteGuard, Content!writers
  <2>2. Content!LiveWriters' = {}
    BY <2>1 DEF Content!LiveWriters, Content!Writing
  <2> QED BY <2>1, <2>2 DEF LeaseInv, Content!ReferencedIsPresent, Content!WriterKeepsObject
<1>8. CASE Content!DeleteLease
  <2>1. PICK l \in Leases : contentLease' = [contentLease EXCEPT ![l] = NoRow] /\ lapsed' = lapsed \ {l}
    BY <1>8 DEF Content!DeleteLease
  <2>2. UNCHANGED <<guard, references>>
    BY <1>8 DEF Content!DeleteLease, Content!object
  <2>3. contentLease'[l] = NoRow /\ \A k \in Leases : k # l => contentLease'[k] = contentLease[k]
    BY <2>1 DEF ContentTypes
  <2>4. Content!LiveWriters' \subseteq Content!LiveWriters
    BY <2>1, <2>3 DEF Content!LiveWriters, Content!Writing
  <2> QED BY <2>2, <2>3, <2>4 DEF LeaseInv, Content!ReferencedIsPresent, Content!WriterKeepsObject
<1> QED BY <1>1, <1>2, <1>3, <1>4, <1>5, <1>6, <1>7, <1>8, ContentIsLeft

Owned(a) ==
    IF a.kind = "v1" THEN a.signature \in contentClaimed
    ELSE contentMetadata[a.signature] # NoRow /\ contentMetadata[a.signature].version = a.version

\* A statement on a preparation row, for each signature.
LEMMA PreparationMoves ==
    ASSUME ContentTypes, Content!WriteMetadata
    PROVE  /\ UNCHANGED <<contentControl, contentClaimed, references>>
           /\ \E s \in Signatures, new \in Content!MetadataRows :
                /\ new # NoRow
                /\ contentMetadata[s] = NoRow => Content!Enabled(s, new.version)
                /\ contentMetadata[s] # NoRow => Content!MetadataGuard(s, contentMetadata[s], new)
                /\ contentMetadata'[s] = new /\ contentHeld'[s] = contentHeld[s] \cup {<<new.version, new.fence, new.worker>>}
                /\ \A t \in Signatures \ {s} : contentMetadata'[t] = contentMetadata[t] /\ contentHeld'[t] = contentHeld[t]
<1>1. PICK s \in contentClaimed, new \in Content!MetadataRows :
         /\ IF contentMetadata[s] = NoRow THEN new.state = "reserved" /\ Content!Enabled(s, new.version)
            ELSE Content!MetadataGuard(s, contentMetadata[s], new)
         /\ contentMetadata' = [contentMetadata EXCEPT ![s] = new]
         /\ contentHeld' = [contentHeld EXCEPT ![s] = @ \cup {<<new.version, new.fence, new.worker>>}]
  BY DEF Content!WriteMetadata
<1>2. new # NoRow /\ s \in Signatures
  BY TablesAssumption DEF Content!ContentAssumption, ContentTypes
<1>3. /\ contentMetadata'[s] = new /\ contentHeld'[s] = contentHeld[s] \cup {<<new.version, new.fence, new.worker>>}
      /\ \A t \in Signatures \ {s} : contentMetadata'[t] = contentMetadata[t] /\ contentHeld'[t] = contentHeld[t]
  BY <1>1, <1>2 DEF ContentTypes
<1>4. UNCHANGED <<contentControl, contentClaimed, references>>
  BY DEF Content!WriteMetadata, Content!owners
<1> QED BY <1>1, <1>2, <1>3, <1>4

LEMMA OwnersStep == ContentTypes /\ Content!ReferencesHaveOwners /\ [Content!Next]_(Content!vars) => Content!ReferencesHaveOwners'
<1> SUFFICES ASSUME ContentTypes, Content!ReferencesHaveOwners, [Content!Next]_(Content!vars) PROVE Content!ReferencesHaveOwners'
  OBVIOUS
<1>0. \A r \in references : Owned(r.authority)
  BY DEF Content!ReferencesHaveOwners, Owned
<1>1. SUFFICES \A r \in references' : Owned(r.authority)'
  BY DEF Content!ReferencesHaveOwners, Owned
<1>2. \A r \in references : r.authority.signature \in Signatures /\ r.authority.kind \in Kinds
  BY DEF ContentTypes, WriterTypes
<1>3. CASE Content!Attach
  <2>1. PICK a \in Content!Authorities, l \in Leases :
           Content!OwnerWrites(a) /\ references' = references \cup {[authority |-> a, lease |-> l]}
    BY <1>3 DEF Content!Attach
  <2>2. Owned(a)
    BY <2>1, WritersOwn DEF Owned
  <2>3. UNCHANGED <<contentClaimed, contentMetadata>>
    BY <1>3 DEF Content!Attach, Content!owners, Content!preparation
  <2>4. \A x : Owned(x)' <=> Owned(x)
    BY <2>3 DEF Owned
  <2> QED BY <1>0, <2>1, <2>2, <2>4
<1>4. CASE Content!Detach
  <2>1. references' \subseteq references /\ UNCHANGED <<contentClaimed, contentMetadata>>
    BY <1>4 DEF Content!Detach, Content!owners, Content!preparation
  <2> QED BY <1>0, <2>1 DEF Owned
<1>5. CASE Content!WriteMetadata
  <2>1. UNCHANGED <<contentClaimed, references>>
    BY <1>5, PreparationMoves
  <2>2. PICK s \in Signatures, new \in Content!MetadataRows :
           /\ new # NoRow
           /\ contentMetadata[s] # NoRow => Content!MetadataGuard(s, contentMetadata[s], new)
           /\ contentMetadata'[s] = new /\ \A t \in Signatures \ {s} : contentMetadata'[t] = contentMetadata[t]
    BY <1>5, PreparationMoves
  <2>3. contentMetadata[s] # NoRow => new.version = contentMetadata[s].version
    BY <2>2 DEF Content!MetadataGuard
  <2>4. ASSUME NEW r \in references PROVE Owned(r.authority)'
    <3>1. r.authority.signature # s => contentMetadata'[r.authority.signature] = contentMetadata[r.authority.signature]
      BY <1>2, <2>2
    <3> QED BY <1>0, <2>1, <2>2, <2>3, <2>4, <3>1 DEF Owned
  <2> QED BY <2>1, <2>4
<1>6. CASE Content!DeleteMetadata
  <2>1. PICK s \in Signatures : Content!ReferencesOf(s, "v2") = {} /\ contentMetadata' = [contentMetadata EXCEPT ![s] = NoRow]
    BY <1>6 DEF Content!DeleteMetadata
  <2>2. UNCHANGED <<contentClaimed, references>>
    BY <1>6 DEF Content!DeleteMetadata, Content!owners
  <2>3. ASSUME NEW r \in references, r.authority.kind # "v1" PROVE r.authority.signature # s
    <3>1. r.authority.kind = "v2"
      BY <1>2, <2>3, TablesAssumption DEF Content!ContentAssumption
    <3> QED BY <2>1, <3>1 DEF Content!ReferencesOf
  <2>4. \A t \in Signatures : t # s => contentMetadata'[t] = contentMetadata[t]
    BY <2>1 DEF ContentTypes
  <2> QED BY <1>0, <1>2, <2>2, <2>3, <2>4 DEF Owned
<1>7. CASE Content!EraseSignature
  <2>1. PICK s \in contentClaimed : Content!ReferencesOf(s, "v1") = {} /\ contentClaimed' = contentClaimed \ {s}
    BY <1>7 DEF Content!EraseSignature
  <2>2. UNCHANGED <<contentMetadata, references>>
    BY <1>7 DEF Content!EraseSignature, Content!preparation
  <2>3. \A r \in references : r.authority.kind = "v1" => r.authority.signature # s
    BY <2>1 DEF Content!ReferencesOf
  <2> QED BY <1>0, <2>1, <2>2, <2>3 DEF Owned
<1>8. CASE Content!WithdrawClaim
  <2>1. PICK s \in contentClaimed : (\A r \in references : r.authority.signature # s) /\ contentClaimed' = contentClaimed \ {s}
    BY <1>8 DEF Content!WithdrawClaim
  <2>2. UNCHANGED <<contentMetadata, references>>
    BY <1>8 DEF Content!WithdrawClaim, Content!preparation
  <2> QED BY <1>0, <2>1, <2>2 DEF Owned
<1>9. CASE Content!Claim
  <2>1. contentClaimed \subseteq contentClaimed' /\ UNCHANGED <<contentMetadata, references>>
    BY <1>9 DEF Content!Claim, Content!preparation
  <2> QED BY <1>0, <2>1 DEF Owned
<1>10. CASE UNCHANGED <<contentClaimed, contentMetadata, references>>
  BY <1>0, <1>10 DEF Owned
<1> QED BY <1>3, <1>4, <1>5, <1>6, <1>7, <1>8, <1>9, <1>10, ContentIsLeft

\* A fencing token, once it names a worker, names that one.
LEMMA WorkerStep ==
    ASSUME ContentTypes, [Content!Next]_(Content!vars), NEW s \in Signatures, WorkerInv(s)
    PROVE  WorkerInv(s)'
<1>0. /\ contentControl[s].version \in Nat /\ contentHeld[s] \subseteq Nat \X Nat \X (Workers \cup {NoWorker})
      /\ contentMetadata[s] \in Content!MetadataRows \cup {NoRow} /\ s \in Signatures
      /\ contentControl[s].state \in {"enabled", "blocked", "erasure_pending", "erased"}
  BY DEF ContentTypes
<1>00. /\ \A h \in contentHeld[s] : h[1] \in Nat /\ h[2] \in Nat
       /\ contentMetadata[s] # NoRow => contentMetadata[s].version \in Nat /\ contentMetadata[s].fence \in Nat
  BY <1>0, TablesAssumption DEF Content!ContentAssumption, Content!MetadataRows
<1>1. ASSUME UNCHANGED <<contentMetadata[s], contentHeld[s]>>,
             \/ contentControl'[s] = contentControl[s]
             \/ contentControl'[s].version = contentControl[s].version + 1
      PROVE  WorkerInv(s)'
  <2>1. CASE contentControl'[s] = contentControl[s]
    BY <1>1, <2>1 DEF WorkerInv
  <2>2. CASE contentControl'[s].version = contentControl[s].version + 1
    BY <1>0, <1>00, <1>1, <2>2 DEF WorkerInv
  <2> QED BY <1>1, <2>1, <2>2
<1>2. CASE Content!WriteMetadata
  <2>1. PICK t \in Signatures, new \in Content!MetadataRows :
           /\ new # NoRow
           /\ contentMetadata[t] = NoRow => Content!Enabled(t, new.version)
           /\ contentMetadata[t] # NoRow => Content!MetadataGuard(t, contentMetadata[t], new)
           /\ contentMetadata'[t] = new /\ contentHeld'[t] = contentHeld[t] \cup {<<new.version, new.fence, new.worker>>}
           /\ \A u \in Signatures \ {t} : contentMetadata'[u] = contentMetadata[u] /\ contentHeld'[u] = contentHeld[u]
    BY <1>2, PreparationMoves
  <2>2. contentControl' = contentControl
    BY <1>2, PreparationMoves
  <2>3. CASE s # t
    BY <1>1, <2>1, <2>2, <2>3
  <2>4. CASE s = t
    <3> DEFINE n == <<new.version, new.fence, new.worker>>
    <3>1. /\ new.version \in Nat /\ new.fence \in Nat
          /\ n[1] = new.version /\ n[2] = new.fence /\ n[3] = new.worker
      BY TablesAssumption DEF Content!ContentAssumption, Content!MetadataRows
    <3>2. contentHeld'[s] = contentHeld[s] \cup {n} /\ contentMetadata'[s] = new /\ contentControl'[s] = contentControl[s] /\ new # NoRow
      BY <2>1, <2>2, <2>4
    <3> HIDE DEF n
    <3>3. CASE contentMetadata[s] = NoRow
      <4>1. contentControl[s].state = "enabled" /\ contentControl[s].version = new.version
        BY <2>1, <2>4, <3>3 DEF Content!Enabled
      <4>2. \A h \in contentHeld[s] : h[1] < new.version
        BY <3>3, <4>1 DEF WorkerInv
      <4>3. \A h, k \in contentHeld[s] :
               h[1] = k[1] /\ h[2] = k[2] /\ h[3] # NoWorker /\ k[3] # NoWorker => h[3] = k[3]
        BY DEF WorkerInv
      <4> QED BY <1>00, <3>1, <3>2, <4>1, <4>2, <4>3 DEF WorkerInv
    <3>4. CASE contentMetadata[s] # NoRow
      <4>1. /\ new.version = contentMetadata[s].version /\ new.fence >= contentMetadata[s].fence
            /\ new.worker \notin {contentMetadata[s].worker, NoWorker} => new.fence > contentMetadata[s].fence
        BY <2>1, <2>4, <3>4 DEF Content!MetadataGuard
      <4>2. /\ contentMetadata[s].version <= contentControl[s].version
            /\ contentControl[s].state # "enabled" => contentMetadata[s].version < contentControl[s].version
            /\ \A h \in contentHeld[s] : h[1] <= contentControl[s].version
            /\ contentControl[s].state # "enabled" => \A h \in contentHeld[s] : h[1] < contentControl[s].version
        BY <3>4 DEF WorkerInv
      <4>3. \A h \in contentHeld[s] : h[1] = new.version => h[2] <= new.fence
        BY <1>00, <3>1, <3>4, <4>1 DEF WorkerInv
      <4>4. \A h \in contentHeld[s] : h[1] = new.version /\ h[2] = new.fence /\ h[3] # NoWorker /\ new.worker # NoWorker =>
               h[3] = new.worker
        <5>1. SUFFICES ASSUME NEW h \in contentHeld[s], h[1] = new.version, h[2] = new.fence, h[3] # NoWorker,
                              new.worker # NoWorker
                       PROVE  h[3] = new.worker
          OBVIOUS
        <5>2. h[2] <= contentMetadata[s].fence /\ h[2] \in Nat /\ contentMetadata[s].fence \in Nat
          BY <1>00, <3>4, <4>1, <5>1 DEF WorkerInv
        <5>3. new.fence = contentMetadata[s].fence /\ new.worker = contentMetadata[s].worker
          BY <3>1, <4>1, <5>1, <5>2
        <5> QED BY <3>4, <4>1, <5>1, <5>3 DEF WorkerInv
      <4>5. \A h, k \in contentHeld[s] :
               h[1] = k[1] /\ h[2] = k[2] /\ h[3] # NoWorker /\ k[3] # NoWorker => h[3] = k[3]
        BY DEF WorkerInv
      <4> QED BY <1>0, <3>1, <3>2, <4>1, <4>2, <4>3, <4>4, <4>5 DEF WorkerInv
    <3> QED BY <3>3, <3>4
  <2> QED BY <2>3, <2>4
<1>3. CASE Content!DeleteMetadata
  <2>1. PICK t \in Signatures : contentControl[t].state = "erasure_pending" /\ contentMetadata' = [contentMetadata EXCEPT ![t] = NoRow]
    BY <1>3 DEF Content!DeleteMetadata
  <2>2. UNCHANGED <<contentControl, contentHeld>>
    BY <1>3 DEF Content!DeleteMetadata, Content!owners
  <2>3. CASE s # t
    BY <1>1, <2>1, <2>2, <2>3 DEF ContentTypes
  <2>4. CASE s = t
    <3>1. contentMetadata'[s] = NoRow /\ contentControl[s].state # "enabled"
      BY <2>1, <2>4 DEF ContentTypes
    <3> QED BY <2>2, <3>1 DEF WorkerInv
  <2> QED BY <2>3, <2>4
<1>4. CASE UNCHANGED <<contentMetadata, contentHeld>>
  <2>1. contentControl'[s] = contentControl[s] \/ contentControl'[s].version = contentControl[s].version + 1
    <3>1. CASE Content!WriteControl
      BY <3>1 DEF Content!WriteControl, ContentTypes
    <3>2. CASE Content!WithdrawClaim
      <4>1. PICK t \in contentClaimed : contentControl' = [contentControl EXCEPT ![t].version = @ + 1]
        BY <3>2 DEF Content!WithdrawClaim
      <4> QED BY <4>1 DEF ContentTypes
    <3> QED BY <3>1, <3>2, ContentIsLeft
  <2> QED BY <1>1, <1>4, <2>1
<1> QED BY <1>2, <1>3, <1>4, ContentIsLeft

LEMMA ContentInit == Content!Init => ContentInv
<1> SUFFICES ASSUME Content!Init PROVE ContentInv
  OBVIOUS
<1>0. /\ contentControl = [s \in Signatures |-> [state |-> "enabled", version |-> 1]]
      /\ contentClaimed = Signatures /\ contentMetadata = [s \in Signatures |-> NoRow] /\ lapsed = {}
      /\ contentHeld = [s \in Signatures |-> {}]
  BY DEF Content!Init
<1>1. ASSUME NEW s \in Signatures PROVE WorkerInv(s)
  BY <1>0 DEF WorkerInv
<1>2. CASE Content!Unstored
  <2>1. ContentTypes
    BY <1>0, <1>2 DEF Content!Unstored, ContentTypes
  <2> QED BY <1>1, <1>2, <2>1 DEF Content!Unstored, ContentInv, LeaseInv, Content!ReferencedIsPresent, Content!WriterKeepsObject,
          Content!ReferencesHaveOwners, Content!LiveWriters, Content!Writing
<1>3. CASE Content!Backfilled
  <2>0. Content!Cardinality(Signatures) = Cardinality(Signatures)
    BY DEF Cardinality, Content!Cardinality
  <2>1. "v1" \in Kinds /\ guard = [state |-> "present", fence |-> 1 + Cardinality(Signatures)]
    BY <1>3, <2>0 DEF Content!Backfilled
  <2>2. guard # NoRow
    <3>0. IsFiniteSet(Signatures)
      BY TablesAssumption DEF Content!ContentAssumption, Content!IsFiniteSet, IsFiniteSet
    <3>1. 1 + Cardinality(Signatures) \in Nat
      BY <3>0, FS_CardinalityType
    <3> QED BY <2>1, <3>1, TablesAssumption DEF Content!ContentAssumption
  <2> DEFINE Claimant(s) == [kind |-> "v1", signature |-> s, version |-> 1,
                             preparation |-> 0, worker |-> NoWorker]
             Committed(s, f) == [authority |-> Claimant(s), fence |-> f, state |-> "committed"]
  <2>3. PICK turn \in [Signatures -> 2..MaxTaken], of \in [Signatures -> Leases] :
           /\ contentLease = [l \in Leases |->
                IF l \in {of[s] : s \in Signatures}
                THEN LET s == CHOOSE s \in Signatures : of[s] = l IN Committed(s, turn[s])
                ELSE NoRow]
           /\ references = {[authority |-> Claimant(s), lease |-> of[s]] : s \in Signatures}
    BY <1>3, <2>0 DEF Content!Backfilled
  <2>4. \A s \in Signatures : Claimant(s) \in WriterTypes /\ Claimant(s).kind = "v1" /\ Claimant(s).signature = s
    BY <2>1 DEF WriterTypes
  <2>5. ASSUME NEW l \in Leases
        PROVE  contentLease[l] = NoRow \/ \E s \in Signatures : contentLease[l] = Committed(s, turn[s])
    <3>1. CASE l \in {of[s] : s \in Signatures}
      <4>1. PICK s \in Signatures : s = CHOOSE x \in Signatures : of[x] = l
        BY <3>1
      <4> QED BY <2>3, <3>1, <4>1
    <3> QED BY <2>3, <3>1
  <2>6. ASSUME NEW s \in Signatures
        PROVE  /\ Committed(s, turn[s]) \in [authority : WriterTypes, fence : Nat,
                                             state : {"writing", "committed", "aborted", "expired"}]
               /\ Committed(s, turn[s]).state = "committed"
    BY <2>4
  <2> HIDE DEF Claimant, Committed
  <2>7. ContentTypes
    <3>1. contentLease \in [Leases -> [authority : WriterTypes, fence : Nat,
                                state : {"writing", "committed", "aborted", "expired"}] \cup {NoRow}]
      BY <2>3, <2>5, <2>6
    <3>2. references \subseteq [authority : WriterTypes, lease : Leases]
      BY <2>3, <2>4
    <3> QED BY <1>0, <2>1, <3>1, <3>2 DEF ContentTypes
  <2>8. Content!Writing = {}
    BY <2>5, <2>6 DEF Content!Writing
  <2>9. Content!ReferencesHaveOwners
    BY <1>0, <2>3, <2>4 DEF Content!ReferencesHaveOwners
  <2> QED BY <1>1, <2>1, <2>2, <2>7, <2>8, <2>9 DEF ContentInv, LeaseInv, Content!ReferencedIsPresent, Content!WriterKeepsObject, Content!LiveWriters
<1> QED BY <1>2, <1>3 DEF Content!Init

LEMMA ContentStep == ContentInv /\ [Content!Next]_(Content!vars) => ContentInv'
BY ContentTypesStay, ObjectStep, OwnersStep, WorkerStep DEF ContentInv

\* A signature that is gone has no publication work, shared bytes outlive their
\* references and writers, no reference outlives its owner, and a preparation fence
\* names one worker, whatever statements are tried (002_v2_minting.sql).
THEOREM RetentionAlwaysHolds == Publication!Spec /\ Content!Spec => []RetentionHolds
<1>1. PublicationInv => Publication!NothingPublishesTheErased
  BY DEF PublicationInv, Publication!NothingPublishesTheErased
<1>2. ContentInv => /\ Content!ReferencedIsPresent /\ Content!WriterKeepsObject
                    /\ Content!ReferencesHaveOwners /\ Content!FenceNamesOneWorker
  BY DEF ContentInv, WorkerInv, Content!FenceNamesOneWorker
<1>3. PublicationInv /\ ContentInv => RetentionHolds
  BY <1>1, <1>2 DEF RetentionHolds
<1>4. Publication!Spec => []PublicationInv
  BY PublicationInit, PublicationStep, PTL DEF Publication!Spec
<1>5. Content!Spec => []ContentInv
  BY ContentInit, ContentStep, PTL DEF Content!Spec
<1> QED BY <1>3, <1>4, <1>5, PTL

------------------------------------------------------------------------------
(* The gallery contract, and what the indexer's replay makes of its events: for any  *)
(* accounts, signatures, authorizations and epochs.                                 *)

Epochs == [authorizer : Account, revoked : BOOLEAN]
Roles == {Admin, AuthorizerManager, Pauser, Revoker}
\* What the replay returns.
Controls ==
    [failed : BOOLEAN, paused : BOOLEAN, epochs : Seq(Epochs), redeemed : SUBSET Ids,
     revoked : SUBSET Ids, roles : SUBSET (Roles \X Account),
     pendingAdmin : Account \cup {Zero, NoAccount}, pendingDelay : BOOLEAN]
ReplayTypes ==
    /\ paused \in BOOLEAN /\ epochs \in Seq(Epochs)
    /\ state \in [Ids -> {"unused", "redeemed", "revoked"}]
    /\ roles \subseteq Roles \X Account
    /\ pendingAdmin \in Account \cup {Zero, NoAccount}
    /\ pendingDelay \in {"none", "waiting", "passed"}
    /\ replay \in Controls
\* Without it the grant that ends a transfer of the admin role could look impossible.
OneAdmin == \A x, y \in Account : <<Admin, x>> \in roles /\ <<Admin, y>> \in roles => x = y
ReplayInv == ReplayTypes /\ OneAdmin /\ ReplayMirrors

LEMMA AdvanceOverOne == ASSUME NEW c, NEW e PROVE Advance(c, <<e>>) = Apply(c, e)
BY DEF Advance

LEMMA AdvanceOverTwo ==
    ASSUME NEW c, NEW e, NEW f
    PROVE  Advance(c, <<e, f>>) = Apply(Apply(c, e), f)
BY DEF Advance

\* The constructor's events, replayed one by one.
LEMMA ConstructionReplayed ==
    ASSUME NEW es, Len(es) = 5
    PROVE  LET A(c, e) == Apply(c, e)
           IN Replay(es) = A(A(A(A(A(EmptyControl, es[1]), es[2]), es[3]), es[4]), es[5])
<1> DEFINE A(c, e) == Apply(c, e)
           c1 == A(EmptyControl, es[1])
           c2 == A(c1, es[2])
           c3 == A(c2, es[3])
           c4 == A(c3, es[4])
           c5 == A(c4, es[5])
           step(h) == [n \in 0..Len(es) |-> IF n = 0 THEN {EmptyControl} ELSE {A(c, es[n]) : c \in h[n - 1]}]
           g == [n \in 0..5 |-> <<{EmptyControl}, {c1}, {c2}, {c3}, {c4}, {c5}>>[n + 1]]
           f == CHOOSE h : h = step(h)
<1>1. g = step(g)
  <2>1. /\ g[0] = {EmptyControl} /\ g[1] = {c1} /\ g[2] = {c2} /\ g[3] = {c3} /\ g[4] = {c4} /\ g[5] = {c5}
        /\ g = [n \in 0..5 |-> g[n]]
    OBVIOUS
  <2> HIDE DEF g, A
  <2>2. \A n \in 0..5 : step(g)[n] = IF n = 0 THEN {EmptyControl} ELSE {A(c, es[n]) : c \in g[n - 1]}
    OBVIOUS
  <2>3. ASSUME NEW n \in 0..5 PROVE g[n] = step(g)[n]
    <3>1. CASE n = 0
      BY <3>1, <2>1, <2>2
    <3>2. CASE n = 1
      BY <3>2, <2>1, <2>2
    <3>3. CASE n = 2
      BY <3>3, <2>1, <2>2
    <3>4. CASE n = 3
      BY <3>4, <2>1, <2>2
    <3>5. CASE n = 4
      BY SMTT(20), <3>5, <2>1, <2>2
    <3>6. CASE n = 5
      BY SMTT(20), <3>6, <2>1, <2>2
    <3> QED BY <3>1, <3>2, <3>3, <3>4, <3>5, <3>6
  <2> QED BY <2>1, <2>3
<1>2. f = step(f)
  BY <1>1
<1>3. f[5] = {c5}
  <2> HIDE DEF A, f
  <2>1. \A n \in 0..5 : f[n] = IF n = 0 THEN {EmptyControl} ELSE {A(c, es[n]) : c \in f[n - 1]}
    BY <1>2
  <2>2. f[0] = {EmptyControl}
    BY <2>1
  <2>3. f[1] = {c1}
    BY <2>1, <2>2
  <2>4. f[2] = {c2}
    BY <2>1, <2>3
  <2>5. f[3] = {c3}
    BY <2>1, <2>4
  <2>6. f[4] = {c4}
    BY <2>1, <2>5
  <2> QED BY <2>1, <2>6
<1>4. Replay(es) = CHOOSE c \in f[Len(es)] : TRUE
  BY DEF Replay
<1> QED BY <1>3, <1>4

\* Effect, kind by kind.
LEMMA EffectIs ==
    ASSUME NEW c, NEW e
    PROVE  /\ e.kind = "EpochAdded" => Effect(c, e) = [c EXCEPT !.epochs = Append(@, [authorizer |-> e.authorizer, revoked |-> FALSE])]
           /\ e.kind = "EpochRevoked" => Effect(c, e) = [c EXCEPT !.epochs[e.epoch].revoked = TRUE]
           /\ e.kind = "AuthorizationRevoked" => Effect(c, e) = [c EXCEPT !.revoked = @ \cup {e.id}]
           /\ e.kind = "SignatureMinted" => Effect(c, e) = [c EXCEPT !.redeemed = @ \cup {e.id}]
           /\ e.kind = "Paused" => Effect(c, e) = [c EXCEPT !.paused = TRUE]
           /\ e.kind = "Unpaused" => Effect(c, e) = [c EXCEPT !.paused = FALSE]
           /\ e.kind = "RoleGranted" => Effect(c, e) = Granted(c, e)
           /\ e.kind = "RoleRevoked" => Effect(c, e) = Removed(c, e)
           /\ e.kind = "TransferScheduled" => Effect(c, e) = [c EXCEPT !.pendingAdmin = e.account]
           /\ e.kind = "TransferCanceled" => Effect(c, e) = [c EXCEPT !.pendingAdmin = NoAccount]
           /\ e.kind = "DelayScheduled" => Effect(c, e) = [c EXCEPT !.pendingDelay = TRUE]
           /\ e.kind = "DelayCanceled" => Effect(c, e) = [c EXCEPT !.pendingDelay = FALSE]
           /\ e.kind = "Transfer" => Effect(c, e) = c
<1>1. e.kind = "EpochAdded" => Effect(c, e) = [c EXCEPT !.epochs = Append(@, [authorizer |-> e.authorizer, revoked |-> FALSE])]
  BY DEF Effect
<1>2. e.kind = "EpochRevoked" => Effect(c, e) = [c EXCEPT !.epochs[e.epoch].revoked = TRUE]
  BY DEF Effect
<1>3. e.kind = "AuthorizationRevoked" => Effect(c, e) = [c EXCEPT !.revoked = @ \cup {e.id}]
  BY DEF Effect
<1>4. e.kind = "SignatureMinted" => Effect(c, e) = [c EXCEPT !.redeemed = @ \cup {e.id}]
  BY DEF Effect
<1>5. e.kind = "Paused" => Effect(c, e) = [c EXCEPT !.paused = TRUE]
  BY DEF Effect
<1>6. e.kind = "Unpaused" => Effect(c, e) = [c EXCEPT !.paused = FALSE]
  BY DEF Effect
<1>7. e.kind = "RoleGranted" => Effect(c, e) = Granted(c, e)
  BY DEF Effect
<1>8. e.kind = "RoleRevoked" => Effect(c, e) = Removed(c, e)
  BY DEF Effect
<1>9. e.kind = "TransferScheduled" => Effect(c, e) = [c EXCEPT !.pendingAdmin = e.account]
  BY DEF Effect
<1>10. e.kind = "TransferCanceled" => Effect(c, e) = [c EXCEPT !.pendingAdmin = NoAccount]
  BY DEF Effect
<1>11. e.kind = "DelayScheduled" => Effect(c, e) = [c EXCEPT !.pendingDelay = TRUE]
  BY DEF Effect
<1>12. e.kind = "DelayCanceled" => Effect(c, e) = [c EXCEPT !.pendingDelay = FALSE]
  BY DEF Effect
<1>13. e.kind = "Transfer" => Effect(c, e) = c
  BY DEF Effect
<1> QED BY <1>1, <1>2, <1>3, <1>4, <1>5, <1>6, <1>7, <1>8, <1>9, <1>10, <1>11, <1>12, <1>13

\* An event that the history explains has its effect; those of one transaction in turn.
LEMMA Unfolded ==
    ASSUME NEW c, NEW e, ~ c.failed, ~ Impossible(c, e)
    PROVE  Apply(c, e) = Effect(c, e)
BY DEF Apply

LEMMA Joined ==
    ASSUME NEW e, NEW f
    PROVE  <<>> \o <<f>> = <<f>> /\ <<e>> \o <<f>> = <<e, f>>
<1>1. <<e>> \in Seq({e,f}) /\ <<f>> \in Seq({e,f}) /\ <<e,f>> \in Seq({e,f})
  OBVIOUS
<1>2. <<e>> \o <<f>> \in Seq({e,f}) /\ Len(<<e>> \o <<f>>) = 2 /\ (<<e>> \o <<f>>)[1] = e /\ (<<e>> \o <<f>>)[2] = f
  BY <1>1, ConcatProperties
<1>3. Len(<<e,f>>) = 2 /\ <<e,f>>[1] = e /\ <<e,f>>[2] = f
  OBVIOUS
<1>4. ASSUME NEW i \in 1..2 PROVE (<<e>> \o <<f>>)[i] = <<e,f>>[i]
  <2>1. i = 1 \/ i = 2
    OBVIOUS
  <2> QED BY <2>1, <1>2, <1>3
<1>5. \A s, t \in Seq({e, f}) : Len(s) = 2 /\ Len(t) = 2 /\ (\A i \in 1..2 : s[i] = t[i]) => s = t
  BY SeqEqual
<1>6. <<e>> \o <<f>> = <<e, f>>
  BY <1>1, <1>2, <1>3, <1>4, <1>5
<1>7. <<>> \o <<f>> = <<f>>
  BY <1>1, ConcatEmptySeq
<1> QED BY <1>6, <1>7

LEMMA NothingEmitted ==
    ASSUME events' = <<>>, replay' = Advance(replay, events')
    PROVE  replay' = replay
BY DEF Advance

LEMMA OneEvent ==
    ASSUME NEW e, ~ replay.failed, ~ Impossible(replay, e),
           events' = <<e>>, replay' = Advance(replay, events')
    PROVE  replay' = Effect(replay, e)
<1>1. replay' = Advance(replay, <<e>>)
  OBVIOUS
<1>2. replay' = Apply(replay, e)
  BY <1>1, AdvanceOverOne
<1> QED BY <1>2, Unfolded

LEMMA TwoEvents ==
    ASSUME NEW c, NEW e, NEW f, ~ replay.failed, ~ Impossible(replay, e),
           c = Effect(replay, e), ~ c.failed, ~ Impossible(c, f),
           events' = <<e, f>>, replay' = Advance(replay, events')
    PROVE  replay' = Effect(c, f)
<1>1. replay' = Advance(replay, <<e, f>>)
  OBVIOUS
<1>2. replay' = Apply(Apply(replay, e), f)
  BY <1>1, AdvanceOverTwo
<1>3. Apply(replay, e) = c
  BY Unfolded
<1> QED BY <1>2, <1>3, Unfolded

------------------------------------------------------------------------------
\* Every operation of the contract is replayed.
LEMMA MintReplayed ==
    ASSUME ReplayInv, NEW caller \in Account, NEW a \in Authorization, MintAuthorized(caller, a),
           replay' = Advance(replay, events')
    PROVE  ReplayInv'
<1> DEFINE e == [kind |-> "Transfer", from |-> Zero, to |-> a.wallet, token |-> a.signature]
           f == [kind |-> "SignatureMinted", id |-> a.id, signature |-> a.signature]
<1>0. /\ ReplayTypes /\ OneAdmin /\ ~ replay.failed /\ a.id \in Ids
      /\ replay.paused = paused /\ replay.epochs = epochs /\ replay.roles = roles
      /\ replay.redeemed = {i \in Ids : state[i] = "redeemed"}
      /\ replay.revoked = {i \in Ids : state[i] = "revoked"}
      /\ replay.pendingAdmin = pendingAdmin /\ (pendingDelay = "waiting" => replay.pendingDelay)
  BY DEF ReplayInv, ReplayMirrors, Ids
<1>1. /\ events' = <<e, f>> /\ state[a.id] = "unused" /\ state' = [state EXCEPT ![a.id] = "redeemed"]
      /\ UNCHANGED <<paused, epochs, roles, pendingAdmin, adminDue, pendingDelay>>
  BY DEF MintAuthorized, Unspent, access
<1>2. ~ Impossible(replay, e) /\ Effect(replay, e) = replay
  BY EffectIs DEF Impossible
<1>3. ~ Impossible(replay, f)
  BY <1>0, <1>1 DEF Impossible, Spent
<1>4. Effect(replay, f) = [replay EXCEPT !.redeemed = @ \cup {a.id}]
  <2>1. f.kind = "SignatureMinted" /\ f.id = a.id
    OBVIOUS
  <2> HIDE DEF e, f
  <2>2. Effect(replay, f) = [replay EXCEPT !.redeemed = @ \cup {f.id}]
    BY <2>1, EffectIs
  <2> QED BY <2>1, <2>2
<1>5. replay' = [replay EXCEPT !.redeemed = @ \cup {a.id}]
  <2> HIDE DEF e, f
  <2> QED BY <1>0, <1>1, <1>2, <1>3, <1>4, TwoEvents
<1>6. ReplayTypes'
  BY SMTT(20), <1>0, <1>1, <1>5 DEF ReplayTypes, Controls
<1>7. ReplayMirrors'
  BY <1>0, <1>1, <1>5 DEF ReplayTypes, Controls, ReplayMirrors
<1> QED BY <1>0, <1>1, <1>6, <1>7 DEF ReplayInv, OneAdmin

LEMMA OperationReplayed ==
    ASSUME DistinctNames, ReplayInv, NEW caller \in Account, Operation(caller),
           replay' = Advance(replay, events')
    PROVE  ReplayInv'
<1>0. /\ ReplayTypes /\ OneAdmin /\ ~ replay.failed
      /\ replay.paused = paused /\ replay.epochs = epochs /\ replay.roles = roles
      /\ replay.redeemed = {i \in Ids : state[i] = "redeemed"}
      /\ replay.revoked = {i \in Ids : state[i] = "revoked"}
      /\ replay.pendingAdmin = pendingAdmin /\ (pendingDelay = "waiting" => replay.pendingDelay)
  BY DEF ReplayInv, ReplayMirrors
<1>1. CASE \E x \in Account : AddAuthorizerEpoch(caller, x)
  <2>1. PICK x \in Account : AddAuthorizerEpoch(caller, x)
    BY <1>1
  <2> DEFINE e == [kind |-> "EpochAdded", epoch |-> Len(epochs) + 1, authorizer |-> x]
  <2>2. /\ events' = <<e>> /\ epochs' = Append(epochs, [authorizer |-> x, revoked |-> FALSE])
        /\ UNCHANGED <<paused, state, roles, pendingAdmin, adminDue, pendingDelay>>
    BY <2>1 DEF AddAuthorizerEpoch, access, tokens
  <2>3. ~ Impossible(replay, e)
    BY <1>0, DistinctNames DEF Impossible, DistinctNames
  <2>4. Effect(replay, e) = [replay EXCEPT !.epochs = Append(@, [authorizer |-> x, revoked |-> FALSE])]
    <3>1. e.kind = "EpochAdded" /\ e.authorizer = x
      OBVIOUS
    <3> HIDE DEF e
    <3> QED BY <3>1, EffectIs
  <2>5. replay' = [replay EXCEPT !.epochs = Append(@, [authorizer |-> x, revoked |-> FALSE])]
    <3> HIDE DEF e
    <3> QED BY <1>0, <2>2, <2>3, <2>4, OneEvent
  <2>6. epochs' \in Seq(Epochs)
    BY <1>0, <2>2, AppendProperties DEF ReplayTypes, Epochs
  <2>7. ReplayTypes'
    <3>1. replay' = [replay EXCEPT !.epochs = epochs']
      BY <1>0, <2>2, <2>5
    <3>2. replay' \in Controls
      BY <1>0, <2>6, <3>1 DEF ReplayTypes, Controls
    <3> QED BY <1>0, <2>2, <2>6, <3>2 DEF ReplayTypes
  <2>8. ReplayMirrors'
    BY <1>0, <2>2, <2>5 DEF ReplayTypes, Controls, ReplayMirrors
  <2> QED BY <1>0, <2>2, <2>7, <2>8 DEF ReplayInv, OneAdmin
<1>2. CASE \E n \in 1..MaxEpochs : RevokeAuthorizerEpoch(caller, n)
  <2>1. PICK n \in 1..MaxEpochs : RevokeAuthorizerEpoch(caller, n)
    BY <1>2
  <2> DEFINE e == [kind |-> "EpochRevoked", epoch |-> n, authorizer |-> epochs[n].authorizer]
  <2>2. /\ events' = <<e>> /\ epochs' = [epochs EXCEPT ![n].revoked = TRUE]
        /\ n \in 1..Len(epochs) /\ ~ epochs[n].revoked
        /\ UNCHANGED <<paused, state, roles, pendingAdmin, adminDue, pendingDelay>>
    BY <2>1 DEF RevokeAuthorizerEpoch, access, tokens
  <2>3. ~ Impossible(replay, e)
    BY <1>0, <2>2 DEF Impossible, Known
  <2>4. Effect(replay, e) = [replay EXCEPT !.epochs[n].revoked = TRUE]
    <3>1. e.kind = "EpochRevoked" /\ e.epoch = n
      OBVIOUS
    <3> HIDE DEF e
    <3>2. Effect(replay, e) = [replay EXCEPT !.epochs[e.epoch].revoked = TRUE]
      BY <3>1, EffectIs
    <3> QED BY <3>1, <3>2
  <2>5. replay' = [replay EXCEPT !.epochs[n].revoked = TRUE]
    <3> HIDE DEF e
    <3> QED BY <1>0, <2>2, <2>3, <2>4, OneEvent
  <2>6. epochs' \in Seq(Epochs)
    <3>0. epochs[n] \in Epochs
      BY <1>0, <2>2, ElementOfSeq DEF ReplayTypes
    <3>1. [epochs[n] EXCEPT !.revoked = TRUE] \in Epochs
      BY <3>0 DEF Epochs
    <3>2. epochs' = [epochs EXCEPT ![n] = [epochs[n] EXCEPT !.revoked = TRUE]]
      BY <2>2
    <3> QED BY <1>0, <2>2, <3>1, <3>2, ExceptSeq DEF ReplayTypes
  <2>7. ReplayTypes'
    <3>1. replay' = [replay EXCEPT !.epochs = epochs']
      BY <1>0, <2>2, <2>5
    <3>2. replay' \in Controls
      BY <1>0, <2>6, <3>1 DEF ReplayTypes, Controls
    <3> QED BY <1>0, <2>2, <2>6, <3>2 DEF ReplayTypes
  <2>8. ReplayMirrors'
    BY <1>0, <2>2, <2>5 DEF ReplayTypes, Controls, ReplayMirrors
  <2> QED BY <1>0, <2>2, <2>7, <2>8 DEF ReplayInv, OneAdmin
<1>3. CASE \E i \in Ids : RevokeAuthorization(caller, i)
  <2>1. PICK i \in Ids : RevokeAuthorization(caller, i)
    BY <1>3
  <2> DEFINE e == [kind |-> "AuthorizationRevoked", id |-> i]
  <2>2. /\ events' = <<e>> /\ state' = [state EXCEPT ![i] = "revoked"] /\ state[i] = "unused"
        /\ UNCHANGED <<paused, epochs, roles, pendingAdmin, adminDue, pendingDelay>>
    BY <2>1 DEF RevokeAuthorization, access
  <2>3. ~ Impossible(replay, e)
    BY <1>0, <2>2 DEF Impossible, Spent
  <2>4. Effect(replay, e) = [replay EXCEPT !.revoked = @ \cup {i}]
    BY EffectIs
  <2>5. replay' = [replay EXCEPT !.revoked = @ \cup {i}]
    <3> HIDE DEF e
    <3> QED BY <1>0, <2>2, <2>3, <2>4, OneEvent
  <2>7. ReplayTypes'
    BY <1>0, <2>2, <2>5 DEF ReplayTypes, Controls
  <2>8. ReplayMirrors'
    BY <1>0, <2>2, <2>5 DEF ReplayTypes, Controls, ReplayMirrors
  <2> QED BY <1>0, <2>2, <2>7, <2>8 DEF ReplayInv, OneAdmin
<1>4. CASE PauseMinting(caller)
  <2> DEFINE e == [kind |-> "Paused"]
  <2>2. /\ events' = <<e>> /\ paused' = TRUE /\ paused = FALSE
        /\ UNCHANGED <<state, epochs, roles, pendingAdmin, adminDue, pendingDelay>>
    BY <1>0, <1>4 DEF PauseMinting, access, tokens, Bare, ReplayTypes
  <2>3. ~ Impossible(replay, e)
    BY <1>0, <2>2 DEF Impossible
  <2>4. Effect(replay, e) = [replay EXCEPT !.paused = TRUE]
    BY EffectIs
  <2>5. replay' = [replay EXCEPT !.paused = TRUE]
    <3> HIDE DEF e
    <3> QED BY <1>0, <2>2, <2>3, <2>4, OneEvent
  <2>7. ReplayTypes'
    BY <1>0, <2>2, <2>5 DEF ReplayTypes, Controls
  <2>8. ReplayMirrors'
    BY <1>0, <2>2, <2>5 DEF ReplayTypes, Controls, ReplayMirrors
  <2> QED BY <1>0, <2>2, <2>7, <2>8 DEF ReplayInv, OneAdmin
<1>5. CASE UnpauseMinting(caller)
  <2> DEFINE e == [kind |-> "Unpaused"]
  <2>2. /\ events' = <<e>> /\ paused' = FALSE /\ paused = TRUE
        /\ UNCHANGED <<state, epochs, roles, pendingAdmin, adminDue, pendingDelay>>
    BY <1>0, <1>5 DEF UnpauseMinting, access, tokens, Bare, ReplayTypes
  <2>3. ~ Impossible(replay, e)
    BY <1>0, <2>2 DEF Impossible
  <2>4. Effect(replay, e) = [replay EXCEPT !.paused = FALSE]
    BY EffectIs
  <2>5. replay' = [replay EXCEPT !.paused = FALSE]
    <3> HIDE DEF e
    <3> QED BY <1>0, <2>2, <2>3, <2>4, OneEvent
  <2>7. ReplayTypes'
    BY <1>0, <2>2, <2>5 DEF ReplayTypes, Controls
  <2>8. ReplayMirrors'
    BY <1>0, <2>2, <2>5 DEF ReplayTypes, Controls, ReplayMirrors
  <2> QED BY <1>0, <2>2, <2>7, <2>8 DEF ReplayInv, OneAdmin
<1> QED BY <1>1, <1>2, <1>3, <1>4, <1>5 DEF Operation

LEMMA TransferReplayed ==
    ASSUME ReplayInv, NEW caller \in Account, NEW s \in Signature, NEW x \in Account,
           Transfer(caller, s, x), replay' = Advance(replay, events')
    PROVE  ReplayInv'
<1> DEFINE e == [kind |-> "Transfer", from |-> caller, to |-> x, token |-> s]
<1>0. ReplayTypes /\ OneAdmin /\ ReplayMirrors /\ ~ replay.failed
  BY DEF ReplayInv, ReplayMirrors
<1>1. events' = <<e>> /\ UNCHANGED <<paused, epochs, state, roles, pendingAdmin, adminDue, pendingDelay>>
  BY DEF Transfer, access
<1>2. ~ Impossible(replay, e) /\ Effect(replay, e) = replay
  BY EffectIs DEF Impossible
<1>3. replay' = replay
  <2> HIDE DEF e
  <2> QED BY <1>0, <1>1, <1>2, OneEvent
<1> QED BY <1>0, <1>1, <1>3 DEF ReplayInv, OneAdmin, ReplayTypes, ReplayMirrors

LEMMA RolesReplayed ==
    ASSUME DistinctNames, ReplayInv, NEW caller \in Account, NEW r \in Operational, NEW x \in Account,
           GrantRole(caller, r, x) \/ RevokeRole(caller, r, x),
           replay' = Advance(replay, events')
    PROVE  ReplayInv'
<1>0. /\ ReplayTypes /\ OneAdmin /\ ~ replay.failed
      /\ replay.paused = paused /\ replay.epochs = epochs /\ replay.roles = roles
      /\ replay.redeemed = {i \in Ids : state[i] = "redeemed"}
      /\ replay.revoked = {i \in Ids : state[i] = "revoked"}
      /\ replay.pendingAdmin = pendingAdmin /\ (pendingDelay = "waiting" => replay.pendingDelay)
  BY DEF ReplayInv, ReplayMirrors
<1>00. r \in Roles /\ r # Admin
  BY DEF Operational, DistinctNames, Roles
<1>1. CASE GrantRole(caller, r, x)
  <2> DEFINE e == Grant(r, x)
  <2>1. e.kind = "RoleGranted" /\ e.role = r /\ e.account = x
    BY DEF Grant
  <2>2. /\ events' = <<e>> /\ roles' = roles \cup {<<r, x>>} /\ <<r, x>> \notin roles
        /\ UNCHANGED <<paused, epochs, state, pendingAdmin, adminDue, pendingDelay>>
    BY <1>1 DEF GrantRole, SetRoles, tokens
  <2> HIDE DEF e
  <2>3. ~ Impossible(replay, e)
    BY <1>0, <2>1, <2>2 DEF Impossible
  <2>4. Effect(replay, e) = Granted(replay, e)
    BY <2>1, EffectIs
  <2>5. replay' = [replay EXCEPT !.roles = roles']
    <3>1. Granted(replay, e) = [replay EXCEPT !.roles = replay.roles \cup {<<r, x>>}, !.pendingAdmin = replay.pendingAdmin]
      BY <1>00, <2>1 DEF Granted
    <3>2. replay' = Granted(replay, e)
      BY <1>0, <2>2, <2>3, <2>4, OneEvent
    <3> QED BY <1>0, <2>2, <3>1, <3>2 DEF ReplayTypes, Controls
  <2>6. roles' \subseteq Roles \X Account
    BY <1>0, <1>00, <2>2 DEF ReplayTypes
  <2>7. ReplayTypes'
    BY <1>0, <2>2, <2>5, <2>6 DEF ReplayTypes, Controls
  <2>8. ReplayMirrors'
    BY <1>0, <2>2, <2>5 DEF ReplayTypes, Controls, ReplayMirrors
  <2>9. OneAdmin'
    BY <1>0, <1>00, <2>2 DEF OneAdmin
  <2> QED BY <2>7, <2>8, <2>9 DEF ReplayInv
<1>2. CASE RevokeRole(caller, r, x)
  <2> DEFINE e == Revoke(r, x)
  <2>1. e.kind = "RoleRevoked" /\ e.role = r /\ e.account = x
    BY DEF Revoke
  <2>2. /\ events' = <<e>> /\ roles' = roles \ {<<r, x>>} /\ <<r, x>> \in roles
        /\ UNCHANGED <<paused, epochs, state, pendingAdmin, adminDue, pendingDelay>>
    BY <1>2 DEF RevokeRole, SetRoles, tokens
  <2> HIDE DEF e
  <2>3. ~ Impossible(replay, e)
    BY <1>0, <2>1, <2>2 DEF Impossible
  <2>4. Effect(replay, e) = Removed(replay, e)
    BY <2>1, EffectIs
  <2>5. replay' = [replay EXCEPT !.roles = roles']
    <3>1. Removed(replay, e) = [replay EXCEPT !.roles = replay.roles \ {<<r, x>>}, !.pendingAdmin = replay.pendingAdmin]
      BY <1>00, <2>1 DEF Removed
    <3>2. replay' = Removed(replay, e)
      BY <1>0, <2>2, <2>3, <2>4, OneEvent
    <3> QED BY <1>0, <2>2, <3>1, <3>2 DEF ReplayTypes, Controls
  <2>6. roles' \subseteq Roles \X Account
    BY <1>0, <2>2 DEF ReplayTypes
  <2>7. ReplayTypes'
    BY <1>0, <2>2, <2>5, <2>6 DEF ReplayTypes, Controls
  <2>8. ReplayMirrors'
    BY <1>0, <2>2, <2>5 DEF ReplayTypes, Controls, ReplayMirrors
  <2>9. OneAdmin'
    BY <1>0, <2>2 DEF OneAdmin
  <2> QED BY <2>7, <2>8, <2>9 DEF ReplayInv
<1> QED BY <1>1, <1>2

\* A transfer of the admin role is announced or cancelled: what was pending is cancelled first.
LEMMA PendingReplayed ==
    ASSUME DistinctNames, ReplayInv, NEW caller \in Account,
           CancelAdminTransfer(caller) \/ \E x \in Account \cup {Zero} : BeginAdminTransfer(caller, x),
           replay' = Advance(replay, events')
    PROVE  ReplayInv'
<1> DEFINE e == [kind |-> "TransferCanceled"]
           canceled == [replay EXCEPT !.pendingAdmin = NoAccount]
<1>0. /\ ReplayTypes /\ OneAdmin /\ ~ replay.failed
      /\ replay.paused = paused /\ replay.epochs = epochs /\ replay.roles = roles
      /\ replay.redeemed = {i \in Ids : state[i] = "redeemed"}
      /\ replay.revoked = {i \in Ids : state[i] = "revoked"}
      /\ replay.pendingAdmin = pendingAdmin /\ (pendingDelay = "waiting" => replay.pendingDelay)
  BY DEF ReplayInv, ReplayMirrors
<1>00. Effect(replay, e) = canceled /\ (pendingAdmin # NoAccount => ~ Impossible(replay, e))
  <2>1. Effect(replay, e) = canceled
    <3>1. e.kind = "TransferCanceled"
      OBVIOUS
    <3> HIDE DEF e
    <3> QED BY <3>1, EffectIs
  <2> QED BY <1>0, <2>1 DEF Impossible
<1>1. ASSUME UNCHANGED <<paused, epochs, state, roles, pendingDelay>>, pendingAdmin' \in Account \cup {Zero, NoAccount},
             replay' = [replay EXCEPT !.pendingAdmin = pendingAdmin']
      PROVE  ReplayInv'
  <2>1. ReplayTypes'
    BY <1>0, <1>1 DEF ReplayTypes, Controls
  <2>2. ReplayMirrors'
    BY <1>0, <1>1 DEF ReplayTypes, Controls, ReplayMirrors
  <2> QED BY <1>0, <1>1, <2>1, <2>2 DEF ReplayInv, OneAdmin
<1>2. CASE CancelAdminTransfer(caller)
  <2>1. /\ pendingAdmin # NoAccount /\ pendingAdmin' = NoAccount /\ events' = <<e>>
        /\ UNCHANGED <<paused, epochs, state, roles, pendingDelay>>
    BY <1>2 DEF CancelAdminTransfer, SetPending, Bare, tokens
  <2>2. replay' = canceled
    <3> HIDE DEF e, canceled
    <3> QED BY <1>0, <1>00, <2>1, OneEvent
  <2> QED BY <1>1, <2>1, <2>2
<1>3. CASE \E x \in Account \cup {Zero} : BeginAdminTransfer(caller, x)
  <2>0. PICK x \in Account \cup {Zero} : BeginAdminTransfer(caller, x)
    BY <1>3
  <2> DEFINE f == [kind |-> "TransferScheduled", account |-> x]
  <2>1. /\ pendingAdmin' = x /\ UNCHANGED <<paused, epochs, state, roles, pendingDelay>>
        /\ pendingAdmin = NoAccount => events' = <<f>>
        /\ pendingAdmin # NoAccount => events' = <<e, f>>
    <3>1. /\ pendingAdmin' = x /\ UNCHANGED <<paused, epochs, state, roles, pendingDelay>>
          /\ events' = (IF pendingAdmin = NoAccount THEN <<>> ELSE <<e>>) \o <<f>>
      BY <2>0 DEF BeginAdminTransfer, SetPending, Bare, tokens
    <3> HIDE DEF e, f
    <3> QED BY <3>1, Joined
  <2>2. \A c : ~ Impossible(c, f)
    BY DEF Impossible
  <2>3. \A c : Effect(c, f) = [c EXCEPT !.pendingAdmin = x]
    <3>1. f.kind = "TransferScheduled" /\ f.account = x
      OBVIOUS
    <3> HIDE DEF e, f
    <3>2. \A c : Effect(c, f) = [c EXCEPT !.pendingAdmin = f.account]
      BY <3>1, EffectIs
    <3> QED BY <3>1, <3>2
  <2>4. CASE pendingAdmin = NoAccount
    <3>1. replay' = [replay EXCEPT !.pendingAdmin = x]
      <4> HIDE DEF e, f
      <4> QED BY <1>0, <2>1, <2>2, <2>3, <2>4, OneEvent
    <3> QED BY <1>1, <2>1, <3>1
  <2>5. CASE pendingAdmin # NoAccount
    <3>1. ~ canceled.failed /\ [canceled EXCEPT !.pendingAdmin = x] = [replay EXCEPT !.pendingAdmin = x]
      BY <1>0 DEF ReplayTypes, Controls
    <3>2. replay' = [canceled EXCEPT !.pendingAdmin = x]
      <4> HIDE DEF e, f, canceled
      <4>1. ~ replay.failed /\ ~ Impossible(replay, e) /\ canceled = Effect(replay, e)
        BY <1>0, <1>00, <2>5
      <4>2. ~ canceled.failed /\ ~ Impossible(canceled, f) /\ events' = <<e, f>>
        BY <2>1, <2>2, <2>5, <3>1
      <4>3. replay' = Effect(canceled, f)
        BY <4>1, <4>2, TwoEvents
      <4> QED BY <2>3, <4>3
    <3> QED BY <1>1, <2>1, <3>1, <3>2
  <2> QED BY <2>4, <2>5
<1> QED BY <1>2, <1>3

LEMMA DelayReplayed ==
    ASSUME DistinctNames, ReplayInv, NEW caller \in Account,
           ChangeAdminDelay(caller) \/ RollbackAdminDelay(caller),
           replay' = Advance(replay, events')
    PROVE  ReplayInv'
<1> DEFINE e == [kind |-> "DelayCanceled"]
           f == [kind |-> "DelayScheduled"]
           canceled == [replay EXCEPT !.pendingDelay = FALSE]
<1>0. /\ ReplayTypes /\ OneAdmin /\ ~ replay.failed
      /\ replay.paused = paused /\ replay.epochs = epochs /\ replay.roles = roles
      /\ replay.redeemed = {i \in Ids : state[i] = "redeemed"}
      /\ replay.revoked = {i \in Ids : state[i] = "revoked"}
      /\ replay.pendingAdmin = pendingAdmin /\ (pendingDelay = "waiting" => replay.pendingDelay)
  BY DEF ReplayInv, ReplayMirrors
<1>00. Effect(replay, e) = canceled /\ (pendingDelay = "waiting" => ~ Impossible(replay, e))
  <2>1. Effect(replay, e) = canceled
    <3>1. e.kind = "DelayCanceled"
      OBVIOUS
    <3> HIDE DEF e
    <3> QED BY <3>1, EffectIs
  <2> QED BY <1>0, <2>1 DEF Impossible
<1>01. \A c : ~ Impossible(c, f) /\ Effect(c, f) = [c EXCEPT !.pendingDelay = TRUE]
  <2>1. f.kind = "DelayScheduled"
    OBVIOUS
  <2> HIDE DEF e, f
  <2>2. \A c : Effect(c, f) = [c EXCEPT !.pendingDelay = TRUE]
    BY <2>1, EffectIs
  <2> QED BY <2>1, <2>2 DEF Impossible
<1>1. ASSUME UNCHANGED <<paused, epochs, state, roles, pendingAdmin>>, pendingDelay' \in {"waiting", "none"},
             NEW b \in BOOLEAN, replay' = [replay EXCEPT !.pendingDelay = b], pendingDelay' = "waiting" => b
      PROVE  ReplayInv'
  <2>1. ReplayTypes'
    BY <1>0, <1>1 DEF ReplayTypes, Controls
  <2>2. ReplayMirrors'
    BY <1>0, <1>1 DEF ReplayTypes, Controls, ReplayMirrors
  <2> QED BY <1>0, <1>1, <2>1, <2>2 DEF ReplayInv, OneAdmin
<1>2. CASE RollbackAdminDelay(caller)
  <2>1. /\ pendingDelay' = "none" /\ UNCHANGED <<paused, epochs, state, roles, pendingAdmin>>
        /\ pendingDelay = "waiting" => events' = <<e>>
        /\ pendingDelay # "waiting" => events' = <<>>
    BY <1>2 DEF RollbackAdminDelay, SetDelay, Bare, tokens
  <2>2. CASE pendingDelay = "waiting"
    <3>1. replay' = canceled
      <4> HIDE DEF e, f, canceled
      <4> QED BY <1>0, <1>00, <2>1, <2>2, OneEvent
    <3> QED BY <1>1, <2>1, <3>1
  <2>3. CASE pendingDelay # "waiting"
    <3>1. replay' = [replay EXCEPT !.pendingDelay = replay.pendingDelay] /\ replay.pendingDelay \in BOOLEAN
      BY <1>0, <2>1, <2>3, NothingEmitted DEF ReplayTypes, Controls
    <3> QED BY <1>1, <2>1, <3>1
  <2> QED BY <2>2, <2>3
<1>3. CASE ChangeAdminDelay(caller)
  <2>1. /\ pendingDelay' = "waiting" /\ UNCHANGED <<paused, epochs, state, roles, pendingAdmin>>
        /\ pendingDelay = "waiting" => events' = <<e, f>>
        /\ pendingDelay # "waiting" => events' = <<f>>
    <3>1. /\ pendingDelay' = "waiting" /\ UNCHANGED <<paused, epochs, state, roles, pendingAdmin>>
          /\ events' = (IF pendingDelay = "waiting" THEN <<e>> ELSE <<>>) \o <<f>>
      BY <1>3 DEF ChangeAdminDelay, SetDelay, Bare, tokens
    <3> HIDE DEF e, f
    <3> QED BY <3>1, Joined
  <2>2. CASE pendingDelay = "waiting"
    <3>1. ~ canceled.failed /\ [canceled EXCEPT !.pendingDelay = TRUE] = [replay EXCEPT !.pendingDelay = TRUE]
      BY <1>0 DEF ReplayTypes, Controls
    <3>2. replay' = [canceled EXCEPT !.pendingDelay = TRUE]
      <4> HIDE DEF e, f, canceled
      <4>1. ~ replay.failed /\ ~ Impossible(replay, e) /\ canceled = Effect(replay, e)
        BY <1>0, <1>00, <2>2
      <4>2. ~ canceled.failed /\ ~ Impossible(canceled, f) /\ events' = <<e, f>>
        BY <1>01, <2>1, <2>2, <3>1
      <4>3. replay' = Effect(canceled, f)
        BY <4>1, <4>2, TwoEvents
      <4> QED BY <1>01, <4>3
    <3> QED BY <1>1, <2>1, <3>1, <3>2
  <2>3. CASE pendingDelay # "waiting"
    <3>1. replay' = [replay EXCEPT !.pendingDelay = TRUE]
      <4> HIDE DEF e, f
      <4> QED BY <1>0, <1>01, <2>1, <2>3, OneEvent
    <3> QED BY <1>1, <2>1, <3>1
  <2> QED BY <2>2, <2>3
<1> QED BY <1>2, <1>3

\* The admin role passes on, or is given up.
LEMMA AdminReplayed ==
    ASSUME DistinctNames, ReplayInv, NEW caller \in Account,
           AcceptAdminTransfer(caller) \/ RenounceAdmin(caller),
           replay' = Advance(replay, events')
    PROVE  ReplayInv'
<1>0. /\ ReplayTypes /\ OneAdmin /\ ~ replay.failed
      /\ replay.paused = paused /\ replay.epochs = epochs /\ replay.roles = roles
      /\ replay.redeemed = {i \in Ids : state[i] = "redeemed"}
      /\ replay.revoked = {i \in Ids : state[i] = "revoked"}
      /\ replay.pendingAdmin = pendingAdmin /\ (pendingDelay = "waiting" => replay.pendingDelay)
  BY DEF ReplayInv, ReplayMirrors
<1>1. ASSUME UNCHANGED <<paused, epochs, state, pendingDelay>>, pendingAdmin' = NoAccount, OneAdmin',
             roles' \subseteq Roles \X Account,
             replay' = [replay EXCEPT !.roles = roles', !.pendingAdmin = NoAccount]
      PROVE  ReplayInv'
  <2>0. replay' \in Controls
    BY <1>0, <1>1 DEF ReplayTypes, Controls
  <2>1. ReplayTypes'
    BY <1>0, <1>1, <2>0 DEF ReplayTypes
  <2>2. ReplayMirrors'
    BY <1>0, <1>1 DEF ReplayTypes, Controls, ReplayMirrors
  <2> QED BY <1>1, <2>1, <2>2 DEF ReplayInv
<1>2. ASSUME NEW old \in Account, <<Admin, old>> \in roles
      PROVE  /\ ~ Impossible(replay, Revoke(Admin, old))
             /\ Effect(replay, Revoke(Admin, old))
                  = [replay EXCEPT !.roles = roles \ {<<Admin, old>>},
                                   !.pendingAdmin = IF pendingAdmin = Zero THEN NoAccount ELSE pendingAdmin]
  <2> DEFINE e == Revoke(Admin, old)
  <2>1. e.kind = "RoleRevoked" /\ e.role = Admin /\ e.account = old
    BY DEF Revoke
  <2> HIDE DEF e
  <2>2. ~ Impossible(replay, e)
    BY <1>0, <1>2, <2>1 DEF Impossible
  <2>3. Effect(replay, e) = Removed(replay, e)
    BY <2>1, EffectIs
  <2>4. Removed(replay, e) = [replay EXCEPT !.roles = roles \ {<<Admin, old>>},
                                   !.pendingAdmin = IF pendingAdmin = Zero THEN NoAccount ELSE pendingAdmin]
    BY <1>0, <2>1 DEF Removed
  <2> QED BY <2>2, <2>3, <2>4 DEF e
<1>3. CASE RenounceAdmin(caller)
  <2>1. /\ <<Admin, caller>> \in roles /\ pendingAdmin = Zero /\ pendingAdmin' = NoAccount
        /\ roles' = roles \ {<<Admin, caller>>} /\ events' = <<Revoke(Admin, caller)>>
        /\ UNCHANGED <<paused, epochs, state, pendingDelay>>
    BY <1>3 DEF RenounceAdmin, tokens
  <2>2. replay' = Effect(replay, Revoke(Admin, caller))
    BY <1>0, <1>2, <2>1, OneEvent
  <2>3. replay' = [replay EXCEPT !.roles = roles', !.pendingAdmin = NoAccount]
    BY <1>2, <2>1, <2>2
  <2>4. OneAdmin' /\ roles' \subseteq Roles \X Account
    BY <1>0, <2>1 DEF OneAdmin, ReplayTypes
  <2> QED BY <1>1, <2>1, <2>3, <2>4
<1>4. CASE AcceptAdminTransfer(caller)
  <2>1. PICK old \in Account :
           /\ <<Admin, old>> \in roles
           /\ roles' = (roles \ {<<Admin, old>>}) \cup {<<Admin, caller>>}
           /\ events' = <<Revoke(Admin, old), Grant(Admin, caller)>>
    BY <1>4 DEF AcceptAdminTransfer, DefaultAdmins
  <2>2. /\ pendingAdmin = caller /\ pendingAdmin' = NoAccount
        /\ UNCHANGED <<paused, epochs, state, pendingDelay>>
    BY <1>4 DEF AcceptAdminTransfer, tokens
  <2>3. caller # Zero
    BY DEF DistinctNames
  <2> DEFINE c == [replay EXCEPT !.roles = roles \ {<<Admin, old>>}, !.pendingAdmin = caller]
             e == Revoke(Admin, old)
             f == Grant(Admin, caller)
  <2>4. ~ Impossible(replay, e) /\ Effect(replay, e) = c
    BY <1>2, <2>1, <2>2, <2>3
  <2>5. ~ c.failed /\ c.roles = roles \ {<<Admin, old>>} /\ c.pendingAdmin = caller
    BY <1>0 DEF ReplayTypes, Controls
  <2>6. f.kind = "RoleGranted" /\ f.role = Admin /\ f.account = caller
    BY DEF Grant
  <2>7. <<Admin, caller>> \notin c.roles
    BY <1>0, <2>1, <2>5 DEF OneAdmin
  <2>8. [c EXCEPT !.roles = roles', !.pendingAdmin = NoAccount] = [replay EXCEPT !.roles = roles', !.pendingAdmin = NoAccount]
    BY <1>0 DEF ReplayTypes, Controls
  <2>9. OneAdmin' /\ roles' \subseteq Roles \X Account
    BY <1>0, <2>1 DEF OneAdmin, ReplayTypes, Roles
  <2> HIDE DEF c, e, f
  <2>10. ~ Impossible(c, f)
    BY <2>6, <2>7 DEF Impossible
  <2>11. Effect(c, f) = Granted(c, f)
    BY <2>6, EffectIs
  <2>12. Granted(c, f) = [c EXCEPT !.roles = roles', !.pendingAdmin = NoAccount]
    BY <2>1, <2>5, <2>6 DEF Granted
  <2>13. replay' = Effect(c, f)
    <3>1. events' = <<e, f>>
      BY <2>1 DEF e, f
    <3> QED BY <1>0, <2>4, <2>5, <2>10, <3>1, TwoEvents
  <2> QED BY <1>1, <2>2, <2>8, <2>9, <2>11, <2>12, <2>13
<1> QED BY <1>3, <1>4

\* Time passes, in the chain or towards a schedule: nothing is emitted.
LEMMA TimeReplayed ==
    ASSUME ReplayInv, NextBlock \/ AdminScheduled \/ DelayPasses,
           replay' = Advance(replay, events')
    PROVE  ReplayInv'
<1>1. /\ events' = <<>> /\ pendingDelay' \in {pendingDelay, "passed"}
      /\ UNCHANGED <<paused, epochs, state, roles, pendingAdmin>>
  BY DEF NextBlock, AdminScheduled, DelayPasses, tokens, access
<1>2. replay' = replay
  BY <1>1, NothingEmitted
<1> QED BY <1>1, <1>2 DEF ReplayInv, ReplayTypes, OneAdmin, ReplayMirrors

LEMMA ReplayStep ==
    ASSUME DistinctNames, ReplayInv, [Next]_(vars)
    PROVE  ReplayInv'
<1>1. CASE UNCHANGED vars
  BY <1>1 DEF vars, cvars, tokens, access, ReplayInv, ReplayTypes, OneAdmin, ReplayMirrors
<1>2. CASE Next
  <2>1. ChainNext /\ replay' = Advance(replay, events')
    BY <1>2 DEF Next
  <2>2. CASE \E c \in Account : Redemption(c)
    BY <2>1, <2>2, MintReplayed, TransferReplayed DEF Redemption
  <2>3. CASE \E c \in Account : Operation(c)
    BY <2>1, <2>3, OperationReplayed
  <2>4. CASE \E c \in Account : Administration(c)
    BY <2>1, <2>4, RolesReplayed, PendingReplayed, AdminReplayed, DelayReplayed DEF Administration
  <2>5. CASE NextBlock \/ AdminScheduled \/ DelayPasses
    BY <2>1, <2>5, TimeReplayed
  <2> QED BY <2>1, <2>2, <2>3, <2>4, <2>5 DEF ChainNext, Minting
<1> QED BY <1>1, <1>2

LEMMA ReplayInit == DistinctNames /\ Init => ReplayInv
<1> SUFFICES ASSUME DistinctNames, Init PROVE ReplayInv
  OBVIOUS
<1> DEFINE e1 == Grant(Admin, FirstAdmin)
           e2 == [kind |-> "EpochAdded", epoch |-> 1, authorizer |-> FirstAuthorizer]
           e3 == Grant(AuthorizerManager, FirstOperator)
           e4 == Grant(Pauser, FirstOperator)
           e5 == Grant(Revoker, FirstOperator)
           Control(es, rs) == [EmptyControl EXCEPT !.epochs = es, !.roles = rs]
           first == <<[authorizer |-> FirstAuthorizer, revoked |-> FALSE]>>
<1>1. replay = Replay(<<e1, e2, e3, e4, e5>>)
  BY DEF Init, Construction
<1>0. /\ EmptyControl \in Controls
      /\ EmptyControl.epochs = <<>> /\ EmptyControl.roles = {}
      /\ EmptyControl.pendingAdmin = NoAccount /\ EmptyControl.redeemed = {}
      /\ EmptyControl.revoked = {} /\ ~ EmptyControl.failed /\ ~ EmptyControl.paused
  BY DEF EmptyControl, Controls
<1>2. ASSUME NEW es \in Seq(Epochs), NEW rs \in SUBSET (Roles \X Account), NEW r \in Roles, NEW x \in Account,
             <<r, x>> \notin rs
      PROVE  Apply(Control(es, rs), Grant(r, x)) = Control(es, rs \cup {<<r, x>>})
  <2> DEFINE c == Control(es, rs)
             e == Grant(r, x)
  <2>1. e.kind = "RoleGranted" /\ e.role = r /\ e.account = x
    BY DEF Grant
  <2>2. c.roles = rs /\ ~ c.failed /\ c.pendingAdmin = NoAccount
    BY <1>0 DEF Controls
  <2>3. [c EXCEPT !.roles = rs \cup {<<r, x>>}, !.pendingAdmin = NoAccount] = Control(es, rs \cup {<<r, x>>})
    BY <1>0 DEF Controls
  <2> HIDE DEF c, e
  <2>4. ~ Impossible(c, e)
    BY <1>2, <2>1, <2>2 DEF Impossible
  <2>5. Granted(c, e) = [c EXCEPT !.roles = rs \cup {<<r, x>>}, !.pendingAdmin = NoAccount]
    BY <2>1, <2>2 DEF Granted
  <2>6. Apply(c, e) = Granted(c, e)
    <3>1. Effect(c, e) = Granted(c, e)
      BY <2>1, EffectIs
    <3> QED BY <2>2, <2>4, <3>1, Unfolded
  <2> QED BY <2>3, <2>5, <2>6 DEF c, e
<1>3. EmptyControl = Control(<<>>, {})
  BY <1>0 DEF Controls
<1>4. Apply(Control(<<>>, {}), e1) = Control(<<>>, {<<Admin, FirstAdmin>>})
  <2>1. /\ <<>> \in Seq(Epochs) /\ {} \in SUBSET (Roles \X Account) /\ Admin \in Roles /\ FirstAdmin \in Account
        /\ <<Admin, FirstAdmin>> \notin {}
    BY DEF DistinctNames, Roles
  <2>2. {} \cup {<<Admin, FirstAdmin>>} = {<<Admin, FirstAdmin>>}
    OBVIOUS
  <2> HIDE DEF Control
  <2>3. \A rs \in SUBSET (Roles \X Account), x \in Account : <<Admin, x>> \notin rs =>
          Apply(Control(<<>>, rs), Grant(Admin, x)) = Control(<<>>, rs \cup {<<Admin, x>>})
    <3> DEFINE none == <<>>
    <3>1. none \in Seq(Epochs) /\ Admin \in Roles
      BY <2>1
    <3> HIDE DEF none
    <3>2. \A rs \in SUBSET (Roles \X Account), x \in Account : <<Admin, x>> \notin rs =>
            Apply(Control(none, rs), Grant(Admin, x)) = Control(none, rs \cup {<<Admin, x>>})
      BY <1>2, <3>1
    <3> QED BY <3>2 DEF none
  <2>4. Apply(Control(<<>>, {}), e1) = Control(<<>>, {} \cup {<<Admin, FirstAdmin>>})
    BY <2>1, <2>3
  <2> QED BY <2>2, <2>4
<1>5. Apply(Control(<<>>, {<<Admin, FirstAdmin>>}), e2) = Control(first, {<<Admin, FirstAdmin>>})
  <2> DEFINE c == Control(<<>>, {<<Admin, FirstAdmin>>})
  <2>1. e2.kind = "EpochAdded" /\ e2.epoch = 1 /\ e2.authorizer = FirstAuthorizer /\ FirstAuthorizer # Zero
    BY DEF DistinctNames
  <2>2. c.epochs = <<>> /\ ~ c.failed
    BY <1>0 DEF Controls
  <2>3. [c EXCEPT !.epochs = first] = Control(first, {<<Admin, FirstAdmin>>})
    BY <1>0 DEF Controls
  <2>4. Append(<<>>, [authorizer |-> FirstAuthorizer, revoked |-> FALSE]) = first
    OBVIOUS
  <2> HIDE DEF c, e2, first
  <2>5. ~ Impossible(c, e2)
    BY <2>1, <2>2 DEF Impossible
  <2>6. Effect(c, e2) = [c EXCEPT !.epochs = Append(@, [authorizer |-> e2.authorizer, revoked |-> FALSE])]
    BY <2>1, EffectIs
  <2>7. Apply(c, e2) = [c EXCEPT !.epochs = first]
    BY <2>1, <2>2, <2>4, <2>5, <2>6, Unfolded
  <2> QED BY <2>3, <2>7 DEF c
<1> DEFINE r1 == {<<Admin, FirstAdmin>>}
           r2 == r1 \cup {<<AuthorizerManager, FirstOperator>>}
           r3 == r2 \cup {<<Pauser, FirstOperator>>}
           r4 == r3 \cup {<<Revoker, FirstOperator>>}
<1>6. /\ Apply(Control(first, r1), e3) = Control(first, r2)
      /\ Apply(Control(first, r2), e4) = Control(first, r3)
      /\ Apply(Control(first, r3), e5) = Control(first, r4)
  <2>1. /\ FirstOperator \in Account /\ <<AuthorizerManager, FirstOperator>> \notin r1
        /\ <<Pauser, FirstOperator>> \notin r2 /\ <<Revoker, FirstOperator>> \notin r3
        /\ {r1, r2, r3} \subseteq SUBSET (Roles \X Account) /\ {AuthorizerManager, Pauser, Revoker} \subseteq Roles
    BY DEF DistinctNames, Roles
  <2>2. first \in Seq(Epochs)
    BY DEF DistinctNames, Epochs
  <2> HIDE DEF Control, first, r1
  <2> QED BY <1>2, <2>1, <2>2
<1>7. replay = Control(first, r4)
  <2>1. <<e1, e2, e3, e4, e5>>[1] = e1 /\ <<e1, e2, e3, e4, e5>>[2] = e2 /\ <<e1, e2, e3, e4, e5>>[3] = e3
        /\ <<e1, e2, e3, e4, e5>>[4] = e4 /\ <<e1, e2, e3, e4, e5>>[5] = e5 /\ Len(<<e1, e2, e3, e4, e5>>) = 5
    OBVIOUS
  <2> HIDE DEF Control, first, r1, r2, r3, r4, e1, e2, e3, e4, e5
  <2> QED BY <1>1, <1>3, <1>4, <1>5, <1>6, <2>1, ConstructionReplayed DEF r1
<1>8. /\ paused = FALSE /\ epochs = first /\ state = [i \in Ids |-> "unused"] /\ roles = r4
      /\ pendingAdmin = NoAccount /\ pendingDelay = "none"
  BY DEF Init, Deployed, Operational
<1>9. first \in Seq(Epochs) /\ r4 \subseteq Roles \X Account
  BY DEF Epochs, Roles, DistinctNames
<1>10. ReplayTypes
  <2> HIDE DEF first, r4
  <2> QED BY <1>0, <1>7, <1>8, <1>9 DEF ReplayTypes, Controls
<1>11. ReplayMirrors
  <2> HIDE DEF first, r4
  <2> QED BY <1>0, <1>7, <1>8 DEF ReplayMirrors, Controls
<1>12. OneAdmin
  BY <1>8 DEF OneAdmin, DistinctNames
<1> QED BY <1>10, <1>11, <1>12 DEF ReplayInv

(* The replay is the contract, in every history: no genuine event is taken for    *)
(* an impossible one (controlState.ts, replayContractControlLogs).               *)
THEOREM ReplayAlwaysMirrors == Spec => []ReplayMirrors
<1>1. Init => ReplayInv
  BY ReplayInit, ContractAssumption
<1>2. ReplayInv /\ [Next]_(vars) => ReplayInv'
  BY ReplayStep, ContractAssumption
<1>3. ReplayInv => ReplayMirrors
  BY DEF ReplayInv
<1> QED BY <1>1, <1>2, <1>3, PTL DEF Spec

\* A signature and an authorization are used up together, or neither is.
LEMMA OnlyMintsMint ==
    ASSUME [Next]_(vars)
    PROVE  \/ \E c \in Account, a \in Authorization : MintAuthorized(c, a)
           \/ /\ minted' = minted
              /\ state' = state \/ \E i \in Ids : state[i] = "unused" /\ state' = [state EXCEPT ![i] = "revoked"]
<1>1. CASE UNCHANGED vars
  BY <1>1 DEF vars, cvars, tokens
<1>2. CASE (\E c \in Account : Operation(c)) \/ NextBlock
  BY <1>2 DEF Operation, AddAuthorizerEpoch, RevokeAuthorizerEpoch,
       RevokeAuthorization, PauseMinting, UnpauseMinting, NextBlock, tokens
<1>3. CASE (\E c \in Account : Administration(c)) \/ AdminScheduled \/ DelayPasses
  BY <1>3 DEF Administration, GrantRole, RevokeRole, SetRoles,
       BeginAdminTransfer, CancelAdminTransfer, SetPending, AcceptAdminTransfer,
       RenounceAdmin, ChangeAdminDelay, RollbackAdminDelay, SetDelay,
       AdminScheduled, DelayPasses, tokens
<1>4. CASE \E c \in Account : Redemption(c)
  BY <1>4 DEF Redemption, Transfer
<1> QED BY <1>1, <1>2, <1>3, <1>4 DEF Next, ChainNext, Minting

(* A mint the contract accepts passes the checks the indexer makes with the       *)
(* events before it (positionAwareExecutionControl).                            *)
THEOREM GenuineMintsAlwaysPass == Spec => GenuineMintsPass
<1> DEFINE Passes(a) ==
             /\ a.id \notin Spent(replay) /\ state'[a.id] = "redeemed" /\ ~ replay.paused
             /\ Known(replay, a.epoch) /\ ~ replay.epochs[a.epoch].revoked
             /\ replay.epochs[a.epoch].authorizer = a.signer
<1>1. ASSUME ReplayInv, [Next]_(vars), NEW s \in minted' \ minted
      PROVE  \E a \in Authorization : a.signature = s /\ Passes(a)
  <2>1. PICK c \in Account, a \in Authorization : MintAuthorized(c, a)
    BY <1>1, OnlyMintsMint
  <2>2. a.signature = s /\ a.id \in Ids /\ state[a.id] = "unused" /\ state'[a.id] = "redeemed"
    BY <1>1, <2>1 DEF MintAuthorized, Unspent, Ids, ReplayInv, ReplayTypes
  <2>3. /\ ~ paused /\ a.epoch \in 1..Len(epochs) /\ ~ epochs[a.epoch].revoked
        /\ a.signer = epochs[a.epoch].authorizer
    BY <2>1 DEF MintAuthorized, EpochStands
  <2>4. Passes(a)
    BY <1>1, <2>2, <2>3 DEF ReplayInv, ReplayMirrors, Spent, Known
  <2> QED BY <2>2, <2>4
<1>2. ReplayInv /\ [Next]_(vars) =>
        [\A s \in minted' \ minted :
           \E a \in Authorization :
             /\ a.signature = s /\ a.id \notin Spent(replay) /\ state'[a.id] = "redeemed"
             /\ ~ replay.paused
             /\ Known(replay, a.epoch) /\ ~ replay.epochs[a.epoch].revoked
             /\ replay.epochs[a.epoch].authorizer = a.signer]_(vars)
  BY <1>1
<1>3. Init => ReplayInv
  BY ReplayInit, ContractAssumption
<1>4. ReplayInv /\ [Next]_(vars) => ReplayInv'
  BY ReplayStep, ContractAssumption
<1> QED BY <1>2, <1>3, <1>4, PTL DEF Spec, GenuineMintsPass

Redeemed == {i \in Ids : state[i] = "redeemed"}
RedemptionInv ==
    /\ state \in [Ids -> {"unused", "redeemed", "revoked"}]
    /\ IsFiniteSet(Redeemed) /\ IsFiniteSet(minted) /\ Cardinality(Redeemed) = Cardinality(minted)

(* As many authorizations are redeemed as signatures are minted, though           *)
(* authorizations may share an identifier or a signature (mintAuthorized).        *)
THEOREM SignaturesAreRedeemedOnce == Spec => []OneRedemptionEach
<1>1. Init => RedemptionInv
  <2> SUFFICES ASSUME Init PROVE RedemptionInv
    OBVIOUS
  <2>1. state = [i \in Ids |-> "unused"] /\ minted = {}
    BY DEF Init, Deployed
  <2>2. Redeemed = {}
    BY <2>1 DEF Redeemed
  <2> QED BY <2>1, <2>2, FS_EmptySet DEF RedemptionInv
<1>2. ASSUME RedemptionInv, [Next]_(vars) PROVE RedemptionInv'
  <2>1. ASSUME NEW c \in Account, NEW a \in Authorization, MintAuthorized(c, a) PROVE RedemptionInv'
    <3>1. /\ state[a.id] = "unused" /\ state' = [state EXCEPT ![a.id] = "redeemed"]
          /\ a.signature \notin minted /\ minted' = minted \cup {a.signature} /\ a.id \in Ids
      BY <2>1 DEF MintAuthorized, Unspent, Ids
    <3>2. state' \in [Ids -> {"unused", "redeemed", "revoked"}]
      BY <1>2, <3>1 DEF RedemptionInv
    <3>3. Redeemed' = Redeemed \cup {a.id} /\ a.id \notin Redeemed
      BY <1>2, <3>1 DEF RedemptionInv, Redeemed
    <3>4. IsFiniteSet(Redeemed') /\ Cardinality(Redeemed') = Cardinality(Redeemed) + 1
      BY <1>2, <3>3, FS_AddElement DEF RedemptionInv
    <3>5. IsFiniteSet(minted') /\ Cardinality(minted') = Cardinality(minted) + 1
      BY <1>2, <3>1, FS_AddElement DEF RedemptionInv
    <3> QED BY <1>2, <3>2, <3>4, <3>5 DEF RedemptionInv
  <2>2. CASE minted' = minted /\ (state' = state \/ \E i \in Ids : state[i] = "unused" /\ state' = [state EXCEPT ![i] = "revoked"])
    <3>1. Redeemed' = Redeemed /\ state' \in [Ids -> {"unused", "redeemed", "revoked"}]
      BY <1>2, <2>2 DEF RedemptionInv, Redeemed
    <3> QED BY <1>2, <2>2, <3>1 DEF RedemptionInv
  <2> QED BY <1>2, <2>1, <2>2, OnlyMintsMint
<1>3. RedemptionInv => OneRedemptionEach
  BY DEF RedemptionInv, Redeemed, OneRedemptionEach
<1> QED BY <1>1, <1>2, <1>3, PTL DEF Spec
==============================================================================
