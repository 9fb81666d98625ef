----------------------------- MODULE MCIndexing ------------------------------
(***************************************************************************)
(* The gallery contract and what the indexer makes of it, for TLC: a       *)
(* behaviour is of the contract's administration beside the replay of its  *)
(* events ("admin"), of its minting ("mints"), or of the indexer over a    *)
(* small tree of blocks: with honest sources ("honest"), with a provider   *)
(* that returns any block ("liar"), with sources that omit and a chain     *)
(* that replaces what was final ("omits"), and the same with a caller that *)
(* rescans ("rescans").  They share no state.                              *)
(***************************************************************************)
EXTENDS GalleryOfSignatures, TLC

CONSTANTS
    x1, x2, s1, s2, i1, i2, AM, PA, RE, d, a1, a2, b1, b2, NoBlock

VARIABLE part    \* which of them this behaviour is of
VARIABLES
    obs, validation, gallery, holder, aggregate, promoted, scanned, halted,
    chain, settled

(* Bound: of the tokens and the epochs only the first of each, untouched. *)
Administered == Next /\ Len(epochs') = 1 /\ now' = 0 /\ UNCHANGED tokens
Three(a, b, c, e) == [id |-> a, signature |-> b, wallet |-> x1, epoch |-> c, signer |-> e,
                      live |-> {0, 1}, length |-> 1]
(* Two authorizations of one signature, and an identifier used for two. *)
Shared ==
    { Three(i1, s1, 1, x1), Three(i2, s1, 2, x2), Three(i2, s2, 2, x2),
      [Three(i1, s2, 1, x1) EXCEPT !.live = {1}, !.length = 2] }

(*   d -- a1 -- a2
      \
       -- b1 -- b2     s1 is minted in a1, or in b2; in a2 its token moves,
                       and a mint of s2 fails its checks; the mint of s2
                       in b2 is of another authorizer than the epoch's.    *)
Tree == [b \in {a1, a2, b1, b2} |-> CASE b = a2 -> a1 [] b = b2 -> b1 [] OTHER -> d] @@ (d :> d)
Heights == (d :> 0) @@ [b \in {a1, a2, b1, b2} |-> IF b \in {a1, b1} THEN 1 ELSE 2]
By(signer, s, i, w) ==
    << [kind |-> "Transfer", from |-> Zero, to |-> w, token |-> s],
       [kind |-> "SignatureMinted", id |-> i, signature |-> s, wallet |-> w, epoch |-> 1, authorizer |-> signer] >>
Minted(s, i, w) == By(x1, s, i, w)
Ep == [kind |-> "EpochAdded", epoch |-> 1, authorizer |-> x1]
Blocks ==
    (d :> <<Ep>>) @@ (a1 :> Minted(s1, i1, x1))
    @@ (a2 :> << [kind |-> "Transfer", from |-> x1, to |-> x2, token |-> s1] >> \o Minted(s2, i2, x1))
    @@ (b1 :> <<>>) @@ (b2 :> Minted(s1, i1, x2) \o By(x2, s2, i2, x1))
GoodChecks == [l \in {<<a1, 2>>, <<a2, 3>>, <<b2, 2>>, <<b2, 3>>, <<b2, 4>>} |-> IF l[1] = a2 THEN "mismatch" ELSE "valid"]

(*   One branch in which the epoch is revoked and minting is paused after
     the mint; and another on which a pause comes first.                   *)
ControlBlocks ==
    (d :> <<Ep>>) @@ (a1 :> Minted(s1, i1, x1))
    @@ (a2 :> << [kind |-> "EpochRevoked", epoch |-> 1, authorizer |-> x1], [kind |-> "Paused"] >>)
    @@ (b1 :> << [kind |-> "Paused"] >>) @@ (b2 :> << [kind |-> "Unpaused"] >> \o Minted(s1, i1, x1))

Honest == INSTANCE ChainIndexer WITH
    Block <- {d, a1, a2, b1, b2}, Deployment <- d, Parent <- Tree,
    Height <- Heights, Content <- Blocks, Truth <- GoodChecks,
    Signature <- {s1}, Faults <- {}
Liar == INSTANCE ChainIndexer WITH
    Block <- {d, a1, a2, b1}, Deployment <- d, Parent <- Tree,
    Height <- Heights, Content <- Blocks, Truth <- GoodChecks,
    Signature <- {s1}, Faults <- {"second", "start"}
Omits == INSTANCE ChainIndexer WITH
    Block <- {d, a1, a2, b1}, Deployment <- d, Parent <- Tree,
    Height <- Heights, Content <- ControlBlocks, Truth <- GoodChecks,
    Signature <- {s1}, Faults <- {"omit", "deep"}
Rescans == INSTANCE ChainIndexer WITH
    Block <- {d, a1, b1}, Deployment <- d, Parent <- Tree, Height <- Heights,
    Content <- ControlBlocks, Truth <- GoodChecks, Signature <- {s1},
    Faults <- {"omit", "start", "deep"}

HonestVars ==
    <<obs, validation, gallery, holder, aggregate, promoted, scanned, halted,
      chain, settled>>

All == <<part, vars, HonestVars>>

PackInit ==
    /\ part \in {"admin", "mints", "honest", "liar", "omits", "rescans"}
    /\ Init
    /\ \/ part \notin {"liar", "omits", "rescans"} /\ Honest!Init
       \/ part = "liar" /\ Liar!Init
       \/ part = "omits" /\ Omits!Init
       \/ part = "rescans" /\ Rescans!Init

PackNext ==
    \/ part = "admin" /\ Administered /\ UNCHANGED <<part, HonestVars>>
    \/ part = "mints" /\ MintNext /\ UNCHANGED <<part, HonestVars>>
    \/ part = "honest" /\ Honest!Next /\ UNCHANGED <<part, vars>>
    \/ part = "liar" /\ Liar!Next /\ UNCHANGED <<part, vars>>
    \/ part = "omits" /\ Omits!Next /\ UNCHANGED <<part, vars>>
    \/ part = "rescans" /\ Rescans!Next /\ UNCHANGED <<part, vars>>

PackSpec == PackInit /\ [][PackNext]_All

(* Of the contract, as many authorizations are redeemed as signatures are   *)
(* minted.  Over honest sources the indexer never halts and the gallery is  *)
(* what the promoted chain minted with good evidence; and with a provider   *)
(* that says anything, only blocks that are final are promoted.             *)
GalleryHolds ==
    /\ part = "mints" => OneRedemptionEach
    /\ part = "honest" => Honest!NeverHalts /\ Honest!GalleryIsTheChain
    /\ part = "liar" => Liar!PromotedIsFinal

(* A mint the contract accepts passes the checks the indexer makes with the *)
(* events before it; what the gallery shows stays, with its holder, and     *)
(* leaves only by revocation after a halt.                                  *)
MintsStay ==
    /\ GenuineMintsPass
    /\ Honest!SettledStays
==============================================================================
