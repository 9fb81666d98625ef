--------------------------- MODULE MCMintRequests ----------------------------
(***************************************************************************)
(* The requests to the mint service, in memory and in the local rehearsal, *)
(* for TLC.  A behaviour is of the service: two signatures of one account, *)
(* whose wallet binding both share ("wallets"), two sessions of the        *)
(* account ("sessions"), claims withdrawn and made again ("claims"), or    *)
(* deadlines that pass ("deadlines"); or of the rehearsal: a chain that    *)
(* may be rewound and commits that may lose their reply ("chain"), or two  *)
(* signatures, of which one is claimed again ("again").  They share no     *)
(* state.                                                                  *)
(***************************************************************************)
EXTENDS MintService, TLC

CONSTANTS
    x1, b1, b2, s1, s2, r1, r2

VARIABLE part    \* which of them this behaviour is of
VARIABLES
    reqClaim, reqClaims, reqSession, reqChallenge, reqActive, reqMetadata,
    reqAuth, reqProjection, reqGallery, reqSuppressed, reqLock, reqSlot,
    reqReleased
VARIABLES
    chain, made, rewound, wallet, localClaim, localClaims, used, memory,
    durable, failed, op

SlotSymmetry == Permutations({r1, r2})

OneClaimant == [s \in {s1, s2} |-> x1]

Sess == INSTANCE MintService WITH
    Accounts <- {x1}, Signatures <- {s1}, Sessions <- {b1, b2},
    Slots <- {r1, r2}, Claimant <- (s1 :> x1), MaxChallenges <- 2,
    MaxInstances <- 1, MaxAuthorizations <- 1, claim <- reqClaim,
    claims <- reqClaims, session <- reqSession, challenge <- reqChallenge,
    active <- reqActive, metadata <- reqMetadata, auth <- reqAuth,
    projection <- reqProjection, gallery <- reqGallery,
    suppressed <- reqSuppressed, lock <- reqLock, slot <- reqSlot,
    released <- reqReleased
Claims == INSTANCE MintService WITH
    Accounts <- {x1}, Signatures <- {s1}, Sessions <- {b1}, Slots <- {r1, r2},
    Claimant <- (s1 :> x1), MaxChallenges <- 2, MaxInstances <- 2,
    MaxAuthorizations <- 1, claim <- reqClaim, claims <- reqClaims,
    session <- reqSession, challenge <- reqChallenge, active <- reqActive,
    metadata <- reqMetadata, auth <- reqAuth, projection <- reqProjection,
    gallery <- reqGallery, suppressed <- reqSuppressed, lock <- reqLock,
    slot <- reqSlot, released <- reqReleased
Late == INSTANCE MintService WITH
    Accounts <- {x1}, Signatures <- {s1}, Sessions <- {b1}, Slots <- {r1, r2},
    Claimant <- (s1 :> x1), MaxChallenges <- 1, MaxInstances <- 1,
    MaxAuthorizations <- 2, claim <- reqClaim, claims <- reqClaims,
    session <- reqSession, challenge <- reqChallenge, active <- reqActive,
    metadata <- reqMetadata, auth <- reqAuth, projection <- reqProjection,
    gallery <- reqGallery, suppressed <- reqSuppressed, lock <- reqLock,
    slot <- reqSlot, released <- reqReleased
Local == INSTANCE LocalRehearsal WITH
    Signatures <- {s1}, MaxAuthorizations <- 2, MaxInstances <- 2,
    MaxBlocks <- 4, TTL <- 1, MaxBlocksPerTick <- 2, Rewinds <- TRUE,
    LostReplies <- TRUE, claim <- localClaim, claims <- localClaims
Again == INSTANCE LocalRehearsal WITH
    Signatures <- {s1, s2}, MaxAuthorizations <- 1, MaxInstances <- 2,
    MaxBlocks <- 4, TTL <- 1, MaxBlocksPerTick <- 2, Rewinds <- FALSE,
    LostReplies <- FALSE, claim <- localClaim, claims <- localClaims

SessVars ==
    <<reqClaim, reqClaims, reqSession, reqChallenge, reqActive, reqMetadata,
      reqAuth, reqProjection, reqGallery, reqSuppressed, reqLock, reqSlot,
      reqReleased>>
LocalVars ==
    <<chain, made, rewound, wallet, localClaim, localClaims, used, memory,
      durable, failed, op>>

All == <<part, vars, SessVars, LocalVars>>

PackInit ==
    /\ part \in {"wallets", "sessions", "claims", "deadlines", "chain", "again"}
    /\ Init
    /\ \/ part \notin {"claims", "deadlines"} /\ Sess!Init
       \/ part = "claims" /\ Claims!Init
       \/ part = "deadlines" /\ Late!Init
    /\ \/ part \notin {"again"} /\ Local!Init
       \/ part = "again" /\ Again!Init

PackNext ==
    \/ part = "wallets" /\ CalmNext /\ UNCHANGED <<part, SessVars, LocalVars>>
    \/ part = "sessions" /\ Sess!CalmNext /\ UNCHANGED <<part, vars, LocalVars>>
    \/ part = "claims" /\ Claims!CalmNext /\ UNCHANGED <<part, vars, LocalVars>>
    \/ part = "deadlines" /\ Late!Next /\ UNCHANGED <<part, vars, LocalVars>>
    \/ part = "chain" /\ Local!Next /\ UNCHANGED <<part, vars, SessVars>>
    \/ part = "again" /\ Again!Next /\ UNCHANGED <<part, vars, SessVars>>

PackSpec == PackInit /\ [][PackNext]_All

(* The same for the other behaviours of the service.  Of the rehearsal:     *)
(* what the wallet may mint is on record where a restart finds it, a        *)
(* released authorization is never redeemed, cursor, gallery and            *)
(* authorizations agree in every stored snapshot, and while every commit is *)
(* answered no metadata of a withdrawn claim meets a later one (service.ts, *)
(* mintRuntime.ts, chainReconciler.ts, withdrawClaim.ts).                   *)
EveryPartHolds ==
    /\ part = "sessions" => Sess!RequestsHold
    /\ part = "claims" => Claims!RequestsHold
    /\ part = "deadlines" => Late!RequestsHold /\ Late!OneLiveAuthorization
    /\ part = "chain" =>
          /\ Local!HandedOutIsDurable /\ Local!ReleasedIsDead
          /\ Local!CursorMatchesGallery /\ Local!AuthorizedIsBacked
    /\ part = "again" => Again!NothingResurrected

ASSUME Local!RehearsalAssumption /\ Again!RehearsalAssumption
==============================================================================
