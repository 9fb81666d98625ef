--------------------------- MODULE OpenSignatures ---------------------------
(***************************************************************************)
(* The open-mint contract (contracts/src/OpenSignatures.sol): one token    *)
(* per canonical handle, minted against an authorization (a voucher) that  *)
(* the trusted backend key signed, plus the operational roles: rotate the  *)
(* key, pause, revoke a nonce.                                             *)
(*                                                                         *)
(* A voucher keeps the fields a check reads.  The digests and the token    *)
(* URI hash are a function of the handle (an artwork is never replaced),   *)
(* so they are left out; the token id is the handle; the provenance of a   *)
(* token commits to its whole voucher through authorizationDigest.  A      *)
(* signature is the key that made it.  Who holds a role, the recipient     *)
(* being an account without code and ERC-721 transfers are not modelled:   *)
(* nothing here depends on the current holder of a token.                  *)
(***************************************************************************)
EXTENDS Integers

CONSTANTS
    Handles,        \* canonical handles: the keys of a token
    Wallets,        \* accounts that may be named as recipient
    Nonces,         \* authorization nonces
    Keys,           \* authorizer keys
    FirstKey,       \* initialAuthorizer_
    Nothing,        \* the provenance of a token that does not exist
    MaxWindow,      \* MAX_AUTHORIZATION_WINDOW
    MaxTime         \* bound of the model: block timestamps 1..MaxTime

ASSUME KeysAssumption == FirstKey \in Keys
ASSUME WindowAssumption == MaxWindow \in Nat \ {0}
ASSUME TimeAssumption == MaxTime \in Nat \ {0}

Times == 1..MaxTime
Vouchers == [handle : Handles, recipient : Wallets, nonce : Nonces, issuedAt : Nat, deadline : Nat]
ASSUME NothingAssumption == Nothing \notin Vouchers

VARIABLES
    time,           \* timestamp of the latest block
    authorizer,     \* trustedAuthorizer
    paused,         \* Pausable
    usedNonces, revokedNonces,
    provenance      \* per handle: the voucher its token was minted with, or Nothing
vars == <<time, authorizer, paused, usedNonces, revokedNonces, provenance>>
mints == <<usedNonces, provenance>>

Minted(h) == provenance[h] # Nothing

Init ==
    /\ time = 1 /\ authorizer = FirstKey /\ paused = FALSE
    /\ usedNonces = {} /\ revokedNonces = {}
    /\ provenance = [h \in Handles |-> Nothing]

WindowOK(v) == v.issuedAt # 0 /\ v.issuedAt < v.deadline /\ v.deadline - v.issuedAt <= MaxWindow
Active(v) == v.issuedAt <= time /\ time <= v.deadline
BadNonceFree(n) == n \notin revokedNonces               \* slip: replay guard not read
NonceFree(n) == n \notin usedNonces /\ n \notin revokedNonces

BadValidate(v, sender) ==                               \* slip: handle not checked
    sender = v.recipient /\ WindowOK(v) /\ Active(v) /\ NonceFree(v.nonce)
Validate(v, sender) ==
    /\ sender = v.recipient
    /\ WindowOK(v) /\ Active(v)
    /\ NonceFree(v.nonce)
    /\ ~Minted(v.handle)

\* mint(): both replay guards and the provenance change together or not at all.
Mint(v, key, sender) ==
    /\ ~paused /\ Validate(v, sender) /\ key = authorizer
    /\ usedNonces' = usedNonces \cup {v.nonce}
    /\ provenance' = [provenance EXCEPT ![v.handle] = v]
    /\ UNCHANGED <<time, authorizer, paused, revokedNonces>>

SetTrustedAuthorizer(key) ==
    /\ authorizer' = key
    /\ UNCHANGED <<time, paused, revokedNonces, mints>>

RevokeNonce(n) ==
    /\ NonceFree(n)
    /\ revokedNonces' = revokedNonces \cup {n}
    /\ UNCHANGED <<time, authorizer, paused, mints>>

PauseMinting == ~paused /\ paused' = TRUE /\ UNCHANGED <<time, authorizer, revokedNonces, mints>>
UnpauseMinting == paused /\ paused' = FALSE /\ UNCHANGED <<time, authorizer, revokedNonces, mints>>

\* A block without a transaction that matters here.
Block ==
    /\ time < MaxTime /\ time' = time + 1
    /\ UNCHANGED <<authorizer, paused, revokedNonces, mints>>

Administer ==
    \/ \E key \in Keys : SetTrustedAuthorizer(key)
    \/ \E n \in Nonces : RevokeNonce(n)
    \/ PauseMinting
    \/ UnpauseMinting

\* On its own the contract meets any voucher, signed by any key, from any sender.
Next ==
    \/ \E h \in Handles, w, sender \in Wallets, n \in Nonces, i, d \in Times, key \in Keys :
          Mint([handle |-> h, recipient |-> w, nonce |-> n, issuedAt |-> i, deadline |-> d], key, sender)
    \/ Administer
    \/ Block
Spec == Init /\ [][Next]_vars
-----------------------------------------------------------------------------
TypeOK ==
    /\ time \in Times /\ authorizer \in Keys /\ paused \in BOOLEAN
    /\ usedNonces \subseteq Nonces /\ revokedNonces \subseteq Nonces
    /\ provenance \in [Handles -> Vouchers \cup {Nothing}]

\* The replay guards agree with the tokens: the used nonces are those in the
\* provenance of the tokens, no two tokens came from one nonce, and no revoked
\* nonce was ever used, before its revocation or after (the checks of _validate
\* and revokeNonce together).
NoncesMatchTokens ==
    /\ usedNonces = {provenance[h].nonce : h \in {g \in Handles : Minted(g)}}
    /\ \A g, h \in Handles : Minted(g) /\ Minted(h) /\ g # h => provenance[g].nonce # provenance[h].nonce
    /\ usedNonces \cap revokedNonces = {}

\* A token is permanent: no later voucher, however signed, and no operator
\* changes the provenance of a minted handle (no burn, no admin mint).
ProvenanceIsFinal ==
    [][\A h \in Handles : Minted(h) => provenance'[h] = provenance[h]]_vars
=============================================================================
