------------------------- MODULE GalleryOfSignatures -------------------------
(***************************************************************************)
(* contracts/src/GalleryOfSignatures.sol: the gallery contract, with the   *)
(* access control, pausing and token transfers it inherits (external: only *)
(* what their events and this contract's modifiers depend on).  A          *)
(* transaction that reverts changes nothing and is not a step.             *)
(*                                                                         *)
(* An authorization is a record of the constant set Authorization:         *)
(*   id, signature, wallet, epoch   as signed                              *)
(*   signer                         whose attestation it carries           *)
(*   live, length                   the instants at which its window is    *)
(*                                  open, and how long the window is       *)
(* The token of a signature is the signature.  Every action leaves in      *)
(* events what the transaction emitted.                                    *)
(***************************************************************************)
EXTENDS ContractControl, FiniteSets

CONSTANTS
    Account, Signature, Authorization, Instants,
    AuthorizerManager, Pauser, Revoker,     \* the operational roles
    FirstAdmin, FirstOperator, FirstAuthorizer,
    MaxEpochs, MaxWindow

\* Accounts, roles and the absent ones are told apart.
DistinctNames ==
    /\ Zero \notin Account /\ NoAccount \notin Account \cup {Zero}
    /\ {FirstAdmin, FirstOperator, FirstAuthorizer} \subseteq Account
    /\ Admin \notin {AuthorizerManager, Pauser, Revoker}
    /\ AuthorizerManager # Pauser /\ Pauser # Revoker /\ Revoker # AuthorizerManager

ASSUME ContractAssumption == DistinctNames

VARIABLES
    paused,         \* Pausable
    epochs,         \* authorizerByEpoch, revokedAuthorizerEpoch; the current one is the last
    state,          \* authorizationState: identifier -> "unused", "redeemed", "revoked"
    minted,         \* mintedSignature
    ownerOf,        \* signature -> account or NoAccount
    roles,          \* pairs of role and account
    pendingAdmin,   \* account of a scheduled transfer of the admin role, or NoAccount
    adminDue,       \* its schedule has passed
    pendingDelay,   \* "none", "waiting", "passed": the scheduled change of the delay
    now,            \* block.timestamp
    events          \* emitted by the last transaction

access == <<roles, pendingAdmin, adminDue, pendingDelay>>
tokens == <<state, minted, ownerOf>>
cvars == <<paused, epochs, tokens, access, now, events>>

Ids == {a.id : a \in Authorization}
Operational == {AuthorizerManager, Pauser, Revoker}
DefaultAdmins == {x \in Account : <<Admin, x>> \in roles}
Grant(r, x) == [kind |-> "RoleGranted", role |-> r, account |-> x]
Revoke(r, x) == [kind |-> "RoleRevoked", role |-> r, account |-> x]
Bare(k) == [kind |-> k]

(* The constructor; the events it emits are read in two halves. *)
Construction ==
    << Grant(Admin, FirstAdmin),
       [kind |-> "EpochAdded", epoch |-> 1, authorizer |-> FirstAuthorizer],
       Grant(AuthorizerManager, FirstOperator), Grant(Pauser, FirstOperator),
       Grant(Revoker, FirstOperator) >>

Deployed ==
    /\ paused = FALSE
    /\ epochs = << [authorizer |-> FirstAuthorizer, revoked |-> FALSE] >>
    /\ state = [i \in Ids |-> "unused"]
    /\ minted = {}
    /\ ownerOf = [s \in Signature |-> NoAccount]
    /\ roles = {<<Admin, FirstAdmin>>} \cup (Operational \X {FirstOperator})
    /\ pendingAdmin = NoAccount /\ adminDue = FALSE /\ pendingDelay = "none"
    /\ now = 0
    /\ events = <<>>

(***************************************************************************)
(* Minting.                                                                *)
(***************************************************************************)
(* _validateAuthorization; hashing the token URI and the attestation over
   the typed data is the comparison of the signer. *)
Window(a) == now \in a.live /\ a.length <= MaxWindow
Unspent(a) == state[a.id] = "unused" /\ a.signature \notin minted
EpochStands(a) ==
    /\ a.epoch \in 1 .. Len(epochs)
    /\ ~epochs[a.epoch].revoked
    /\ a.signer = epochs[a.epoch].authorizer

MintAuthorized(caller, a) ==
    /\ ~paused
    /\ caller = a.wallet
    /\ Window(a) /\ Unspent(a) /\ EpochStands(a)
    /\ state' = [state EXCEPT ![a.id] = "redeemed"]
    /\ minted' = minted \cup {a.signature}
    /\ ownerOf' = [ownerOf EXCEPT ![a.signature] = a.wallet]
    /\ events' = << [kind |-> "Transfer", from |-> Zero, to |-> a.wallet, token |-> a.signature],
                    [kind |-> "SignatureMinted", id |-> a.id, signature |-> a.signature] >>
    /\ UNCHANGED <<paused, epochs, access, now>>

Transfer(caller, s, to) ==
    /\ ownerOf[s] = caller
    /\ ownerOf' = [ownerOf EXCEPT ![s] = to]
    /\ events' = << [kind |-> "Transfer", from |-> caller, to |-> to, token |-> s] >>
    /\ UNCHANGED <<paused, epochs, state, minted, access, now>>

(***************************************************************************)
(* Operation.                                                              *)
(***************************************************************************)
AddAuthorizerEpoch(caller, x) ==
    /\ <<AuthorizerManager, caller>> \in roles
    /\ Len(epochs) < MaxEpochs
    /\ epochs' = Append(epochs, [authorizer |-> x, revoked |-> FALSE])
    /\ events' = << [kind |-> "EpochAdded", epoch |-> Len(epochs) + 1, authorizer |-> x] >>
    /\ UNCHANGED <<paused, tokens, access, now>>

RevokeAuthorizerEpoch(caller, n) ==
    /\ <<AuthorizerManager, caller>> \in roles
    /\ n \in 1 .. Len(epochs) /\ ~epochs[n].revoked
    /\ epochs' = [epochs EXCEPT ![n].revoked = TRUE]
    /\ events' = << [kind |-> "EpochRevoked", epoch |-> n, authorizer |-> epochs[n].authorizer] >>
    /\ UNCHANGED <<paused, tokens, access, now>>

RevokeAuthorization(caller, i) ==
    /\ <<Revoker, caller>> \in roles
    /\ state[i] = "unused"
    /\ state' = [state EXCEPT ![i] = "revoked"]
    /\ events' = << [kind |-> "AuthorizationRevoked", id |-> i] >>
    /\ UNCHANGED <<paused, epochs, minted, ownerOf, access, now>>

PauseMinting(caller) ==
    /\ <<Pauser, caller>> \in roles /\ ~paused
    /\ paused' = TRUE
    /\ events' = << Bare("Paused") >>
    /\ UNCHANGED <<epochs, tokens, access, now>>

UnpauseMinting(caller) ==
    /\ <<Admin, caller>> \in roles /\ paused
    /\ paused' = FALSE
    /\ events' = << Bare("Unpaused") >>
    /\ UNCHANGED <<epochs, tokens, access, now>>

(***************************************************************************)
(* The inherited administration (external).  A grant of a role held, or a  *)
(* revocation of one not held, emits nothing.                              *)
(***************************************************************************)
SetRoles(r, e) ==
    /\ roles' = r /\ events' = e
    /\ UNCHANGED <<paused, epochs, tokens, pendingAdmin, adminDue, pendingDelay, now>>

GrantRole(caller, r, x) ==
    /\ <<Admin, caller>> \in roles
    /\ <<r, x>> \notin roles
    /\ SetRoles(roles \cup {<<r, x>>}, << Grant(r, x) >>)

(* revokeRole by the admin, or renounceRole by the holder. *)
RevokeRole(caller, r, x) ==
    /\ <<Admin, caller>> \in roles \/ caller = x
    /\ <<r, x>> \in roles
    /\ SetRoles(roles \ {<<r, x>>}, << Revoke(r, x) >>)

SetPending(x, e) ==
    /\ pendingAdmin' = x /\ adminDue' = FALSE
    /\ events' = (IF pendingAdmin = NoAccount THEN <<>> ELSE << Bare("TransferCanceled") >>) \o e
    /\ UNCHANGED <<paused, epochs, tokens, roles, pendingDelay, now>>

BeginAdminTransfer(caller, x) ==
    /\ <<Admin, caller>> \in roles
    /\ SetPending(x, << [kind |-> "TransferScheduled", account |-> x] >>)

CancelAdminTransfer(caller) ==
    /\ <<Admin, caller>> \in roles /\ pendingAdmin # NoAccount
    /\ SetPending(NoAccount, <<>>)

AdminScheduled ==
    /\ pendingAdmin # NoAccount /\ ~adminDue
    /\ adminDue' = TRUE /\ events' = <<>>
    /\ UNCHANGED <<paused, epochs, tokens, roles, pendingAdmin, pendingDelay, now>>

(* The old admin is revoked and the new one granted, in this order, also
   when they are the same account. *)
AcceptAdminTransfer(caller) ==
    /\ caller = pendingAdmin /\ adminDue
    /\ pendingAdmin' = NoAccount /\ adminDue' = FALSE
    /\ \E old \in DefaultAdmins :
          /\ roles' = (roles \ {<<Admin, old>>}) \cup {<<Admin, caller>>}
          /\ events' = << Revoke(Admin, old), Grant(Admin, caller) >>
    /\ UNCHANGED <<paused, epochs, tokens, pendingDelay, now>>

RenounceAdmin(caller) ==
    /\ <<Admin, caller>> \in roles
    /\ pendingAdmin = Zero /\ adminDue
    /\ pendingAdmin' = NoAccount /\ adminDue' = FALSE
    /\ roles' = roles \ {<<Admin, caller>>}
    /\ events' = << Revoke(Admin, caller) >>
    /\ UNCHANGED <<paused, epochs, tokens, pendingDelay, now>>

(* A change that is still waiting is cancelled by its successor; one that
   has passed is the delay, and nothing is emitted for it. *)
SetDelay(caller, d, e) ==
    /\ <<Admin, caller>> \in roles
    /\ pendingDelay' = d
    /\ events' = (IF pendingDelay = "waiting" THEN << Bare("DelayCanceled") >> ELSE <<>>) \o e
    /\ UNCHANGED <<paused, epochs, tokens, roles, pendingAdmin, adminDue, now>>
ChangeAdminDelay(caller) == SetDelay(caller, "waiting", << Bare("DelayScheduled") >>)
RollbackAdminDelay(caller) == pendingDelay # "none" /\ SetDelay(caller, "none", <<>>)

DelayPasses ==
    /\ pendingDelay = "waiting"
    /\ pendingDelay' = "passed" /\ events' = <<>>
    /\ UNCHANGED <<paused, epochs, tokens, roles, pendingAdmin, adminDue, now>>

NextBlock ==
    /\ now + 1 \in Instants
    /\ now' = now + 1 /\ events' = <<>>
    /\ UNCHANGED <<paused, epochs, tokens, access>>

Redemption(c) ==
    \/ \E a \in Authorization : MintAuthorized(c, a)
    \/ \E s \in Signature, x \in Account : Transfer(c, s, x)
Operation(c) ==
    \/ \E x \in Account : AddAuthorizerEpoch(c, x)
    \/ \E n \in 1 .. MaxEpochs : RevokeAuthorizerEpoch(c, n)
    \/ \E i \in Ids : RevokeAuthorization(c, i)
    \/ PauseMinting(c) \/ UnpauseMinting(c)
Administration(c) ==
    \/ \E r \in Operational, x \in Account : GrantRole(c, r, x) \/ RevokeRole(c, r, x)
    \/ \E x \in Account \cup {Zero} : BeginAdminTransfer(c, x)
    \/ CancelAdminTransfer(c) \/ AcceptAdminTransfer(c) \/ RenounceAdmin(c)
    \/ ChangeAdminDelay(c) \/ RollbackAdminDelay(c)

Minting == (\E c \in Account : Redemption(c) \/ Operation(c)) \/ NextBlock
ChainNext == Minting \/ (\E c \in Account : Administration(c)) \/ AdminScheduled \/ DelayPasses

------------------------------------------------------------------------------
(* The indexer's control state beside the contract whose events it reads:  *)
(* the replay advances over the events of each transaction.  A transaction *)
(* of this contract emits at most two events.                              *)

VARIABLE replay

vars == <<cvars, replay>>

(* slip: the events of a transaction are replayed in the order of arrival *)
BadAdvance(c, es) ==
    IF es = <<>> THEN c
    ELSE IF Len(es) = 1 THEN Apply(c, es[1])
    ELSE Apply(Apply(c, es[2]), es[1])
Advance(c, es) ==
    IF es = <<>> THEN c
    ELSE IF Len(es) = 1 THEN Apply(c, es[1])
    ELSE Apply(Apply(c, es[1]), es[2])

Init == Deployed /\ replay = Replay(Construction)
Next == ChainNext /\ replay' = Advance(replay, events')
Spec == Init /\ [][Next]_vars

(* The same with nobody changing the roles. *)
MintNext == Minting /\ replay' = Advance(replay, events')

------------------------------------------------------------------------------
(* The replay is the contract: whether it is paused, which epochs exist and
   stand, which authorizations are spent and how, who holds which role and
   what transfer of the admin role is pending.  Of the delay it knows at
   least the change that can still be cancelled.  No history the contract
   can emit is taken for an impossible one, so issuance never stops over
   genuine events (failureCode of replayContractControlLogs). *)
ReplayMirrors ==
    /\ ~replay.failed
    /\ replay.paused = paused /\ replay.epochs = epochs /\ replay.roles = roles
    /\ replay.redeemed = {i \in Ids : state[i] = "redeemed"}
    /\ replay.revoked = {i \in Ids : state[i] = "revoked"}
    /\ replay.pendingAdmin = pendingAdmin
    /\ pendingDelay = "waiting" => replay.pendingDelay

(* A mint the contract accepts passes the control checks that the indexer
   makes with the events before it (positionAwareExecutionControl): not
   paused, under a known, standing epoch of the signer, and unspent. *)
GenuineMintsPass ==
    [][ \A s \in minted' \ minted :
          \E a \in Authorization :
             /\ a.signature = s /\ a.id \notin Spent(replay) /\ state'[a.id] = "redeemed"
             /\ ~replay.paused
             /\ Known(replay, a.epoch) /\ ~replay.epochs[a.epoch].revoked
             /\ replay.epochs[a.epoch].authorizer = a.signer ]_vars

(* As many authorizations are redeemed as signatures are minted: no
   signature consumes two, and none is minted twice by one. *)
OneRedemptionEach == Cardinality({i \in Ids : state[i] = "redeemed"}) = Cardinality(minted)
==============================================================================
