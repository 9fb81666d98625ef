--------------------------- MODULE ContractControl ---------------------------
(***************************************************************************)
(* src/v2/indexer/controlState.ts: what the indexer reads off the control  *)
(* events of the gallery contract.  The replay folds the events in the     *)
(* order of execution and stops at the first one that the contract could   *)
(* not have emitted after those before it.                                 *)
(*                                                                         *)
(* An event is a record with a kind and the fields of that kind.  Account  *)
(* Zero is the zero address; Admin is DEFAULT_ADMIN_ROLE.                  *)
(***************************************************************************)
EXTENDS Naturals, Sequences

CONSTANTS Zero, Admin, NoAccount

(* emptySnapshot: no epoch, so "incomplete" and not ready. *)
EmptyControl ==
    [ failed |-> FALSE, paused |-> FALSE, epochs |-> <<>>,
      redeemed |-> {}, revoked |-> {}, roles |-> {},
      pendingAdmin |-> NoAccount, pendingDelay |-> FALSE ]

Spent(c) == c.redeemed \cup c.revoked
Known(c, n) == n \in 1 .. Len(c.epochs)

(* The events that no history of the contract explains. *)
Impossible(c, e) ==
    \/ e.kind = "EpochAdded" /\ (e.epoch # Len(c.epochs) + 1 \/ e.authorizer = Zero)
    \/ /\ e.kind = "EpochRevoked"
       /\ \/ ~Known(c, e.epoch)
          \/ c.epochs[e.epoch].authorizer # e.authorizer
          \/ c.epochs[e.epoch].revoked
    \/ e.kind \in {"AuthorizationRevoked", "SignatureMinted"} /\ e.id \in Spent(c)
    \/ e.kind = "Paused" /\ c.paused
    \/ e.kind = "Unpaused" /\ ~c.paused
    \/ e.kind = "RoleGranted" /\ <<e.role, e.account>> \in c.roles
    \/ e.kind = "RoleRevoked" /\ <<e.role, e.account>> \notin c.roles
    \/ e.kind = "RoleAdminChanged"
    \/ e.kind = "TransferCanceled" /\ c.pendingAdmin = NoAccount
    \/ e.kind = "DelayCanceled" /\ ~c.pendingDelay

(* A grant of the admin role completes the pending transfer to its account;
   a revocation completes a pending transfer to nobody. *)
Granted(c, e) ==
    [c EXCEPT !.roles = @ \cup {<<e.role, e.account>>},
              !.pendingAdmin = IF e.role = Admin /\ @ = e.account THEN NoAccount ELSE @]
Removed(c, e) ==
    [c EXCEPT !.roles = @ \ {<<e.role, e.account>>},
              !.pendingAdmin = IF e.role = Admin /\ @ = Zero THEN NoAccount ELSE @]

Effect(c, e) ==
    CASE e.kind = "EpochAdded" ->
            [c EXCEPT !.epochs = Append(@, [authorizer |-> e.authorizer, revoked |-> FALSE])]
      [] e.kind = "EpochRevoked" -> [c EXCEPT !.epochs[e.epoch].revoked = TRUE]
      [] e.kind = "AuthorizationRevoked" -> [c EXCEPT !.revoked = @ \cup {e.id}]
      [] e.kind = "SignatureMinted" -> [c EXCEPT !.redeemed = @ \cup {e.id}]
      [] e.kind = "Paused" -> [c EXCEPT !.paused = TRUE]
      [] e.kind = "Unpaused" -> [c EXCEPT !.paused = FALSE]
      [] e.kind = "RoleGranted" -> Granted(c, e)
      [] e.kind = "RoleRevoked" -> Removed(c, e)
      [] e.kind = "TransferScheduled" -> [c EXCEPT !.pendingAdmin = e.account]
      [] e.kind = "TransferCanceled" -> [c EXCEPT !.pendingAdmin = NoAccount]
      [] e.kind = "DelayScheduled" -> [c EXCEPT !.pendingDelay = TRUE]
      [] e.kind = "DelayCanceled" -> [c EXCEPT !.pendingDelay = FALSE]
      [] OTHER -> c

Apply(c, e) ==
    IF c.failed THEN c
    ELSE IF Impossible(c, e) THEN [c EXCEPT !.failed = TRUE]
    ELSE Effect(c, e)

(* replayContractControlLogs, on events already in the order of execution. *)
Replay(events) ==
    LET upTo[n \in 0 .. Len(events)] ==
            IF n = 0 THEN {EmptyControl} ELSE {Apply(c, events[n]) : c \in upTo[n - 1]}
    IN CHOOSE c \in upTo[Len(events)] : TRUE

(* authorizationIssuanceReady *)
Ready(c) ==
    /\ ~c.failed /\ ~c.paused
    /\ c.epochs # <<>>
    /\ ~c.epochs[Len(c.epochs)].revoked
=============================================================================
