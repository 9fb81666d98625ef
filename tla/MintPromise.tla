---------------------------- MODULE MintPromise ----------------------------
(***************************************************************************)
(* What the open mint promises a handle, without sessions, locks, crashes  *)
(* or signatures: it is reserved for one wallet at a time, a reservation   *)
(* stands until it has expired on the chain's clock, a token is minted     *)
(* from the standing reservation only, and a minted handle is done.        *)
(***************************************************************************)
EXTENDS Integers

CONSTANTS Handles, Vouchers, Nothing

VARIABLES
    time,           \* the chain's clock
    reservation,    \* the latest reservation of a handle
    minted          \* what its token was minted from
vars == <<time, reservation, minted>>

Init ==
    /\ time = 1
    /\ reservation = [h \in Handles |-> Nothing] /\ minted = [h \in Handles |-> Nothing]

Standing(h) == reservation[h] # Nothing /\ time <= reservation[h].deadline

\* The new reservation is any voucher that is not of the future, with a new nonce.
ReserveFor(h) ==
    /\ ~Standing(h) /\ minted[h] = Nothing
    /\ LET v == reservation'[h] IN
          /\ v \in Vouchers /\ v.handle = h /\ v.issuedAt <= time
          /\ reservation[h] # Nothing => v.nonce # reservation[h].nonce
          /\ reservation' = [reservation EXCEPT ![h] = v]
    /\ UNCHANGED <<time, minted>>

Mint(h) ==
    /\ Standing(h) /\ minted[h] = Nothing
    /\ minted' = [minted EXCEPT ![h] = reservation[h]]
    /\ UNCHANGED <<time, reservation>>

Pass == time' = time + 1 /\ UNCHANGED <<reservation, minted>>

Next == Pass \/ \E h \in Handles : ReserveFor(h) \/ Mint(h)
Spec == Init /\ [][Next]_vars
=============================================================================
