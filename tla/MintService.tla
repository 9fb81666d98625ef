----------------------------- MODULE MintService -----------------------------
(***************************************************************************)
(* The mint service of v2: src/v2/service.ts over src/v2/memoryStore.ts,   *)
(* with the claims of src/v1/store.ts and the withdrawal of                *)
(* src/v1/withdrawClaim.ts.                                                *)
(*                                                                         *)
(* Every HTTP request runs from one await to the next without              *)
(* interruption, and requests of several sessions interleave at the        *)
(* awaits; withClaimLock serializes the confirmations, authorizations and  *)
(* withdrawals of one signature, but an account has one active wallet      *)
(* binding for all of its signatures.  A request occupies a slot, whose    *)
(* "at" is the await it is suspended in.  An object of the code is known   *)
(* by an identifier: a binding by the challenge that proved it, a          *)
(* recipient draft by the challenge that produced it, a claim by its       *)
(* instance.  Challenges, claims and authorizations are bounded.           *)
(***************************************************************************)
EXTENDS Naturals, FiniteSets, TLAPS

CONSTANTS
    Accounts, Signatures, Sessions, Slots,
    Claimant,           \* the X account whose deterministic signature this is
    MaxChallenges,      \* bound on the wallet challenges ever created
    MaxInstances,       \* bound on the claims of one signature
    MaxAuthorizations,  \* bound on the authorizations ever prepared
    None

ASSUME ClaimantAssumption == Claimant \in [Signatures -> Accounts]

Challenges == 1..MaxChallenges
Authorizations == 1..MaxAuthorizations

ChallengeRecords ==
    [session : Sessions, account : Accounts \cup {None}, signature : Signatures \cup {None},
     instance : Nat, previous : Challenges \cup {None}, fresh : BOOLEAN,
     status : {"pending", "processing", "consumed", "failed"}]
Drafts ==
    [signature : Signatures, instance : Nat, binding : Challenges,
     auth : Authorizations \cup {None}, fresh : BOOLEAN]
AuthRecords ==
    [signature : Signatures, instance : Nat \ {0}, binding : Challenges,
     status : {"prepared", "signing_unknown", "issued", "consumed"}, fresh : BOOLEAN]

ASSUME ServiceAssumption ==
    /\ {MaxChallenges, MaxInstances, MaxAuthorizations} \subseteq Nat
    /\ None \notin Signatures /\ None \notin Slots /\ None \notin Accounts
    /\ None \notin Challenges /\ None \notin Authorizations
    /\ None \notin ChallengeRecords /\ None \notin Drafts /\ None \notin AuthRecords

VARIABLES
    claim,          \* [Signatures -> 0..MaxInstances], the live claim, 0 for none
    claims,         \* [Signatures -> 0..MaxInstances], claims made so far
    session,        \* per session: state, account, selecting, draft
    challenge,      \* the challenges created so far, a sequence by number
    active,         \* [Accounts -> Challenges \cup {None}], the active binding
    metadata,       \* [Signatures -> 0..MaxInstances], whose metadata is frozen
    auth,           \* the stored authorizations by number, None if none
    projection,     \* [Signatures -> [state, auth]]
    gallery,        \* the signatures shown as minted
    suppressed,     \* the signatures an operator suppressed
    lock,           \* [Signatures -> Slots \cup {None}], withClaimLock
    slot,           \* what each request in flight knows and waits for
    released        \* the responses handed out: authorization and its review

vars == <<claim, claims, session, challenge, active, metadata, auth,
          projection, gallery, suppressed, lock, slot, released>>

(***************************************************************************)
(* The stores.                                                             *)
(***************************************************************************)
NoSession == [state |-> "new", account |-> None, selecting |-> None,
              draft |-> None]

Unminted == [state |-> "unminted", auth |-> None]

Idle == [at |-> "idle"]

Init ==
    /\ claim = [s \in Signatures |-> 1]
    /\ claims = [s \in Signatures |-> 1]
    /\ session = [b \in Sessions |-> NoSession]
    /\ challenge = [c \in Challenges |-> None]
    /\ active = [x \in Accounts |-> None]
    /\ metadata = [s \in Signatures |-> 0]
    /\ auth = [a \in Authorizations |-> None]
    /\ projection = [s \in Signatures |-> Unminted]
    /\ gallery = {}
    /\ suppressed = {}
    /\ lock = [s \in Signatures |-> None]
    /\ slot = [r \in Slots |-> Idle]
    /\ released = {}

\* Which projection may follow which.
Transitions ==
    [unminted |-> {"authorized", "submitted", "included", "pending", "quarantined"},
     authorized |-> {"submitted", "included", "pending", "quarantined", "unminted"},
     submitted |-> {"included", "pending", "quarantined", "authorized", "unminted"},
     included |-> {"finalized", "pending", "quarantined", "submitted",
                   "authorized", "unminted"},
     finalized |-> {"revoked"},
     pending |-> {"included", "finalized", "quarantined", "submitted",
                  "authorized", "unminted"},
     quarantined |-> {"pending", "finalized", "revoked"},
     revoked |-> {"finalized"}]

BadUnresolved(a) ==
    (* slip: a signer that failed is taken not to have signed *)
    auth[a] # None /\ auth[a].status \in {"prepared", "issued"}

\* Passing a deadline resolves nothing: only the reconciler's evidence does.
Unresolved(a) ==
    auth[a] # None /\ auth[a].status \in {"prepared", "signing_unknown", "issued"}

HasUnresolvedBinding(x) ==
    \E a \in Authorizations : Unresolved(a) /\ auth[a].binding = active[x]

LiveAuthorizations(s, w) ==
    {a \in Authorizations : Unresolved(a) /\ auth[a].signature = s
                                          /\ auth[a].binding = w}

\* No authorization expires here: expiry is a reconciler's evidence.
CanWithdraw(s) ==
    /\ s \notin suppressed
    /\ projection[s].state = "unminted"
    /\ s \notin gallery
    /\ \A a \in Authorizations : auth[a] # None => auth[a].signature # s

\* The session still carries the identity of this account.
Identity(b, x) == session[b].state = "open" /\ session[b].account = x

(***************************************************************************)
(* hasMintRecipient: the session's draft is for this work, this binding,   *)
(* unexpired, and reserved for this authorization or for none.             *)
(***************************************************************************)
HasMintRecipient(b, s, i, w, a) ==
    /\ Identity(b, Claimant[s])
    /\ session[b].draft # None
    /\ session[b].draft.signature = s
    /\ session[b].draft.instance = i
    /\ session[b].draft.binding = w
    /\ session[b].draft.fresh
    /\ session[b].draft.auth = a

\* requireMintTarget, after its read of the claim.
MintTarget(s, i, seen, x) ==
    /\ seen = i
    /\ s \notin suppressed
    /\ Claimant[s] = x
    /\ projection[s].state = "unminted"

\* The projections under which authority may still be handed out.
Issuable(s) == projection[s].state \in {"unminted", "authorized", "submitted"}

Release(r, s) == IF lock[s] = r THEN [lock EXCEPT ![s] = None] ELSE lock

End(r) == slot' = [slot EXCEPT ![r] = Idle]

(***************************************************************************)
(* createChallenge.  A recipient for one mint is chosen with the binding   *)
(* it replaces, and checked again after the claim has been read; a wallet  *)
(* linked on the account page has no target and no second check.           *)
(***************************************************************************)
FreeChallenge(c) == challenge[c] = None /\ \A d \in 1..(c - 1) : challenge[d] # None

PutChallenge(b, s, i, previous) ==
    \E c \in Challenges :
        /\ FreeChallenge(c)
        /\ challenge' = [challenge EXCEPT ![c] =
               [session |-> b, account |-> session[b].account, signature |-> s,
                instance |-> i, previous |-> previous, fresh |-> TRUE,
                status |-> "pending"]]
        /\ session' = [session EXCEPT
               ![b].draft = None,
               ![b].selecting = IF s # None THEN c ELSE @]

ChooseRecipient(r, b, s) ==
    /\ slot[r] = Idle
    /\ session[b].state = "open"
    /\ claim[s] # 0
    /\ ~HasUnresolvedBinding(session[b].account)
    /\ slot' = [slot EXCEPT ![r] =
           [at |-> "target", session |-> b, account |-> session[b].account,
            signature |-> s, instance |-> claim[s], seen |-> claim[s],
            previous |-> active[session[b].account]]]
    /\ UNCHANGED <<claim, claims, session, challenge, active, metadata, auth,
                   projection, gallery, suppressed, lock, released>>

CreateChallenge(r) ==
    LET q == slot[r]
    IN  /\ q.at = "target"
        /\ End(r)
        /\ IF /\ MintTarget(q.signature, q.instance, q.seen, q.account)
              /\ Identity(q.session, q.account)
              /\ ~HasUnresolvedBinding(q.account)
              /\ active[q.account] = q.previous
              /\ \E c \in Challenges : FreeChallenge(c)
           THEN PutChallenge(q.session, q.signature, q.instance, q.previous)
           ELSE UNCHANGED <<challenge, session>>
        /\ UNCHANGED <<claim, claims, active, metadata, auth, projection,
                       gallery, suppressed, lock, released>>

LinkWallet(b) ==
    /\ session[b].state = "open"
    /\ PutChallenge(b, None, 0, active[session[b].account])
    /\ UNCHANGED <<claim, claims, active, metadata, auth, projection, gallery,
                   suppressed, lock, slot, released>>

(***************************************************************************)
(* confirmChallenge.  The challenge is taken once; for a mint target the   *)
(* rest runs under the claim lock.                                         *)
(***************************************************************************)
BeginConfirm(r, b, c) ==
    /\ slot[r] = Idle
    /\ challenge[c] # None
    /\ challenge[c].signature # None => session[b].selecting = c
    /\ challenge[c].status = "pending"
    /\ challenge[c].session = b
    /\ challenge[c].fresh
    /\ Identity(b, challenge[c].account)
    /\ challenge' = [challenge EXCEPT ![c].status = "processing"]
    /\ slot' = [slot EXCEPT ![r] = [at |-> "confirm", session |-> b, challenge |-> c]]
    /\ UNCHANGED <<claim, claims, session, active, metadata, auth, projection,
                   gallery, suppressed, lock, released>>

ChallengeBinding(c) == challenge[c].previous = active[challenge[c].account]

FailChallenge(r) ==
    LET q == slot[r]
        s == challenge[q.challenge].signature
    IN  /\ challenge' = [challenge EXCEPT ![q.challenge].status = "failed"]
        /\ session' = [session EXCEPT ![q.session].selecting =
               IF @ = q.challenge THEN None ELSE @]
        /\ lock' = IF s = None THEN lock ELSE Release(r, s)
        /\ End(r)
        /\ UNCHANGED <<claim, claims, active, metadata, auth, projection,
                       gallery, suppressed, released>>

\* The lock is taken and the proof is sent to be verified.
VerifyProof(r) ==
    LET q == slot[r]
        s == challenge[q.challenge].signature
    IN  /\ q.at = "confirm"
        /\ s # None => lock[s] = None
        /\ IF ChallengeBinding(q.challenge)
           THEN /\ lock' = IF s = None THEN lock ELSE [lock EXCEPT ![s] = r]
                /\ slot' = [slot EXCEPT ![r] = [at |-> "verify",
                       session |-> q.session, challenge |-> q.challenge,
                       seen |-> IF s = None THEN 0 ELSE claim[s]]]
                /\ UNCHANGED <<claim, claims, session, challenge, active, metadata,
                               auth, projection, gallery, suppressed, released>>
           ELSE FailChallenge(r)

BadConfirmedStale(r) ==
    (* slip: the choice is checked when the proof arrives, not when it is used *)
    LET q == slot[r]
        c == challenge[q.challenge]
    IN  /\ Identity(q.session, c.account)
        /\ c.signature # None =>
              MintTarget(c.signature, c.instance, q.seen, c.account)
        /\ ChallengeBinding(q.challenge)
        /\ c.fresh
        /\ ~HasUnresolvedBinding(c.account)

Confirmed(r) ==
    LET q == slot[r]
        c == challenge[q.challenge]
    IN  /\ Identity(q.session, c.account)
        /\ c.signature # None =>
              /\ MintTarget(c.signature, c.instance, q.seen, c.account)
              /\ session[q.session].selecting = q.challenge
        /\ ChallengeBinding(q.challenge)
        /\ c.fresh
        /\ ~HasUnresolvedBinding(c.account)

ActivateBinding(r) ==
    LET q == slot[r]
        c == challenge[q.challenge]
    IN  /\ q.at = "verify"
        /\ Confirmed(r)
        /\ active' = [active EXCEPT ![c.account] = q.challenge]
        /\ challenge' = [challenge EXCEPT ![q.challenge].status = "consumed"]
        /\ session' = IF c.signature = None THEN session
                      ELSE [session EXCEPT
                          ![q.session].selecting = None,
                          ![q.session].draft =
                              [signature |-> c.signature, instance |-> c.instance,
                               binding |-> q.challenge, auth |-> None,
                               fresh |-> TRUE]]
        /\ lock' = IF c.signature = None THEN lock ELSE Release(r, c.signature)
        /\ End(r)
        /\ UNCHANGED <<claim, claims, metadata, auth, projection, gallery,
                       suppressed, released>>

\* The proof is wrong, the wallet unsupported, or something changed meanwhile:
\* a failure of the verifier needs no other reason.
RejectProof(r) ==
    /\ slot[r].at = "verify"
    /\ FailChallenge(r)

\* revokeBinding: refused while the binding has an unresolved authorization.
RevokeBinding(x) ==
    /\ active[x] # None
    /\ ~HasUnresolvedBinding(x)
    /\ active' = [active EXCEPT ![x] = None]
    /\ UNCHANGED <<claim, claims, session, challenge, metadata, auth, projection,
                   gallery, suppressed, lock, slot, released>>

(***************************************************************************)
(* issueAuthorization.  The request names the binding its user reviewed.   *)
(***************************************************************************)
BeginIssue(r, b, s) ==
    /\ slot[r] = Idle
    /\ session[b].state = "open"
    /\ claim[s] # 0
    /\ active[session[b].account] # None
    /\ slot' = [slot EXCEPT ![r] =
           [at |-> "issue", session |-> b, signature |-> s, instance |-> claim[s],
            reviewed |-> active[session[b].account]]]
    /\ UNCHANGED <<claim, claims, session, challenge, active, metadata, auth,
                   projection, gallery, suppressed, lock, released>>

Refuse(r) ==
    /\ lock' = Release(r, slot[r].signature)
    /\ End(r)
    /\ UNCHANGED <<claim, claims, session, challenge, active, metadata, auth,
                   projection, gallery, suppressed, released>>

TheLive(s, w) ==
    IF LiveAuthorizations(s, w) = {} THEN None
    ELSE CHOOSE a \in LiveAuthorizations(s, w) : TRUE

Resumed(a) == a # None /\ auth[a].status = "issued"

\* The claim lock is taken, and everything is checked a first time.
MayStart(r) ==
    LET q == slot[r]
        s == q.signature
        x == Claimant[s]
        a == TheLive(s, active[x])
    IN  /\ claim[s] = q.instance
        /\ Identity(q.session, x)
        /\ s \notin suppressed
        /\ active[x] # None
        /\ q.reviewed = active[x]
        /\ Resumed(a) \/ HasMintRecipient(q.session, s, q.instance, active[x], a)
        /\ Issuable(s)

StartIssue(r) ==
    LET q == slot[r]
        s == q.signature
        a == TheLive(s, active[Claimant[s]])
    IN  /\ q.at = "issue"
        /\ lock[s] = None
        /\ IF MayStart(r)
           THEN /\ lock' = [lock EXCEPT ![s] = r]
                /\ slot' = [slot EXCEPT ![r] =
                       [at |-> "metadata", session |-> q.session, signature |-> s,
                        instance |-> q.instance, reviewed |-> q.reviewed,
                        binding |-> active[Claimant[s]],
                        drafted |-> ~Resumed(a), initial |-> a]]
                /\ UNCHANGED <<claim, claims, session, challenge, active, metadata,
                               auth, projection, gallery, suppressed, released>>
           ELSE Refuse(r)

\* Rendering the metadata took an await: everything is checked again.
StillValid(r) ==
    LET q == slot[r]
        s == q.signature
        x == Claimant[s]
    IN  /\ Identity(q.session, x)
        /\ q.drafted => HasMintRecipient(q.session, s, q.instance, q.binding, q.initial)
        /\ s \notin suppressed
        /\ active[x] = q.binding
        /\ Issuable(s)
        /\ projection[s].state # "unminted" => TheLive(s, q.binding) # None

FreezeMetadata(r) ==
    LET q == slot[r]
        s == q.signature
        a == TheLive(s, q.binding)
    IN  /\ q.at = "metadata"
        /\ metadata[s] \in {0, q.instance}
        /\ metadata' = [metadata EXCEPT ![s] = q.instance]
        /\ IF StillValid(r) /\ (Resumed(a) => auth[a].fresh)
           THEN /\ slot' = [slot EXCEPT ![r] =
                       [at |-> IF a = None THEN "reserve"
                               ELSE IF Resumed(a) THEN "release" ELSE "sign",
                        session |-> q.session, signature |-> s,
                        instance |-> q.instance, reviewed |-> q.reviewed,
                        binding |-> q.binding, drafted |-> q.drafted, auth |-> a]]
                /\ UNCHANGED lock
           ELSE /\ lock' = Release(r, s)
                /\ End(r)
        /\ UNCHANGED <<claim, claims, session, challenge, active, auth,
                       projection, gallery, suppressed, released>>

\* The artwork is missing, or the metadata conflicts with what is frozen.
MetadataFails(r) ==
    /\ slot[r].at = "metadata"
    /\ Refuse(r)

\* putPreparedAuthorization: another binding's live authorization refuses it.
MayReserve(r) ==
    LET q == slot[r]
        s == q.signature
    IN  /\ HasMintRecipient(q.session, s, q.instance, q.binding, None)
        /\ active[Claimant[s]] = q.binding
        /\ projection[s].state # "finalized"
        /\ \A a \in Authorizations : Unresolved(a) => auth[a].signature # s

Reserve(r) ==
    LET q == slot[r]
        s == q.signature
    IN  /\ q.at = "reserve"
        /\ IF MayReserve(r)
           THEN \E a \in Authorizations :
                /\ auth[a] = None /\ \A d \in 1..(a - 1) : auth[d] # None
                /\ auth' = [auth EXCEPT ![a] =
                       [signature |-> s, instance |-> q.instance,
                        binding |-> q.binding, status |-> "prepared",
                        fresh |-> TRUE]]
                /\ session' = [session EXCEPT ![q.session].draft.auth = a]
                /\ slot' = [slot EXCEPT ![r].at = "sign", ![r].auth = a]
                /\ UNCHANGED <<claim, claims, challenge, active, metadata,
                               projection, gallery, suppressed, lock, released>>
           ELSE Refuse(r)

(***************************************************************************)
(* signAndIssue: the signer is asked after a checkpoint, and may fail      *)
(* without anyone knowing whether it signed.  A projection that moved on   *)
(* is never brought back to "authorized".                                  *)
(***************************************************************************)
Sign(r) ==
    LET q == slot[r]
        s == q.signature
    IN  /\ q.at = "sign"
        /\ auth' = [auth EXCEPT ![q.auth].status = "issued"]
        /\ projection' = IF projection[s].state \in {"unminted", "authorized"}
                         THEN [projection EXCEPT ![s] =
                                  [state |-> "authorized", auth |-> q.auth]]
                         ELSE projection
        /\ slot' = [slot EXCEPT ![r].at = "release"]
        /\ UNCHANGED <<claim, claims, session, challenge, active, metadata,
                       gallery, suppressed, lock, released>>

SignerFails(r) ==
    LET q == slot[r]
    IN  /\ q.at = "sign"
        /\ auth' = [auth EXCEPT ![q.auth].status = "signing_unknown"]
        /\ lock' = Release(r, q.signature)
        /\ End(r)
        /\ UNCHANGED <<claim, claims, session, challenge, active, metadata,
                       projection, gallery, suppressed, released>>

\* assertPostSignBoundary, after the signature is stored.
MayRelease(r) ==
    LET q == slot[r]
        s == q.signature
    IN  /\ Identity(q.session, Claimant[s])
        /\ s \notin suppressed
        /\ active[Claimant[s]] = q.binding
        /\ q.drafted => HasMintRecipient(q.session, s, q.instance, q.binding, q.auth)
        /\ auth[q.auth].fresh
        /\ Issuable(s)

Respond(r) ==
    LET q == slot[r]
    IN  /\ q.at = "release"
        /\ IF MayRelease(r)
           THEN /\ released' = released \cup
                       {[auth |-> q.auth, reviewed |-> q.reviewed,
                         signature |-> q.signature, instance |-> q.instance]}
                /\ lock' = Release(r, q.signature)
                /\ End(r)
                /\ UNCHANGED <<claim, claims, session, challenge, active, metadata,
                               auth, projection, gallery, suppressed>>
           ELSE Refuse(r)

(***************************************************************************)
(* advanceFixture: the development chain moves one step.                   *)
(***************************************************************************)
AdvanceFixture(s) ==
    LET p == projection[s]
        next == CASE p.state = "authorized" -> "submitted"
                  [] p.state = "submitted" -> "included"
                  [] p.state = "included" -> "finalized"
                  [] OTHER -> "none"
    IN  /\ p.auth # None
        /\ auth[p.auth].binding = active[Claimant[s]]
        /\ next \in Transitions[p.state]
        /\ projection' = [projection EXCEPT ![s].state = next]
        /\ IF next = "finalized"
           THEN /\ auth' = [auth EXCEPT ![p.auth].status = "consumed"]
                /\ gallery' = gallery \cup {s}
           ELSE UNCHANGED <<auth, gallery>>
        /\ UNCHANGED <<claim, claims, session, challenge, active, metadata,
                       suppressed, lock, slot, released>>

(***************************************************************************)
(* withdrawClaim, under the claim lock; the store's deletion is awaited    *)
(* before the mint state forgets the claim.  And claiming again, which     *)
(* makes a new instance of the same signature.                             *)
(***************************************************************************)
WithdrawClaim(r, b, s) ==
    /\ slot[r] = Idle
    /\ lock[s] = None
    /\ claim[s] # 0
    /\ Identity(b, Claimant[s])
    /\ CanWithdraw(s)
    /\ claim' = [claim EXCEPT ![s] = 0]
    /\ lock' = [lock EXCEPT ![s] = r]
    /\ slot' = [slot EXCEPT ![r] = [at |-> "forget", signature |-> s]]
    /\ UNCHANGED <<claims, session, challenge, active, metadata, auth, projection,
                   gallery, suppressed, released>>

ForgetWithdrawnClaim(r) ==
    LET s == slot[r].signature
    IN  /\ slot[r].at = "forget"
        /\ IF CanWithdraw(s)
           THEN /\ metadata' = [metadata EXCEPT ![s] = 0]
                /\ projection' = [projection EXCEPT ![s] = Unminted]
                /\ auth' = [a \in Authorizations |->
                       IF auth[a] # None /\ auth[a].signature = s THEN None
                       ELSE auth[a]]
           ELSE UNCHANGED <<metadata, projection, auth>>
        /\ lock' = Release(r, s)
        /\ End(r)
        /\ UNCHANGED <<claim, claims, session, challenge, active, gallery,
                       suppressed, released>>

ClaimAgain(s) ==
    /\ lock[s] = None
    /\ claim[s] = 0
    /\ claims[s] < MaxInstances
    /\ claims' = [claims EXCEPT ![s] = @ + 1]
    /\ claim' = [claim EXCEPT ![s] = claims[s] + 1]
    /\ UNCHANGED <<session, challenge, active, metadata, auth, projection,
                   gallery, suppressed, lock, slot, released>>

(***************************************************************************)
(* Sessions, operators and time.                                           *)
(***************************************************************************)
SignIn(b, x) ==
    /\ session[b].state = "new"
    /\ session' = [session EXCEPT ![b] = [NoSession EXCEPT !.state = "open",
                                                           !.account = x]]
    /\ UNCHANGED <<claim, claims, challenge, active, metadata, auth, projection,
                   gallery, suppressed, lock, slot, released>>

\* The object a request still holds loses its authority with the cookie.
Logout(b) ==
    /\ session[b].state = "open"
    /\ session' = [session EXCEPT ![b] = [NoSession EXCEPT !.state = "closed"]]
    /\ UNCHANGED <<claim, claims, challenge, active, metadata, auth, projection,
                   gallery, suppressed, lock, slot, released>>

Suppress(s) ==
    /\ s \notin suppressed
    /\ suppressed' = suppressed \cup {s}
    /\ UNCHANGED <<claim, claims, session, challenge, active, metadata, auth,
                   projection, gallery, lock, slot, released>>

\* A challenge, a review or an authorization outlives its deadline.
TimePasses ==
    /\ \/ \E c \in Challenges :
             /\ challenge[c] # None /\ challenge[c].fresh
             /\ challenge' = [challenge EXCEPT ![c].fresh = FALSE]
             /\ UNCHANGED <<session, auth>>
       \/ \E b \in Sessions :
             /\ session[b].draft # None /\ session[b].draft.fresh
             /\ session' = [session EXCEPT ![b].draft.fresh = FALSE]
             /\ UNCHANGED <<challenge, auth>>
       \/ \E a \in Authorizations :
             /\ auth[a] # None /\ auth[a].fresh
             /\ auth' = [auth EXCEPT ![a].fresh = FALSE]
             /\ UNCHANGED <<challenge, session>>
    /\ UNCHANGED <<claim, claims, active, metadata, projection, gallery,
                   suppressed, lock, slot, released>>

\* What a request in flight does next, whoever the others are.
Step(r) ==
    \/ CreateChallenge(r)
    \/ VerifyProof(r) \/ ActivateBinding(r) \/ RejectProof(r)
    \/ StartIssue(r) \/ FreezeMetadata(r) \/ MetadataFails(r) \/ Reserve(r)
    \/ Sign(r) \/ SignerFails(r) \/ Respond(r)
    \/ ForgetWithdrawnClaim(r)

Next ==
    \/ \E r \in Slots : Step(r)
    \/ \E r \in Slots, b \in Sessions, s \in Signatures :
          ChooseRecipient(r, b, s) \/ BeginIssue(r, b, s) \/ WithdrawClaim(r, b, s)
    \/ \E r \in Slots, b \in Sessions, c \in Challenges : BeginConfirm(r, b, c)
    \/ \E b \in Sessions : LinkWallet(b) \/ Logout(b)
    \/ \E b \in Sessions, x \in Accounts : SignIn(b, x)
    \/ \E x \in Accounts : RevokeBinding(x)
    \/ \E s \in Signatures : AdvanceFixture(s) \/ ClaimAgain(s) \/ Suppress(s)
    \/ TimePasses

Spec == Init /\ [][Next]_vars

\* The same without the operator's suppressions and without deadlines.
CalmNext == Next /\ ~TimePasses /\ UNCHANGED suppressed

(***************************************************************************)
(* Properties.                                                             *)
(***************************************************************************)
Redeemable(a) ==
    auth[a] # None /\ auth[a].status \in {"prepared", "signing_unknown", "issued"}

\* Whatever wallets are linked and whichever requests race, a signature never
\* has two authorizations that could still be redeemed.
OneLiveAuthorization ==
    \A a, d \in Authorizations :
        Redeemable(a) /\ Redeemable(d) /\ auth[a].signature = auth[d].signature => a = d

\* While an authorization is unresolved the account's wallet binding stays the
\* one it was made for, though linking and revoking are done for the account
\* and without the signature's lock.
BindingFrozen ==
    \A a \in Authorizations :
        Redeemable(a) => active[Claimant[auth[a].signature]] = auth[a].binding

\* One proof, one authority: every authorization comes from a proof given for
\* exactly that claim, and a proof that was reserved for one authorization
\* never yields a second.
OneAuthorityPerProof ==
    \A a \in Authorizations : auth[a] # None =>
        LET c == challenge[auth[a].binding]
        IN  /\ c.status = "consumed"
            /\ c.signature = auth[a].signature
            /\ c.instance = auth[a].instance
            /\ \A d \in Authorizations :
                  auth[d] # None /\ auth[d].binding = auth[a].binding => a = d

\* No authorization and no frozen metadata outlives the claim it was made for:
\* a later claim of the same artwork starts from nothing.
NothingOfWithdrawnClaims ==
    \A s \in Signatures \ suppressed :
        /\ \A a \in Authorizations :
              auth[a] # None /\ auth[a].signature = s => auth[a].instance = claim[s]
        /\ claim[s] # 0 => metadata[s] \in {0, claim[s]}

\* A response carries the authority of the binding its own request reviewed.
ReleasedAsReviewed ==
    \A m \in released : auth[m.auth] # None =>
        /\ auth[m.auth].binding = m.reviewed
        /\ auth[m.auth].status \in {"issued", "consumed"}
        /\ challenge[m.reviewed].status = "consumed"

\* The recipient a session ends up with is the one it chose last.
LatestChoiceWins ==
    \A b \in Sessions : session[b].draft # None =>
        \A c \in Challenges :
            /\ challenge[c] # None
            /\ challenge[c].session = b
            /\ challenge[c].signature # None
            => c <= session[b].draft.binding

\* The gallery is exactly the finalized mints, each by a consumed authorization.
GalleryIsConsumed ==
    \A s \in Signatures :
        /\ s \in gallery <=> projection[s].state = "finalized"
        /\ s \in gallery => auth[projection[s].auth].status = "consumed"

\* What every request may rely on, whichever requests and links race.
RequestsHold ==
    /\ BindingFrozen /\ OneAuthorityPerProof /\ NothingOfWithdrawnClaims
    /\ ReleasedAsReviewed /\ LatestChoiceWins /\ GalleryIsConsumed

-----------------------------------------------------------------------------
(* Proofs, for any accounts, signatures, sessions, requests and bounds.     *)

States == {"unminted", "authorized", "submitted", "included", "finalized"}

SessionRecords ==
    [state : {"new", "open", "closed"}, account : Accounts \cup {None},
     selecting : Challenges \cup {None}, draft : Drafts \cup {None}]

Targets ==
    [at : {"target"}, session : Sessions, account : Accounts \cup {None}, signature : Signatures,
     instance : Nat \ {0}, seen : Nat, previous : Challenges \cup {None}]
Proofs ==
    [at : {"confirm"}, session : Sessions, challenge : Challenges]
        \cup [at : {"verify"}, session : Sessions, challenge : Challenges, seen : Nat]
Issues ==
    [at : {"issue"}, session : Sessions, signature : Signatures, instance : Nat \ {0},
     reviewed : Challenges]
Renders ==
    [at : {"metadata"}, session : Sessions, signature : Signatures, instance : Nat \ {0},
     reviewed : Challenges, binding : Challenges, drafted : BOOLEAN,
     initial : Authorizations \cup {None}]
Holds ==
    [at : {"reserve", "sign", "release"}, session : Sessions, signature : Signatures,
     instance : Nat \ {0}, reviewed : Challenges, binding : Challenges,
     drafted : BOOLEAN, auth : Authorizations \cup {None}]
Forgets == [at : {"forget"}, signature : Signatures]

Requests == {Idle} \cup Targets \cup Proofs \cup Issues \cup Renders \cup Holds \cup Forgets

(* The variables are of their types.                                        *)
ServiceTypeOK ==
    /\ claim \in [Signatures -> Nat] /\ claims \in [Signatures -> Nat]
    /\ metadata \in [Signatures -> Nat]
    /\ session \in [Sessions -> SessionRecords]
    /\ \A b \in Sessions : session[b].state = "open" => session[b].account \in Accounts
    /\ challenge \in [Challenges -> ChallengeRecords \cup {None}]
    /\ active \in [Accounts -> Challenges \cup {None}]
    /\ auth \in [Authorizations -> AuthRecords \cup {None}]
    /\ projection \in [Signatures -> [state : States, auth : Authorizations \cup {None}]]
    /\ gallery \subseteq Signatures
    /\ lock \in [Signatures -> Slots \cup {None}]
    /\ slot \in [Slots -> Requests]

\* The proof of binding w was accepted, for this claim.
ConsumedFor(w, s, i) ==
    /\ challenge[w] # None /\ challenge[w].status = "consumed"
    /\ challenge[w].signature = s /\ challenge[w].instance = i

\* An authorization has a proof of its own, and while it is unresolved that is the
\* account's binding.
AuthOK(a) == auth[a] # None =>
    /\ ConsumedFor(auth[a].binding, auth[a].signature, auth[a].instance)
    /\ Unresolved(a) => active[Claimant[auth[a].signature]] = auth[a].binding
    /\ \A d \in Authorizations : auth[d] # None /\ auth[d].binding = auth[a].binding => a = d
AuthInv == \A a \in Authorizations : AuthOK(a)
\* A draft is of a proof this session gave; a proof that no authorization is noted for
\* has none.
DraftOK(b) == session[b].draft # None =>
    /\ ConsumedFor(session[b].draft.binding, session[b].draft.signature, session[b].draft.instance)
    /\ challenge[session[b].draft.binding].session = b
    /\ session[b].draft.auth = None =>
          \A a \in Authorizations : auth[a] # None => auth[a].binding # session[b].draft.binding
DraftInv == \A b \in Sessions : DraftOK(b)
\* Challenges are numbered in order; the selected one and the draft's are the latest.
Chosen(b, c) == challenge[c] # None /\ challenge[c].session = b /\ challenge[c].signature # None
ChoiceInv ==
    /\ \A c \in Challenges : challenge[c] # None => \A d \in 1..(c - 1) : challenge[d] # None
    /\ \A b \in Sessions, c \in Challenges : Chosen(b, c) =>
          /\ session[b].selecting # None => c <= session[b].selecting
          /\ session[b].draft # None => c <= session[b].draft.binding
\* A proof is looked at by one request, and nothing was decided about it.
Proving(r) == slot[r].at \in {"confirm", "verify"}
ProofOK(r) == Proving(r) =>
    /\ challenge[slot[r].challenge] # None /\ challenge[slot[r].challenge].status = "processing"
    /\ challenge[slot[r].challenge].session = slot[r].session
    /\ \A q \in Slots : Proving(q) /\ slot[q].challenge = slot[r].challenge => q = r
ProofInv == \A r \in Slots : ProofOK(r)
\* What a request under the claim lock knows stays so.
HoldOK(r) ==
    /\ slot[r].at \in {"metadata", "reserve", "sign", "release"} =>
          /\ lock[slot[r].signature] = r /\ claim[slot[r].signature] = slot[r].instance
          /\ slot[r].reviewed = slot[r].binding
    /\ slot[r].at \in {"sign", "release"} =>
          /\ slot[r].auth # None /\ auth[slot[r].auth] # None
          /\ auth[slot[r].auth].signature = slot[r].signature
          /\ auth[slot[r].auth].binding = slot[r].binding
          /\ auth[slot[r].auth].status \in
                (IF slot[r].at = "sign" THEN {"prepared", "signing_unknown"} ELSE {"issued", "consumed"})
    /\ slot[r].at = "forget" => lock[slot[r].signature] = r /\ claim[slot[r].signature] = 0
HoldInv == \A r \in Slots : HoldOK(r)
\* A projection follows an authorization that was issued.
ProjectionOK(s) ==
    /\ projection[s].auth = None => projection[s].state = "unminted"
    /\ projection[s].auth # None =>
          /\ auth[projection[s].auth] # None /\ auth[projection[s].auth].signature = s
          /\ auth[projection[s].auth].status \in {"issued", "consumed"}
    /\ projection[s].state = "finalized" => auth[projection[s].auth].status = "consumed"
    /\ s \in gallery <=> projection[s].state = "finalized"
ProjectionInv == \A s \in Signatures : ProjectionOK(s)
\* Metadata outlives its claim only until the withdrawal that holds the lock forgets it.
ClaimOK(s) == s \notin suppressed =>
    /\ \A a \in Authorizations : auth[a] # None /\ auth[a].signature = s => auth[a].instance = claim[s]
    /\ claim[s] # 0 => metadata[s] \in {0, claim[s]}
    /\ claim[s] = 0 /\ metadata[s] # 0 =>
          lock[s] # None /\ slot[lock[s]].at = "forget" /\ slot[lock[s]].signature = s
ClaimInv == \A s \in Signatures : ClaimOK(s)
\* What was handed out is on record.
ReleasedInv == \A m \in released :
    /\ m.auth \in Authorizations /\ auth[m.auth] # None
    /\ auth[m.auth].binding = m.reviewed
    /\ auth[m.auth].status \in {"issued", "consumed"}

ServiceInv == /\ ServiceTypeOK /\ AuthInv /\ DraftInv /\ ChoiceInv /\ ProofInv
              /\ HoldInv /\ ProjectionInv /\ ClaimInv /\ ReleasedInv

LEMMA ServiceInit == Init => ServiceInv
<1> SUFFICES ASSUME Init PROVE ServiceInv
  OBVIOUS
<1> USE DEF Init
<1>1. ServiceTypeOK
  BY DEF ServiceTypeOK, SessionRecords, NoSession, Unminted, States, Requests, Idle
<1>2. \A r \in Slots : slot[r].at = "idle"
  BY DEF Idle
<1>3. AuthInv /\ DraftInv /\ ChoiceInv /\ ReleasedInv
  BY DEF AuthInv, AuthOK, DraftInv, DraftOK, ChoiceInv, Chosen, ReleasedInv, NoSession
<1>4. ProofInv /\ HoldInv
  BY <1>2 DEF ProofInv, ProofOK, Proving, HoldInv, HoldOK
<1>5. ProjectionInv /\ ClaimInv
  BY DEF ProjectionInv, ProjectionOK, ClaimInv, ClaimOK, Unminted
<1> QED BY <1>1, <1>3, <1>4, <1>5 DEF ServiceInv

\* The records a request can be.
LEMMA RequestKinds ==
    ASSUME ServiceTypeOK, NEW r \in Slots
    PROVE  /\ slot[r].at = "target" => slot[r] \in Targets
           /\ slot[r].at \in {"confirm", "verify"} => slot[r] \in Proofs
           /\ slot[r].at = "issue" => slot[r] \in Issues
           /\ slot[r].at = "metadata" => slot[r] \in Renders
           /\ slot[r].at \in {"reserve", "sign", "release"} => slot[r] \in Holds
           /\ slot[r].at = "forget" => slot[r] \in Forgets
<1>1. slot[r] \in Requests
  BY DEF ServiceTypeOK
<1> QED BY <1>1 DEF Requests, Idle, Targets, Proofs, Issues, Renders, Holds, Forgets

\* Requests under a claim lock: the lock names them, so no two are of one signature.
LEMMA HoldersDiffer ==
    ASSUME ServiceInv, NEW r \in Slots, NEW q \in Slots, q # r,
           slot[r].at \in {"metadata", "reserve", "sign", "release", "forget"},
           slot[q].at \in {"metadata", "reserve", "sign", "release", "forget"}
    PROVE  slot[r].signature # slot[q].signature
<1>1. HoldOK(r) /\ HoldOK(q)
  BY DEF ServiceInv, HoldInv
<1> QED BY <1>1 DEF HoldOK

\* Other requests under a lock, when request r moves: locks of others stay.
LEMMA HoldMoves ==
    ASSUME ServiceInv, NEW r \in Slots, NEW new \in Requests, slot' = [slot EXCEPT ![r] = new],
           \A s \in Signatures : lock'[s] = lock[s] \/ lock[s] \in {None, r},
           \A s \in Signatures : claim'[s] = claim[s] \/ lock[s] \in {None, r},
           \A q \in Slots : q # r /\ slot[q].at \in {"sign", "release"} =>
               /\ auth'[slot[q].auth] # None
               /\ auth'[slot[q].auth].signature = auth[slot[q].auth].signature
               /\ auth'[slot[q].auth].binding = auth[slot[q].auth].binding
               /\ auth'[slot[q].auth].status \in
                     (IF slot[q].at = "sign" THEN {"prepared", "signing_unknown"} ELSE {"issued", "consumed"}),
           HoldOK(r)'
    PROVE  HoldInv'
<1> SUFFICES ASSUME NEW q \in Slots, q # r PROVE HoldOK(q)'
  BY DEF HoldInv
<1>1. slot'[q] = slot[q]
  BY DEF ServiceInv, ServiceTypeOK
<1>2. HoldOK(q)
  BY DEF ServiceInv, HoldInv
<1>3. slot[q].at \in {"metadata", "reserve", "sign", "release", "forget"} => slot[q].signature \in Signatures
  BY RequestKinds DEF ServiceInv, Renders, Holds, Forgets
<1>4. slot[q].at \in {"metadata", "reserve", "sign", "release", "forget"} =>
          /\ lock'[slot[q].signature] = q /\ claim'[slot[q].signature] = claim[slot[q].signature]
  BY <1>2, <1>3, ServiceAssumption DEF HoldOK
<1> QED BY <1>1, <1>2, <1>4 DEF HoldOK

\* Other proofs, when request r moves.
LEMMA ProofMoves ==
    ASSUME ServiceInv, NEW r \in Slots, NEW new \in Requests, slot' = [slot EXCEPT ![r] = new],
           \A q \in Slots : q # r /\ Proving(q) =>
               /\ challenge'[slot[q].challenge] # None
               /\ challenge'[slot[q].challenge].status = "processing"
               /\ challenge'[slot[q].challenge].session = challenge[slot[q].challenge].session,
           ProofOK(r)'
    PROVE  ProofInv'
<1> SUFFICES ASSUME NEW q \in Slots, q # r PROVE ProofOK(q)'
  BY DEF ProofInv
<1>1. \A p \in Slots : p # r => slot'[p] = slot[p]
  BY DEF ServiceInv, ServiceTypeOK
<1>2. ProofOK(q)
  BY DEF ServiceInv, ProofInv
<1>3. ASSUME NEW p \in Slots, Proving(p)', Proving(q)', slot'[p].challenge = slot'[q].challenge PROVE p = q
  <2>1. CASE p = r
    BY <1>1, <1>3, <2>1 DEF ProofOK, Proving
  <2>2. CASE p # r
    BY <1>1, <1>2, <1>3, <2>2 DEF ProofOK, Proving
  <2> QED BY <2>1, <2>2
<1> QED BY <1>1, <1>2, <1>3 DEF ProofOK, Proving

\* What the claims say, when a request moves that is not withdrawing one.
LEMMA ClaimMoves ==
    ASSUME ServiceInv, NEW r \in Slots, NEW new \in Requests, slot' = [slot EXCEPT ![r] = new],
           slot[r].at # "forget",
           \A s \in Signatures : lock'[s] = lock[s] \/ lock[s] \in {None, r},
           UNCHANGED <<claim, suppressed>>,
           \A s \in Signatures : \/ metadata'[s] = metadata[s]
                                 \/ claim[s] # 0 /\ metadata'[s] = claim[s],
           \A a \in Authorizations : auth'[a] # None =>
               auth'[a].instance = claim[auth'[a].signature]
                   \/ (auth[a] # None /\ auth'[a].signature = auth[a].signature /\ auth'[a].instance = auth[a].instance)
    PROVE  ClaimInv'
<1> SUFFICES ASSUME NEW s \in Signatures, s \notin suppressed PROVE ClaimOK(s)'
  BY DEF ClaimInv, ClaimOK
<1>1. ClaimOK(s)
  BY DEF ServiceInv, ClaimInv
<1>2. \A a \in Authorizations : auth'[a] # None /\ auth'[a].signature = s => auth'[a].instance = claim[s]
  BY <1>1 DEF ClaimOK
<1>3. claim[s] # 0 => metadata'[s] \in {0, claim[s]}
  BY <1>1 DEF ClaimOK
<1>4. ASSUME claim[s] = 0, metadata'[s] # 0
      PROVE  lock'[s] # None /\ slot'[lock'[s]].at = "forget" /\ slot'[lock'[s]].signature = s
  <2>1. lock[s] # None /\ slot[lock[s]].at = "forget" /\ slot[lock[s]].signature = s /\ lock[s] \in Slots
    BY <1>1, <1>4 DEF ClaimOK, ServiceInv, ServiceTypeOK
  <2>2. lock[s] # r /\ lock'[s] = lock[s]
    BY <2>1
  <2>3. slot'[lock[s]] = slot[lock[s]]
    BY <2>1, <2>2 DEF ServiceInv, ServiceTypeOK
  <2> QED BY <2>1, <2>2, <2>3
<1> QED BY <1>2, <1>3, <1>4 DEF ClaimOK

\* A request moves and the stores stay, but for metadata frozen for the live claim.
LEMMA RequestMoves ==
    ASSUME ServiceInv, NEW r \in Slots, NEW new \in Requests, slot' = [slot EXCEPT ![r] = new],
           slot[r].at # "forget",
           UNCHANGED <<claim, claims, session, challenge, active, auth, projection, gallery, suppressed>>,
           metadata' \in [Signatures -> Nat],
           \A s \in Signatures : \/ metadata'[s] = metadata[s]
                                 \/ claim[s] # 0 /\ metadata'[s] = claim[s],
           lock' \in [Signatures -> Slots \cup {None}],
           \A s \in Signatures : lock'[s] = lock[s] \/ lock[s] \in {None, r},
           HoldOK(r)', ProofOK(r)', ReleasedInv'
    PROVE  ServiceInv'
<1>1. ServiceTypeOK'
  BY DEF ServiceInv, ServiceTypeOK
<1>2. AuthInv' /\ DraftInv' /\ ChoiceInv' /\ ProjectionInv'
  BY DEF ServiceInv, AuthInv, AuthOK, ConsumedFor, Unresolved, DraftInv, DraftOK, ChoiceInv, Chosen,
         ProjectionInv, ProjectionOK
<1>3. ProofInv'
  <2>1. \A q \in Slots : q # r /\ Proving(q) =>
               /\ challenge'[slot[q].challenge] # None
               /\ challenge'[slot[q].challenge].status = "processing"
               /\ challenge'[slot[q].challenge].session = challenge[slot[q].challenge].session
    BY DEF ServiceInv, ProofInv, ProofOK
  <2> QED BY <2>1, ProofMoves
<1>4. HoldInv'
  <2>1. \A q \in Slots : q # r /\ slot[q].at \in {"sign", "release"} =>
               /\ auth'[slot[q].auth] # None
               /\ auth'[slot[q].auth].signature = auth[slot[q].auth].signature
               /\ auth'[slot[q].auth].binding = auth[slot[q].auth].binding
               /\ auth'[slot[q].auth].status \in
                     (IF slot[q].at = "sign" THEN {"prepared", "signing_unknown"} ELSE {"issued", "consumed"})
    BY DEF ServiceInv, HoldInv, HoldOK
  <2> QED BY <2>1, HoldMoves
<1>5. ClaimInv'
  <2>1. \A a \in Authorizations : auth'[a] # None =>
            auth[a] # None /\ auth'[a].signature = auth[a].signature /\ auth'[a].instance = auth[a].instance
    OBVIOUS
  <2> QED BY <2>1, ClaimMoves
<1> QED BY <1>1, <1>2, <1>3, <1>4, <1>5 DEF ServiceInv

\* A challenge is put: the others, the authorizations and the drafts of other sessions stay.
LEMMA Puts ==
    ASSUME ServiceInv, NEW b \in Sessions, NEW s \in Signatures \cup {None}, NEW i \in Nat,
           NEW previous \in Challenges \cup {None}, PutChallenge(b, s, i, previous),
           UNCHANGED <<active, auth>>
    PROVE  /\ session' \in [Sessions -> SessionRecords]
           /\ \A d \in Sessions : session'[d].state = session[d].state /\ session'[d].account = session[d].account
           /\ challenge' \in [Challenges -> ChallengeRecords \cup {None}]
           /\ \A c \in Challenges : challenge[c] # None => challenge'[c] = challenge[c]
           /\ AuthInv' /\ DraftInv' /\ ChoiceInv'
<1> USE DEF ServiceInv
<1>1. PICK n \in Challenges, new \in ChallengeRecords :
        /\ FreeChallenge(n) /\ challenge' = [challenge EXCEPT ![n] = new]
        /\ session' = [session EXCEPT ![b].draft = None, ![b].selecting = IF s # None THEN n ELSE @]
        /\ new.session = b /\ new.signature = s
  <2>1. PICK n \in Challenges :
          /\ FreeChallenge(n)
          /\ challenge' = [challenge EXCEPT ![n] =
               [session |-> b, account |-> session[b].account, signature |-> s,
                instance |-> i, previous |-> previous, fresh |-> TRUE, status |-> "pending"]]
          /\ session' = [session EXCEPT ![b].draft = None, ![b].selecting = IF s # None THEN n ELSE @]
    BY DEF PutChallenge
  <2> DEFINE new == [session |-> b, account |-> session[b].account, signature |-> s,
                     instance |-> i, previous |-> previous, fresh |-> TRUE, status |-> "pending"]
  <2>2. new \in ChallengeRecords /\ new.session = b /\ new.signature = s
    BY DEF ChallengeRecords, ServiceTypeOK, SessionRecords
  <2> HIDE DEF new
  <2> QED BY <2>1, <2>2 DEF new
<1>2. /\ session' \in [Sessions -> SessionRecords]
      /\ session'[b].state = session[b].state /\ session'[b].account = session[b].account
      /\ session'[b].draft = None /\ session'[b].selecting = (IF s # None THEN n ELSE session[b].selecting)
      /\ \A d \in Sessions : d # b => session'[d] = session[d]
  <2>1. session \in [Sessions -> SessionRecords]
    BY DEF ServiceTypeOK
  <2>2. session[b] \in SessionRecords
    BY <2>1
  <2> DEFINE rec == [session[b] EXCEPT !.draft = None, !.selecting = IF s # None THEN n ELSE @]
  <2>3. /\ rec \in SessionRecords /\ rec.draft = None
        /\ rec.selecting = (IF s # None THEN n ELSE session[b].selecting)
        /\ rec.state = session[b].state /\ rec.account = session[b].account
    BY <2>2 DEF SessionRecords
  <2>4. session' = [session EXCEPT ![b] = rec]
    BY <1>1, <2>1, <2>2 DEF SessionRecords
  <2> HIDE DEF rec
  <2> QED BY <2>1, <2>3, <2>4
<1>3. /\ challenge' \in [Challenges -> ChallengeRecords \cup {None}]
      /\ challenge'[n] = new /\ new # None /\ challenge[n] = None
      /\ \A c \in Challenges : c # n => challenge'[c] = challenge[c]
      /\ \A c \in 1..(n - 1) : challenge[c] # None
  BY <1>1, ServiceAssumption DEF ServiceTypeOK, FreeChallenge
<1>4. AuthInv'
  <2> SUFFICES ASSUME NEW a \in Authorizations, auth[a] # None PROVE AuthOK(a)'
    BY DEF AuthInv, AuthOK
  <2>1. AuthOK(a) /\ auth[a].binding \in Challenges
    BY DEF AuthInv, ServiceTypeOK, AuthRecords
  <2> QED BY <1>3, <2>1 DEF AuthOK, ConsumedFor, Unresolved
<1>5. DraftInv'
  <2> SUFFICES ASSUME NEW d \in Sessions, d # b, session[d].draft # None PROVE DraftOK(d)'
    BY <1>2 DEF DraftInv, DraftOK
  <2>1. DraftOK(d) /\ session[d].draft.binding \in Challenges
    BY DEF DraftInv, ServiceTypeOK, SessionRecords, Drafts
  <2> QED BY <1>2, <1>3, <2>1 DEF DraftOK, ConsumedFor
<1>6. \A c \in Challenges : challenge[c] # None => c < n
  <2> SUFFICES ASSUME NEW c \in Challenges, challenge[c] # None, n < c PROVE FALSE
    BY <1>3, ServiceAssumption DEF Challenges
  <2>1. n \in 1..(c - 1)
    BY ServiceAssumption DEF Challenges
  <2> QED BY <1>3, <2>1 DEF ChoiceInv
<1>7. ChoiceInv'
  <2>1. ASSUME NEW c \in Challenges, challenge'[c] # None, NEW d \in 1..(c - 1) PROVE challenge'[d] # None
    <3>1. d \in Challenges
      BY ServiceAssumption DEF Challenges
    <3>2. CASE c = n
      BY <1>3, <3>1, <3>2
    <3>3. CASE c # n
      BY <1>3, <2>1, <3>1, <3>3 DEF ChoiceInv
    <3> QED BY <3>2, <3>3
  <2>2. ASSUME NEW d \in Sessions, NEW c \in Challenges, Chosen(d, c)'
        PROVE  /\ session'[d].selecting # None => c <= session'[d].selecting
               /\ session'[d].draft # None => c <= session'[d].draft.binding
    <3>1. CASE c = n
      <4>1. d = b /\ s # None
        BY <1>1, <1>3, <2>2, <3>1 DEF Chosen
      <4>2. n <= n
        BY ServiceAssumption DEF Challenges
      <4> QED BY <1>2, <3>1, <4>1, <4>2
    <3>2. CASE c # n
      <4>1. Chosen(d, c) /\ c < n
        BY <1>3, <1>6, <2>2, <3>2 DEF Chosen
      <4>2. c <= n
        BY <4>1, ServiceAssumption DEF Challenges
      <4>3. /\ session[d].selecting # None => c <= session[d].selecting
            /\ session[d].draft # None => c <= session[d].draft.binding
        BY <4>1 DEF ChoiceInv
      <4> QED BY <1>2, <4>2, <4>3
    <3> QED BY <3>1, <3>2
  <2> QED BY <2>1, <2>2 DEF ChoiceInv
<1> QED BY <1>2, <1>3, <1>4, <1>5, <1>7

LEMMA RequestsBegin ==
    ASSUME ServiceInv, NEW r \in Slots, NEW b \in Sessions, NEW s \in Signatures,
           ChooseRecipient(r, b, s) \/ BeginIssue(r, b, s)
    PROVE  ServiceInv'
<1>1. PICK new \in Targets \cup Issues : slot' = [slot EXCEPT ![r] = new]
  <2>1. CASE ChooseRecipient(r, b, s)
    <3> DEFINE new == [at |-> "target", session |-> b, account |-> session[b].account,
                       signature |-> s, instance |-> claim[s], seen |-> claim[s],
                       previous |-> active[session[b].account]]
    <3>1. slot' = [slot EXCEPT ![r] = new] /\ claim[s] # 0 /\ session[b].account \in Accounts
      BY <2>1 DEF ChooseRecipient, ServiceInv, ServiceTypeOK, SessionRecords
    <3>2. new \in Targets
      BY <3>1 DEF Targets, ServiceInv, ServiceTypeOK
    <3> QED BY <3>1, <3>2
  <2>2. CASE BeginIssue(r, b, s)
    <3> DEFINE new == [at |-> "issue", session |-> b, signature |-> s, instance |-> claim[s],
                       reviewed |-> active[session[b].account]]
    <3>1. slot' = [slot EXCEPT ![r] = new] /\ claim[s] # 0
          /\ active[session[b].account] # None /\ session[b].account \in Accounts
      BY <2>2 DEF BeginIssue, ServiceInv, ServiceTypeOK
    <3>2. new \in Issues
      BY <3>1 DEF Issues, ServiceInv, ServiceTypeOK
    <3> QED BY <3>1, <3>2
  <2> QED BY <2>1, <2>2
<1>2. /\ UNCHANGED <<claim, claims, session, challenge, active, metadata, auth, projection, gallery,
                     suppressed, lock, released>>
      /\ slot[r].at # "forget"
  BY DEF ChooseRecipient, BeginIssue, Idle
<1>3. new \in Requests /\ new.at \in {"target", "issue"} /\ slot'[r] = new
  BY <1>1 DEF Requests, Targets, Issues, ServiceInv, ServiceTypeOK
<1>4. HoldOK(r)' /\ ProofOK(r)' /\ ReleasedInv'
  BY <1>2, <1>3 DEF HoldOK, ProofOK, Proving, ServiceInv, ReleasedInv
<1>5. metadata' \in [Signatures -> Nat] /\ lock' \in [Signatures -> Slots \cup {None}]
  BY <1>2 DEF ServiceInv, ServiceTypeOK
<1> QED BY <1>1, <1>2, <1>3, <1>4, <1>5, RequestMoves

LEMMA Creates ==
    ASSUME ServiceInv, NEW r \in Slots, CreateChallenge(r)
    PROVE  ServiceInv'
<1>1. /\ slot[r].at = "target" /\ slot[r] \in Targets /\ slot' = [slot EXCEPT ![r] = Idle]
      /\ UNCHANGED <<claim, claims, active, metadata, auth, projection, gallery, suppressed, lock, released>>
  BY RequestKinds DEF CreateChallenge, End, ServiceInv
<1>2. /\ session' \in [Sessions -> SessionRecords]
      /\ \A d \in Sessions : session'[d].state = session[d].state /\ session'[d].account = session[d].account
      /\ challenge' \in [Challenges -> ChallengeRecords \cup {None}]
      /\ \A c \in Challenges : challenge[c] # None => challenge'[c] = challenge[c]
      /\ AuthInv' /\ DraftInv' /\ ChoiceInv'
  <2>1. CASE PutChallenge(slot[r].session, slot[r].signature, slot[r].instance, slot[r].previous)
    <3>1. /\ slot[r].session \in Sessions /\ slot[r].signature \in Signatures /\ slot[r].instance \in Nat
          /\ slot[r].previous \in Challenges \cup {None}
      BY <1>1 DEF Targets
    <3> QED BY <1>1, <2>1, <3>1, Puts
  <2>2. CASE UNCHANGED <<challenge, session>>
    BY <1>1, <2>2 DEF ServiceInv, ServiceTypeOK, AuthInv, AuthOK, ConsumedFor, Unresolved, DraftInv, DraftOK,
                      ChoiceInv, Chosen
  <2> QED BY <2>1, <2>2 DEF CreateChallenge
<1>3. slot'[r] = Idle /\ Idle \in Requests
  BY <1>1 DEF ServiceInv, ServiceTypeOK, Requests
<1>4. ServiceTypeOK'
  BY <1>1, <1>2, <1>3 DEF ServiceInv, ServiceTypeOK
<1>5. ProofInv'
  <2>1. ProofOK(r)'
    BY <1>3 DEF ProofOK, Proving, Idle
  <2>2. \A q \in Slots : q # r /\ Proving(q) =>
               /\ challenge'[slot[q].challenge] # None
               /\ challenge'[slot[q].challenge].status = "processing"
               /\ challenge'[slot[q].challenge].session = challenge[slot[q].challenge].session
    BY <1>2, RequestKinds DEF ServiceInv, ProofInv, ProofOK, Proving, Proofs
  <2> QED BY <1>1, <1>3, <2>1, <2>2, ProofMoves
<1>6. HoldInv'
  <2>1. HoldOK(r)'
    BY <1>3 DEF HoldOK, Idle
  <2>2. \A q \in Slots : q # r /\ slot[q].at \in {"sign", "release"} =>
               /\ auth'[slot[q].auth] # None
               /\ auth'[slot[q].auth].signature = auth[slot[q].auth].signature
               /\ auth'[slot[q].auth].binding = auth[slot[q].auth].binding
               /\ auth'[slot[q].auth].status \in
                     (IF slot[q].at = "sign" THEN {"prepared", "signing_unknown"} ELSE {"issued", "consumed"})
    BY <1>1 DEF ServiceInv, HoldInv, HoldOK
  <2> QED BY <1>1, <1>3, <2>1, <2>2, HoldMoves
<1>7. ClaimInv'
  BY <1>1, <1>3, ClaimMoves
<1>8. ProjectionInv' /\ ReleasedInv'
  BY <1>1 DEF ServiceInv, ProjectionInv, ProjectionOK, ReleasedInv
<1> QED BY <1>2, <1>4, <1>5, <1>6, <1>7, <1>8 DEF ServiceInv

LEMMA Links ==
    ASSUME ServiceInv, NEW b \in Sessions, LinkWallet(b)
    PROVE  ServiceInv'
<1>1. /\ session[b].state = "open" /\ PutChallenge(b, None, 0, active[session[b].account])
      /\ UNCHANGED <<claim, claims, active, metadata, auth, projection, gallery, suppressed, lock, slot, released>>
  BY DEF LinkWallet
<1>2. active[session[b].account] \in Challenges \cup {None} /\ 0 \in Nat
  BY <1>1 DEF ServiceInv, ServiceTypeOK
<1>3. /\ session' \in [Sessions -> SessionRecords]
      /\ \A d \in Sessions : session'[d].state = session[d].state /\ session'[d].account = session[d].account
      /\ challenge' \in [Challenges -> ChallengeRecords \cup {None}]
      /\ \A c \in Challenges : challenge[c] # None => challenge'[c] = challenge[c]
      /\ AuthInv' /\ DraftInv' /\ ChoiceInv'
  BY <1>1, <1>2, Puts
<1>4. ServiceTypeOK'
  BY <1>1, <1>3 DEF ServiceInv, ServiceTypeOK
<1>5. ProofInv'
  <2> SUFFICES ASSUME NEW q \in Slots, Proving(q) PROVE ProofOK(q)'
    BY <1>1 DEF ProofInv, ProofOK, Proving
  <2>1. ProofOK(q) /\ slot[q].challenge \in Challenges
    BY RequestKinds DEF ServiceInv, ProofInv, Proving, Proofs
  <2> QED BY <1>1, <1>3, <2>1 DEF ProofOK, Proving
<1>6. HoldInv' /\ ClaimInv' /\ ProjectionInv' /\ ReleasedInv'
  BY <1>1 DEF ServiceInv, HoldInv, HoldOK, ClaimInv, ClaimOK, ProjectionInv, ProjectionOK, ReleasedInv
<1> QED BY <1>3, <1>4, <1>5, <1>6 DEF ServiceInv

\* A challenge moves on, never from "consumed"; at most its selection ends with it.
LEMMA ChallengeMoves ==
    ASSUME ServiceInv, NEW c \in Challenges, challenge[c] # None, NEW new \in ChallengeRecords,
           challenge' = [challenge EXCEPT ![c] = new],
           new.session = challenge[c].session, new.signature = challenge[c].signature,
           new.instance = challenge[c].instance, challenge[c].status = "consumed" => new.status = "consumed",
           \A b \in Sessions : /\ session'[b].draft = session[b].draft
                               /\ session'[b].selecting \in {None, session[b].selecting},
           UNCHANGED <<active, auth>>
    PROVE  /\ challenge' \in [Challenges -> ChallengeRecords \cup {None}]
           /\ challenge'[c] = new /\ \A d \in Challenges : d # c => challenge'[d] = challenge[d]
           /\ AuthInv' /\ DraftInv' /\ ChoiceInv'
<1> USE DEF ServiceInv
<1>1. /\ challenge' \in [Challenges -> ChallengeRecords \cup {None}] /\ new # None
      /\ challenge'[c] = new /\ \A d \in Challenges : d # c => challenge'[d] = challenge[d]
  BY ServiceAssumption DEF ServiceTypeOK
<1>2. \A w \in Challenges : /\ challenge'[w] = None <=> challenge[w] = None
                            /\ challenge'[w].session = challenge[w].session
                            /\ challenge'[w].signature = challenge[w].signature
                            /\ challenge'[w].instance = challenge[w].instance
                            /\ challenge[w].status = "consumed" => challenge'[w].status = "consumed"
  BY <1>1
<1>3. AuthInv'
  <2> SUFFICES ASSUME NEW a \in Authorizations, auth[a] # None PROVE AuthOK(a)'
    BY DEF AuthInv, AuthOK
  <2>1. AuthOK(a) /\ auth[a].binding \in Challenges
    BY DEF AuthInv, ServiceTypeOK, AuthRecords
  <2> QED BY <1>2, <2>1 DEF AuthOK, ConsumedFor, Unresolved
<1>4. DraftInv'
  <2> SUFFICES ASSUME NEW d \in Sessions, session[d].draft # None PROVE DraftOK(d)'
    BY DEF DraftInv, DraftOK
  <2>1. DraftOK(d) /\ session[d].draft.binding \in Challenges
    BY DEF DraftInv, ServiceTypeOK, SessionRecords, Drafts
  <2> QED BY <1>2, <2>1 DEF DraftOK, ConsumedFor
<1>5. ChoiceInv'
  <2>1. ASSUME NEW w \in Challenges, challenge'[w] # None, NEW d \in 1..(w - 1) PROVE challenge'[d] # None
    <3>1. d \in Challenges
      BY ServiceAssumption DEF Challenges
    <3>2. challenge[d] # None
      BY <1>2, <2>1 DEF ChoiceInv
    <3> QED BY <1>2, <3>1, <3>2
  <2>2. \A b \in Sessions, w \in Challenges : Chosen(b, w)' <=> Chosen(b, w)
    BY <1>2 DEF Chosen
  <2>3. ASSUME NEW b \in Sessions, NEW w \in Challenges, Chosen(b, w)
        PROVE  /\ session'[b].selecting # None => w <= session'[b].selecting
               /\ session'[b].draft # None => w <= session'[b].draft.binding
    BY <2>3 DEF ChoiceInv
  <2> QED BY <2>1, <2>2, <2>3 DEF ChoiceInv
<1> QED BY <1>1, <1>3, <1>4, <1>5

LEMMA ConfirmsBegin ==
    ASSUME ServiceInv, NEW r \in Slots, NEW b \in Sessions, NEW c \in Challenges, BeginConfirm(r, b, c)
    PROVE  ServiceInv'
<1> DEFINE new == [challenge[c] EXCEPT !.status = "processing"]
           req == [at |-> "confirm", session |-> b, challenge |-> c]
<1>1. /\ slot[r].at = "idle" /\ challenge[c] # None /\ challenge[c].status = "pending" /\ challenge[c].session = b
      /\ slot' = [slot EXCEPT ![r] = req]
      /\ UNCHANGED <<claim, claims, session, active, metadata, auth, projection, gallery, suppressed, lock, released>>
  BY DEF BeginConfirm, Idle
<1>2. challenge[c] \in ChallengeRecords
  BY <1>1 DEF ServiceInv, ServiceTypeOK
<1>3. /\ new \in ChallengeRecords /\ new.session = b /\ new.signature = challenge[c].signature
      /\ new.instance = challenge[c].instance /\ new.status = "processing"
      /\ challenge' = [challenge EXCEPT ![c] = new]
  BY <1>1, <1>2 DEF BeginConfirm, ChallengeRecords, ServiceInv, ServiceTypeOK
<1>4. req \in Requests /\ req.at = "confirm" /\ req.challenge = c /\ req.session = b
  BY DEF Requests, Proofs
<1> HIDE DEF new, req
<1>5. /\ challenge' \in [Challenges -> ChallengeRecords \cup {None}]
      /\ challenge'[c] = new /\ \A d \in Challenges : d # c => challenge'[d] = challenge[d]
      /\ AuthInv' /\ DraftInv' /\ ChoiceInv'
  BY <1>1, <1>3, ChallengeMoves
<1>6. slot'[r] = req /\ \A q \in Slots : q # r => slot'[q] = slot[q]
  BY <1>1 DEF ServiceInv, ServiceTypeOK
<1>7. \A q \in Slots : Proving(q) => /\ slot[q].challenge \in Challenges /\ slot[q].challenge # c
                                     /\ challenge[slot[q].challenge] # None
                                     /\ challenge[slot[q].challenge].status = "processing"
  BY <1>1, RequestKinds DEF ServiceInv, ProofInv, ProofOK, Proving, Proofs
<1>8. ServiceTypeOK'
  BY <1>1, <1>4, <1>5 DEF ServiceInv, ServiceTypeOK
<1>9. ProofInv'
  <2>1. ProofOK(r)'
    <3>1. challenge'[c] # None
      BY <1>3, <1>5, ServiceAssumption
    <3>2. \A q \in Slots : q # r /\ Proving(q)' => slot'[q].challenge # c
      BY <1>6, <1>7 DEF Proving
    <3> QED BY <1>3, <1>4, <1>5, <1>6, <3>1, <3>2 DEF ProofOK
  <2>2. \A q \in Slots : q # r /\ Proving(q) =>
               /\ challenge'[slot[q].challenge] # None
               /\ challenge'[slot[q].challenge].status = "processing"
               /\ challenge'[slot[q].challenge].session = challenge[slot[q].challenge].session
    BY <1>5, <1>7
  <2> QED BY <1>1, <1>4, <2>1, <2>2, ProofMoves
<1>10. HoldInv'
  <2>1. HoldOK(r)'
    BY <1>4, <1>6 DEF HoldOK
  <2>2. \A q \in Slots : q # r /\ slot[q].at \in {"sign", "release"} =>
               /\ auth'[slot[q].auth] # None
               /\ auth'[slot[q].auth].signature = auth[slot[q].auth].signature
               /\ auth'[slot[q].auth].binding = auth[slot[q].auth].binding
               /\ auth'[slot[q].auth].status \in
                     (IF slot[q].at = "sign" THEN {"prepared", "signing_unknown"} ELSE {"issued", "consumed"})
    BY <1>1 DEF ServiceInv, HoldInv, HoldOK
  <2> QED BY <1>1, <1>4, <2>1, <2>2, HoldMoves
<1>11. ClaimInv'
  BY <1>1, <1>4, ClaimMoves
<1>12. ProjectionInv' /\ ReleasedInv'
  BY <1>1 DEF ServiceInv, ProjectionInv, ProjectionOK, ReleasedInv
<1> QED BY <1>5, <1>8, <1>9, <1>10, <1>11, <1>12 DEF ServiceInv

LEMMA Fails ==
    ASSUME ServiceInv, NEW r \in Slots, Proving(r), FailChallenge(r)
    PROVE  ServiceInv'
<1>1. PICK c \in Challenges : /\ c = slot[r].challenge /\ challenge[c] # None
                              /\ challenge[c].status = "processing" /\ slot[r].session \in Sessions
                              /\ slot[r].at # "forget"
  BY RequestKinds DEF ServiceInv, ProofInv, ProofOK, Proving, Proofs
<1> DEFINE new == [challenge[c] EXCEPT !.status = "failed"]
<1>2. challenge[c] \in ChallengeRecords
  BY <1>1 DEF ServiceInv, ServiceTypeOK
<1>3. /\ new \in ChallengeRecords /\ new.session = challenge[c].session
      /\ new.signature = challenge[c].signature /\ new.instance = challenge[c].instance
      /\ challenge' = [challenge EXCEPT ![c] = new]
  BY <1>1, <1>2 DEF FailChallenge, ChallengeRecords, ServiceInv, ServiceTypeOK
<1> HIDE DEF new
<1>4. /\ slot' = [slot EXCEPT ![r] = Idle] /\ Idle \in Requests
      /\ UNCHANGED <<claim, claims, active, metadata, auth, projection, gallery, suppressed, released>>
  BY DEF FailChallenge, End, Requests
<1>5. /\ lock' \in [Signatures -> Slots \cup {None}]
      /\ \A s \in Signatures : lock'[s] = lock[s] \/ lock[s] \in {None, r}
  <2>1. lock \in [Signatures -> Slots \cup {None}]
    BY DEF ServiceInv, ServiceTypeOK
  <2> QED BY <1>1, <2>1 DEF FailChallenge, Release
<1>6. /\ session' \in [Sessions -> SessionRecords]
      /\ \A b \in Sessions : /\ session'[b].draft = session[b].draft
                             /\ session'[b].selecting \in {None, session[b].selecting}
                             /\ session'[b].state = session[b].state /\ session'[b].account = session[b].account
  <2>1. session \in [Sessions -> SessionRecords]
    BY DEF ServiceInv, ServiceTypeOK
  <2>2. session' = [session EXCEPT ![slot[r].session].selecting = IF @ = c THEN None ELSE @]
    BY <1>1 DEF FailChallenge
  <2> QED BY <1>1, <2>1, <2>2 DEF SessionRecords
<1>7. /\ challenge' \in [Challenges -> ChallengeRecords \cup {None}]
      /\ challenge'[c] = new /\ \A d \in Challenges : d # c => challenge'[d] = challenge[d]
      /\ AuthInv' /\ DraftInv' /\ ChoiceInv'
  BY <1>1, <1>3, <1>4, <1>6, ChallengeMoves
<1>8. slot'[r] = Idle
  BY <1>4 DEF ServiceInv, ServiceTypeOK
<1>9. ServiceTypeOK'
  BY <1>4, <1>5, <1>6, <1>7 DEF ServiceInv, ServiceTypeOK
<1>10. ProofInv'
  <2>1. ProofOK(r)'
    BY <1>8 DEF ProofOK, Proving, Idle
  <2>2. \A q \in Slots : q # r /\ Proving(q) =>
               /\ challenge'[slot[q].challenge] # None
               /\ challenge'[slot[q].challenge].status = "processing"
               /\ challenge'[slot[q].challenge].session = challenge[slot[q].challenge].session
    BY <1>1, <1>7, RequestKinds DEF ServiceInv, ProofInv, ProofOK, Proving, Proofs
  <2> QED BY <1>4, <2>1, <2>2, ProofMoves
<1>11. HoldInv'
  <2>1. HoldOK(r)'
    BY <1>8 DEF HoldOK, Idle
  <2>2. \A q \in Slots : q # r /\ slot[q].at \in {"sign", "release"} =>
               /\ auth'[slot[q].auth] # None
               /\ auth'[slot[q].auth].signature = auth[slot[q].auth].signature
               /\ auth'[slot[q].auth].binding = auth[slot[q].auth].binding
               /\ auth'[slot[q].auth].status \in
                     (IF slot[q].at = "sign" THEN {"prepared", "signing_unknown"} ELSE {"issued", "consumed"})
    BY <1>4 DEF ServiceInv, HoldInv, HoldOK
  <2> QED BY <1>4, <1>5, <2>1, <2>2, HoldMoves
<1>12. ClaimInv'
  BY <1>1, <1>4, <1>5, ClaimMoves
<1>13. ProjectionInv' /\ ReleasedInv'
  BY <1>4 DEF ServiceInv, ProjectionInv, ProjectionOK, ReleasedInv
<1> QED BY <1>7, <1>9, <1>10, <1>11, <1>12, <1>13 DEF ServiceInv

LEMMA Verifies ==
    ASSUME ServiceInv, NEW r \in Slots, VerifyProof(r) \/ RejectProof(r)
    PROVE  ServiceInv'
<1> DEFINE s == challenge[slot[r].challenge].signature
           req == [at |-> "verify", session |-> slot[r].session, challenge |-> slot[r].challenge,
                   seen |-> IF s = None THEN 0 ELSE claim[s]]
<1>1. Proving(r)
  BY DEF VerifyProof, RejectProof, Proving
<1>2. CASE FailChallenge(r)
  BY <1>1, <1>2, Fails
<1>3. CASE ~FailChallenge(r)
  <2>1. /\ slot[r].at = "confirm" /\ (s # None => lock[s] = None)
        /\ lock' = IF s = None THEN lock ELSE [lock EXCEPT ![s] = r]
        /\ slot' = [slot EXCEPT ![r] = req]
        /\ UNCHANGED <<claim, claims, session, challenge, active, metadata, auth, projection, gallery,
                       suppressed, released>>
    BY <1>3 DEF VerifyProof, RejectProof
  <2>2. slot[r] \in Proofs /\ slot[r].challenge \in Challenges /\ slot[r].session \in Sessions /\ ProofOK(r)
    BY <1>1, RequestKinds DEF Proving, Proofs, ServiceInv, ProofInv
  <2>3. s \in Signatures \cup {None}
    BY <1>1, <2>2 DEF ProofOK, ServiceInv, ServiceTypeOK, ChallengeRecords
  <2>4. /\ lock' \in [Signatures -> Slots \cup {None}]
        /\ \A x \in Signatures : lock'[x] = lock[x] \/ lock[x] \in {None, r}
    BY <2>1, <2>3 DEF ServiceInv, ServiceTypeOK
  <2>5. /\ req \in Requests /\ req.at = "verify" /\ req.challenge = slot[r].challenge
        /\ req.session = slot[r].session
    BY <2>2, <2>3 DEF Requests, Proofs, ServiceInv, ServiceTypeOK
  <2> HIDE DEF req, s
  <2>6. slot'[r] = req /\ \A q \in Slots : q # r => slot'[q] = slot[q]
    BY <2>1 DEF ServiceInv, ServiceTypeOK
  <2>7. HoldOK(r)' /\ ReleasedInv'
    BY <2>1, <2>5, <2>6 DEF HoldOK, ServiceInv, ReleasedInv
  <2>8. ProofOK(r)'
    BY <1>1, <2>1, <2>2, <2>5, <2>6 DEF ProofOK, Proving
  <2>9. metadata' \in [Signatures -> Nat]
    BY <2>1 DEF ServiceInv, ServiceTypeOK
  <2> QED BY <2>1, <2>4, <2>5, <2>7, <2>8, <2>9, RequestMoves
<1> QED BY <1>2, <1>3

LEMMA Activates ==
    ASSUME ServiceInv, NEW r \in Slots, ActivateBinding(r)
    PROVE  ServiceInv'
<1>1. PICK w \in Challenges, b \in Sessions, c \in ChallengeRecords :
        /\ w = slot[r].challenge /\ b = slot[r].session /\ c = challenge[w] /\ c # None
        /\ c.status = "processing" /\ c.session = b /\ slot[r].at = "verify" /\ Proving(r)
  BY RequestKinds DEF ActivateBinding, ServiceInv, ServiceTypeOK, ProofInv, ProofOK, Proving, Proofs
<1> DEFINE new == [c EXCEPT !.status = "consumed"]
           draft == [signature |-> c.signature, instance |-> c.instance, binding |-> w, auth |-> None,
                     fresh |-> TRUE]
           rec == [session[b] EXCEPT !.selecting = None, !.draft = draft]
<1>2. /\ new \in ChallengeRecords /\ new # None /\ new.session = b /\ new.signature = c.signature
      /\ new.instance = c.instance /\ new.status = "consumed"
      /\ c.signature # None => draft \in Drafts
      /\ draft.signature = c.signature /\ draft.instance = c.instance /\ draft.binding = w /\ draft.auth = None
  BY <1>1, ServiceAssumption DEF ChallengeRecords, Drafts
<1>3. /\ challenge' = [challenge EXCEPT ![w] = new]
      /\ active' = [active EXCEPT ![c.account] = w] /\ slot' = [slot EXCEPT ![r] = Idle]
      /\ ~HasUnresolvedBinding(c.account)
      /\ c.signature # None => session[b].selecting = w
      /\ lock' = IF c.signature = None THEN lock ELSE Release(r, c.signature)
      /\ UNCHANGED <<claim, claims, metadata, auth, projection, gallery, suppressed, released>>
  BY <1>1 DEF ActivateBinding, Confirmed, End, ServiceInv, ServiceTypeOK, ChallengeRecords
<1>4. /\ c.signature = None => session' = session
      /\ c.signature # None => session' = [session EXCEPT ![b] = rec]
  BY <1>1 DEF ActivateBinding, ServiceInv, ServiceTypeOK, SessionRecords
<1>5. /\ c.signature # None => rec \in SessionRecords
      /\ rec.selecting = None /\ rec.draft = draft
      /\ rec.state = session[b].state /\ rec.account = session[b].account
  <2>1. session[b] \in SessionRecords
    BY DEF ServiceInv, ServiceTypeOK
  <2> HIDE DEF draft
  <2> QED BY <1>2, <2>1 DEF SessionRecords
<1> HIDE DEF new, rec
<1>6. /\ session' \in [Sessions -> SessionRecords]
      /\ \A d \in Sessions : /\ session'[d].state = session[d].state /\ session'[d].account = session[d].account
                             /\ session'[d] = session[d] \/ (d = b /\ c.signature # None /\ session'[d] = rec)
  BY <1>4, <1>5 DEF ServiceInv, ServiceTypeOK
<1>7. /\ challenge' \in [Challenges -> ChallengeRecords \cup {None}]
      /\ challenge'[w] = new /\ \A d \in Challenges : d # w => challenge'[d] = challenge[d]
      /\ \A d \in Challenges : challenge'[d] = None <=> challenge[d] = None
  BY <1>1, <1>2, <1>3 DEF ServiceInv, ServiceTypeOK
<1>8. /\ active' \in [Accounts -> Challenges \cup {None}]
      /\ \A x \in Accounts : x # c.account => active'[x] = active[x]
  BY <1>3 DEF ServiceInv, ServiceTypeOK
<1>9. \A a \in Authorizations : auth[a] # None =>
          /\ auth[a].binding \in Challenges /\ auth[a].binding # w
          /\ Claimant[auth[a].signature] \in Accounts
          /\ Unresolved(a) => Claimant[auth[a].signature] # c.account
  <2> SUFFICES ASSUME NEW a \in Authorizations, auth[a] # None
               PROVE  /\ auth[a].binding \in Challenges /\ auth[a].binding # w
                      /\ Claimant[auth[a].signature] \in Accounts
                      /\ Unresolved(a) => Claimant[auth[a].signature] # c.account
    OBVIOUS
  <2>1. auth[a].binding \in Challenges /\ auth[a].signature \in Signatures /\ AuthOK(a)
    BY DEF ServiceInv, ServiceTypeOK, AuthRecords, AuthInv
  <2> QED BY <1>1, <1>3, <2>1, ClaimantAssumption DEF AuthOK, ConsumedFor, HasUnresolvedBinding
<1>10. AuthInv'
  <2> SUFFICES ASSUME NEW a \in Authorizations, auth[a] # None PROVE AuthOK(a)'
    BY <1>3 DEF AuthInv, AuthOK
  <2>1. AuthOK(a)
    BY DEF ServiceInv, AuthInv
  <2> QED BY <1>3, <1>7, <1>8, <1>9, <2>1 DEF AuthOK, ConsumedFor, Unresolved
<1>11. DraftInv'
  <2> SUFFICES ASSUME NEW d \in Sessions, session'[d].draft # None PROVE DraftOK(d)'
    BY DEF DraftInv, DraftOK
  <2>1. CASE session'[d] = session[d]
    <3>1. DraftOK(d) /\ session[d].draft.binding \in Challenges
      BY <2>1 DEF ServiceInv, DraftInv, ServiceTypeOK, SessionRecords, Drafts
    <3>2. session[d].draft.binding # w
      BY <1>1, <2>1, <3>1 DEF DraftOK, ConsumedFor
    <3> QED BY <1>3, <1>7, <2>1, <3>1, <3>2 DEF DraftOK, ConsumedFor
  <2>2. CASE d = b /\ c.signature # None /\ session'[d] = rec
    BY <1>2, <1>3, <1>5, <1>7, <1>9, <2>2 DEF DraftOK, ConsumedFor
  <2> QED BY <1>6, <2>1, <2>2
<1>12. ChoiceInv'
  <2>1. ASSUME NEW x \in Challenges, challenge'[x] # None, NEW d \in 1..(x - 1) PROVE challenge'[d] # None
    <3>1. d \in Challenges
      BY ServiceAssumption DEF Challenges
    <3>2. challenge[d] # None
      BY <1>7, <2>1 DEF ServiceInv, ChoiceInv
    <3> QED BY <1>7, <3>1, <3>2
  <2>2. \A d \in Sessions, x \in Challenges : Chosen(d, x)' <=> Chosen(d, x)
    BY <1>1, <1>2, <1>7 DEF Chosen
  <2>3. ASSUME NEW d \in Sessions, NEW x \in Challenges, Chosen(d, x)
        PROVE  /\ session'[d].selecting # None => x <= session'[d].selecting
               /\ session'[d].draft # None => x <= session'[d].draft.binding
    <3>1. /\ session[d].selecting # None => x <= session[d].selecting
          /\ session[d].draft # None => x <= session[d].draft.binding
      BY <2>3 DEF ServiceInv, ChoiceInv
    <3>2. CASE session'[d] = session[d]
      BY <3>1, <3>2
    <3>3. CASE d = b /\ c.signature # None /\ session'[d] = rec
      <4>1. w # None /\ x <= w
        BY <1>3, <3>1, <3>3, ServiceAssumption
      <4> QED BY <1>2, <1>5, <3>3, <4>1
    <3> QED BY <1>6, <3>2, <3>3
  <2> QED BY <2>1, <2>2, <2>3 DEF ChoiceInv
<1>13. /\ lock' \in [Signatures -> Slots \cup {None}]
       /\ \A s \in Signatures : lock'[s] = lock[s] \/ lock[s] \in {None, r}
  BY <1>3 DEF Release, ServiceInv, ServiceTypeOK
<1>14. slot'[r] = Idle /\ Idle \in Requests
  BY <1>3 DEF ServiceInv, ServiceTypeOK, Requests
<1>15. ServiceTypeOK'
  BY <1>3, <1>6, <1>7, <1>8, <1>13, <1>14 DEF ServiceInv, ServiceTypeOK
<1>16. ProofInv'
  <2>1. ProofOK(r)'
    BY <1>14 DEF ProofOK, Proving, Idle
  <2>2. \A q \in Slots : q # r /\ Proving(q) =>
               /\ challenge'[slot[q].challenge] # None
               /\ challenge'[slot[q].challenge].status = "processing"
               /\ challenge'[slot[q].challenge].session = challenge[slot[q].challenge].session
    BY <1>1, <1>7, RequestKinds DEF ServiceInv, ProofInv, ProofOK, Proving, Proofs
  <2> QED BY <1>3, <1>14, <2>1, <2>2, ProofMoves
<1>17. HoldInv'
  <2>1. HoldOK(r)'
    BY <1>14 DEF HoldOK, Idle
  <2>2. \A q \in Slots : q # r /\ slot[q].at \in {"sign", "release"} =>
               /\ auth'[slot[q].auth] # None
               /\ auth'[slot[q].auth].signature = auth[slot[q].auth].signature
               /\ auth'[slot[q].auth].binding = auth[slot[q].auth].binding
               /\ auth'[slot[q].auth].status \in
                     (IF slot[q].at = "sign" THEN {"prepared", "signing_unknown"} ELSE {"issued", "consumed"})
    BY <1>3 DEF ServiceInv, HoldInv, HoldOK
  <2> QED BY <1>3, <1>13, <1>14, <2>1, <2>2, HoldMoves
<1>18. ClaimInv'
  BY <1>1, <1>3, <1>13, <1>14, ClaimMoves
<1>19. ProjectionInv' /\ ReleasedInv'
  BY <1>3 DEF ServiceInv, ProjectionInv, ProjectionOK, ReleasedInv
<1> QED BY <1>10, <1>11, <1>12, <1>15, <1>16, <1>17, <1>18, <1>19 DEF ServiceInv

LEMMA Revokes ==
    ASSUME ServiceInv, NEW x \in Accounts, RevokeBinding(x)
    PROVE  ServiceInv'
<1>1. /\ active' = [active EXCEPT ![x] = None] /\ ~HasUnresolvedBinding(x)
      /\ UNCHANGED <<claim, claims, session, challenge, metadata, auth, projection, gallery, suppressed, lock,
                     slot, released>>
  BY DEF RevokeBinding
<1>2. active' \in [Accounts -> Challenges \cup {None}] /\ \A y \in Accounts : y # x => active'[y] = active[y]
  BY <1>1 DEF ServiceInv, ServiceTypeOK
<1>3. AuthInv'
  <2> SUFFICES ASSUME NEW a \in Authorizations, auth[a] # None PROVE AuthOK(a)'
    BY <1>1 DEF AuthInv, AuthOK
  <2>1. AuthOK(a) /\ Claimant[auth[a].signature] \in Accounts
    BY ClaimantAssumption DEF ServiceInv, ServiceTypeOK, AuthRecords, AuthInv
  <2>2. Unresolved(a) => Claimant[auth[a].signature] # x
    BY <1>1, <2>1 DEF AuthOK, HasUnresolvedBinding, Unresolved
  <2> QED BY <1>1, <1>2, <2>1, <2>2 DEF AuthOK, ConsumedFor, Unresolved
<1>4. ServiceTypeOK'
  BY <1>1, <1>2 DEF ServiceInv, ServiceTypeOK
<1>5. DraftInv' /\ ChoiceInv' /\ ProofInv' /\ HoldInv'
  BY <1>1 DEF ServiceInv, DraftInv, DraftOK, ConsumedFor, ChoiceInv, Chosen, ProofInv, ProofOK, Proving,
              HoldInv, HoldOK
<1>6. ProjectionInv' /\ ClaimInv' /\ ReleasedInv'
  BY <1>1 DEF ServiceInv, ProjectionInv, ProjectionOK, ClaimInv, ClaimOK, ReleasedInv
<1> QED BY <1>3, <1>4, <1>5, <1>6 DEF ServiceInv

LEMMA Releases ==
    ASSUME ServiceInv, NEW r \in Slots, NEW s \in Signatures, lock' \in {lock, Release(r, s)}
    PROVE  /\ lock' \in [Signatures -> Slots \cup {None}]
           /\ \A x \in Signatures : lock'[x] = lock[x] \/ lock[x] \in {None, r}
<1>1. lock \in [Signatures -> Slots \cup {None}]
  BY DEF ServiceInv, ServiceTypeOK
<1> QED BY <1>1 DEF Release

LEMMA Refuses ==
    ASSUME ServiceInv, NEW r \in Slots, slot[r].at \in {"issue", "metadata", "reserve", "release"}, Refuse(r)
    PROVE  ServiceInv'
<1>1. slot[r].signature \in Signatures
  BY RequestKinds DEF ServiceInv, Issues, Renders, Holds
<1>2. /\ slot' = [slot EXCEPT ![r] = Idle] /\ Idle \in Requests /\ lock' = Release(r, slot[r].signature)
      /\ UNCHANGED <<claim, claims, session, challenge, active, metadata, auth, projection, gallery,
                     suppressed, released>>
  BY DEF Refuse, End, Requests
<1>3. /\ lock' \in [Signatures -> Slots \cup {None}]
      /\ \A x \in Signatures : lock'[x] = lock[x] \/ lock[x] \in {None, r}
  BY <1>1, <1>2, Releases
<1>4. slot'[r] = Idle /\ metadata' \in [Signatures -> Nat]
  BY <1>2 DEF ServiceInv, ServiceTypeOK
<1>5. HoldOK(r)' /\ ProofOK(r)' /\ ReleasedInv'
  BY <1>2, <1>4 DEF HoldOK, ProofOK, Proving, Idle, ServiceInv, ReleasedInv
<1> QED BY <1>2, <1>3, <1>4, <1>5, RequestMoves

\* What the search for a live authorization finds.
LEMMA Found ==
    ASSUME NEW s, NEW w
    PROVE  /\ TheLive(s, w) \in Authorizations \cup {None}
           /\ TheLive(s, w) # None => /\ Unresolved(TheLive(s, w)) /\ TheLive(s, w) \in Authorizations
                                      /\ auth[TheLive(s, w)].signature = s /\ auth[TheLive(s, w)].binding = w
<1>1. CASE LiveAuthorizations(s, w) = {}
  BY <1>1 DEF TheLive
<1>2. CASE LiveAuthorizations(s, w) # {}
  <2>1. TheLive(s, w) \in LiveAuthorizations(s, w)
    BY <1>2 DEF TheLive
  <2> QED BY <2>1 DEF LiveAuthorizations
<1> QED BY <1>1, <1>2

LEMMA IssueStarts ==
    ASSUME ServiceInv, NEW r \in Slots, StartIssue(r)
    PROVE  ServiceInv'
<1> DEFINE s == slot[r].signature
           a == TheLive(s, active[Claimant[s]])
           req == [at |-> "metadata", session |-> slot[r].session, signature |-> s,
                   instance |-> slot[r].instance, reviewed |-> slot[r].reviewed,
                   binding |-> active[Claimant[s]], drafted |-> ~Resumed(a), initial |-> a]
<1>1. slot[r].at = "issue" /\ slot[r] \in Issues /\ s \in Signatures /\ lock[s] = None
  BY RequestKinds DEF StartIssue, ServiceInv, Issues
<1>2. CASE Refuse(r)
  BY <1>1, <1>2, Refuses
<1>3. CASE ~Refuse(r)
  <2>1. /\ lock' = [lock EXCEPT ![s] = r] /\ slot' = [slot EXCEPT ![r] = req] /\ MayStart(r)
        /\ UNCHANGED <<claim, claims, session, challenge, active, metadata, auth, projection, gallery,
                       suppressed, released>>
    BY <1>3 DEF StartIssue
  <2>2. /\ claim[s] = slot[r].instance /\ slot[r].reviewed = active[Claimant[s]]
        /\ active[Claimant[s]] # None
    BY <2>1 DEF MayStart
  <2>3. active[Claimant[s]] \in Challenges
    BY <1>1, <2>2 DEF Issues
  <2>4. a \in Authorizations \cup {None} /\ Resumed(a) \in BOOLEAN
    <3>1. a \in Authorizations \cup {None}
      BY Found
    <3> QED BY <3>1 DEF Resumed
  <2> HIDE DEF a
  <2>5. req \in Renders
    BY <1>1, <2>3, <2>4 DEF Renders, Issues
  <2>6. /\ req \in Requests /\ req.at = "metadata" /\ req.signature = s /\ req.instance = slot[r].instance
        /\ req.reviewed = slot[r].reviewed /\ req.binding = active[Claimant[s]]
    BY <2>5 DEF Requests
  <2> HIDE DEF req, s
  <2>7. /\ lock' \in [Signatures -> Slots \cup {None}] /\ lock'[s] = r
        /\ \A x \in Signatures : lock'[x] = lock[x] \/ lock[x] \in {None, r}
    BY <1>1, <2>1 DEF ServiceInv, ServiceTypeOK
  <2>8. slot'[r] = req /\ metadata' \in [Signatures -> Nat]
    BY <2>1 DEF ServiceInv, ServiceTypeOK
  <2>9. HoldOK(r)' /\ ProofOK(r)' /\ ReleasedInv'
    BY <2>1, <2>2, <2>6, <2>7, <2>8 DEF HoldOK, ProofOK, Proving, ServiceInv, ReleasedInv
  <2> QED BY <1>1, <2>1, <2>6, <2>7, <2>8, <2>9, RequestMoves
<1> QED BY <1>2, <1>3

LEMMA Freezes ==
    ASSUME ServiceInv, NEW r \in Slots, FreezeMetadata(r)
    PROVE  ServiceInv'
<1>1. PICK s \in Signatures, w \in Challenges, a \in Authorizations \cup {None} :
        /\ s = slot[r].signature /\ w = slot[r].binding /\ a = TheLive(s, w)
        /\ slot[r].at = "metadata" /\ slot[r] \in Renders
        /\ a # None => /\ a \in Authorizations /\ auth[a] # None /\ auth[a].signature = s /\ auth[a].binding = w
                       /\ auth[a].status \in {"prepared", "signing_unknown", "issued"}
  <2>1. slot[r].at = "metadata" /\ slot[r] \in Renders /\ slot[r].signature \in Signatures
       /\ slot[r].binding \in Challenges
    BY RequestKinds DEF FreezeMetadata, ServiceInv, Renders
  <2> QED BY <2>1, Found DEF Unresolved
<1>2. /\ lock[s] = r /\ claim[s] = slot[r].instance /\ slot[r].instance \in Nat \ {0}
      /\ slot[r].reviewed = slot[r].binding
  BY <1>1 DEF ServiceInv, HoldInv, HoldOK, Renders
<1>3. /\ metadata' = [metadata EXCEPT ![s] = slot[r].instance]
      /\ UNCHANGED <<claim, claims, session, challenge, active, auth, projection, gallery, suppressed, released>>
  BY <1>1 DEF FreezeMetadata
<1>4. /\ metadata' \in [Signatures -> Nat]
      /\ \A x \in Signatures : \/ metadata'[x] = metadata[x]
                               \/ claim[x] # 0 /\ metadata'[x] = claim[x]
  BY <1>2, <1>3 DEF ServiceInv, ServiceTypeOK
<1>5. ReleasedInv'
  BY <1>3 DEF ServiceInv, ReleasedInv
<1>6. CASE lock' = Release(r, s) /\ slot' = [slot EXCEPT ![r] = Idle]
  <2>1. /\ lock' \in [Signatures -> Slots \cup {None}]
        /\ \A x \in Signatures : lock'[x] = lock[x] \/ lock[x] \in {None, r}
    BY <1>6, Releases
  <2>2. slot'[r] = Idle /\ Idle \in Requests
    BY <1>6 DEF ServiceInv, ServiceTypeOK, Requests
  <2>3. HoldOK(r)' /\ ProofOK(r)'
    BY <2>2 DEF HoldOK, ProofOK, Proving, Idle
  <2> QED BY <1>1, <1>3, <1>4, <1>5, <1>6, <2>1, <2>2, <2>3, RequestMoves
<1>7. CASE ~(lock' = Release(r, s) /\ slot' = [slot EXCEPT ![r] = Idle])
  <2> DEFINE at == IF a = None THEN "reserve" ELSE IF Resumed(a) THEN "release" ELSE "sign"
             req == [at |-> at, session |-> slot[r].session, signature |-> s,
                     instance |-> slot[r].instance, reviewed |-> slot[r].reviewed,
                     binding |-> slot[r].binding, drafted |-> slot[r].drafted, auth |-> a]
  <2>1. lock' = lock /\ slot' = [slot EXCEPT ![r] = req]
    BY <1>1, <1>7 DEF FreezeMetadata, End
  <2>2. /\ at \in {"reserve", "sign", "release"}
        /\ at \in {"sign", "release"} => a # None
        /\ at = "sign" => auth[a].status # "issued"
        /\ at = "release" => auth[a].status = "issued"
    BY DEF Resumed
  <2> HIDE DEF at
  <2>3. req \in Holds
    BY <1>1, <2>2 DEF Holds, Renders
  <2>4. /\ req \in Requests /\ req.at = at /\ req.signature = s /\ req.instance = slot[r].instance /\ req.auth = a
        /\ req.reviewed = slot[r].reviewed /\ req.binding = slot[r].binding
    BY <2>3 DEF Requests
  <2> HIDE DEF req
  <2>5. slot'[r] = req
    BY <2>1 DEF ServiceInv, ServiceTypeOK
  <2>6. /\ lock' \in [Signatures -> Slots \cup {None}]
        /\ \A x \in Signatures : lock'[x] = lock[x] \/ lock[x] \in {None, r}
    BY <2>1 DEF ServiceInv, ServiceTypeOK
  <2>7. ProofOK(r)'
    BY <2>2, <2>4, <2>5 DEF ProofOK, Proving
  <2>8. HoldOK(r)'
    BY <1>1, <1>2, <1>3, <2>1, <2>2, <2>4, <2>5 DEF HoldOK
  <2> QED BY <1>1, <1>3, <1>4, <1>5, <2>1, <2>4, <2>6, <2>7, <2>8, RequestMoves
<1> QED BY <1>6, <1>7

LEMMA Reserves ==
    ASSUME ServiceInv, NEW r \in Slots, Reserve(r)
    PROVE  ServiceInv'
<1>1. PICK s \in Signatures, b \in Sessions, w \in Challenges, n \in Nat \ {0} :
        /\ s = slot[r].signature /\ b = slot[r].session /\ w = slot[r].binding
        /\ slot[r].at = "reserve" /\ slot[r] \in Holds
        /\ lock[s] = r /\ n = slot[r].instance /\ claim[s] = n
        /\ slot[r].reviewed = w
  <2>1. slot[r].at = "reserve" /\ slot[r] \in Holds
    BY RequestKinds DEF Reserve, ServiceInv
  <2> QED BY <2>1 DEF Holds, ServiceInv, HoldInv, HoldOK
<1>2. CASE Refuse(r)
  BY <1>1, <1>2, Refuses
<1>3. CASE ~Refuse(r)
  <2> DEFINE new == [signature |-> s, instance |-> n, binding |-> w, status |-> "prepared",
                     fresh |-> TRUE]
  <2>1. PICK a \in Authorizations :
          /\ auth[a] = None /\ auth' = [auth EXCEPT ![a] = new]
          /\ session' = [session EXCEPT ![b].draft.auth = a]
          /\ slot' = [slot EXCEPT ![r].at = "sign", ![r].auth = a]
          /\ UNCHANGED <<claim, claims, challenge, active, metadata, projection, gallery, suppressed, lock, released>>
          /\ MayReserve(r)
    BY <1>1, <1>3 DEF Reserve
  <2>2. /\ session[b].draft # None /\ session[b].draft.signature = s
        /\ session[b].draft.instance = n /\ session[b].draft.binding = w
        /\ session[b].draft.auth = None /\ active[Claimant[s]] = w
    BY <1>1, <2>1 DEF MayReserve, HasMintRecipient
  <2>3. /\ new \in AuthRecords /\ new # None /\ new.signature = s /\ new.instance = n
        /\ new.binding = w /\ new.status = "prepared"
    <3>1. new \in AuthRecords
      BY <1>1 DEF AuthRecords
    <3> QED BY <3>1, ServiceAssumption
  <2> HIDE DEF new
  <2>4. /\ auth' \in [Authorizations -> AuthRecords \cup {None}] /\ auth'[a] = new
        /\ \A d \in Authorizations : d # a => auth'[d] = auth[d]
    BY <2>1, <2>3 DEF ServiceInv, ServiceTypeOK
  <2> DEFINE rec == [session[b] EXCEPT !.draft = [session[b].draft EXCEPT !.auth = a]]
             req == [slot[r] EXCEPT !.at = "sign", !.auth = a]
  <2>5. /\ rec \in SessionRecords /\ rec.state = session[b].state /\ rec.account = session[b].account
        /\ rec.selecting = session[b].selecting /\ rec.draft # None /\ rec.draft.signature = s
        /\ rec.draft.instance = n /\ rec.draft.binding = w /\ rec.draft.auth = a
    <3>1. session[b] \in SessionRecords /\ session[b].draft \in Drafts
      BY <2>2 DEF ServiceInv, ServiceTypeOK, SessionRecords
    <3> DEFINE draft == [session[b].draft EXCEPT !.auth = a]
    <3>2. draft \in Drafts /\ draft.signature = s /\ draft.instance = n /\ draft.binding = w
          /\ draft.auth = a /\ draft # None
      BY <2>2, <3>1, ServiceAssumption DEF Drafts
    <3> HIDE DEF draft
    <3>3. rec = [session[b] EXCEPT !.draft = draft]
      BY DEF draft
    <3> QED BY <3>1, <3>2, <3>3 DEF SessionRecords
  <2>6. session' = [session EXCEPT ![b] = rec]
    BY <2>1 DEF ServiceInv, ServiceTypeOK, SessionRecords, Drafts
  <2>7. /\ session' \in [Sessions -> SessionRecords] /\ session'[b] = rec
        /\ \A d \in Sessions : d # b => session'[d] = session[d]
        /\ \A d \in Sessions : session'[d].state = session[d].state /\ session'[d].account = session[d].account
    <3> HIDE DEF rec
    <3> QED BY <2>5, <2>6 DEF ServiceInv, ServiceTypeOK
  <2>8. /\ req \in Holds /\ req.at = "sign" /\ req.auth = a /\ req.signature = s
        /\ req.instance = n /\ req.binding = w /\ req.reviewed = w
    BY <1>1 DEF Holds
  <2>9. slot' = [slot EXCEPT ![r] = req] /\ req \in Requests
    BY <1>1, <2>1, <2>8 DEF Requests, Holds, ServiceInv, ServiceTypeOK
  <2> HIDE DEF rec, req
  <2>10. slot'[r] = req
    BY <2>9 DEF ServiceInv, ServiceTypeOK
  <2>11. ConsumedFor(w, s, n) /\ challenge[w].session = b
         /\ \A d \in Authorizations : auth[d] # None => auth[d].binding # w
    BY <2>2 DEF ServiceInv, DraftInv, DraftOK
  <2>12. ServiceTypeOK'
    <3>1. slot' \in [Slots -> Requests]
      BY <2>9 DEF ServiceInv, ServiceTypeOK
    <3> QED BY <2>1, <2>4, <2>7, <3>1 DEF ServiceInv, ServiceTypeOK
  <2>13. AuthInv'
    <3> SUFFICES ASSUME NEW d \in Authorizations, auth'[d] # None PROVE AuthOK(d)'
      BY DEF AuthInv, AuthOK
    <3>1. \A e \in Authorizations : auth'[e] # None /\ auth'[e].binding = auth'[d].binding => d = e
      <4>1. CASE d = a
        BY <2>3, <2>4, <2>11, <4>1
      <4>2. CASE d # a
        BY <2>3, <2>4, <2>11, <4>2 DEF ServiceInv, AuthInv, AuthOK
      <4> QED BY <4>1, <4>2
    <3>2. CASE d = a
      BY <2>1, <2>2, <2>3, <2>4, <2>11, <3>1, <3>2 DEF AuthOK, ConsumedFor
    <3>3. CASE d # a
      <4>1. AuthOK(d) /\ auth'[d] = auth[d]
        BY <2>4, <3>3 DEF ServiceInv, AuthInv
      <4> QED BY <2>1, <3>1, <4>1 DEF AuthOK, ConsumedFor, Unresolved
    <3> QED BY <3>2, <3>3
  <2>14. DraftInv'
    <3> SUFFICES ASSUME NEW d \in Sessions, session'[d].draft # None PROVE DraftOK(d)'
      BY DEF DraftInv, DraftOK
    <3>1. CASE d = b
      <4>1. a # None
        BY ServiceAssumption
      <4>2. ConsumedFor(w, s, n)' /\ challenge'[w].session = b
        BY <2>1, <2>11 DEF ConsumedFor
      <4>3. /\ session'[d].draft.binding = w /\ session'[d].draft.signature = s
            /\ session'[d].draft.instance = n /\ session'[d].draft.auth # None
        BY <2>5, <2>7, <3>1, <4>1
      <4> QED BY <3>1, <4>2, <4>3 DEF DraftOK
    <3>2. CASE d # b
      <4>1. DraftOK(d) /\ session'[d] = session[d]
        BY <2>7, <3>2 DEF ServiceInv, DraftInv
      <4>2. session[d].draft.binding # w
        BY <2>11, <3>2, <4>1 DEF DraftOK
      <4> QED BY <2>1, <2>3, <2>4, <4>1, <4>2 DEF DraftOK, ConsumedFor
    <3> QED BY <3>1, <3>2
  <2>15. ChoiceInv'
    BY <2>1, <2>2, <2>5, <2>7 DEF ServiceInv, ChoiceInv, Chosen
  <2>16. ProofInv'
    <3>1. ProofOK(r)'
      BY <2>8, <2>10 DEF ProofOK, Proving
    <3>2. \A q \in Slots : q # r /\ Proving(q) =>
               /\ challenge'[slot[q].challenge] # None
               /\ challenge'[slot[q].challenge].status = "processing"
               /\ challenge'[slot[q].challenge].session = challenge[slot[q].challenge].session
      BY <2>1 DEF ServiceInv, ProofInv, ProofOK
    <3> QED BY <2>9, <3>1, <3>2, ProofMoves
  <2>17. HoldInv'
    <3>1. HoldOK(r)'
      BY <1>1, <2>1, <2>3, <2>4, <2>8, <2>10, ServiceAssumption DEF HoldOK
    <3>2. \A q \in Slots : q # r /\ slot[q].at \in {"sign", "release"} =>
               /\ auth'[slot[q].auth] # None
               /\ auth'[slot[q].auth].signature = auth[slot[q].auth].signature
               /\ auth'[slot[q].auth].binding = auth[slot[q].auth].binding
               /\ auth'[slot[q].auth].status \in
                     (IF slot[q].at = "sign" THEN {"prepared", "signing_unknown"} ELSE {"issued", "consumed"})
      BY <2>1, <2>4, RequestKinds DEF ServiceInv, HoldInv, HoldOK, Holds
    <3> QED BY <2>1, <2>9, <3>1, <3>2, HoldMoves
  <2>18. ClaimInv'
    <3>1. \A d \in Authorizations : auth'[d] # None =>
               auth'[d].instance = claim[auth'[d].signature]
                   \/ (auth[d] # None /\ auth'[d].signature = auth[d].signature /\ auth'[d].instance = auth[d].instance)
      BY <1>1, <2>3, <2>4
    <3> QED BY <1>1, <2>1, <2>9, <3>1, ClaimMoves
  <2>19. ProjectionInv'
    <3> SUFFICES ASSUME NEW x \in Signatures PROVE ProjectionOK(x)'
      BY DEF ProjectionInv
    <3>1. /\ ProjectionOK(x) /\ projection[x].auth \in Authorizations \cup {None}
          /\ projection[x].state = "finalized" => projection[x].auth # None
      BY DEF ServiceInv, ProjectionInv, ProjectionOK, ServiceTypeOK
    <3>2. projection[x].auth # None => auth'[projection[x].auth] = auth[projection[x].auth]
      BY <2>1, <2>4, <3>1 DEF ProjectionOK
    <3> QED BY <2>1, <3>1, <3>2 DEF ProjectionOK
  <2>20. ReleasedInv'
    BY <2>1, <2>4 DEF ServiceInv, ReleasedInv
  <2> QED BY <2>12, <2>13, <2>14, <2>15, <2>16, <2>17, <2>18, <2>19, <2>20 DEF ServiceInv
<1> QED BY <1>2, <1>3

\* The status or the deadline of an authorization moves, and it is not revived.
LEMMA AuthMoves ==
    ASSUME ServiceInv, NEW a \in Authorizations, auth[a] # None, NEW new \in AuthRecords,
           auth' = [auth EXCEPT ![a] = new],
           new.signature = auth[a].signature, new.instance = auth[a].instance, new.binding = auth[a].binding,
           new.status \in {"prepared", "signing_unknown", "issued"} => Unresolved(a),
           UNCHANGED <<session, challenge, active>>
    PROVE  /\ auth' \in [Authorizations -> AuthRecords \cup {None}]
           /\ auth'[a] = new /\ new # None /\ \A d \in Authorizations : d # a => auth'[d] = auth[d]
           /\ AuthInv' /\ DraftInv' /\ ChoiceInv'
<1>1. /\ auth' \in [Authorizations -> AuthRecords \cup {None}] /\ auth'[a] = new /\ new # None
      /\ \A d \in Authorizations : d # a => auth'[d] = auth[d]
  BY ServiceAssumption DEF ServiceInv, ServiceTypeOK
<1>2. \A d \in Authorizations : /\ auth'[d] = None <=> auth[d] = None
                                /\ auth'[d].signature = auth[d].signature
                                /\ auth'[d].instance = auth[d].instance
                                /\ auth'[d].binding = auth[d].binding
                                /\ Unresolved(d)' => Unresolved(d)
  BY <1>1 DEF Unresolved
<1>3. AuthInv'
  <2> SUFFICES ASSUME NEW d \in Authorizations, auth'[d] # None PROVE AuthOK(d)'
    BY DEF AuthInv, AuthOK
  <2>1. AuthOK(d)
    BY DEF ServiceInv, AuthInv
  <2> QED BY <1>2, <2>1 DEF AuthOK, ConsumedFor
<1>4. DraftInv' /\ ChoiceInv'
  BY <1>2 DEF ServiceInv, DraftInv, DraftOK, ConsumedFor, ChoiceInv, Chosen
<1> QED BY <1>1, <1>3, <1>4

\* The signer answers, or fails without anyone knowing whether it signed.
LEMMA Signs ==
    ASSUME ServiceInv, NEW r \in Slots, Sign(r) \/ SignerFails(r)
    PROVE  ServiceInv'
<1>1. PICK s \in Signatures, a \in Authorizations :
        /\ s = slot[r].signature /\ a = slot[r].auth /\ slot[r].at = "sign" /\ slot[r] \in Holds
        /\ lock[s] = r /\ claim[s] = slot[r].instance /\ slot[r].reviewed = slot[r].binding
        /\ auth[a] # None /\ auth[a].signature = s /\ auth[a].binding = slot[r].binding
        /\ auth[a].status \in {"prepared", "signing_unknown"}
  <2>1. slot[r].at = "sign" /\ slot[r] \in Holds /\ HoldOK(r)
    BY RequestKinds DEF Sign, SignerFails, ServiceInv, HoldInv
  <2>2. slot[r].signature \in Signatures /\ slot[r].auth \in Authorizations
    BY <2>1 DEF Holds, HoldOK
  <2> QED BY <2>1, <2>2 DEF HoldOK
<1>2. PICK new \in AuthRecords :
        /\ auth' = [auth EXCEPT ![a] = new] /\ new.signature = s /\ new.instance = auth[a].instance
        /\ new.binding = auth[a].binding
        /\ new.status = (IF Sign(r) THEN "issued" ELSE "signing_unknown")
  <2> DEFINE new == [auth[a] EXCEPT !.status = IF Sign(r) THEN "issued" ELSE "signing_unknown"]
  <2>1. auth[a] \in AuthRecords
    BY <1>1 DEF ServiceInv, ServiceTypeOK
  <2>2. /\ new \in AuthRecords /\ new.signature = s /\ new.instance = auth[a].instance
        /\ new.binding = auth[a].binding /\ new.status = (IF Sign(r) THEN "issued" ELSE "signing_unknown")
    BY <1>1, <2>1 DEF AuthRecords
  <2>3. auth' = [auth EXCEPT ![a] = new]
    <3>1. auth \in [Authorizations -> AuthRecords \cup {None}]
      BY DEF ServiceInv, ServiceTypeOK
    <3>2. auth' = [auth EXCEPT ![a].status = IF Sign(r) THEN "issued" ELSE "signing_unknown"]
      <4>1. CASE Sign(r)
        BY <1>1, <4>1 DEF Sign
      <4>2. CASE ~Sign(r)
        BY <1>1, <4>2 DEF SignerFails
      <4> QED BY <4>1, <4>2
    <3> QED BY <3>1, <3>2
  <2> HIDE DEF new
  <2> QED BY <2>2, <2>3
<1>3. UNCHANGED <<claim, claims, session, challenge, active, metadata, gallery, suppressed, released>>
  BY DEF Sign, SignerFails
<1>4. /\ auth' \in [Authorizations -> AuthRecords \cup {None}]
      /\ auth'[a] = new /\ new # None /\ \A d \in Authorizations : d # a => auth'[d] = auth[d]
      /\ AuthInv' /\ DraftInv' /\ ChoiceInv'
  <2>1. Unresolved(a)
    BY <1>1 DEF Unresolved
  <2> QED BY <1>1, <1>2, <1>3, <2>1, AuthMoves
<1>5. PICK req \in Requests :
        /\ slot' = [slot EXCEPT ![r] = req]
        /\ Sign(r) => /\ req.at = "release" /\ req.signature = s /\ req.auth = a /\ req.instance = slot[r].instance
                      /\ req.reviewed = slot[r].reviewed /\ req.binding = slot[r].binding /\ lock' = lock
        /\ ~Sign(r) => req.at = "idle" /\ lock' = Release(r, s)
  <2>1. CASE Sign(r)
    <3> DEFINE req == [slot[r] EXCEPT !.at = "release"]
    <3>1. /\ req \in Holds /\ req.at = "release" /\ req.signature = s /\ req.auth = a
          /\ req.instance = slot[r].instance /\ req.reviewed = slot[r].reviewed /\ req.binding = slot[r].binding
      BY <1>1 DEF Holds
    <3>2. slot' = [slot EXCEPT ![r] = req] /\ lock' = lock /\ req \in Requests
      BY <2>1, <3>1 DEF Sign, Requests, ServiceInv, ServiceTypeOK
    <3> HIDE DEF req
    <3> QED BY <2>1, <3>1, <3>2
  <2>2. CASE ~Sign(r)
    <3>1. slot' = [slot EXCEPT ![r] = Idle] /\ Idle \in Requests /\ Idle.at = "idle" /\ lock' = Release(r, s)
      BY <1>1, <2>2 DEF SignerFails, End, Requests, Idle
    <3> QED BY <2>2, <3>1
  <2> QED BY <2>1, <2>2
<1>6. /\ lock' \in [Signatures -> Slots \cup {None}]
      /\ \A x \in Signatures : lock'[x] = lock[x] \/ lock[x] \in {None, r}
  BY <1>5, Releases
<1>7. slot'[r] = req /\ slot' \in [Slots -> Requests]
  BY <1>5 DEF ServiceInv, ServiceTypeOK
<1>8. /\ projection' \in [Signatures -> [state : States, auth : Authorizations \cup {None}]]
      /\ \A x \in Signatures :
            \/ projection'[x] = projection[x]
            \/ /\ x = s /\ Sign(r) /\ projection[s].state \in {"unminted", "authorized"}
               /\ projection'[x] = [state |-> "authorized", auth |-> a]
  <2>1. projection \in [Signatures -> [state : States, auth : Authorizations \cup {None}]]
    BY DEF ServiceInv, ServiceTypeOK
  <2>2. [state |-> "authorized", auth |-> a] \in [state : States, auth : Authorizations \cup {None}]
    BY DEF States
  <2>3. \/ projection' = projection
        \/ /\ Sign(r) /\ projection[s].state \in {"unminted", "authorized"}
           /\ projection' = [projection EXCEPT ![s] = [state |-> "authorized", auth |-> a]]
    BY <1>1 DEF Sign, SignerFails
  <2> QED BY <2>1, <2>2, <2>3
<1>9. ServiceTypeOK'
  BY <1>3, <1>4, <1>6, <1>7, <1>8 DEF ServiceInv, ServiceTypeOK
<1>10. ProofInv'
  <2>1. ProofOK(r)'
    BY <1>5, <1>7 DEF ProofOK, Proving
  <2>2. \A q \in Slots : q # r /\ Proving(q) =>
               /\ challenge'[slot[q].challenge] # None
               /\ challenge'[slot[q].challenge].status = "processing"
               /\ challenge'[slot[q].challenge].session = challenge[slot[q].challenge].session
    BY <1>3 DEF ServiceInv, ProofInv, ProofOK
  <2> QED BY <1>5, <2>1, <2>2, ProofMoves
<1>11. HoldInv'
  <2>1. HoldOK(r)'
    <3>1. a # None
      BY ServiceAssumption
    <3> QED BY <1>1, <1>2, <1>3, <1>4, <1>5, <1>7, <3>1 DEF HoldOK
  <2>2. ASSUME NEW q \in Slots, q # r, slot[q].at \in {"sign", "release"}
        PROVE  /\ auth'[slot[q].auth] # None
               /\ auth'[slot[q].auth].signature = auth[slot[q].auth].signature
               /\ auth'[slot[q].auth].binding = auth[slot[q].auth].binding
               /\ auth'[slot[q].auth].status \in
                     (IF slot[q].at = "sign" THEN {"prepared", "signing_unknown"} ELSE {"issued", "consumed"})
    <3>1. HoldOK(q) /\ slot[q].auth \in Authorizations
      BY <2>2, RequestKinds DEF ServiceInv, HoldInv, HoldOK, Holds
    <3>2. slot[q].signature # s
      BY <1>1, <2>2, HoldersDiffer
    <3>3. slot[q].auth # a
      BY <1>1, <2>2, <3>1, <3>2 DEF HoldOK
    <3> QED BY <1>4, <2>2, <3>1, <3>3 DEF HoldOK
  <2> QED BY <1>3, <1>5, <1>6, <2>1, <2>2, HoldMoves
<1>12. ClaimInv'
  <2>1. \A d \in Authorizations : auth'[d] # None =>
            auth[d] # None /\ auth'[d].signature = auth[d].signature /\ auth'[d].instance = auth[d].instance
    BY <1>1, <1>2, <1>4
  <2> QED BY <1>1, <1>3, <1>5, <1>6, <2>1, ClaimMoves
<1>13. ProjectionInv'
  <2> SUFFICES ASSUME NEW x \in Signatures PROVE ProjectionOK(x)'
    BY DEF ProjectionInv
  <2>1. /\ ProjectionOK(x) /\ projection[x].auth \in Authorizations \cup {None}
        /\ projection[x].state = "finalized" => projection[x].auth # None
    BY DEF ServiceInv, ProjectionInv, ProjectionOK, ServiceTypeOK
  <2>2. CASE projection'[x] = projection[x]
    <3>1. projection[x].auth # None => auth'[projection[x].auth] = auth[projection[x].auth]
      BY <1>1, <1>4, <2>1 DEF ProjectionOK
    <3> QED BY <1>3, <2>1, <2>2, <3>1 DEF ProjectionOK
  <2>3. CASE /\ x = s /\ Sign(r) /\ projection[s].state \in {"unminted", "authorized"}
             /\ projection'[x] = [state |-> "authorized", auth |-> a]
    <3>1. a # None /\ projection'[x].auth = a /\ projection'[x].state = "authorized"
      BY <2>3, ServiceAssumption
    <3>2. x \notin gallery
      BY <2>1, <2>3 DEF ProjectionOK
    <3> QED BY <1>2, <1>3, <1>4, <2>3, <3>1, <3>2 DEF ProjectionOK
  <2> QED BY <1>8, <2>2, <2>3
<1>14. ReleasedInv'
  BY <1>1, <1>3, <1>4 DEF ServiceInv, ReleasedInv
<1> QED BY <1>4, <1>9, <1>10, <1>11, <1>12, <1>13, <1>14 DEF ServiceInv

LEMMA Responds ==
    ASSUME ServiceInv, NEW r \in Slots, Respond(r)
    PROVE  ServiceInv'
<1>1. PICK s \in Signatures, a \in Authorizations :
        /\ s = slot[r].signature /\ a = slot[r].auth /\ slot[r].at = "release"
        /\ auth[a] # None /\ auth[a].binding = slot[r].reviewed
        /\ auth[a].status \in {"issued", "consumed"}
  <2>1. slot[r].at = "release" /\ slot[r] \in Holds /\ HoldOK(r)
    BY RequestKinds DEF Respond, ServiceInv, HoldInv
  <2>2. slot[r].signature \in Signatures /\ slot[r].auth \in Authorizations
    BY <2>1 DEF Holds, HoldOK
  <2> QED BY <2>1, <2>2 DEF HoldOK
<1>2. CASE Refuse(r)
  BY <1>1, <1>2, Refuses
<1>3. CASE ~Refuse(r)
  <2>1. /\ released' = released \cup {[auth |-> a, reviewed |-> slot[r].reviewed, signature |-> s,
                                       instance |-> slot[r].instance]}
        /\ lock' = Release(r, s) /\ slot' = [slot EXCEPT ![r] = Idle] /\ Idle \in Requests
        /\ UNCHANGED <<claim, claims, session, challenge, active, metadata, auth, projection, gallery, suppressed>>
    BY <1>1, <1>3 DEF Respond, End, Requests
  <2>2. /\ lock' \in [Signatures -> Slots \cup {None}]
        /\ \A x \in Signatures : lock'[x] = lock[x] \/ lock[x] \in {None, r}
    BY <2>1, Releases
  <2>3. slot'[r] = Idle /\ metadata' \in [Signatures -> Nat]
    BY <2>1 DEF ServiceInv, ServiceTypeOK
  <2>4. HoldOK(r)' /\ ProofOK(r)'
    BY <2>3 DEF HoldOK, ProofOK, Proving, Idle
  <2>5. ReleasedInv'
    BY <1>1, <2>1 DEF ServiceInv, ReleasedInv
  <2> QED BY <1>1, <2>1, <2>2, <2>3, <2>4, <2>5, RequestMoves
<1> QED BY <1>2, <1>3

LEMMA ChainAdvances ==
    ASSUME ServiceInv, NEW s \in Signatures, AdvanceFixture(s)
    PROVE  ServiceInv'
<1> DEFINE st == projection[s].state
           next == CASE st = "authorized" -> "submitted"
                     [] st = "submitted" -> "included"
                     [] st = "included" -> "finalized"
                     [] OTHER -> "none"
<1>1. /\ projection[s].auth # None /\ next \in Transitions[st]
      /\ projection' = [projection EXCEPT ![s].state = next]
      /\ next = "finalized" => /\ auth' = [auth EXCEPT ![projection[s].auth].status = "consumed"]
                               /\ gallery' = gallery \cup {s}
      /\ next # "finalized" => UNCHANGED <<auth, gallery>>
      /\ UNCHANGED <<claim, claims, session, challenge, active, metadata, suppressed, lock, slot, released>>
  BY DEF AdvanceFixture
<1>2. projection[s] \in [state : States, auth : Authorizations \cup {None}]
  BY DEF ServiceInv, ServiceTypeOK
<1>3. /\ st \in {"authorized", "submitted", "included"} /\ next \in {"submitted", "included", "finalized"}
      /\ next = "finalized" => st = "included"
  <2>1. st \in States
    BY <1>2
  <2>2. st = "unminted" => next = "none" /\ next \notin Transitions[st]
    BY DEF Transitions
  <2>3. st = "finalized" => next = "none" /\ next \notin Transitions[st]
    BY DEF Transitions
  <2> QED BY <1>1, <2>1, <2>2, <2>3 DEF States
<1> HIDE DEF next
<1>4. PICK a \in Authorizations :
        /\ a = projection[s].auth /\ auth[a] # None /\ auth[a].signature = s
        /\ auth[a].status \in {"issued", "consumed"} /\ a # None
  BY <1>1, <1>2 DEF ServiceInv, ProjectionInv, ProjectionOK
<1>5. /\ projection' \in [Signatures -> [state : States, auth : Authorizations \cup {None}]]
      /\ projection'[s].state = next /\ projection'[s].auth = a
      /\ \A x \in Signatures : x # s => projection'[x] = projection[x]
  <2>1. projection \in [Signatures -> [state : States, auth : Authorizations \cup {None}]]
    BY DEF ServiceInv, ServiceTypeOK
  <2>2. next \in States
    BY <1>3 DEF States
  <2> QED BY <1>1, <1>4, <2>1, <2>2
<1>6. /\ auth' \in [Authorizations -> AuthRecords \cup {None}] /\ auth'[a] # None
      /\ auth'[a].signature = s /\ auth'[a].binding = auth[a].binding /\ auth'[a].instance = auth[a].instance
      /\ auth'[a].status \in {"issued", "consumed"}
      /\ next = "finalized" => auth'[a].status = "consumed"
      /\ \A d \in Authorizations : d # a => auth'[d] = auth[d]
      /\ AuthInv' /\ DraftInv' /\ ChoiceInv'
  <2>1. CASE next = "finalized"
    <3> DEFINE new == [auth[a] EXCEPT !.status = "consumed"]
    <3>1. auth[a] \in AuthRecords /\ auth \in [Authorizations -> AuthRecords \cup {None}]
      BY <1>4 DEF ServiceInv, ServiceTypeOK
    <3>2. /\ new \in AuthRecords /\ new.signature = s /\ new.instance = auth[a].instance
          /\ new.binding = auth[a].binding /\ new.status = "consumed"
      BY <1>4, <3>1 DEF AuthRecords
    <3>3. auth' = [auth EXCEPT ![a] = new]
      BY <1>1, <1>4, <2>1, <3>1
    <3> HIDE DEF new
    <3>4. /\ auth' \in [Authorizations -> AuthRecords \cup {None}]
          /\ auth'[a] = new /\ new # None /\ \A d \in Authorizations : d # a => auth'[d] = auth[d]
          /\ AuthInv' /\ DraftInv' /\ ChoiceInv'
      BY <1>1, <1>4, <3>2, <3>3, AuthMoves
    <3> QED BY <3>2, <3>4
  <2>2. CASE next # "finalized"
    BY <1>1, <1>4, <2>2 DEF ServiceInv, ServiceTypeOK, AuthInv, AuthOK, ConsumedFor, Unresolved, DraftInv, DraftOK,
                           ChoiceInv, Chosen
  <2> QED BY <2>1, <2>2
<1>7. ServiceTypeOK'
  BY <1>1, <1>3, <1>5, <1>6 DEF ServiceInv, ServiceTypeOK
<1>8. ProofInv'
  BY <1>1 DEF ServiceInv, ProofInv, ProofOK, Proving
<1>9. HoldInv'
  <2> SUFFICES ASSUME NEW q \in Slots PROVE HoldOK(q)'
    BY DEF HoldInv
  <2>1. HoldOK(q) /\ (slot[q].at \in {"sign", "release"} => slot[q].auth \in Authorizations)
    BY RequestKinds DEF ServiceInv, HoldInv, HoldOK, Holds
  <2>2. slot[q].at = "sign" => slot[q].auth # a
    BY <1>4, <2>1 DEF HoldOK
  <2> QED BY <1>1, <1>4, <1>6, <2>1, <2>2 DEF HoldOK
<1>10. ClaimInv'
  <2>1. \A d \in Authorizations : auth'[d] # None =>
            auth[d] # None /\ auth'[d].signature = auth[d].signature /\ auth'[d].instance = auth[d].instance
    BY <1>4, <1>6
  <2> QED BY <1>1, <2>1 DEF ServiceInv, ClaimInv, ClaimOK
<1>11. ProjectionInv'
  <2> SUFFICES ASSUME NEW x \in Signatures PROVE ProjectionOK(x)'
    BY DEF ProjectionInv
  <2>1. /\ ProjectionOK(x) /\ projection[x].auth \in Authorizations \cup {None}
        /\ projection[x].state = "finalized" => projection[x].auth # None
    BY DEF ServiceInv, ProjectionInv, ProjectionOK, ServiceTypeOK
  <2>2. CASE x = s
    <3>1. x \in gallery' <=> next = "finalized"
      BY <1>1, <1>3, <2>1, <2>2 DEF ProjectionOK
    <3> QED BY <1>4, <1>5, <1>6, <2>2, <3>1 DEF ProjectionOK
  <2>3. CASE x # s
    <3>1. projection[x].auth # None => projection[x].auth # a
      BY <1>4, <2>1, <2>3 DEF ProjectionOK
    <3>2. x \in gallery' <=> x \in gallery
      BY <1>1, <2>3
    <3> QED BY <1>5, <1>6, <2>1, <2>3, <3>1, <3>2 DEF ProjectionOK
  <2> QED BY <2>2, <2>3
<1>12. ReleasedInv'
  BY <1>1, <1>4, <1>6 DEF ServiceInv, ReleasedInv
<1> QED BY <1>6, <1>7, <1>8, <1>9, <1>10, <1>11, <1>12 DEF ServiceInv

LEMMA Withdraws ==
    ASSUME ServiceInv, NEW r \in Slots, NEW b \in Sessions, NEW s \in Signatures, WithdrawClaim(r, b, s)
    PROVE  ServiceInv'
<1> DEFINE req == [at |-> "forget", signature |-> s]
<1>1. /\ slot[r].at = "idle" /\ lock[s] = None /\ claim' = [claim EXCEPT ![s] = 0]
      /\ lock' = [lock EXCEPT ![s] = r] /\ slot' = [slot EXCEPT ![r] = req] /\ CanWithdraw(s)
      /\ UNCHANGED <<claims, session, challenge, active, metadata, auth, projection, gallery, suppressed, released>>
  BY DEF WithdrawClaim, Idle
<1>2. req \in Requests /\ req.at = "forget" /\ req.signature = s
  BY DEF Requests, Forgets
<1> HIDE DEF req
<1>3. /\ claim' \in [Signatures -> Nat] /\ claim'[s] = 0 /\ lock' \in [Signatures -> Slots \cup {None}]
      /\ lock'[s] = r /\ slot' \in [Slots -> Requests] /\ slot'[r] = req
      /\ \A x \in Signatures : x # s => claim'[x] = claim[x] /\ lock'[x] = lock[x]
      /\ \A q \in Slots : q # r => slot'[q] = slot[q]
  BY <1>1, <1>2 DEF ServiceInv, ServiceTypeOK
<1>4. ServiceTypeOK'
  BY <1>1, <1>3 DEF ServiceInv, ServiceTypeOK
<1>5. AuthInv' /\ DraftInv' /\ ChoiceInv' /\ ProjectionInv' /\ ReleasedInv'
  BY <1>1 DEF ServiceInv, AuthInv, AuthOK, ConsumedFor, Unresolved, DraftInv, DraftOK, ChoiceInv, Chosen,
              ProjectionInv, ProjectionOK, ReleasedInv
<1>6. ProofInv'
  <2>1. ProofOK(r)'
    BY <1>2, <1>3 DEF ProofOK, Proving
  <2>2. \A q \in Slots : q # r /\ Proving(q) =>
               /\ challenge'[slot[q].challenge] # None
               /\ challenge'[slot[q].challenge].status = "processing"
               /\ challenge'[slot[q].challenge].session = challenge[slot[q].challenge].session
    BY <1>1 DEF ServiceInv, ProofInv, ProofOK
  <2> QED BY <1>1, <1>2, <2>1, <2>2, ProofMoves
<1>7. HoldInv'
  <2>1. HoldOK(r)'
    BY <1>2, <1>3 DEF HoldOK
  <2>2. \A q \in Slots : q # r /\ slot[q].at \in {"sign", "release"} =>
               /\ auth'[slot[q].auth] # None
               /\ auth'[slot[q].auth].signature = auth[slot[q].auth].signature
               /\ auth'[slot[q].auth].binding = auth[slot[q].auth].binding
               /\ auth'[slot[q].auth].status \in
                     (IF slot[q].at = "sign" THEN {"prepared", "signing_unknown"} ELSE {"issued", "consumed"})
    BY <1>1 DEF ServiceInv, HoldInv, HoldOK
  <2>3. /\ \A x \in Signatures : lock'[x] = lock[x] \/ lock[x] \in {None, r}
        /\ \A x \in Signatures : claim'[x] = claim[x] \/ lock[x] \in {None, r}
    BY <1>1, <1>3
  <2> QED BY <1>1, <1>2, <2>1, <2>2, <2>3, HoldMoves
<1>8. ClaimInv'
  <2> SUFFICES ASSUME NEW x \in Signatures, x \notin suppressed PROVE ClaimOK(x)'
    BY <1>1 DEF ClaimInv, ClaimOK
  <2>1. CASE x = s
    <3>1. \A a \in Authorizations : auth[a] # None => auth[a].signature # s
      BY <1>1 DEF CanWithdraw
    <3>2. r # None
      BY ServiceAssumption
    <3> QED BY <1>1, <1>2, <1>3, <2>1, <3>1, <3>2 DEF ClaimOK
  <2>2. CASE x # s
    <3>1. ClaimOK(x) /\ lock[x] \in Slots \cup {None}
      BY DEF ServiceInv, ClaimInv, ServiceTypeOK
    <3>2. lock[x] # None /\ slot[lock[x]].at = "forget" => slot'[lock[x]] = slot[lock[x]]
      BY <1>1, <1>3, <3>1
    <3> QED BY <1>1, <1>3, <2>2, <3>1, <3>2 DEF ClaimOK
  <2> QED BY <2>1, <2>2
<1> QED BY <1>4, <1>5, <1>6, <1>7, <1>8 DEF ServiceInv

LEMMA Forgotten ==
    ASSUME ServiceInv, NEW r \in Slots, ForgetWithdrawnClaim(r)
    PROVE  ServiceInv'
<1>1. PICK s \in Signatures : /\ s = slot[r].signature /\ slot[r].at = "forget" /\ lock[s] = r /\ claim[s] = 0
  BY RequestKinds DEF ForgetWithdrawnClaim, ServiceInv, Forgets, HoldInv, HoldOK
<1>2. /\ lock' = Release(r, s) /\ slot' = [slot EXCEPT ![r] = Idle] /\ Idle \in Requests
      /\ UNCHANGED <<claim, claims, session, challenge, active, gallery, suppressed, released>>
  BY <1>1 DEF ForgetWithdrawnClaim, End, Requests
<1>3. auth' = auth
  <2>1. CASE CanWithdraw(s)
    <3>1. auth' = [a \in Authorizations |-> IF auth[a] # None /\ auth[a].signature = s THEN None ELSE auth[a]]
      BY <1>1, <2>1 DEF ForgetWithdrawnClaim
    <3> QED BY <2>1, <3>1 DEF CanWithdraw, ServiceInv, ServiceTypeOK
  <2>2. CASE ~CanWithdraw(s)
    BY <1>1, <2>2 DEF ForgetWithdrawnClaim
  <2> QED BY <2>1, <2>2
<1>4. /\ metadata' \in [Signatures -> Nat]
      /\ projection' \in [Signatures -> [state : States, auth : Authorizations \cup {None}]]
      /\ \A x \in Signatures : x # s => metadata'[x] = metadata[x] /\ projection'[x] = projection[x]
      /\ CanWithdraw(s) => metadata'[s] = 0 /\ projection'[s] = Unminted
      /\ ~CanWithdraw(s) => metadata' = metadata /\ projection' = projection
  <2>1. /\ metadata \in [Signatures -> Nat]
        /\ projection \in [Signatures -> [state : States, auth : Authorizations \cup {None}]]
    BY DEF ServiceInv, ServiceTypeOK
  <2>2. CASE CanWithdraw(s)
    <3>1. /\ metadata' = [metadata EXCEPT ![s] = 0] /\ projection' = [projection EXCEPT ![s] = Unminted]
          /\ Unminted \in [state : States, auth : Authorizations \cup {None}]
      BY <1>1, <2>2 DEF ForgetWithdrawnClaim, Unminted, States
    <3> QED BY <2>1, <2>2, <3>1
  <2>3. CASE ~CanWithdraw(s)
    BY <1>1, <2>1, <2>3 DEF ForgetWithdrawnClaim
  <2> QED BY <2>2, <2>3
<1>5. /\ lock' \in [Signatures -> Slots \cup {None}]
      /\ \A x \in Signatures : x # s => lock'[x] = lock[x]
      /\ \A x \in Signatures : lock'[x] = lock[x] \/ lock[x] \in {None, r}
  BY <1>2 DEF Release, ServiceInv, ServiceTypeOK
<1>6. slot' \in [Slots -> Requests] /\ slot'[r] = Idle /\ \A q \in Slots : q # r => slot'[q] = slot[q]
  BY <1>2 DEF ServiceInv, ServiceTypeOK
<1>7. ServiceTypeOK'
  BY <1>2, <1>3, <1>4, <1>5, <1>6 DEF ServiceInv, ServiceTypeOK
<1>8. AuthInv' /\ DraftInv' /\ ChoiceInv' /\ ReleasedInv'
  BY <1>2, <1>3 DEF ServiceInv, AuthInv, AuthOK, ConsumedFor, Unresolved, DraftInv, DraftOK, ChoiceInv, Chosen,
                    ReleasedInv
<1>9. ProofInv'
  <2>1. ProofOK(r)'
    BY <1>6 DEF ProofOK, Proving, Idle
  <2>2. \A q \in Slots : q # r /\ Proving(q) =>
               /\ challenge'[slot[q].challenge] # None
               /\ challenge'[slot[q].challenge].status = "processing"
               /\ challenge'[slot[q].challenge].session = challenge[slot[q].challenge].session
    BY <1>2 DEF ServiceInv, ProofInv, ProofOK
  <2> QED BY <1>2, <2>1, <2>2, ProofMoves
<1>10. HoldInv'
  <2>1. HoldOK(r)'
    BY <1>6 DEF HoldOK, Idle
  <2>2. \A q \in Slots : q # r /\ slot[q].at \in {"sign", "release"} =>
               /\ auth'[slot[q].auth] # None
               /\ auth'[slot[q].auth].signature = auth[slot[q].auth].signature
               /\ auth'[slot[q].auth].binding = auth[slot[q].auth].binding
               /\ auth'[slot[q].auth].status \in
                     (IF slot[q].at = "sign" THEN {"prepared", "signing_unknown"} ELSE {"issued", "consumed"})
    BY <1>3 DEF ServiceInv, HoldInv, HoldOK
  <2> QED BY <1>2, <1>5, <2>1, <2>2, HoldMoves
<1>11. ProjectionInv'
  <2> SUFFICES ASSUME NEW x \in Signatures PROVE ProjectionOK(x)'
    BY DEF ProjectionInv
  <2>1. ProjectionOK(x)
    BY DEF ServiceInv, ProjectionInv
  <2>2. CASE projection'[x] = projection[x]
    BY <1>2, <1>3, <2>1, <2>2 DEF ProjectionOK
  <2>3. CASE x = s /\ CanWithdraw(s)
    <3>1. projection'[x].auth = None /\ projection'[x].state = "unminted" /\ x \notin gallery
      BY <1>4, <2>3 DEF Unminted, CanWithdraw
    <3> QED BY <1>2, <3>1 DEF ProjectionOK
  <2> QED BY <1>4, <2>2, <2>3
<1>12. ClaimInv'
  <2> SUFFICES ASSUME NEW x \in Signatures, x \notin suppressed PROVE ClaimOK(x)'
    BY <1>2 DEF ClaimInv, ClaimOK
  <2>1. ClaimOK(x) /\ lock[x] \in Slots \cup {None}
    BY DEF ServiceInv, ClaimInv, ServiceTypeOK
  <2>2. CASE x = s
    <3>1. \A a \in Authorizations : auth[a] # None => auth[a].signature # s
      <4> SUFFICES ASSUME NEW a \in Authorizations, auth[a] # None, auth[a].signature = s PROVE FALSE
        OBVIOUS
      <4>1. auth[a].instance \in Nat \ {0}
        BY DEF ServiceInv, ServiceTypeOK, AuthRecords
      <4> QED BY <1>1, <2>1, <2>2, <4>1 DEF ClaimOK
    <3>2. CanWithdraw(s)
      <4>1. ProjectionOK(s) /\ projection[s].auth \in Authorizations \cup {None}
        BY DEF ServiceInv, ProjectionInv, ServiceTypeOK
      <4> QED BY <2>2, <3>1, <4>1 DEF CanWithdraw, ProjectionOK
    <3> QED BY <1>1, <1>2, <1>3, <1>4, <2>2, <3>1, <3>2 DEF ClaimOK
  <2>3. CASE x # s
    <3>1. lock[x] # None /\ slot[lock[x]].signature = x => slot'[lock[x]] = slot[lock[x]]
      BY <1>1, <1>6, <2>1, <2>3
    <3> QED BY <1>2, <1>3, <1>4, <1>5, <2>1, <2>3, <3>1 DEF ClaimOK
  <2> QED BY <2>2, <2>3
<1> QED BY <1>7, <1>8, <1>9, <1>10, <1>11, <1>12 DEF ServiceInv

LEMMA ClaimsAgain ==
    ASSUME ServiceInv, NEW s \in Signatures, ClaimAgain(s)
    PROVE  ServiceInv'
<1>1. /\ lock[s] = None /\ claim[s] = 0
      /\ UNCHANGED <<session, challenge, active, metadata, auth, projection, gallery, suppressed, lock, slot, released>>
  BY DEF ClaimAgain
<1>2. /\ claim' \in [Signatures -> Nat] /\ claims' \in [Signatures -> Nat]
      /\ \A x \in Signatures : x # s => claim'[x] = claim[x]
  BY DEF ClaimAgain, ServiceInv, ServiceTypeOK
<1>3. ServiceTypeOK'
  BY <1>1, <1>2 DEF ServiceInv, ServiceTypeOK
<1>4. AuthInv' /\ DraftInv' /\ ChoiceInv' /\ ProofInv' /\ ProjectionInv' /\ ReleasedInv'
  BY <1>1 DEF ServiceInv, AuthInv, AuthOK, ConsumedFor, Unresolved, DraftInv, DraftOK, ChoiceInv, Chosen,
              ProofInv, ProofOK, Proving, ProjectionInv, ProjectionOK, ReleasedInv
<1>5. HoldInv'
  <2> SUFFICES ASSUME NEW q \in Slots PROVE HoldOK(q)'
    BY DEF HoldInv
  <2>1. HoldOK(q) /\ q # None
    BY ServiceAssumption DEF ServiceInv, HoldInv
  <2>2. slot[q].at \in {"metadata", "reserve", "sign", "release", "forget"} =>
            slot[q].signature \in Signatures /\ slot[q].signature # s
    BY <1>1, <2>1, RequestKinds DEF HoldOK, ServiceInv, Renders, Holds, Forgets
  <2> QED BY <1>1, <1>2, <2>1, <2>2 DEF HoldOK
<1>6. ClaimInv'
  <2> SUFFICES ASSUME NEW x \in Signatures, x \notin suppressed PROVE ClaimOK(x)'
    BY <1>1 DEF ClaimInv, ClaimOK
  <2>1. ClaimOK(x)
    BY DEF ServiceInv, ClaimInv
  <2>2. CASE x = s
    <3>1. \A a \in Authorizations : auth[a] # None => auth[a].signature # s
      <4> SUFFICES ASSUME NEW a \in Authorizations, auth[a] # None, auth[a].signature = s PROVE FALSE
        OBVIOUS
      <4>1. auth[a].instance \in Nat \ {0}
        BY DEF ServiceInv, ServiceTypeOK, AuthRecords
      <4> QED BY <1>1, <2>1, <2>2, <4>1 DEF ClaimOK
    <3>2. metadata[s] = 0
      BY <1>1, <2>1, <2>2 DEF ClaimOK
    <3> QED BY <1>1, <2>2, <3>1, <3>2 DEF ClaimOK
  <2>3. CASE x # s
    BY <1>1, <1>2, <2>1, <2>3 DEF ClaimOK
  <2> QED BY <2>2, <2>3
<1> QED BY <1>3, <1>4, <1>5, <1>6 DEF ServiceInv

\* Sessions open, close and age: drafts may go, or grow old.
LEMMA SessionMoves ==
    ASSUME ServiceInv, session' \in [Sessions -> SessionRecords],
           \A b \in Sessions : session'[b].state = "open" => session'[b].account \in Accounts,
           \A b \in Sessions :
               /\ session'[b].selecting \in {None, session[b].selecting}
               /\ session'[b].draft # None =>
                     /\ session[b].draft # None /\ session'[b].draft.signature = session[b].draft.signature
                     /\ session'[b].draft.instance = session[b].draft.instance
                     /\ session'[b].draft.binding = session[b].draft.binding
                     /\ session'[b].draft.auth = session[b].draft.auth,
           UNCHANGED <<claim, claims, challenge, active, metadata, auth, projection, gallery, suppressed, lock,
                       slot, released>>
    PROVE  ServiceInv'
<1>1. ServiceTypeOK'
  BY DEF ServiceInv, ServiceTypeOK
<1>2. AuthInv' /\ ProofInv' /\ ProjectionInv' /\ ReleasedInv'
  BY DEF ServiceInv, AuthInv, AuthOK, ConsumedFor, Unresolved, ProofInv, ProofOK, Proving,
         ProjectionInv, ProjectionOK, ReleasedInv
<1>3. HoldInv' /\ ClaimInv'
  BY DEF ServiceInv, HoldInv, HoldOK, ClaimInv, ClaimOK
<1>4. DraftInv'
  BY DEF ServiceInv, DraftInv, DraftOK, ConsumedFor
<1>5. ChoiceInv'
  BY DEF ServiceInv, ChoiceInv, Chosen
<1> QED BY <1>1, <1>2, <1>3, <1>4, <1>5 DEF ServiceInv

LEMMA SignsInOrOut ==
    ASSUME ServiceInv, NEW b \in Sessions, Logout(b) \/ \E x \in Accounts : SignIn(b, x)
    PROVE  ServiceInv'
<1>1. PICK rec \in SessionRecords :
        /\ session' = [session EXCEPT ![b] = rec] /\ rec.draft = None /\ rec.selecting = None
        /\ rec.state = "open" => rec.account \in Accounts
  <2>1. CASE Logout(b)
    <3> DEFINE rec == [NoSession EXCEPT !.state = "closed"]
    <3>1. rec \in SessionRecords /\ rec.draft = None /\ rec.selecting = None /\ rec.state = "closed"
      BY DEF NoSession, SessionRecords
    <3>2. session' = [session EXCEPT ![b] = rec]
      BY <2>1 DEF Logout
    <3> HIDE DEF rec
    <3> QED BY <3>1, <3>2
  <2>2. CASE \E x \in Accounts : SignIn(b, x)
    <3>1. PICK x \in Accounts : SignIn(b, x)
      BY <2>2
    <3> DEFINE rec == [NoSession EXCEPT !.state = "open", !.account = x]
    <3>2. rec \in SessionRecords /\ rec.draft = None /\ rec.selecting = None /\ rec.account = x
      BY DEF NoSession, SessionRecords
    <3>3. session' = [session EXCEPT ![b] = rec]
      BY <3>1 DEF SignIn
    <3> HIDE DEF rec
    <3> QED BY <3>2, <3>3
  <2> QED BY <2>1, <2>2
<1>2. UNCHANGED <<claim, claims, challenge, active, metadata, auth, projection, gallery, suppressed, lock,
                  slot, released>>
  BY DEF Logout, SignIn
<1>3. /\ session' \in [Sessions -> SessionRecords] /\ session'[b] = rec
      /\ \A d \in Sessions : d # b => session'[d] = session[d]
  BY <1>1 DEF ServiceInv, ServiceTypeOK
<1>4. \A d \in Sessions : session'[d].state = "open" => session'[d].account \in Accounts
  BY <1>1, <1>3 DEF ServiceInv, ServiceTypeOK
<1>5. \A d \in Sessions :
               /\ session'[d].selecting \in {None, session[d].selecting}
               /\ session'[d].draft # None =>
                     /\ session[d].draft # None /\ session'[d].draft.signature = session[d].draft.signature
                     /\ session'[d].draft.instance = session[d].draft.instance
                     /\ session'[d].draft.binding = session[d].draft.binding
                     /\ session'[d].draft.auth = session[d].draft.auth
  BY <1>1, <1>3
<1> QED BY <1>2, <1>3, <1>4, <1>5, SessionMoves

LEMMA Suppresses ==
    ASSUME ServiceInv, NEW s \in Signatures, Suppress(s)
    PROVE  ServiceInv'
<1>1. /\ suppressed' = suppressed \cup {s}
      /\ UNCHANGED <<claim, claims, session, challenge, active, metadata, auth, projection, gallery, lock, slot,
                     released>>
  BY DEF Suppress
<1>2. ServiceTypeOK' /\ AuthInv' /\ DraftInv' /\ ChoiceInv'
  BY <1>1 DEF ServiceInv, ServiceTypeOK, AuthInv, AuthOK, ConsumedFor, Unresolved, DraftInv, DraftOK,
              ChoiceInv, Chosen
<1>3. ProofInv' /\ HoldInv' /\ ProjectionInv' /\ ClaimInv' /\ ReleasedInv'
  BY <1>1 DEF ServiceInv, ProofInv, ProofOK, Proving, HoldInv, HoldOK, ProjectionInv, ProjectionOK,
              ClaimInv, ClaimOK, ReleasedInv
<1> QED BY <1>2, <1>3 DEF ServiceInv

LEMMA Ages ==
    ASSUME ServiceInv, TimePasses
    PROVE  ServiceInv'
<1>1. UNCHANGED <<claim, claims, active, metadata, projection, gallery, suppressed, lock, slot, released>>
  BY DEF TimePasses
<1>2. CASE \E c \in Challenges :
             /\ challenge[c] # None /\ challenge[c].fresh
             /\ challenge' = [challenge EXCEPT ![c].fresh = FALSE]
             /\ UNCHANGED <<session, auth>>
  <2>1. PICK c \in Challenges : /\ challenge[c] # None
                                /\ challenge' = [challenge EXCEPT ![c].fresh = FALSE]
                                /\ UNCHANGED <<session, auth>>
    BY <1>2
  <2> DEFINE new == [challenge[c] EXCEPT !.fresh = FALSE]
  <2>2. challenge[c] \in ChallengeRecords
    BY <2>1 DEF ServiceInv, ServiceTypeOK
  <2>3. /\ new \in ChallengeRecords /\ new.session = challenge[c].session /\ new.signature = challenge[c].signature
        /\ new.instance = challenge[c].instance /\ new.status = challenge[c].status
        /\ challenge' = [challenge EXCEPT ![c] = new] /\ new # None
    <3>1. new \in ChallengeRecords
      BY <2>2 DEF ChallengeRecords
    <3> QED BY <2>1, <2>2, <3>1, ServiceAssumption DEF ChallengeRecords, ServiceInv, ServiceTypeOK
  <2> HIDE DEF new
  <2>4. /\ challenge' \in [Challenges -> ChallengeRecords \cup {None}]
        /\ challenge'[c] = new /\ \A d \in Challenges : d # c => challenge'[d] = challenge[d]
        /\ AuthInv' /\ DraftInv' /\ ChoiceInv'
    BY <1>1, <2>1, <2>3, ChallengeMoves
  <2>5. ServiceTypeOK'
    BY <1>1, <2>1, <2>4 DEF ServiceInv, ServiceTypeOK
  <2>6. ProofInv'
    <3> SUFFICES ASSUME NEW q \in Slots, Proving(q) PROVE ProofOK(q)'
      BY <1>1 DEF ProofInv, ProofOK, Proving
    <3>1. ProofOK(q) /\ slot[q].challenge \in Challenges
      BY RequestKinds DEF ServiceInv, ProofInv, Proving, Proofs
    <3> QED BY <1>1, <2>3, <2>4, <3>1 DEF ProofOK, Proving
  <2>7. HoldInv' /\ ProjectionInv' /\ ClaimInv' /\ ReleasedInv'
    BY <1>1, <2>1 DEF ServiceInv, HoldInv, HoldOK, ProjectionInv, ProjectionOK, ClaimInv, ClaimOK, ReleasedInv
  <2> QED BY <2>4, <2>5, <2>6, <2>7 DEF ServiceInv
<1>3. CASE \E b \in Sessions :
             /\ session[b].draft # None /\ session[b].draft.fresh
             /\ session' = [session EXCEPT ![b].draft.fresh = FALSE]
             /\ UNCHANGED <<challenge, auth>>
  <2>1. PICK b \in Sessions : /\ session[b].draft # None
                              /\ session' = [session EXCEPT ![b].draft.fresh = FALSE]
                              /\ UNCHANGED <<challenge, auth>>
    BY <1>3
  <2>2. session[b] \in SessionRecords /\ session[b].draft \in Drafts
    BY <2>1 DEF ServiceInv, ServiceTypeOK, SessionRecords
  <2> DEFINE draft == [session[b].draft EXCEPT !.fresh = FALSE]
             rec == [session[b] EXCEPT !.draft = draft]
  <2>3. /\ draft \in Drafts /\ draft.signature = session[b].draft.signature
        /\ draft.instance = session[b].draft.instance /\ draft.binding = session[b].draft.binding
        /\ draft.auth = session[b].draft.auth
    BY <2>2 DEF Drafts
  <2>4. session' = [session EXCEPT ![b] = rec]
    BY <2>1, <2>2 DEF ServiceInv, ServiceTypeOK, SessionRecords, Drafts
  <2> HIDE DEF draft
  <2>5. /\ rec \in SessionRecords /\ rec.draft = draft /\ rec.selecting = session[b].selecting
        /\ rec.state = session[b].state /\ rec.account = session[b].account
    BY <2>2, <2>3 DEF SessionRecords
  <2> HIDE DEF rec
  <2>6. /\ session' \in [Sessions -> SessionRecords] /\ session'[b] = rec
        /\ \A d \in Sessions : d # b => session'[d] = session[d]
    BY <2>4, <2>5 DEF ServiceInv, ServiceTypeOK
  <2>7. \A d \in Sessions : session'[d].state = "open" => session'[d].account \in Accounts
    BY <2>5, <2>6 DEF ServiceInv, ServiceTypeOK
  <2>8. \A d \in Sessions :
               /\ session'[d].selecting \in {None, session[d].selecting}
               /\ session'[d].draft # None =>
                     /\ session[d].draft # None /\ session'[d].draft.signature = session[d].draft.signature
                     /\ session'[d].draft.instance = session[d].draft.instance
                     /\ session'[d].draft.binding = session[d].draft.binding
                     /\ session'[d].draft.auth = session[d].draft.auth
    BY <2>1, <2>3, <2>5, <2>6
  <2> QED BY <1>1, <2>1, <2>6, <2>7, <2>8, SessionMoves
<1>4. CASE \E a \in Authorizations :
             /\ auth[a] # None /\ auth[a].fresh
             /\ auth' = [auth EXCEPT ![a].fresh = FALSE]
             /\ UNCHANGED <<challenge, session>>
  <2>1. PICK a \in Authorizations : /\ auth[a] # None
                                    /\ auth' = [auth EXCEPT ![a].fresh = FALSE]
                                    /\ UNCHANGED <<challenge, session>>
    BY <1>4
  <2> DEFINE new == [auth[a] EXCEPT !.fresh = FALSE]
  <2>2. auth[a] \in AuthRecords
    BY <2>1 DEF ServiceInv, ServiceTypeOK
  <2>3. /\ new \in AuthRecords /\ new.signature = auth[a].signature /\ new.instance = auth[a].instance
        /\ new.binding = auth[a].binding /\ new.status = auth[a].status
        /\ auth' = [auth EXCEPT ![a] = new]
    BY <2>1, <2>2 DEF AuthRecords, ServiceInv, ServiceTypeOK
  <2> HIDE DEF new
  <2>4. /\ auth' \in [Authorizations -> AuthRecords \cup {None}]
        /\ auth'[a] = new /\ new # None /\ \A d \in Authorizations : d # a => auth'[d] = auth[d]
        /\ AuthInv' /\ DraftInv' /\ ChoiceInv'
    BY <1>1, <2>1, <2>3, AuthMoves DEF Unresolved
  <2>5. \A d \in Authorizations : /\ auth'[d] = None <=> auth[d] = None
                                  /\ auth'[d].signature = auth[d].signature
                                  /\ auth'[d].instance = auth[d].instance
                                  /\ auth'[d].binding = auth[d].binding
                                  /\ auth'[d].status = auth[d].status
    BY <2>1, <2>3, <2>4
  <2>6. ServiceTypeOK'
    BY <1>1, <2>1, <2>4 DEF ServiceInv, ServiceTypeOK
  <2>7. ProofInv'
    BY <1>1, <2>1 DEF ServiceInv, ProofInv, ProofOK, Proving
  <2>8. HoldInv'
    <3> SUFFICES ASSUME NEW q \in Slots PROVE HoldOK(q)'
      BY DEF HoldInv
    <3>1. HoldOK(q) /\ (slot[q].at \in {"sign", "release"} => slot[q].auth \in Authorizations)
      BY RequestKinds DEF ServiceInv, HoldInv, HoldOK, Holds
    <3> QED BY <1>1, <2>5, <3>1 DEF HoldOK
  <2>9. ProjectionInv'
    <3> SUFFICES ASSUME NEW x \in Signatures PROVE ProjectionOK(x)'
      BY DEF ProjectionInv
    <3>1. /\ ProjectionOK(x) /\ projection[x].auth \in Authorizations \cup {None}
          /\ projection[x].state = "finalized" => projection[x].auth # None
      BY DEF ServiceInv, ProjectionInv, ProjectionOK, ServiceTypeOK
    <3> QED BY <1>1, <2>5, <3>1 DEF ProjectionOK
  <2>10. ClaimInv' /\ ReleasedInv'
    BY <1>1, <2>5 DEF ServiceInv, ClaimInv, ClaimOK, ReleasedInv
  <2> QED BY <2>4, <2>6, <2>7, <2>8, <2>9, <2>10 DEF ServiceInv
<1> QED BY <1>2, <1>3, <1>4 DEF TimePasses

LEMMA ServiceStep == ServiceInv /\ [Next]_vars => ServiceInv'
<1> SUFFICES ASSUME ServiceInv, [Next]_vars PROVE ServiceInv'
  OBVIOUS
<1>1. ASSUME NEW r \in Slots, Step(r) PROVE ServiceInv'
  <2>1. CASE CreateChallenge(r) \/ VerifyProof(r) \/ ActivateBinding(r) \/ RejectProof(r)
    BY <2>1, Creates, Verifies, Activates
  <2>2. CASE MetadataFails(r)
    <3>1. slot[r].at \in {"issue", "metadata", "reserve", "release"} /\ Refuse(r)
      BY <2>2 DEF MetadataFails
    <3> QED BY <3>1, Refuses
  <2>3. CASE StartIssue(r) \/ FreezeMetadata(r) \/ Reserve(r)
    BY <2>3, IssueStarts, Freezes, Reserves
  <2>4. CASE Sign(r) \/ SignerFails(r) \/ Respond(r) \/ ForgetWithdrawnClaim(r)
    BY <2>4, Signs, Responds, Forgotten
  <2> QED BY <1>1, <2>1, <2>2, <2>3, <2>4 DEF Step
<1>2. ASSUME NEW r \in Slots, NEW b \in Sessions, NEW s \in Signatures,
             ChooseRecipient(r, b, s) \/ BeginIssue(r, b, s) \/ WithdrawClaim(r, b, s)
      PROVE  ServiceInv'
  BY <1>2, RequestsBegin, Withdraws
<1>3. ASSUME NEW r \in Slots, NEW b \in Sessions, NEW c \in Challenges, BeginConfirm(r, b, c) PROVE ServiceInv'
  BY <1>3, ConfirmsBegin
<1>4. ASSUME NEW b \in Sessions, LinkWallet(b) \/ Logout(b) \/ \E x \in Accounts : SignIn(b, x) PROVE ServiceInv'
  BY <1>4, Links, SignsInOrOut
<1>5. ASSUME NEW x \in Accounts, RevokeBinding(x) PROVE ServiceInv'
  BY <1>5, Revokes
<1>6. ASSUME NEW s \in Signatures, AdvanceFixture(s) \/ ClaimAgain(s) \/ Suppress(s) PROVE ServiceInv'
  BY <1>6, ChainAdvances, ClaimsAgain, Suppresses
<1>7. CASE TimePasses
  BY <1>7, Ages
<1>8. CASE UNCHANGED vars
  <2>1. UNCHANGED <<claim, claims, session, challenge, active, metadata, auth, projection, gallery, suppressed,
                    lock, slot, released>>
    BY <1>8 DEF vars
  <2>2. session' \in [Sessions -> SessionRecords]
    BY <2>1 DEF ServiceInv, ServiceTypeOK
  <2>3. \A b \in Sessions : session'[b].state = "open" => session'[b].account \in Accounts
    BY <2>1 DEF ServiceInv, ServiceTypeOK
  <2> QED BY <2>1, <2>2, <2>3, SessionMoves
<1> QED BY <1>1, <1>2, <1>3, <1>4, <1>5, <1>6, <1>7, <1>8 DEF Next

\* The inductive invariant of the service: challenges, drafts, authorizations, projections
\* and the requests in flight fit together at every await (src/v2/service.ts).
THEOREM ServiceInvariance == Spec => []ServiceInv
<1>1. Init => ServiceInv
  BY ServiceInit
<1>2. ServiceInv /\ [Next]_vars => ServiceInv'
  BY ServiceStep
<1> QED BY <1>1, <1>2, PTL DEF Spec

\* What the invariant says of authorizations: two of one signature that are both
\* redeemable are of the account's one binding, and a binding has one authorization.
LEMMA Authority ==
    ASSUME ServiceInv
    PROVE  BindingFrozen /\ OneAuthorityPerProof /\ OneLiveAuthorization
<1>1. \A a \in Authorizations : AuthOK(a)
  BY DEF ServiceInv, AuthInv
<1>2. BindingFrozen
  BY <1>1 DEF BindingFrozen, Redeemable, AuthOK, Unresolved
<1>3. OneAuthorityPerProof
  BY <1>1 DEF OneAuthorityPerProof, AuthOK, ConsumedFor
<1>4. OneLiveAuthorization
  <2> SUFFICES ASSUME NEW a \in Authorizations, NEW d \in Authorizations, Redeemable(a), Redeemable(d),
                      auth[a].signature = auth[d].signature
               PROVE  a = d
    BY DEF OneLiveAuthorization
  <2>1. auth[a].binding = auth[d].binding /\ auth[a] # None /\ auth[d] # None
    BY <1>2 DEF BindingFrozen, Redeemable
  <2> QED BY <1>1, <2>1 DEF AuthOK
<1> QED BY <1>2, <1>3, <1>4

\* Of each signature at most one authorization can still be redeemed, whatever wallets
\* are linked and whichever requests race (src/v2/service.ts, src/v2/memoryStore.ts).
THEOREM OneLiveAuthorizationAlways == Spec => []OneLiveAuthorization
<1>1. ServiceInv => OneLiveAuthorization
  BY Authority
<1> QED BY <1>1, ServiceInvariance, PTL

\* The binding an authorization was made for stays while it is unresolved, one proof gives
\* one authority for its claim, a response carries what its request reviewed, a session ends
\* with its last choice, nothing outlives a withdrawn claim, and the gallery is the
\* finalized mints (src/v2/service.ts, src/v1/withdrawClaim.ts).
THEOREM RequestsAlwaysHold == Spec => []RequestsHold
<1>1. ServiceInv => RequestsHold
  <2> SUFFICES ASSUME ServiceInv PROVE RequestsHold
    OBVIOUS
  <2>1. BindingFrozen /\ OneAuthorityPerProof
    BY Authority
  <2>2. ReleasedAsReviewed
    BY DEF ReleasedAsReviewed, ServiceInv, ReleasedInv, AuthInv, AuthOK, ConsumedFor
  <2>3. LatestChoiceWins
    BY DEF LatestChoiceWins, ServiceInv, ChoiceInv, Chosen
  <2>4. NothingOfWithdrawnClaims
    BY DEF NothingOfWithdrawnClaims, ServiceInv, ClaimInv, ClaimOK
  <2>5. GalleryIsConsumed
    BY DEF GalleryIsConsumed, ServiceInv, ProjectionInv, ProjectionOK
  <2> QED BY <2>1, <2>2, <2>3, <2>4, <2>5 DEF RequestsHold
<1> QED BY <1>1, ServiceInvariance, PTL
=============================================================================
