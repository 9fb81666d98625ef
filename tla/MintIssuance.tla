---------------------------- MODULE MintIssuance ----------------------------
(***************************************************************************)
(* From a verified wallet to a redeemed mint authorization: the browser    *)
(* sessions of the local server (openMint/security.ts), mint requests and  *)
(* authorize() of OpenMintService (openMint/service.ts) under its          *)
(* per-handle lock (SerialKeys in storage.ts), the read-only chain adapter *)
(* (openMint/network.ts) and the contract (OpenSignatures).                *)
(*                                                                         *)
(* authorize() is cut at its awaited chain reads and store writes: between *)
(* two of them wallets are challenged, browsers log out, clocks move,      *)
(* tokens are minted, operators pause, rotate or revoke, the process dies. *)
(* A chain read is one step because requireStable() rejects a block that   *)
(* was replaced under it; the chain does not reorganise.  Durations are in *)
(* one unit, so what is shorter than a unit (the 15 seconds a voucher must *)
(* at least live, the 60 seconds the clocks may differ) is a constant that *)
(* can be zero.  Left out: the csrf and origin checks, the wallet's        *)
(* transaction nonce and wallet context, artwork (AssessmentLedger) and    *)
(* the limit of ten requests a session may have.                           *)
(***************************************************************************)
EXTENDS Integers, Sequences, FiniteSets

CONSTANTS
    Handles, Wallets,
    Keys, ServiceKey,   \* authorizer keys; the one the service signs with
    Sessions,           \* browser sessions
    Codes,              \* request codes
    Calls,              \* authorize() calls that may be in flight together
    AnyCode,            \* the scope of a general sign-in
    Nothing,            \* an absent wallet, proof, challenge, request, issuance or token
    Scopes,             \* what browsers ask a challenge for: codes and AnyCode
    Window,             \* 600 seconds: longest life of a voucher
    MinWindow,          \* 15 seconds: shortest
    ContractWindow,     \* MAX_AUTHORIZATION_WINDOW of the contract, 900 seconds
    RequestLife,        \* 900 seconds
    ProofLife,          \* 600 seconds: a challenge and the proof it leads to
    SessionLife,        \* 24 hours
    Skew,               \* 60 seconds
    Operators,          \* bound of the model: the contract's roles in use
    MaxTime,            \* bound of the model: both clocks run over 1..MaxTime
    MaxGeneration,      \* bound of the model: challenges per session
    MaxFaults           \* bound of the model: crashes plus failed writes

ASSUME KeyAssumption == ServiceKey \in Keys
ASSUME ScopeAssumption == AnyCode \notin Codes /\ Scopes \subseteq Codes \cup {AnyCode}
ASSUME WindowAssumption ==
    /\ Window \in Nat \ {0} /\ MinWindow \in Nat /\ ContractWindow \in Nat
    /\ MinWindow < Window /\ Window <= ContractWindow
ASSUME LifeAssumption ==
    /\ RequestLife \in Nat /\ ProofLife \in Nat /\ SessionLife \in Nat /\ Skew \in Nat
ASSUME OperatorAssumption == Operators \subseteq {"authorizer manager", "nonce revoker", "pauser"}
ASSUME BoundAssumption ==
    /\ MaxTime \in Nat \ {0} /\ MaxGeneration \in Nat /\ MaxFaults \in Nat

VARIABLES
    time, authorizer, paused, usedNonces, revokedNonces, provenance,  \* the contract
    clock,          \* the server's clock
    session,        \* SiteSession per browser; `gen' of a proof is history
    checking,       \* verify() calls awaiting the signature check, per session
    request,        \* request:<code>
    issuance,       \* issuance:<handle>: the reservation, and whether it is signed
    nextNonce,      \* randomBytes(32): never the same twice
    call,           \* authorize() calls
    queue,          \* SerialKeys: who holds the lock of a handle, and who waits
    released,       \* the signed vouchers that were answered to a browser
    faults          \* crashes and failed writes so far

chain == <<time, authorizer, paused, usedNonces, revokedNonces, provenance>>
browsers == <<session, checking>>
store == <<request, issuance, nextNonce>>
process == <<call, queue>>
vars == <<chain, clock, browsers, store, process, released, faults>>

Contract == INSTANCE OpenSignatures WITH
    Nonces <- Nat, FirstKey <- ServiceKey, MaxWindow <- ContractWindow

Vouchers == Contract!Vouchers
Challenges == [wallet : Wallets, scope : Codes \cup {AnyCode}, expires : Nat]
Proofs == [wallet : Wallets, scope : Codes \cup {AnyCode}, expires : Nat, gen : Nat]
Requests == [handle : Handles, owner : Sessions, wallet : Wallets,
             status : {"pending", "ready", "failed"}, expires : Nat]
Issuances == [code : Codes, voucher : Vouchers, signed : BOOLEAN]
ASSUME NothingAssumption ==
    /\ Nothing \notin Wallets
    /\ Nothing \notin Vouchers
    /\ Nothing \notin Challenges
    /\ Nothing \notin Proofs
    /\ Nothing \notin Requests
    /\ Nothing \notin Issuances

NoSession == [status |-> "new", ends |-> 0, gen |-> 0, wallet |-> Nothing,
              proof |-> Nothing, challenge |-> Nothing]
Idle == [pc |-> "idle", code |-> Nothing, session |-> Nothing, recipient |-> Nothing,
         gen |-> 0, chainTime |-> 0]
Minted(h) == provenance[h] # Nothing

Init ==
    /\ Contract!Init /\ clock = 1
    /\ session = [s \in Sessions |-> NoSession] /\ checking = [s \in Sessions |-> {}]
    /\ request = [c \in Codes |-> Nothing]
    /\ issuance = [h \in Handles |-> Nothing] /\ nextNonce = 0
    /\ call = [k \in Calls |-> Idle] /\ queue = [h \in Handles |-> <<>>]
    /\ released = {} /\ faults = 0
-----------------------------------------------------------------------------
(* Sessions. *)

Alive(s) == session[s].status = "live" /\ clock < session[s].ends

\* #walletFresh, walletVerified, walletProved, ownedRequest.
WalletFresh(s) ==
    LET p == session[s].proof IN
    Alive(s) /\ p # Nothing /\ p.wallet = session[s].wallet /\ clock < p.expires
WalletVerified(s) == WalletFresh(s) /\ session[s].proof.scope = AnyCode
Owned(c, s) ==
    /\ request[c] # Nothing /\ request[c].owner = s /\ request[c].wallet = session[s].wallet
    /\ Alive(s) /\ clock < request[c].expires
WalletProved(c, s) ==
    /\ WalletFresh(s) /\ session[s].proof.scope \in {AnyCode, c}
    /\ request[c].owner = s /\ request[c].wallet = session[s].wallet

OpenSession(s) ==
    /\ session[s].status = "new"
    /\ session' = [session EXCEPT ![s].status = "live", ![s].ends = clock + SessionLife]
    /\ UNCHANGED <<chain, clock, checking, store, process, released, faults>>

\* A new challenge supersedes the old one and discards the proof.
Challenge(s, w, scope) ==
    /\ Alive(s) /\ session[s].gen < MaxGeneration
    /\ session' = [session EXCEPT ![s].proof = Nothing, ![s].gen = @ + 1,
         ![s].challenge = [wallet |-> w, scope |-> scope, expires |-> clock + ProofLife]]
    /\ UNCHANGED <<chain, clock, checking, store, process, released, faults>>

\* verify() up to its await: the challenge is consumed.
VerifyBegin(s) ==
    LET ch == session[s].challenge IN
    /\ Alive(s) /\ ch # Nothing /\ clock < ch.expires
    /\ checking' = [checking EXCEPT ![s] = @ \cup {[ch |-> ch, gen |-> session[s].gen]}]
    /\ session' = [session EXCEPT ![s].challenge = Nothing]
    /\ UNCHANGED <<chain, clock, store, process, released, faults>>

\* ... and after it.  A bad signature, or a session that moved on, proves nothing.
StillCurrent(s, x) ==
    /\ session[s].gen = x.gen /\ session[s].challenge = Nothing
    /\ Alive(s) /\ clock < x.ch.expires
VerifyEnd(s, x, valid) ==
    /\ x \in checking[s]
    /\ checking' = [checking EXCEPT ![s] = @ \ {x}]
    /\ session' = IF valid /\ StillCurrent(s, x)
                  THEN [session EXCEPT ![s].wallet = x.ch.wallet,
                          ![s].proof = [wallet |-> x.ch.wallet, scope |-> x.ch.scope,
                                        expires |-> x.ch.expires, gen |-> x.gen]]
                  ELSE session
    /\ UNCHANGED <<chain, clock, store, process, released, faults>>

\* The browser gets a new session; its old one never lives again.
Logout(s) ==
    /\ Alive(s)
    /\ session' = [session EXCEPT ![s].status = "gone", ![s].gen = @ + 1,
          ![s].wallet = Nothing, ![s].proof = Nothing, ![s].challenge = Nothing]
    /\ UNCHANGED <<chain, clock, checking, store, process, released, faults>>
-----------------------------------------------------------------------------
(* Requests. *)

InStep == clock <= time + Skew /\ time <= clock + Skew
Trusted == authorizer = ServiceKey          \* trustedBlock()

\* request(): the chain is in step, the handle unminted, minting not paused.
Prepare(s, c, h) ==
    /\ WalletVerified(s) /\ request[c] = Nothing
    /\ Trusted /\ ~Minted(h) /\ InStep /\ ~paused
    /\ \A d \in Codes : request[d] # Nothing =>
          ~(/\ request[d].owner = s /\ request[d].handle = h
            /\ request[d].wallet = session[s].wallet
            /\ request[d].status # "failed" /\ clock < request[d].expires)
    /\ request' = [request EXCEPT ![c] =
          [handle |-> h, owner |-> s, wallet |-> session[s].wallet, status |-> "pending",
           expires |-> clock + RequestLife]]
    /\ UNCHANGED <<chain, clock, browsers, issuance, nextNonce, process, released, faults>>

\* #complete(), when the assessment and the artwork are on record, or failed.
Complete(c) ==
    /\ request[c] # Nothing /\ request[c].status = "pending"
    /\ \E status \in {"ready", "failed"} : request' = [request EXCEPT ![c].status = status]
    /\ UNCHANGED <<chain, clock, browsers, issuance, nextNonce, process, released, faults>>
-----------------------------------------------------------------------------
(* authorize(). *)

HandleOf(k) == request[call[k].code].handle
Goto(k, pc) == call' = [call EXCEPT ![k].pc = pc]
\* The call is over, by an answer or an error; SerialKeys starts the next one.
Leave(k) ==
    /\ call' = [call EXCEPT ![k] = Idle]
    /\ queue' = [queue EXCEPT ![HandleOf(k)] = Tail(@)]

\* Consent, an owned request and a proved wallet; then it queues for the handle.
Submit(k, c, s) ==
    /\ call[k] = Idle /\ Owned(c, s) /\ WalletProved(c, s)
    /\ call' = [call EXCEPT ![k] = [Idle EXCEPT !.pc = "queued", !.code = c, !.session = s]]
    /\ queue' = [queue EXCEPT ![request[c].handle] = Append(@, k)]
    /\ UNCHANGED <<chain, clock, browsers, store, released, faults>>

\* The lock is ours: everything is checked again, wallet and generation are kept.
Enter(k) ==
    LET c == call[k].code  s == call[k].session IN
    /\ call[k].pc = "queued" /\ Head(queue[HandleOf(k)]) = k
    /\ IF Owned(c, s) /\ WalletProved(c, s) /\ request[c].status = "ready"
       THEN /\ call' = [call EXCEPT ![k].pc = "clock", ![k].recipient = session[s].wallet,
                                       ![k].gen = session[s].gen]
            /\ UNCHANGED queue
       ELSE Leave(k)
    /\ UNCHANGED <<chain, clock, browsers, store, released, faults>>

\* network.now(), and the clocks compared.
ReadClock(k) ==
    /\ call[k].pc = "clock"
    /\ IF Trusted /\ InStep
       THEN /\ call' = [call EXCEPT ![k].pc = "state", ![k].chainTime = time]
            /\ UNCHANGED queue
       ELSE Leave(k)
    /\ UNCHANGED <<chain, clock, browsers, store, released, faults>>

\* this.state(): after the clock, so that an expired reservation was not redeemed.
BadReadState(k) ==                                  \* slip: state read before the clock
    /\ call[k].pc = "state"
    /\ call' = [call EXCEPT ![k].pc = "issue", ![k].chainTime = time] /\ UNCHANGED queue
    /\ UNCHANGED <<chain, clock, browsers, store, released, faults>>
ReadState(k) ==
    /\ call[k].pc = "state"
    /\ IF Trusted /\ ~Minted(HandleOf(k)) THEN Goto(k, "issue") /\ UNCHANGED queue ELSE Leave(k)
    /\ UNCHANGED <<chain, clock, browsers, store, released, faults>>

\* FileKeyValueStore.put can throw before the rename ("lost") or after it ("kept").
PutResults == {"ok"} \cup (IF faults < MaxFaults THEN {"lost", "kept"} ELSE {})
Faulty(w) == faults' = IF w = "ok" THEN faults ELSE faults + 1

BadHeld(h, chainTime) == FALSE                      \* slip: an unexpired reservation is replaced
Held(h, chainTime) == issuance[h] # Nothing /\ chainTime <= issuance[h].voucher.deadline
Deadline(c, chainTime) ==
    IF request[c].expires <= chainTime + Window THEN request[c].expires ELSE chainTime + Window

\* A reservation that has not expired is reused by its own request and wallet
\* and refused to any other; otherwise a new one is written before it is signed.
Issue(k) ==
    LET h == HandleOf(k)  c == call[k].code  at == call[k].chainTime
        voucher == [handle |-> h, recipient |-> call[k].recipient, nonce |-> nextNonce,
                    issuedAt |-> at, deadline |-> Deadline(c, at)]
    IN
    /\ call[k].pc = "issue"
    /\ \/ /\ Held(h, at) /\ issuance[h].code = c /\ issuance[h].voucher.recipient = call[k].recipient
          /\ Goto(k, "confirm") /\ UNCHANGED <<issuance, nextNonce, queue, faults>>
       \/ /\ \/ Held(h, at) /\ ~(issuance[h].code = c /\ issuance[h].voucher.recipient = call[k].recipient)
             \/ ~Held(h, at) /\ Deadline(c, at) <= at + MinWindow
          /\ Leave(k) /\ UNCHANGED <<issuance, nextNonce, faults>>
       \/ /\ ~Held(h, at) /\ Deadline(c, at) > at + MinWindow
          /\ nextNonce' = nextNonce + 1
          /\ \E w \in PutResults :
                /\ Faulty(w)
                /\ issuance' = IF w = "lost" THEN issuance
                     ELSE [issuance EXCEPT ![h] = [code |-> c, voucher |-> voucher, signed |-> FALSE]]
                /\ IF w = "ok" THEN Goto(k, "confirm") /\ UNCHANGED queue ELSE Leave(k)
    /\ UNCHANGED <<chain, clock, browsers, request, released>>

BadSameConsent(k) == WalletProved(call[k].code, call[k].session)    \* slip: generation not compared
\* The proof is still the one that this call entered with.
SameConsent(k) ==
    LET s == call[k].session IN
    /\ WalletProved(call[k].code, s)
    /\ session[s].wallet = call[k].recipient /\ session[s].gen = call[k].gen

\* No signature for a wallet that changed while the reservation was written.
Confirm(k) ==
    /\ call[k].pc = "confirm"
    /\ IF SameConsent(k)
       THEN /\ Goto(k, IF issuance[HandleOf(k)].signed THEN "transact" ELSE "sign")
            /\ UNCHANGED queue
       ELSE Leave(k)
    /\ UNCHANGED <<chain, clock, browsers, store, released, faults>>

\* available(): what the contract would refuse is neither signed nor answered.
Available(v) == Contract!Active(v) /\ ~Minted(v.handle) /\ Contract!NonceFree(v.nonce) /\ ~paused

\* network.sign(), and the signature stored beside its reservation.
Sign(k) ==
    LET h == HandleOf(k) IN
    /\ call[k].pc = "sign"
    /\ IF Trusted /\ Available(issuance[h].voucher)
       THEN \E w \in PutResults :
               /\ Faulty(w)
               /\ issuance' = IF w = "lost" THEN issuance ELSE [issuance EXCEPT ![h].signed = TRUE]
               /\ IF w = "ok" THEN Goto(k, "transact") /\ UNCHANGED queue ELSE Leave(k)
       ELSE Leave(k) /\ UNCHANGED <<issuance, faults>>
    /\ UNCHANGED <<chain, clock, browsers, request, nextNonce, released>>

\* network.transaction(): checked once more and simulated as the recipient.
Transact(k) ==
    /\ call[k].pc = "transact"
    /\ IF Trusted /\ Available(issuance[HandleOf(k)].voucher)
       THEN Goto(k, "answer") /\ UNCHANGED queue
       ELSE Leave(k)
    /\ UNCHANGED <<chain, clock, browsers, store, released, faults>>

\* walletContext(), the last look at the session, and the answer.
Answer(k) ==
    /\ call[k].pc = "answer" /\ Leave(k)
    /\ released' = IF Trusted /\ SameConsent(k)
                   THEN released \cup {issuance[HandleOf(k)].voucher} ELSE released
    /\ UNCHANGED <<chain, clock, browsers, store, faults>>

\* A chain read throws or times out.
RpcFails(k) ==
    /\ call[k].pc \in {"clock", "state", "sign", "transact", "answer"} /\ Leave(k)
    /\ UNCHANGED <<chain, clock, browsers, store, released, faults>>

Proceed(k) ==
    \/ Enter(k) \/ ReadClock(k) \/ ReadState(k) \/ Issue(k)
    \/ Confirm(k) \/ Sign(k) \/ Transact(k) \/ Answer(k)
-----------------------------------------------------------------------------
(* The world around. *)

service == <<clock, browsers, store, process, released, faults>>

\* A browser sends the transaction it was given.
Redeem(v) == Contract!Mint(v, ServiceKey, v.recipient) /\ UNCHANGED service

Administer ==
    /\ \/ "authorizer manager" \in Operators /\ \E key \in Keys : Contract!SetTrustedAuthorizer(key)
       \/ /\ "nonce revoker" \in Operators
          /\ \E h \in Handles :
                issuance[h] # Nothing /\ Contract!RevokeNonce(issuance[h].voucher.nonce)
       \/ "pauser" \in Operators /\ (Contract!PauseMinting \/ Contract!UnpauseMinting)
    /\ UNCHANGED service

Block == Contract!Block /\ UNCHANGED service
Tick ==
    /\ clock < MaxTime /\ clock' = clock + 1
    /\ UNCHANGED <<chain, browsers, store, process, released, faults>>

BadRestart ==                                       \* slip: reservations kept in memory only
    /\ faults < MaxFaults /\ faults' = faults + 1
    /\ session' = [s \in Sessions |->
          IF session[s].status = "live" THEN [NoSession EXCEPT !.status = "gone"] ELSE session[s]]
    /\ checking' = [s \in Sessions |-> {}] /\ issuance' = [h \in Handles |-> Nothing]
    /\ call' = [k \in Calls |-> Idle] /\ queue' = [h \in Handles |-> <<>>]
    /\ UNCHANGED <<chain, clock, request, nextNonce, released>>
\* The process dies and starts again: sessions and calls are gone, what was put
\* is kept, and recoverInterruptedRequests() fails the pending requests.
Restart ==
    /\ faults < MaxFaults /\ faults' = faults + 1
    /\ session' = [s \in Sessions |->
          IF session[s].status = "live"
          THEN [session[s] EXCEPT !.status = "gone", !.gen = @ + 1,
                  !.wallet = Nothing, !.proof = Nothing, !.challenge = Nothing]
          ELSE session[s]]
    /\ checking' = [s \in Sessions |-> {}]
    /\ request' = [c \in Codes |->
          IF request[c] # Nothing /\ request[c].status = "pending"
          THEN [request[c] EXCEPT !.status = "failed"] ELSE request[c]]
    /\ call' = [k \in Calls |-> Idle] /\ queue' = [h \in Handles |-> <<>>]
    /\ UNCHANGED <<chain, clock, issuance, nextNonce, released>>

Next ==
    \/ \E s \in Sessions : OpenSession(s) \/ VerifyBegin(s) \/ Logout(s)
    \/ \E s \in Sessions, w \in Wallets, scope \in Scopes : Challenge(s, w, scope)
    \/ \E s \in Sessions : \E x \in checking[s], valid \in BOOLEAN : VerifyEnd(s, x, valid)
    \/ \E s \in Sessions, c \in Codes, h \in Handles : Prepare(s, c, h)
    \/ \E c \in Codes : Complete(c)
    \/ \E k \in Calls, c \in Codes, s \in Sessions : Submit(k, c, s)
    \/ \E k \in Calls : Proceed(k) \/ RpcFails(k)
    \/ \E v \in released : Redeem(v)
    \/ Administer
    \/ Block
    \/ Tick
    \/ Restart
Spec == Init /\ [][Next]_vars

\* The event loop runs what is ready and every chain read has a timeout.
Fairness == \A k \in Calls : WF_vars(Proceed(k))
-----------------------------------------------------------------------------
Inside(k) == call[k].pc \notin {"idle", "queued"}
Steps == {"idle", "queued", "clock", "state", "issue", "confirm", "sign", "transact", "answer"}
CallRecords == [pc : Steps, code : Codes \cup {Nothing}, session : Sessions \cup {Nothing},
                recipient : Wallets \cup {Nothing}, gen : Nat, chainTime : Nat]
SiteSessions == [status : {"new", "live", "gone"}, ends : Nat, gen : Nat,
                 wallet : Wallets \cup {Nothing}, proof : Proofs \cup {Nothing},
                 challenge : Challenges \cup {Nothing}]

TypeOK ==
    /\ Contract!TypeOK /\ clock \in 1..MaxTime
    /\ session \in [Sessions -> SiteSessions]
    /\ checking \in [Sessions -> SUBSET [ch : Challenges, gen : Nat]]
    /\ request \in [Codes -> Requests \cup {Nothing}]
    /\ issuance \in [Handles -> Issuances \cup {Nothing}] /\ nextNonce \in Nat
    /\ call \in [Calls -> CallRecords] /\ queue \in [Handles -> Seq(Calls)]
    /\ released \subseteq Vouchers /\ faults \in 0..MaxFaults

\* Of one handle at most one voucher is redeemable by any wallet at any time,
\* though vouchers cannot be revoked by the service and reservations are replaced.
OneRedeemable ==
    \A v, w \in released :
        v.handle = w.handle /\ time <= v.deadline /\ time <= w.deadline => v = w

\* A minted token came from the reservation on record: a reservation is never
\* replaced after it, or while it, was redeemed.
MintMatchesReservation ==
    \A h \in Handles : Minted(h) => issuance[h] # Nothing /\ provenance[h] = issuance[h].voucher

\* A proof answers the latest challenge of its session and no logout came after
\* it, however slowly its signature was checked.
ProofIsCurrent ==
    \A s \in Sessions : session[s].proof # Nothing =>
        session[s].proof.gen = session[s].gen /\ session[s].challenge = Nothing

\* A reservation is one that the contract accepts, for the wallet of its request,
\* and ends with it: an expired request does not block the next one.
ReservationFitsRequest ==
    \A h \in Handles : issuance[h] # Nothing =>
        LET v == issuance[h].voucher  r == request[issuance[h].code] IN
        /\ Contract!WindowOK(v)
        /\ v.handle = h /\ r.handle = h /\ v.recipient = r.wallet /\ v.deadline <= r.expires

\* One call of a handle is past its lock, the head of the queue, and nobody is
\* in the queue whose call is over.
LockIsSound ==
    \A h \in Handles :
        /\ \A i \in DOMAIN queue[h] : LET k == queue[h][i] IN
              call[k].pc # "idle" /\ HandleOf(k) = h /\ (Inside(k) => i = 1)
        /\ \A k \in Calls : call[k].pc # "idle" /\ HandleOf(k) = h =>
              \E i \in DOMAIN queue[h] : queue[h][i] = k

\* No voucher is answered to a session that was challenged again or logged out
\* since its call entered, even if the same wallet proved itself anew.
AnswerUnderSameProof ==
    [][\A k \in Calls : call[k].pc = "answer" /\ call'[k] = Idle /\ released' # released =>
          LET p == session[call[k].session].proof IN
          p # Nothing /\ p.gen = call[k].gen /\ p.wallet = call[k].recipient]_vars

\* The service and the contract keep the promise of MintPromise.
Promise == INSTANCE MintPromise WITH
    reservation <- [h \in Handles |-> IF issuance[h] = Nothing THEN Nothing ELSE issuance[h].voucher],
    minted <- provenance
KeepsMintPromise == Promise!Spec
=============================================================================
