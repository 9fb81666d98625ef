------------------------ MODULE MintIssuance_proofs ------------------------
(***************************************************************************)
(* Proofs about MintIssuance, for any number of handles, wallets, browsers,*)
(* requests and calls, any durations with Window <= ContractWindow, and    *)
(* any number of faults.                                                   *)
(***************************************************************************)
EXTENDS MintIssuance, TLAPS

CallSteps == Steps \ {"idle"}
Issued == {"confirm", "sign", "transact", "answer"}

\* A call in progress has a request; past its lock it acts for the wallet of
\* that request; past the clock it knows a time that was; about to issue, it
\* knows that a minted handle still has an unexpired reservation; and past
\* issuing there is a reservation.
CallOK(k) ==
    /\ call[k].pc # "idle" =>
          call[k].code \in Codes /\ call[k].session \in Sessions /\ request[call[k].code] # Nothing
    /\ Inside(k) => call[k].recipient \in Wallets /\ call[k].recipient = request[call[k].code].wallet
    /\ Inside(k) /\ call[k].pc # "clock" => call[k].chainTime \in 1..time
    /\ call[k].pc = "issue" /\ Minted(HandleOf(k)) => Held(HandleOf(k), call[k].chainTime)
    /\ call[k].pc \in Issued => issuance[HandleOf(k)] # Nothing
CallInv == \A k \in Calls : CallOK(k)

\* Nobody queues twice.
QueueOnce ==
    \A h \in Handles : \A i, j \in DOMAIN queue[h] : queue[h][i] = queue[h][j] => i = j
LockInv == LockIsSound /\ QueueOnce

\* A reservation has a request that it fits, is not of the future, and its
\* nonce was drawn.
IssuanceInv ==
    /\ ReservationFitsRequest
    /\ \A h \in Handles : issuance[h] # Nothing =>
          /\ request[issuance[h].code] # Nothing
          /\ issuance[h].voucher.issuedAt <= time /\ issuance[h].voucher.nonce < nextNonce

\* A voucher a browser holds is the reservation on record or has expired.
ReleasedInv ==
    \A v \in released :
        issuance[v.handle] # Nothing /\ (v = issuance[v.handle].voucher \/ v.deadline < time)

Inv ==
    /\ TypeOK /\ ProofIsCurrent /\ CallInv /\ LockInv
    /\ IssuanceInv /\ ReleasedInv /\ MintMatchesReservation

\* A request, once written, keeps its handle, wallet and expiry.
RequestsKept ==
    \A c \in Codes : request[c] # Nothing =>
        /\ request'[c] # Nothing
        /\ request'[c].handle = request[c].handle /\ request'[c].wallet = request[c].wallet
        /\ request'[c].expires = request[c].expires
-----------------------------------------------------------------------------
(* Types. *)

LEMMA TypeInit == Init => TypeOK
<1> SUFFICES ASSUME Init PROVE TypeOK
  OBVIOUS
<1> USE DEF Init
<1>1. Contract!TypeOK
  <2>1. time \in 1..MaxTime
    BY BoundAssumption DEF Contract!Init
  <2>2. provenance \in [Handles -> Contract!Vouchers \cup {Nothing}]
    BY DEF Contract!Init
  <2>3. authorizer \in Keys /\ paused \in BOOLEAN
    BY KeyAssumption DEF Contract!Init
  <2> QED BY <2>1, <2>2, <2>3 DEF Contract!Init, Contract!TypeOK, Contract!Times
<1>2. NoSession \in SiteSessions /\ Idle \in CallRecords
  BY DEF SiteSessions, NoSession, CallRecords, Steps, Idle
<1>3. clock \in 1..MaxTime /\ faults \in 0..MaxFaults
  BY BoundAssumption
<1>4. queue \in [Handles -> Seq(Calls)]
  OBVIOUS
<1> QED BY <1>1, <1>2, <1>3, <1>4 DEF TypeOK

LEMMA HandleType ==
    ASSUME TypeOK, CallInv, NEW k \in Calls, call[k].pc # "idle"
    PROVE  HandleOf(k) \in Handles
BY DEF TypeOK, CallInv, CallOK, HandleOf, Requests

\* A call past its lock is the head of its queue.
LEMMA HeadOfQueue ==
    ASSUME TypeOK, CallInv, LockInv, NEW k \in Calls, call[k].pc # "idle",
           Inside(k) \/ (queue[HandleOf(k)] # <<>> => Head(queue[HandleOf(k)]) = k)
    PROVE  /\ Len(queue[HandleOf(k)]) > 0 /\ queue[HandleOf(k)][1] = k
           /\ queue[HandleOf(k)] \in Seq(Calls) /\ queue[HandleOf(k)] # <<>>
<1> DEFINE h == HandleOf(k)
<1>1. h \in Handles
  BY HandleType
<1>2. queue[h] \in Seq(Calls)
  BY <1>1 DEF TypeOK
<1>3. PICK i \in DOMAIN queue[h] : queue[h][i] = k
  BY <1>1 DEF LockInv, LockIsSound
<1>4. queue[h] # <<>> /\ Len(queue[h]) > 0
  BY <1>2, <1>3
<1>5. queue[h][1] = k
  <2>1. CASE Inside(k)
    BY <1>1, <1>3, <2>1 DEF LockInv, LockIsSound
  <2>2. CASE Head(queue[h]) = k
    BY <1>2, <1>4, <2>2
  <2> QED BY <1>4, <2>1, <2>2
<1> QED BY <1>2, <1>4, <1>5

\* Leaving keeps the types.
LEMMA TypeLeave ==
    ASSUME Inv, NEW k \in Calls, call[k].pc # "idle",
           Inside(k) \/ Head(queue[HandleOf(k)]) = k, Leave(k)
    PROVE  call' \in [Calls -> CallRecords] /\ queue' \in [Handles -> Seq(Calls)]
<1>1. Idle \in CallRecords
  BY DEF Idle, CallRecords, Steps
<1>2. call' \in [Calls -> CallRecords]
  BY <1>1 DEF Inv, TypeOK, Leave
<1>3. Tail(queue[HandleOf(k)]) \in Seq(Calls)
  BY HeadOfQueue DEF Inv
<1>4. queue \in [Handles -> Seq(Calls)]
  BY DEF Inv, TypeOK
<1>5. queue' \in [Handles -> Seq(Calls)]
  BY <1>3, <1>4 DEF Leave
<1> QED BY <1>2, <1>5

\* So does a call that only moves on.
LEMMA TypeGoto ==
    ASSUME TypeOK, NEW k \in Calls, NEW pc \in Steps, Goto(k, pc)
    PROVE  call' \in [Calls -> CallRecords]
BY DEF TypeOK, Goto, CallRecords

\* The steps of the chain keep the contract's types and never turn time back.
LEMMA ChainStep ==
    ASSUME Contract!TypeOK,
           \/ \E v \in Vouchers : Contract!Mint(v, ServiceKey, v.recipient)
           \/ \E key \in Keys : Contract!SetTrustedAuthorizer(key)
           \/ \E n \in Nat : Contract!RevokeNonce(n)
           \/ Contract!PauseMinting
           \/ Contract!UnpauseMinting
           \/ Contract!Block
    PROVE  Contract!TypeOK' /\ time <= time'
<1> USE DEF Contract!TypeOK, Contract!Times, Contract!mints
<1>0. time \in Nat
  BY BoundAssumption
<1>1. CASE \E v \in Vouchers : Contract!Mint(v, ServiceKey, v.recipient)
  <2>1. PICK v \in Vouchers : Contract!Mint(v, ServiceKey, v.recipient)
    BY <1>1
  <2>2. v.nonce \in Nat
    BY DEF Vouchers, Contract!Vouchers
  <2>3. provenance' \in [Handles -> Contract!Vouchers \cup {Nothing}]
    BY <2>1 DEF Vouchers, Contract!Mint
  <2>4. UNCHANGED <<time, authorizer, paused, revokedNonces>> /\ usedNonces' \subseteq Nat
    BY <2>1, <2>2 DEF Contract!Mint
  <2> QED BY <1>0, <2>3, <2>4
<1>2. CASE \E key \in Keys : Contract!SetTrustedAuthorizer(key)
  BY <1>2 DEF Contract!SetTrustedAuthorizer
<1>3. CASE \E n \in Nat : Contract!RevokeNonce(n)
  BY <1>3 DEF Contract!RevokeNonce
<1>4. CASE Contract!PauseMinting
  BY <1>4 DEF Contract!PauseMinting
<1>5. CASE Contract!UnpauseMinting
  <2>1. paused' \in BOOLEAN /\ UNCHANGED <<time, authorizer, revokedNonces, usedNonces, provenance>>
    BY <1>5, Zenon DEF Contract!UnpauseMinting
  <2> QED BY <1>0, <2>1
<1>6. CASE Contract!Block
  BY <1>6, BoundAssumption DEF Contract!Block
<1> QED BY <1>1, <1>2, <1>3, <1>4, <1>5, <1>6

\* What the world around does to the chain is one of these steps.
LEMMA WorldStep ==
    ASSUME TypeOK, (\E v \in released : Redeem(v)) \/ Administer \/ Block
    PROVE  Contract!TypeOK' /\ time <= time' /\ UNCHANGED service
<1>1. Contract!TypeOK
  BY DEF TypeOK
<1>2. CASE \E v \in released : Redeem(v)
  BY <1>1, <1>2, ChainStep DEF TypeOK, Redeem
<1>3. CASE Administer
  <2>1. \A h \in Handles : issuance[h] # Nothing => issuance[h].voucher.nonce \in Nat
    BY DEF TypeOK, Issuances, Vouchers, Contract!Vouchers
  <2> QED BY <1>1, <1>3, <2>1, ChainStep DEF Administer
<1>4. CASE Block
  BY <1>1, <1>4, ChainStep DEF Block
<1> QED BY <1>2, <1>3, <1>4

\* An unchanged contract keeps its types.
LEMMA ChainUnchanged ==
    ASSUME Contract!TypeOK, UNCHANGED chain
    PROVE  Contract!TypeOK' /\ time' = time
BY DEF chain, Contract!TypeOK, Contract!Times

\* What the browsers do leaves everything but sessions alone.
Browser ==
    \/ \E s \in Sessions : OpenSession(s) \/ VerifyBegin(s) \/ Logout(s)
    \/ \E s \in Sessions, w \in Wallets, scope \in Scopes : Challenge(s, w, scope)
    \/ \E s \in Sessions : \E x \in checking[s], valid \in BOOLEAN : VerifyEnd(s, x, valid)

LEMMA BrowserTypes ==
    ASSUME TypeOK, ProofIsCurrent, Browser
    PROVE  /\ session' \in [Sessions -> SiteSessions]
           /\ checking' \in [Sessions -> SUBSET [ch : Challenges, gen : Nat]]
           /\ ProofIsCurrent'
           /\ UNCHANGED <<chain, clock, store, process, released, faults>>
<1> DEFINE Goal ==
      /\ session' \in [Sessions -> SiteSessions]
      /\ checking' \in [Sessions -> SUBSET [ch : Challenges, gen : Nat]]
      /\ ProofIsCurrent'
      /\ UNCHANGED <<chain, clock, store, process, released, faults>>
<1>0. /\ session \in [Sessions -> SiteSessions] /\ clock \in Nat
      /\ checking \in [Sessions -> SUBSET [ch : Challenges, gen : Nat]]
      /\ \A s \in Sessions : session[s].proof # Nothing =>
            session[s].proof.gen = session[s].gen /\ session[s].challenge = Nothing
  BY BoundAssumption DEF TypeOK, ProofIsCurrent
<1>1. ASSUME NEW s \in Sessions, NEW entry \in SiteSessions,
             entry.proof # Nothing => entry.proof.gen = entry.gen /\ entry.challenge = Nothing,
             session' = [session EXCEPT ![s] = entry]
      PROVE  session' \in [Sessions -> SiteSessions] /\ ProofIsCurrent'
  BY <1>0, <1>1 DEF ProofIsCurrent
<1>2. ASSUME NEW s \in Sessions, OpenSession(s) PROVE Goal
  <2> DEFINE entry == [session[s] EXCEPT !.status = "live", !.ends = clock + SessionLife]
  <2>0. session[s] \in SiteSessions /\ clock + SessionLife \in Nat
    BY <1>0, LifeAssumption
  <2>1. entry \in SiteSessions
    BY <2>0 DEF SiteSessions
  <2>2. /\ entry.proof = session[s].proof /\ entry.gen = session[s].gen
        /\ entry.challenge = session[s].challenge
    BY <1>0 DEF SiteSessions
  <2>3. session' = [session EXCEPT ![s] = entry]
    BY <1>0, <1>2 DEF OpenSession
  <2> HIDE DEF entry
  <2>4. session' \in [Sessions -> SiteSessions] /\ ProofIsCurrent'
    BY <1>0, <1>1, <2>1, <2>2, <2>3
  <2> QED BY <1>0, <1>2, <2>4 DEF OpenSession
<1>3. ASSUME NEW s \in Sessions, NEW w \in Wallets, NEW scope \in Scopes, Challenge(s, w, scope)
      PROVE  Goal
  <2> DEFINE new == [wallet |-> w, scope |-> scope, expires |-> clock + ProofLife]
             entry == [session[s] EXCEPT !.proof = Nothing, !.gen = @ + 1, !.challenge = new]
  <2>1. new \in Challenges
    BY <1>0, LifeAssumption, ScopeAssumption DEF Challenges
  <2>2. session' = [session EXCEPT ![s] = entry]
    BY <1>0, <1>3 DEF Challenge
  <2> HIDE DEF new
  <2>0. session[s] \in SiteSessions /\ session[s].gen + 1 \in Nat
    BY <1>0 DEF SiteSessions
  <2>3. entry \in SiteSessions /\ entry.proof = Nothing
    BY <2>0, <2>1 DEF SiteSessions
  <2> HIDE DEF entry
  <2>4. session' \in [Sessions -> SiteSessions] /\ ProofIsCurrent'
    BY <1>0, <1>1, <2>2, <2>3
  <2> QED BY <1>0, <1>3, <2>4 DEF Challenge
<1>4. ASSUME NEW s \in Sessions, VerifyBegin(s) PROVE Goal
  <2> DEFINE entry == [session[s] EXCEPT !.challenge = Nothing]
             new == [ch |-> session[s].challenge, gen |-> session[s].gen]
  <2>1. entry \in SiteSessions /\ entry.proof = session[s].proof
    BY <1>0 DEF SiteSessions
  <2>2. session[s].proof = Nothing /\ session[s].challenge # Nothing
    BY <1>0, <1>4 DEF VerifyBegin
  <2>3. new \in [ch : Challenges, gen : Nat]
    BY <1>0, <2>2 DEF SiteSessions
  <2>4. session' = [session EXCEPT ![s] = entry]
    BY <1>0, <1>4 DEF VerifyBegin
  <2>5. checking' = [checking EXCEPT ![s] = @ \cup {new}]
    BY <1>4 DEF VerifyBegin
  <2> HIDE DEF entry, new
  <2>6. checking' \in [Sessions -> SUBSET [ch : Challenges, gen : Nat]]
    BY <1>0, <2>3, <2>5
  <2>7. session' \in [Sessions -> SiteSessions] /\ ProofIsCurrent'
    BY <1>0, <1>1, <2>1, <2>2, <2>4
  <2> QED BY <1>4, <2>6, <2>7 DEF VerifyBegin
<1>5. ASSUME NEW s \in Sessions, NEW x \in checking[s], NEW valid \in BOOLEAN, VerifyEnd(s, x, valid)
      PROVE  Goal
  <2>0. x \in [ch : Challenges, gen : Nat]
    BY <1>0
  <2>1. checking' \in [Sessions -> SUBSET [ch : Challenges, gen : Nat]]
    BY <1>0, <1>5 DEF VerifyEnd
  <2>2. session' \in [Sessions -> SiteSessions] /\ ProofIsCurrent'
    <3>1. CASE valid /\ StillCurrent(s, x)
      <4> DEFINE new == [wallet |-> x.ch.wallet, scope |-> x.ch.scope,
                         expires |-> x.ch.expires, gen |-> x.gen]
                 entry == [session[s] EXCEPT !.wallet = x.ch.wallet, !.proof = new]
      <4>1. new \in Proofs /\ x.ch.wallet \in Wallets /\ new.gen = x.gen
        BY <2>0 DEF Challenges, Proofs
      <4>2. session' = [session EXCEPT ![s] = entry]
        BY <1>0, <1>5, <3>1 DEF VerifyEnd
      <4>3. session[s].gen = x.gen /\ session[s].challenge = Nothing
        BY <3>1 DEF StillCurrent
      <4> HIDE DEF new
      <4>4. /\ entry \in SiteSessions /\ entry.proof = new
            /\ entry.gen = session[s].gen /\ entry.challenge = session[s].challenge
        BY <1>0, <4>1 DEF SiteSessions
      <4> HIDE DEF entry
      <4> QED BY <1>0, <1>1, <4>1, <4>2, <4>3, <4>4
    <3>2. CASE ~(valid /\ StillCurrent(s, x))
      BY <1>0, <1>5, <3>2 DEF VerifyEnd, ProofIsCurrent
    <3> QED BY <3>1, <3>2
  <2> QED BY <1>5, <2>1, <2>2 DEF VerifyEnd
<1>6. ASSUME NEW s \in Sessions, Logout(s) PROVE Goal
  <2> DEFINE entry == [session[s] EXCEPT !.status = "gone", !.gen = @ + 1, !.wallet = Nothing,
                         !.proof = Nothing, !.challenge = Nothing]
  <2>0. session[s] \in SiteSessions /\ session[s].gen + 1 \in Nat
    BY <1>0 DEF SiteSessions
  <2>1. entry \in SiteSessions /\ entry.proof = Nothing
    BY <2>0 DEF SiteSessions
  <2>2. session' = [session EXCEPT ![s] = entry]
    BY <1>0, <1>6 DEF Logout
  <2> HIDE DEF entry
  <2>3. session' \in [Sessions -> SiteSessions] /\ ProofIsCurrent'
    BY <1>0, <1>1, <2>1, <2>2
  <2> QED BY <1>0, <1>6, <2>3 DEF Logout
<1> QED BY <1>2, <1>3, <1>4, <1>5, <1>6 DEF Browser
-----------------------------------------------------------------------------
(* The lock. *)

LEMMA LockInit == Init => LockInv
BY DEF Init, LockInv, LockIsSound, QueueOnce, Idle

\* The queue behind its head.
LEMMA TailIndex ==
    ASSUME NEW q \in Seq(Calls), Len(q) > 0
    PROVE  /\ DOMAIN q = 1..Len(q) /\ Len(q) \in Nat /\ Tail(q) \in Seq(Calls)
           /\ DOMAIN Tail(q) = 1..(Len(q) - 1)
           /\ \A i \in 1..(Len(q) - 1) : Tail(q)[i] = q[i + 1] /\ i + 1 \in 1..Len(q)
OBVIOUS

\* A call that moves on at the head of its queue keeps the lock.
LEMMA LockMoves ==
    ASSUME Inv, NEW k \in Calls, call[k].pc # "idle", queue[HandleOf(k)][1] = k,
           \A j \in Calls : j # k => call'[j] = call[j],
           call'[k].pc # "idle", call'[k].code = call[k].code, UNCHANGED <<queue, request>>
    PROVE  LockInv'
<1> USE DEF Inv, LockInv, LockIsSound, QueueOnce
<1>1. \A j \in Calls : HandleOf(j)' = HandleOf(j) /\ (call'[j].pc = "idle" <=> call[j].pc = "idle")
  BY DEF HandleOf
<1>2. \A j \in Calls : j # k => (Inside(j)' <=> Inside(j))
  BY DEF Inside
<1>3. \A h \in Handles : queue[h] \in Seq(Calls)
  BY DEF TypeOK
<1>4. ASSUME NEW h \in Handles, NEW i \in DOMAIN queue[h]
      PROVE  /\ call'[queue[h][i]].pc # "idle" /\ HandleOf(queue[h][i])' = h
             /\ Inside(queue[h][i])' => i = 1
  <2>1. queue[h][i] \in Calls /\ i \in 1..Len(queue[h])
    BY <1>3
  <2>2. call[queue[h][i]].pc # "idle" /\ HandleOf(queue[h][i]) = h /\ (Inside(queue[h][i]) => i = 1)
    BY <1>4
  <2>3. CASE queue[h][i] = k
    <3>1. HandleOf(k) = h /\ 1 \in DOMAIN queue[h]
      BY <1>3, <2>1, <2>2, <2>3
    <3>2. i = 1
      BY <1>4, <2>3, <3>1
    <3> QED BY <1>1, <2>1, <2>2, <3>2
  <2>4. CASE queue[h][i] # k
    BY <1>1, <1>2, <2>1, <2>2, <2>4
  <2> QED BY <2>3, <2>4
<1>5. ASSUME NEW h \in Handles, NEW j \in Calls, call'[j].pc # "idle", HandleOf(j)' = h
      PROVE  \E i \in DOMAIN queue[h] : queue[h][i] = j
  BY <1>1, <1>5
<1> QED BY <1>4, <1>5

\* Leaving from the head of the queue keeps the lock.
LEMMA LockLeave ==
    ASSUME Inv, NEW k \in Calls, call[k].pc # "idle", queue[HandleOf(k)][1] = k,
           Leave(k), UNCHANGED request
    PROVE  LockInv'
<1> USE DEF Inv, LockInv, LockIsSound, QueueOnce
<1> DEFINE g == HandleOf(k)
<1>0. g \in Handles /\ queue[g] \in Seq(Calls) /\ Len(queue[g]) > 0 /\ call \in [Calls -> CallRecords]
  <2>1. g \in Handles
    BY HandleType
  <2>2. PICK i \in DOMAIN queue[g] : queue[g][i] = k
    BY <2>1
  <2> QED BY <2>1, <2>2 DEF TypeOK
<1>1. \A j \in Calls : j # k => call'[j] = call[j] /\ HandleOf(j)' = HandleOf(j)
  BY <1>0 DEF Leave, HandleOf
<1>2. call'[k].pc = "idle"
  BY <1>0 DEF Leave, Idle
<1>3. \A h \in Handles : h # g => queue'[h] = queue[h]
  BY DEF TypeOK, Leave
<1> DEFINE n == Len(queue[g])
<1>4. /\ queue'[g] = Tail(queue[g]) /\ n \in Nat /\ n > 0
      /\ DOMAIN queue[g] = 1..n /\ DOMAIN queue'[g] = 1..(n - 1)
      /\ \A i \in 1..(n - 1) : queue'[g][i] = queue[g][i + 1] /\ i + 1 \in 1..n
  <2>1. queue'[g] = Tail(queue[g])
    BY <1>0 DEF TypeOK, Leave
  <2> QED BY <1>0, <2>1, TailIndex
<1> HIDE DEF n
<1>5. \A h \in Handles : queue[h] \in Seq(Calls)
  BY DEF TypeOK
<1>6. \A h \in Handles : \A i \in DOMAIN queue'[h] : queue'[h][i] # k
  <2>1. ASSUME NEW h \in Handles, NEW i \in DOMAIN queue'[h], queue'[h][i] = k PROVE FALSE
    <3>1. CASE h = g
      <4>0. i \in 1..(n - 1) /\ queue'[g][i] = k
        BY <1>4, <2>1, <3>1
      <4>1. queue[g][i + 1] = k /\ i + 1 \in DOMAIN queue[g] /\ 1 \in DOMAIN queue[g]
        BY <1>4, <4>0
      <4>2. i + 1 = 1
        BY <1>0, <4>1
      <4> QED BY <4>0, <4>2
    <3>2. CASE h # g
      BY <1>3, <2>1, <3>2
    <3> QED BY <3>1, <3>2
  <2> QED BY <2>1
<1>7. ASSUME NEW h \in Handles, NEW i \in DOMAIN queue'[h]
      PROVE  \E j \in Calls :
                /\ queue'[h][i] = j /\ call'[j].pc # "idle" /\ HandleOf(j)' = h
                /\ Inside(j)' => i = 1
  <2>1. CASE h = g
    <3>0. i \in 1..(n - 1)
      BY <1>4, <1>7, <2>1
    <3>1. queue'[g][i] = queue[g][i + 1] /\ i + 1 \in DOMAIN queue[g] /\ i + 1 # 1
      BY <1>4, <3>0
    <3>2. PICK j \in Calls : j = queue[g][i + 1]
      BY <1>0, <3>1
    <3>3. call[j].pc # "idle" /\ HandleOf(j) = g /\ ~Inside(j)
      BY <1>0, <3>1, <3>2
    <3>4. j # k
      BY <1>6, <1>7, <2>1, <3>1, <3>2
    <3>5. call'[j] = call[j] /\ HandleOf(j)' = g /\ ~Inside(j)'
      BY <1>1, <3>2, <3>3, <3>4 DEF Inside
    <3>6. queue'[h][i] = j
      BY <2>1, <3>1, <3>2
    <3> QED BY <2>1, <3>3, <3>5, <3>6
  <2>2. CASE h # g
    <3>0. queue'[h] = queue[h]
      BY <1>3, <2>2
    <3>1. PICK j \in Calls : j = queue[h][i]
      BY <1>5, <1>7, <3>0
    <3>2. j # k
      BY <1>6, <1>7, <3>0, <3>1
    <3>3. call[j].pc # "idle" /\ HandleOf(j) = h /\ (Inside(j) => i = 1)
      BY <1>7, <3>0, <3>1
    <3>4. queue'[h][i] = j
      BY <3>0, <3>1
    <3>5. call'[j] = call[j] /\ HandleOf(j)' = h /\ (Inside(j)' => i = 1)
      BY <1>1, <3>1, <3>2, <3>3 DEF Inside
    <3> QED BY <3>1, <3>3, <3>4, <3>5
  <2> QED BY <2>1, <2>2
<1>8. ASSUME NEW h \in Handles, NEW j \in Calls, call'[j].pc # "idle", HandleOf(j)' = h
      PROVE  \E i \in DOMAIN queue'[h] : queue'[h][i] = j
  <2>1. j # k /\ call[j].pc # "idle" /\ HandleOf(j) = h
    BY <1>1, <1>2, <1>8
  <2>2. PICK i \in DOMAIN queue[h] : queue[h][i] = j
    BY <2>1
  <2>3. CASE h = g
    <3>1. i \in 1..n /\ i # 1
      BY <1>0, <1>4, <2>1, <2>2, <2>3
    <3>2. i - 1 \in 1..(n - 1) /\ (i - 1) + 1 = i
      BY <1>4, <3>1
    <3>3. queue'[g][i - 1] = queue[g][i]
      BY <1>4, <3>2
    <3> QED BY <1>4, <2>2, <2>3, <3>2, <3>3
  <2>4. CASE h # g
    BY <1>3, <2>2, <2>4
  <2> QED BY <2>3, <2>4
<1>9. ASSUME NEW h \in Handles, NEW i \in DOMAIN queue'[h], NEW j \in DOMAIN queue'[h],
             queue'[h][i] = queue'[h][j]
      PROVE  i = j
  <2>1. CASE h = g
    <3>1. i \in 1..(n - 1) /\ j \in 1..(n - 1)
      BY <1>4, <1>9, <2>1
    <3>2. queue[g][i + 1] = queue[g][j + 1] /\ i + 1 \in DOMAIN queue[g] /\ j + 1 \in DOMAIN queue[g]
      BY <1>4, <1>9, <2>1, <3>1
    <3>3. i + 1 = j + 1
      BY <1>0, <3>2
    <3> QED BY <1>4, <3>1, <3>3
  <2>2. CASE h # g
    BY <1>3, <1>9, <2>2
  <2> QED BY <2>1, <2>2
<1> QED BY <1>7, <1>8, <1>9

\* A call that queues keeps the lock.
LEMMA AppendIndex ==
    ASSUME NEW q \in Seq(Calls), NEW k \in Calls
    PROVE  /\ DOMAIN q = 1..Len(q) /\ Len(q) \in Nat /\ Append(q, k) \in Seq(Calls)
           /\ DOMAIN Append(q, k) = 1..(Len(q) + 1)
           /\ \A i \in 1..Len(q) : Append(q, k)[i] = q[i]
           /\ Append(q, k)[Len(q) + 1] = k
OBVIOUS

LEMMA LockSubmit ==
    ASSUME Inv, NEW k \in Calls, NEW c \in Codes, NEW s \in Sessions, Submit(k, c, s)
    PROVE  LockInv'
<1> USE DEF Inv, LockInv, LockIsSound, QueueOnce
<1>0. PICK g \in Handles : g = request[c].handle
  BY DEF Submit, Owned, TypeOK, Requests
<1> DEFINE n == Len(queue[g])
<1>1. queue[g] \in Seq(Calls) /\ call[k].pc = "idle"
  BY DEF TypeOK, Submit, Idle
<1>2. /\ queue'[g] = Append(queue[g], k) /\ n \in Nat
      /\ DOMAIN queue[g] = 1..n /\ DOMAIN queue'[g] = 1..(n + 1)
      /\ \A i \in 1..n : queue'[g][i] = queue[g][i]
      /\ queue'[g][n + 1] = k
  <2>1. queue'[g] = Append(queue[g], k)
    BY <1>0 DEF TypeOK, Submit
  <2> QED BY <1>1, <2>1, AppendIndex
<1> HIDE DEF n
<1>3. \A h \in Handles : queue[h] \in Seq(Calls) /\ (h # g => queue'[h] = queue[h])
  BY <1>0 DEF TypeOK, Submit
<1>4. call'[k].pc = "queued" /\ HandleOf(k)' = g
  BY <1>0 DEF TypeOK, Submit, HandleOf, Idle, store
<1>5. \A j \in Calls : j # k => call'[j] = call[j] /\ HandleOf(j)' = HandleOf(j)
  BY DEF TypeOK, Submit, HandleOf, store
<1>6. \A h \in Handles : \A i \in DOMAIN queue[h] :
         /\ queue[h][i] \in Calls /\ queue[h][i] # k /\ call[queue[h][i]].pc # "idle"
         /\ HandleOf(queue[h][i]) = h /\ (Inside(queue[h][i]) => i = 1)
  BY <1>1, <1>3
<1>7. ASSUME NEW h \in Handles, NEW i \in DOMAIN queue'[h]
      PROVE  \E j \in Calls :
                /\ queue'[h][i] = j /\ call'[j].pc # "idle" /\ HandleOf(j)' = h
                /\ Inside(j)' => i = 1
  <2>1. ASSUME i \in DOMAIN queue[h], queue'[h][i] = queue[h][i] 
             PROVE  \E j \in Calls :
                      /\ queue'[h][i] = j /\ call'[j].pc # "idle" /\ HandleOf(j)' = h
                      /\ Inside(j)' => i = 1
    <3>1. PICK j \in Calls : j = queue[h][i]
      BY <1>6, <2>1
    <3>2. call'[j] = call[j] /\ HandleOf(j)' = h /\ call[j].pc # "idle" /\ (Inside(j) => i = 1)
      BY <1>5, <1>6, <2>1, <3>1
    <3>3. Inside(j)' => i = 1
      BY <3>2 DEF Inside
    <3> QED BY <2>1, <3>1, <3>2, <3>3
  <2>2. CASE h = g /\ i = n + 1
    <3>1. queue'[h][i] = k /\ ~Inside(k)'
      BY <1>2, <1>4, <2>2 DEF Inside
    <3> QED BY <1>4, <2>2, <3>1
  <2>3. CASE h = g /\ i # n + 1
    <3>1. i \in 1..n
      BY <1>2, <1>7, <2>3
    <3> QED BY <1>2, <2>1, <2>3, <3>1
  <2>4. CASE h # g
    BY <1>3, <1>7, <2>1, <2>4
  <2> QED BY <2>2, <2>3, <2>4
<1>8. ASSUME NEW h \in Handles, NEW j \in Calls, call'[j].pc # "idle", HandleOf(j)' = h
      PROVE  \E i \in DOMAIN queue'[h] : queue'[h][i] = j
  <2>1. CASE j = k
    <3>1. h = g /\ n + 1 \in DOMAIN queue'[g]
      BY <1>2, <1>4, <1>8, <2>1
    <3> QED BY <1>2, <2>1, <3>1
  <2>2. CASE j # k
    <3>1. PICK i \in DOMAIN queue[h] : queue[h][i] = j
      BY <1>5, <1>8, <2>2
    <3>2. CASE h = g
      <4>1. i \in 1..n /\ i \in 1..(n + 1)
        BY <1>2, <3>1, <3>2
      <4> QED BY <1>2, <3>1, <3>2, <4>1
    <3>3. CASE h # g
      BY <1>3, <3>1, <3>3
    <3> QED BY <3>2, <3>3
  <2> QED BY <2>1, <2>2
<1>9. ASSUME NEW h \in Handles, NEW i \in DOMAIN queue'[h], NEW j \in DOMAIN queue'[h],
             queue'[h][i] = queue'[h][j]
      PROVE  i = j
  <2>1. CASE h = g
    <3>1. i \in 1..(n + 1) /\ j \in 1..(n + 1)
      BY <1>2, <1>9, <2>1
    <3>2. CASE i \in 1..n /\ j \in 1..n
      <4>1. queue[g][i] = queue[g][j] /\ i \in DOMAIN queue[g] /\ j \in DOMAIN queue[g]
        BY <1>2, <1>9, <2>1, <3>2
      <4> QED BY <1>0, <4>1
    <3>3. CASE i \in 1..n /\ j = n + 1
      <4>1. queue[g][i] = k /\ i \in DOMAIN queue[g]
        BY <1>2, <1>9, <2>1, <3>3
      <4> QED BY <1>0, <1>6, <4>1
    <3>4. CASE i = n + 1 /\ j \in 1..n
      <4>1. queue[g][j] = k /\ j \in DOMAIN queue[g]
        BY <1>2, <1>9, <2>1, <3>4
      <4> QED BY <1>0, <1>6, <4>1
    <3>5. CASE i = n + 1 /\ j = n + 1
      BY <3>5
    <3> QED BY <1>2, <3>1, <3>2, <3>3, <3>4, <3>5
  <2>2. CASE h # g
    BY <1>3, <1>9, <2>2
  <2> QED BY <2>1, <2>2
<1> QED BY <1>7, <1>8, <1>9
-----------------------------------------------------------------------------
(* Steps that leave calls and reservations alone. *)

Safe == CallInv /\ LockInv /\ IssuanceInv /\ ReleasedInv /\ MintMatchesReservation

\* Time passing disturbs nothing: an expired voucher stays expired.
LEMMA SafeTime ==
    ASSUME Inv, TypeOK', time <= time', provenance' = provenance,
           UNCHANGED <<store, process, released>>
    PROVE  Safe'
<1>0. UNCHANGED <<request, issuance, nextNonce, call, queue, released>>
  BY DEF store, process
<1>1. time \in Nat /\ time' \in Nat
  BY BoundAssumption DEF Inv, TypeOK, Contract!TypeOK, Contract!Times
<1>2. CallInv'
  <2>1. ASSUME NEW k \in Calls PROVE CallOK(k)'
    <3>1. CallOK(k) /\ call[k].chainTime \in Nat
      BY DEF Inv, CallInv, TypeOK, CallRecords
    <3>2. HandleOf(k)' = HandleOf(k) /\ Inside(k)' = Inside(k)
      BY <1>0 DEF HandleOf, Inside
    <3>3. (Minted(HandleOf(k)) => Held(HandleOf(k), call[k].chainTime))'
          = (Minted(HandleOf(k)) => Held(HandleOf(k), call[k].chainTime))
      BY <1>0, <3>2 DEF Minted, Held
    <3> QED BY <1>0, <1>1, <3>1, <3>2, <3>3 DEF CallOK
  <2> QED BY <2>1 DEF CallInv
<1>3. LockInv'
  BY <1>0 DEF Inv, LockInv, LockIsSound, QueueOnce, HandleOf, Inside
<1>4. IssuanceInv'
  <2>1. \A h \in Handles : issuance[h] # Nothing => issuance[h].voucher.issuedAt \in Nat
    BY DEF Inv, TypeOK, Issuances, Vouchers, Contract!Vouchers
  <2> QED BY <1>0, <1>1, <2>1 DEF Inv, IssuanceInv, ReservationFitsRequest, Contract!WindowOK
<1>5. ReleasedInv'
  <2>1. \A v \in released : v.deadline \in Nat
    BY DEF Inv, TypeOK, Vouchers, Contract!Vouchers
  <2> QED BY <1>0, <1>1, <2>1 DEF Inv, ReleasedInv
<1>6. MintMatchesReservation'
  BY <1>0 DEF Inv, MintMatchesReservation, Minted
<1> QED BY <1>2, <1>3, <1>4, <1>5, <1>6 DEF Safe

\* Nor does a request that is new or changes its status only.
LEMMA SafeRequests ==
    ASSUME Inv, RequestsKept, UNCHANGED <<chain, issuance, nextNonce, process, released>>
    PROVE  Safe'
<1>0. UNCHANGED <<time, provenance, issuance, nextNonce, call, queue, released>>
  BY DEF chain, process
<1>1. ASSUME NEW k \in Calls, call[k].pc # "idle"
      PROVE  /\ HandleOf(k)' = HandleOf(k) /\ request'[call[k].code] # Nothing
             /\ request'[call[k].code].wallet = request[call[k].code].wallet
  BY <1>0, <1>1 DEF Inv, CallInv, CallOK, RequestsKept, HandleOf
<1>2. CallInv'
  <2>1. ASSUME NEW k \in Calls PROVE CallOK(k)'
    <3>1. CallOK(k)
      BY DEF Inv, CallInv
    <3>2. CASE call[k].pc = "idle"
      BY <1>0, <3>2 DEF CallOK, Inside, Issued
    <3>3. CASE call[k].pc # "idle"
      <4>1. Inside(k)' = Inside(k)
        BY <1>0 DEF Inside
      <4>2. (Minted(HandleOf(k)) => Held(HandleOf(k), call[k].chainTime))'
            = (Minted(HandleOf(k)) => Held(HandleOf(k), call[k].chainTime))
        BY <1>0, <1>1, <3>3 DEF Minted, Held
      <4> QED BY <1>0, <1>1, <3>1, <3>3, <4>1, <4>2 DEF CallOK
    <3> QED BY <3>2, <3>3
  <2> QED BY <2>1 DEF CallInv
<1>3. LockInv'
  <2>1. \A k \in Calls : call[k].pc # "idle" => HandleOf(k)' = HandleOf(k)
    BY <1>1
  <2>2. \A h \in Handles : queue[h] \in Seq(Calls)
    BY DEF Inv, TypeOK
  <2>3. \A h \in Handles : \A i \in DOMAIN queue[h] :
           /\ queue[h][i] \in Calls /\ call[queue[h][i]].pc # "idle" /\ HandleOf(queue[h][i]) = h
           /\ Inside(queue[h][i]) => i = 1
    BY <2>2 DEF Inv, LockInv, LockIsSound
  <2>4. \A h \in Handles : \A i \in DOMAIN queue'[h] :
           LET k == queue'[h][i] IN
           call'[k].pc # "idle" /\ request'[call'[k].code].handle = h
           /\ (call'[k].pc \notin {"idle", "queued"} => i = 1)
    BY <1>0, <2>1, <2>3 DEF HandleOf, Inside
  <2>5. \A h \in Handles : \A k \in Calls : call'[k].pc # "idle" /\ HandleOf(k)' = h =>
           \E i \in DOMAIN queue'[h] : queue'[h][i] = k
    BY <1>0, <2>1 DEF Inv, LockInv, LockIsSound
  <2> QED BY <1>0, <2>4, <2>5 DEF Inv, LockInv, LockIsSound, QueueOnce, HandleOf, Inside
<1>4. IssuanceInv'
  <2>1. \A h \in Handles : issuance[h] # Nothing =>
           issuance[h].code \in Codes /\ request[issuance[h].code] # Nothing
    BY DEF Inv, IssuanceInv, TypeOK, Issuances
  <2> QED BY <1>0, <2>1 DEF Inv, IssuanceInv, ReservationFitsRequest, Contract!WindowOK, RequestsKept
<1>5. ReleasedInv' /\ MintMatchesReservation'
  BY <1>0 DEF Inv, ReleasedInv, MintMatchesReservation, Minted
<1> QED BY <1>2, <1>3, <1>4, <1>5 DEF Safe

\* A redeemed voucher is the reservation on record: it has not expired.
LEMMA SafeRedeem ==
    ASSUME Inv, NEW v \in released, Redeem(v)
    PROVE  Safe'
<1> DEFINE h == v.handle
<1>0. /\ UNCHANGED <<time, request, issuance, nextNonce, call, queue, released>>
      /\ time <= v.deadline
      /\ provenance' = [provenance EXCEPT ![h] = v]
  BY DEF Redeem, service, store, process, Contract!Mint, Contract!Validate, Contract!Active
<1>1. v \in Vouchers /\ h \in Handles /\ v.deadline \in Nat /\ time \in Nat
  BY BoundAssumption DEF Inv, TypeOK, Vouchers, Contract!Vouchers, Contract!TypeOK, Contract!Times
<1>2. issuance[h] # Nothing /\ v = issuance[h].voucher
  BY <1>0, <1>1 DEF Inv, ReleasedInv
<1>3. \A g \in Handles : provenance'[g] = IF g = h THEN v ELSE provenance[g]
  BY <1>0 DEF Inv, TypeOK, Contract!TypeOK
<1>4. CallInv'
  <2>1. ASSUME NEW k \in Calls PROVE CallOK(k)'
    <3>1. CallOK(k)
      BY DEF Inv, CallInv
    <3>2. HandleOf(k)' = HandleOf(k) /\ Inside(k)' = Inside(k)
      BY <1>0 DEF HandleOf, Inside
    <3>3. CASE call[k].pc = "issue"
      <4>1. HandleOf(k) \in Handles /\ call[k].chainTime \in 1..time
        BY <3>1, <3>3, HandleType DEF Inv, CallOK, Inside
      <4>2. CASE HandleOf(k) = h
        <5>1. Held(h, call[k].chainTime)
          BY <1>0, <1>1, <1>2, <4>1 DEF Held
        <5>2. Held(HandleOf(k), call[k].chainTime)'
          BY <1>0, <3>2, <4>2, <5>1 DEF Held
        <5> QED BY <1>0, <3>1, <3>2, <3>3, <5>2 DEF CallOK
      <4>3. CASE HandleOf(k) # h
        <5>1. (Minted(HandleOf(k)) => Held(HandleOf(k), call[k].chainTime))'
          BY <1>0, <1>3, <3>1, <3>2, <3>3, <4>1, <4>3 DEF CallOK, Minted, Held
        <5> QED BY <1>0, <3>1, <3>2, <3>3, <5>1 DEF CallOK
      <4> QED BY <4>2, <4>3
    <3>4. CASE call[k].pc # "issue"
      BY <1>0, <3>1, <3>2, <3>4 DEF CallOK
    <3> QED BY <3>3, <3>4
  <2> QED BY <2>1 DEF CallInv
<1>5. LockInv'
  BY <1>0 DEF Inv, LockInv, LockIsSound, QueueOnce, HandleOf, Inside
<1>6. IssuanceInv' /\ ReleasedInv'
  BY <1>0 DEF Inv, IssuanceInv, ReservationFitsRequest, Contract!WindowOK, ReleasedInv
<1>7. MintMatchesReservation'
  BY <1>0, <1>2, <1>3 DEF Inv, MintMatchesReservation, Minted
<1> QED BY <1>4, <1>5, <1>6, <1>7 DEF Safe

\* A restart forgets the calls and keeps what was put.
LEMMA SafeRestart ==
    ASSUME Inv, Restart
    PROVE  Safe' /\ RequestsKept /\ UNCHANGED chain
<1>0. /\ UNCHANGED <<time, provenance, issuance, nextNonce, released>>
      /\ call' = [k \in Calls |-> Idle] /\ queue' = [h \in Handles |-> <<>>]
  BY DEF Restart, chain
<1>1. RequestsKept
  <2>1. ASSUME NEW c \in Codes, request[c] # Nothing
        PROVE  /\ request'[c] # Nothing
               /\ request'[c].handle = request[c].handle /\ request'[c].wallet = request[c].wallet
               /\ request'[c].expires = request[c].expires
    <3>1. request[c] \in Requests
      BY <2>1 DEF Inv, TypeOK
    <3>2. CASE request[c].status = "pending"
      <4>1. request'[c] = [request[c] EXCEPT !.status = "failed"]
        BY <2>1, <3>2 DEF Restart
      <4>2. request'[c] \in Requests
        BY <3>1, <4>1 DEF Requests
      <4> QED BY <3>1, <4>1, <4>2, NothingAssumption DEF Requests
    <3>3. CASE request[c].status # "pending"
      BY <2>1, <3>3 DEF Restart
    <3> QED BY <3>2, <3>3
  <2> QED BY <2>1 DEF RequestsKept
<1>2. CallInv'
  BY <1>0 DEF CallInv, CallOK, Idle, Inside, Issued
<1>3. LockInv'
  BY <1>0 DEF LockInv, LockIsSound, QueueOnce, Idle
<1>4. IssuanceInv'
  <2>1. \A h \in Handles : issuance[h] # Nothing =>
           issuance[h].code \in Codes /\ request[issuance[h].code] # Nothing
    BY DEF Inv, IssuanceInv, TypeOK, Issuances
  <2> QED BY <1>0, <1>1, <2>1 DEF Inv, IssuanceInv, ReservationFitsRequest, Contract!WindowOK, RequestsKept
<1>5. ReleasedInv' /\ MintMatchesReservation'
  BY <1>0 DEF Inv, ReleasedInv, MintMatchesReservation, Minted
<1> QED BY <1>1, <1>2, <1>3, <1>4, <1>5 DEF Safe, Restart
-----------------------------------------------------------------------------
(* Steps of a call. *)

\* Where a call works, no other call is past the lock.
LEMMA Alone ==
    ASSUME Inv, NEW k \in Calls, call[k].pc # "idle", queue[HandleOf(k)][1] = k,
           NEW j \in Calls, j # k, Inside(j)
    PROVE  HandleOf(j) # HandleOf(k)
<1> SUFFICES ASSUME HandleOf(j) = HandleOf(k) PROVE FALSE
  OBVIOUS
<1>1. call[j].pc # "idle"
  BY DEF Inside
<1>2. queue[HandleOf(j)][1] = j
  BY <1>1, HeadOfQueue DEF Inv
<1> QED BY <1>2

\* The other calls do not notice a step at the head of a queue that moves the
\* reservation of its own handle only.
LEMMA OtherCalls ==
    ASSUME Inv, NEW k \in Calls, call[k].pc # "idle", queue[HandleOf(k)][1] = k,
           \A j \in Calls : j # k => call'[j] = call[j],
           \A h \in Handles : h # HandleOf(k) => issuance'[h] = issuance[h],
           UNCHANGED <<time, provenance, request>>, CallOK(k)'
    PROVE  CallInv'
<1>1. ASSUME NEW j \in Calls, j # k PROVE CallOK(j)'
  <2>1. CallOK(j) /\ call'[j] = call[j]
    BY <1>1 DEF Inv, CallInv
  <2>2. HandleOf(j)' = HandleOf(j) /\ Inside(j)' = Inside(j)
    BY <2>1 DEF HandleOf, Inside
  <2>3. CASE Inside(j)
    <3>1. HandleOf(j) \in Handles /\ HandleOf(j) # HandleOf(k)
      BY <1>1, <2>3, Alone, HandleType DEF Inv, Inside
    <3>2. issuance'[HandleOf(j)] = issuance[HandleOf(j)]
      BY <3>1
    <3>3. (Minted(HandleOf(j)) => Held(HandleOf(j), call[j].chainTime))'
          = (Minted(HandleOf(j)) => Held(HandleOf(j), call[j].chainTime))
      BY <2>1, <2>2, <3>2 DEF Minted, Held
    <3> QED BY <2>1, <2>2, <3>2, <3>3 DEF CallOK
  <2>4. CASE ~Inside(j)
    BY <2>1, <2>2, <2>4 DEF CallOK, Inside, Issued
  <2> QED BY <2>3, <2>4
<1> QED BY <1>1 DEF CallInv

\* What one call does while it moves on or leaves, its store writes apart.
CallStep(k) ==
    /\ call[k].pc # "idle" /\ queue[HandleOf(k)][1] = k
    /\ UNCHANGED <<time, provenance, request>>
    /\ \/ /\ \A j \in Calls : j # k => call'[j] = call[j]
          /\ call'[k].pc # "idle" /\ call'[k].code = call[k].code /\ UNCHANGED queue
          /\ CallOK(k)'
       \/ Leave(k)

LEMMA SafeCalls ==
    ASSUME Inv, NEW k \in Calls, CallStep(k),
           \A h \in Handles : h # HandleOf(k) => issuance'[h] = issuance[h]
    PROVE  CallInv' /\ LockInv'
<1>1. ASSUME Leave(k) PROVE CallOK(k)' /\ (\A j \in Calls : j # k => call'[j] = call[j])
  BY <1>1 DEF Inv, TypeOK, Leave, CallOK, Inside, Issued, Idle
<1> QED BY <1>1, LockMoves, LockLeave, OtherCalls DEF CallStep

\* A step that writes no store file.
LEMMA SafeStore ==
    ASSUME Inv, UNCHANGED <<time, provenance, request, issuance, nextNonce, released>>
    PROVE  IssuanceInv' /\ ReleasedInv' /\ MintMatchesReservation'
BY DEF Inv, IssuanceInv, ReservationFitsRequest, Contract!WindowOK, ReleasedInv,
       MintMatchesReservation, Minted

\* Facts about a call that is at the head of its queue.
LEMMA AtHead ==
    ASSUME Inv, NEW k \in Calls, Inside(k) \/ (call[k].pc = "queued" /\ Head(queue[HandleOf(k)]) = k)
    PROVE  /\ call[k].pc # "idle" /\ queue[HandleOf(k)][1] = k /\ CallOK(k)
           /\ HandleOf(k) \in Handles /\ call[k] \in CallRecords
BY HeadOfQueue, HandleType DEF Inv, CallInv, Inside, TypeOK

LEMMA LeaveTypes ==
    ASSUME Inv, NEW k \in Calls, Inside(k) \/ (call[k].pc = "queued" /\ Head(queue[HandleOf(k)]) = k),
           Leave(k)
    PROVE  call' \in [Calls -> CallRecords] /\ queue' \in [Handles -> Seq(Calls)]
BY AtHead, TypeLeave DEF Inside

\* The wallet that a call enters with is the one of its request.
LEMMA ProvedWallet ==
    ASSUME TypeOK, NEW c \in Codes, NEW s \in Sessions, WalletProved(c, s)
    PROVE  session[s].wallet \in Wallets /\ session[s].wallet = request[c].wallet
<1>1. session[s] \in SiteSessions
  BY DEF TypeOK
<1>2. session[s].proof \in Proofs
  BY <1>1 DEF WalletProved, WalletFresh, SiteSessions
<1> QED BY <1>2 DEF WalletProved, WalletFresh, Proofs

\* The result of a step: types and safety again.
Result ==
    /\ call' \in [Calls -> CallRecords] /\ queue' \in [Handles -> Seq(Calls)]
    /\ issuance' \in [Handles -> Issuances \cup {Nothing}] /\ nextNonce' \in Nat
    /\ released' \subseteq Vouchers /\ faults' \in 0..MaxFaults
    /\ Safe'

\* The calls that end, or move on, without a write.
LEMMA QuietStep ==
    ASSUME Inv, NEW k \in Calls, CallStep(k), call' \in [Calls -> CallRecords],
           queue' \in [Handles -> Seq(Calls)], UNCHANGED <<issuance, nextNonce, released, faults>>
    PROVE  Result
<1>1. CallInv' /\ LockInv'
  BY SafeCalls
<1>2. IssuanceInv' /\ ReleasedInv' /\ MintMatchesReservation'
  BY SafeStore DEF CallStep
<1> QED BY <1>1, <1>2 DEF Result, Safe, Inv, TypeOK

LEMMA StepSubmit ==
    ASSUME Inv, NEW k \in Calls, NEW c \in Codes, NEW s \in Sessions, Submit(k, c, s)
    PROVE  Result
<1>0. UNCHANGED <<time, provenance, request, issuance, nextNonce, released, faults>>
  BY DEF Submit, chain, store
<1>1. LockInv'
  BY LockSubmit
<1>2. [Idle EXCEPT !.pc = "queued", !.code = c, !.session = s] \in CallRecords
  BY DEF Idle, CallRecords, Steps
<1> DEFINE new == [Idle EXCEPT !.pc = "queued", !.code = c, !.session = s]
<1>3. new.pc = "queued" /\ new.code = c /\ new.session = s
  BY DEF Idle
<1>4. call' = [call EXCEPT ![k] = new]
  BY DEF Submit
<1> HIDE DEF new
<1>5. call' \in [Calls -> CallRecords]
  BY <1>2, <1>4 DEF new, Inv, TypeOK
<1>6. queue' \in [Handles -> Seq(Calls)]
  <2>1. PICK g \in Handles : g = request[c].handle
    BY DEF Submit, Owned, Inv, TypeOK, Requests
  <2>2. queue \in [Handles -> Seq(Calls)] /\ Append(queue[g], k) \in Seq(Calls)
    BY AppendIndex DEF Inv, TypeOK
  <2> QED BY <2>1, <2>2 DEF Submit
<1>7. CallInv'
  <2>1. CallOK(k)'
    BY <1>0, <1>3, <1>4 DEF Inv, TypeOK, CallOK, Inside, Issued, Submit, Owned
  <2>2. ASSUME NEW j \in Calls, j # k PROVE CallOK(j)'
    <3>1. call'[j] = call[j] /\ CallOK(j)
      BY <1>4, <2>2 DEF Inv, TypeOK, CallInv
    <3>2. HandleOf(j)' = HandleOf(j) /\ Inside(j)' = Inside(j)
      BY <1>0, <3>1 DEF HandleOf, Inside
    <3>3. (Minted(HandleOf(j)) => Held(HandleOf(j), call[j].chainTime))'
          = (Minted(HandleOf(j)) => Held(HandleOf(j), call[j].chainTime))
      BY <1>0, <3>1, <3>2 DEF Minted, Held
    <3> QED BY <1>0, <3>1, <3>2, <3>3 DEF CallOK
  <2> QED BY <2>1, <2>2 DEF CallInv
<1>8. IssuanceInv' /\ ReleasedInv' /\ MintMatchesReservation'
  BY <1>0, SafeStore
<1> QED BY <1>0, <1>1, <1>5, <1>6, <1>7, <1>8 DEF Result, Safe, Inv, TypeOK

\* A call that ends and wrote nothing.
LEMMA QuietLeave ==
    ASSUME Inv, NEW k \in Calls, Inside(k) \/ (call[k].pc = "queued" /\ Head(queue[HandleOf(k)]) = k),
           Leave(k), UNCHANGED <<chain, store, released, faults>>
    PROVE  Result
<1>1. call[k].pc # "idle" /\ queue[HandleOf(k)][1] = k
  BY AtHead
<1>2. UNCHANGED <<time, provenance, request, issuance, nextNonce>>
  BY DEF chain, store
<1>3. CallStep(k)
  BY <1>1, <1>2 DEF CallStep
<1> QED BY <1>2, <1>3, LeaveTypes, QuietStep

\* A call past its lock and the clock that moves on and wrote nothing.
LEMMA QuietGoto ==
    ASSUME Inv, NEW k \in Calls, Inside(k), call[k].pc # "clock",
           NEW pc \in CallSteps \ {"queued", "clock"}, Goto(k, pc),
           pc = "issue" => ~Minted(HandleOf(k)), pc \in Issued => issuance[HandleOf(k)] # Nothing,
           UNCHANGED <<chain, store, queue, released, faults>>
    PROVE  Result
<1>1. call[k].pc # "idle" /\ queue[HandleOf(k)][1] = k /\ CallOK(k)
  BY AtHead
<1>2. UNCHANGED <<time, provenance, request, issuance, nextNonce>>
  BY DEF chain, store
<1>3. /\ \A j \in Calls : j # k => call'[j] = call[j]
      /\ call'[k] = [call[k] EXCEPT !.pc = pc] /\ call[k] \in CallRecords
  BY DEF Goto, Inv, TypeOK
<1>4. /\ call'[k].pc = pc /\ call'[k].code = call[k].code /\ call'[k].session = call[k].session
      /\ call'[k].recipient = call[k].recipient /\ call'[k].chainTime = call[k].chainTime
  BY <1>3 DEF CallRecords
<1>5. HandleOf(k)' = HandleOf(k) /\ pc # "idle" /\ Inside(k)'
  BY <1>2, <1>4 DEF HandleOf, Inside, CallSteps, Steps
<1>6. CallOK(k)'
  BY <1>1, <1>2, <1>4, <1>5 DEF CallOK, Minted
<1>7. CallStep(k)
  BY <1>1, <1>2, <1>3, <1>4, <1>5, <1>6 DEF CallStep
<1>8. call' \in [Calls -> CallRecords]
  BY TypeGoto DEF Inv, CallSteps
<1>9. queue' \in [Handles -> Seq(Calls)]
  BY DEF Inv, TypeOK
<1> QED BY <1>2, <1>7, <1>8, <1>9, QuietStep

LEMMA StepEnter ==
    ASSUME Inv, NEW k \in Calls, Enter(k)
    PROVE  Result
<1> DEFINE c == call[k].code  s == call[k].session
<1>0. /\ UNCHANGED <<chain, store, released, faults>>
      /\ UNCHANGED <<time, provenance, request, issuance, nextNonce>>
      /\ call[k].pc = "queued" /\ Head(queue[HandleOf(k)]) = k
  BY DEF Enter, chain, store
<1>1. call[k].pc # "idle" /\ queue[HandleOf(k)][1] = k /\ CallOK(k) /\ call[k] \in CallRecords
  BY <1>0, AtHead
<1>2. CASE Leave(k)
  BY <1>0, <1>2, QuietLeave
<1>3. CASE ~Leave(k)
  <2>1. /\ WalletProved(c, s) /\ UNCHANGED queue
        /\ call' = [call EXCEPT ![k].pc = "clock", ![k].recipient = session[s].wallet,
                                ![k].gen = session[s].gen]
    BY <1>3 DEF Enter
  <2>2. c \in Codes /\ s \in Sessions /\ request[c] # Nothing
    BY <1>1 DEF CallOK
  <2>3. session[s].wallet \in Wallets /\ session[s].wallet = request[c].wallet /\ session[s].gen \in Nat
    BY <2>1, <2>2, ProvedWallet DEF Inv, TypeOK, SiteSessions
  <2>4. /\ \A j \in Calls : j # k => call'[j] = call[j]
        /\ call'[k] = [call[k] EXCEPT !.pc = "clock", !.recipient = session[s].wallet,
                                      !.gen = session[s].gen]
    BY <2>1 DEF Inv, TypeOK
  <2>5. /\ call'[k] \in CallRecords /\ call'[k].pc = "clock" /\ call'[k].code = c
        /\ call'[k].session = s /\ call'[k].recipient = session[s].wallet
    BY <1>1, <2>3, <2>4 DEF CallRecords, Steps
  <2>6. CallOK(k)'
    BY <1>0, <2>2, <2>3, <2>5 DEF CallOK, Inside, Issued
  <2>7. CallStep(k)
    BY <1>0, <1>1, <2>1, <2>4, <2>5, <2>6 DEF CallStep
  <2>8. call' \in [Calls -> CallRecords]
    BY <2>1, <2>4, <2>5 DEF Inv, TypeOK
  <2>9. queue' \in [Handles -> Seq(Calls)]
    BY <2>1 DEF Inv, TypeOK
  <2> QED BY <1>0, <2>7, <2>8, <2>9, QuietStep
<1> QED BY <1>2, <1>3

LEMMA StepReadClock ==
    ASSUME Inv, NEW k \in Calls, ReadClock(k)
    PROVE  Result
<1>0. /\ UNCHANGED <<chain, store, released, faults>>
      /\ UNCHANGED <<time, provenance, request, issuance, nextNonce>>
      /\ call[k].pc = "clock" /\ Inside(k)
  BY DEF ReadClock, chain, store, Inside
<1>1. call[k].pc # "idle" /\ queue[HandleOf(k)][1] = k /\ CallOK(k) /\ call[k] \in CallRecords
  BY <1>0, AtHead
<1>2. CASE Leave(k)
  BY <1>0, <1>2, QuietLeave
<1>3. CASE ~Leave(k)
  <2>1. call' = [call EXCEPT ![k].pc = "state", ![k].chainTime = time] /\ UNCHANGED queue
    BY <1>3 DEF ReadClock
  <2>2. time \in Nat /\ time \in 1..time
    BY BoundAssumption DEF Inv, TypeOK, Contract!TypeOK, Contract!Times
  <2>3. /\ \A j \in Calls : j # k => call'[j] = call[j]
        /\ call'[k] = [call[k] EXCEPT !.pc = "state", !.chainTime = time]
    BY <2>1 DEF Inv, TypeOK
  <2>4. /\ call'[k] \in CallRecords /\ call'[k].pc = "state" /\ call'[k].code = call[k].code
        /\ call'[k].session = call[k].session /\ call'[k].recipient = call[k].recipient
        /\ call'[k].chainTime = time
    BY <1>1, <2>2, <2>3 DEF CallRecords, Steps
  <2>5. CallOK(k)'
    BY <1>0, <1>1, <2>2, <2>4 DEF CallOK, Inside, Issued
  <2>6. CallStep(k)
    BY <1>0, <1>1, <2>1, <2>3, <2>4, <2>5 DEF CallStep
  <2>7. call' \in [Calls -> CallRecords]
    BY <2>1, <2>3, <2>4 DEF Inv, TypeOK
  <2>8. queue' \in [Handles -> Seq(Calls)]
    BY <2>1 DEF Inv, TypeOK
  <2> QED BY <1>0, <2>6, <2>7, <2>8, QuietStep
<1> QED BY <1>2, <1>3

LEMMA StepReadState ==
    ASSUME Inv, NEW k \in Calls, ReadState(k)
    PROVE  Result
<1>0. UNCHANGED <<chain, store, released, faults>> /\ call[k].pc = "state" /\ Inside(k)
  BY DEF ReadState, Inside
<1>1. CASE Leave(k)
  BY <1>0, <1>1, QuietLeave
<1>2. CASE ~Leave(k)
  <2>1. Goto(k, "issue") /\ ~Minted(HandleOf(k)) /\ UNCHANGED queue
    BY <1>2 DEF ReadState
  <2> QED BY <1>0, <2>1, QuietGoto DEF CallSteps, Steps, Issued
<1> QED BY <1>1, <1>2

LEMMA StepConfirm ==
    ASSUME Inv, NEW k \in Calls, Confirm(k)
    PROVE  Result
<1>0. UNCHANGED <<chain, store, released, faults>> /\ call[k].pc = "confirm" /\ Inside(k)
  BY DEF Confirm, Inside
<1>1. CASE Leave(k)
  BY <1>0, <1>1, QuietLeave
<1>2. CASE ~Leave(k)
  <2>1. issuance[HandleOf(k)] # Nothing
    BY <1>0, AtHead DEF CallOK, Issued
  <2>2. (Goto(k, "transact") \/ Goto(k, "sign")) /\ UNCHANGED queue
    BY <1>2 DEF Confirm
  <2> QED BY <1>0, <2>1, <2>2, QuietGoto DEF CallSteps, Steps, Issued
<1> QED BY <1>1, <1>2

LEMMA StepTransact ==
    ASSUME Inv, NEW k \in Calls, Transact(k)
    PROVE  Result
<1>0. UNCHANGED <<chain, store, released, faults>> /\ call[k].pc = "transact" /\ Inside(k)
  BY DEF Transact, Inside
<1>1. CASE Leave(k)
  BY <1>0, <1>1, QuietLeave
<1>2. CASE ~Leave(k)
  <2>1. issuance[HandleOf(k)] # Nothing
    BY <1>0, AtHead DEF CallOK, Issued
  <2>2. Goto(k, "answer") /\ UNCHANGED queue
    BY <1>2 DEF Transact
  <2> QED BY <1>0, <2>1, <2>2, QuietGoto DEF CallSteps, Steps, Issued
<1> QED BY <1>1, <1>2

LEMMA StepRpcFails ==
    ASSUME Inv, NEW k \in Calls, RpcFails(k)
    PROVE  Result
BY QuietLeave DEF RpcFails, Inside

\* The voucher that is answered is the reservation on record.
LEMMA StepAnswer ==
    ASSUME Inv, NEW k \in Calls, Answer(k)
    PROVE  Result
<1> DEFINE h == HandleOf(k)
<1>0. /\ UNCHANGED <<time, provenance, request, issuance, nextNonce, faults>>
      /\ call[k].pc = "answer" /\ Inside(k) /\ Leave(k)
      /\ released' \subseteq released \cup {issuance[h].voucher}
  BY DEF Answer, Inside, chain, store
<1>1. /\ call[k].pc # "idle" /\ queue[h][1] = k
      /\ h \in Handles /\ issuance[h] # Nothing
  BY <1>0, AtHead DEF CallOK, Issued
<1>2. CallInv' /\ LockInv'
  BY <1>0, <1>1, SafeCalls DEF CallStep
<1>3. issuance[h].voucher \in Vouchers /\ issuance[h].voucher.handle = h
  BY <1>1 DEF Inv, TypeOK, Issuances, IssuanceInv, ReservationFitsRequest
<1>4. IssuanceInv' /\ MintMatchesReservation'
  BY <1>0 DEF Inv, IssuanceInv, ReservationFitsRequest, Contract!WindowOK,
              MintMatchesReservation, Minted
<1>5. ReleasedInv'
  BY <1>0, <1>1, <1>3 DEF Inv, ReleasedInv
<1>6. released' \subseteq Vouchers
  BY <1>0, <1>3 DEF Inv, TypeOK
<1>7. call' \in [Calls -> CallRecords] /\ queue' \in [Handles -> Seq(Calls)]
  BY <1>0, LeaveTypes
<1> QED BY <1>0, <1>2, <1>4, <1>5, <1>6, <1>7 DEF Result, Safe, Inv, TypeOK

\* A signature changes nothing of a reservation.
LEMMA SafeSigned ==
    ASSUME Inv, NEW h \in Handles, issuance[h] # Nothing,
           \/ issuance' = issuance
           \/ issuance' = [issuance EXCEPT ![h].signed = TRUE],
           UNCHANGED <<time, provenance, request, nextNonce, released>>
    PROVE  /\ issuance' \in [Handles -> Issuances \cup {Nothing}]
           /\ \A g \in Handles : g # h => issuance'[g] = issuance[g]
           /\ issuance'[h] # Nothing
           /\ IssuanceInv' /\ ReleasedInv' /\ MintMatchesReservation'
<1>1. issuance \in [Handles -> Issuances \cup {Nothing}] /\ issuance[h] \in Issuances
  BY DEF Inv, TypeOK
<1>2. CASE issuance' = issuance
  BY <1>1, <1>2, SafeStore
<1>3. CASE issuance' = [issuance EXCEPT ![h].signed = TRUE]
  <2>1. /\ issuance'[h] = [issuance[h] EXCEPT !.signed = TRUE]
        /\ \A g \in Handles : g # h => issuance'[g] = issuance[g]
    BY <1>1, <1>3
  <2>2. /\ issuance'[h] \in Issuances /\ issuance'[h].code = issuance[h].code
        /\ issuance'[h].voucher = issuance[h].voucher
    BY <1>1, <2>1 DEF Issuances
  <2>3. issuance' \in [Handles -> Issuances \cup {Nothing}]
    BY <1>1, <1>3, <2>1, <2>2
  <2>4. \A g \in Handles :
          /\ issuance'[g] # Nothing <=> issuance[g] # Nothing
          /\ issuance[g] # Nothing =>
               issuance'[g].code = issuance[g].code /\ issuance'[g].voucher = issuance[g].voucher
    BY <2>1, <2>2, NothingAssumption
  <2>5. IssuanceInv'
    BY <2>4 DEF Inv, IssuanceInv, ReservationFitsRequest, Contract!WindowOK
  <2>6. \A v \in released : v.handle \in Handles
    BY DEF Inv, TypeOK, Vouchers, Contract!Vouchers
  <2>7. ReleasedInv' /\ MintMatchesReservation'
    BY <2>4, <2>6 DEF Inv, ReleasedInv, MintMatchesReservation, Minted
  <2> QED BY <2>1, <2>2, <2>3, <2>5, <2>7, NothingAssumption
<1> QED BY <1>2, <1>3

LEMMA FaultsBounded ==
    ASSUME TypeOK, NEW w \in PutResults, Faulty(w)
    PROVE  faults' \in 0..MaxFaults
BY BoundAssumption DEF TypeOK, PutResults, Faulty

LEMMA StepSign ==
    ASSUME Inv, NEW k \in Calls, Sign(k)
    PROVE  Result
<1> DEFINE h == HandleOf(k)
<1>0. /\ UNCHANGED <<time, provenance, request, nextNonce, released>>
      /\ call[k].pc = "sign" /\ Inside(k)
  BY DEF Sign, Inside, chain
<1>1. /\ call[k].pc # "idle" /\ queue[h][1] = k /\ CallOK(k)
      /\ h \in Handles /\ issuance[h] # Nothing /\ call[k] \in CallRecords
  BY <1>0, AtHead DEF CallOK, Issued
<1>2. /\ issuance' = issuance \/ issuance' = [issuance EXCEPT ![h].signed = TRUE]
      /\ Leave(k) \/ (Goto(k, "transact") /\ UNCHANGED queue)
  BY DEF Sign
<1>3. faults' \in 0..MaxFaults
  BY FaultsBounded DEF Sign, Inv, TypeOK
<1>4. /\ issuance' \in [Handles -> Issuances \cup {Nothing}]
      /\ \A g \in Handles : g # h => issuance'[g] = issuance[g]
      /\ issuance'[h] # Nothing
      /\ IssuanceInv' /\ ReleasedInv' /\ MintMatchesReservation'
  BY <1>0, <1>1, <1>2, SafeSigned
<1>5. CallStep(k) /\ call' \in [Calls -> CallRecords] /\ queue' \in [Handles -> Seq(Calls)]
  <2>1. CASE Leave(k)
    BY <1>0, <1>1, <2>1, LeaveTypes DEF CallStep
  <2>2. CASE Goto(k, "transact") /\ UNCHANGED queue
    <3>1. /\ \A j \in Calls : j # k => call'[j] = call[j]
          /\ call'[k] = [call[k] EXCEPT !.pc = "transact"]
      BY <2>2 DEF Goto, Inv, TypeOK
    <3>2. /\ call'[k].pc = "transact" /\ call'[k].code = call[k].code
          /\ call'[k].session = call[k].session /\ call'[k].recipient = call[k].recipient
          /\ call'[k].chainTime = call[k].chainTime
      BY <1>1, <3>1 DEF CallRecords
    <3>3. HandleOf(k)' = h
      BY <1>0, <3>2 DEF HandleOf
    <3>4. CallOK(k)'
      BY <1>0, <1>1, <1>4, <3>2, <3>3 DEF CallOK, Inside
    <3>5. call' \in [Calls -> CallRecords]
      BY <2>2, TypeGoto DEF Inv, Steps
    <3> QED BY <1>0, <1>1, <2>2, <3>1, <3>2, <3>4, <3>5 DEF CallStep, Inv, TypeOK
  <2> QED BY <1>2, <2>1, <2>2
<1>6. CallInv' /\ LockInv'
  BY <1>4, <1>5, SafeCalls
<1> QED BY <1>0, <1>3, <1>4, <1>5, <1>6 DEF Result, Safe, Inv, TypeOK

\* The reservation that a call writes: typed, within the contract's window and
\* the life of its request.
LEMMA NewVoucher ==
    ASSUME Inv, NEW k \in Calls, call[k].pc = "issue",
           Deadline(call[k].code, call[k].chainTime) > call[k].chainTime + MinWindow,
           NEW v, v = [handle |-> HandleOf(k), recipient |-> call[k].recipient, nonce |-> nextNonce,
                       issuedAt |-> call[k].chainTime,
                       deadline |-> Deadline(call[k].code, call[k].chainTime)]
    PROVE  /\ v \in Vouchers /\ Contract!WindowOK(v) /\ v.handle = HandleOf(k)
           /\ v.recipient = request[call[k].code].wallet
           /\ v.deadline <= request[call[k].code].expires
           /\ v.issuedAt <= time /\ v.nonce = nextNonce
<1> DEFINE c == call[k].code  at == call[k].chainTime
<1>1. /\ HandleOf(k) \in Handles /\ c \in Codes /\ request[c] # Nothing
      /\ call[k].recipient \in Wallets /\ call[k].recipient = request[c].wallet
      /\ at \in 1..time
  BY AtHead DEF Inside, CallOK
<1>2. time \in Nat /\ at \in Nat /\ at # 0 /\ at <= time /\ nextNonce \in Nat
  BY <1>1, BoundAssumption DEF Inv, TypeOK, Contract!TypeOK, Contract!Times
<1>3. request[c].expires \in Nat
  BY <1>1 DEF Inv, TypeOK, Requests
<1>4. /\ Deadline(c, at) \in Nat /\ Deadline(c, at) <= request[c].expires
      /\ Deadline(c, at) <= at + Window
  BY <1>2, <1>3, WindowAssumption DEF Deadline
<1>5. at < Deadline(c, at) /\ Deadline(c, at) - at <= ContractWindow
  BY <1>2, <1>4, WindowAssumption
<1>6. v \in Vouchers
  BY <1>1, <1>2, <1>4 DEF Vouchers, Contract!Vouchers
<1>7. Contract!WindowOK(v)
  BY <1>2, <1>5 DEF Contract!WindowOK
<1> QED BY <1>1, <1>2, <1>4, <1>6, <1>7

\* A reservation is only replaced when it has expired on the chain's clock and
\* was not redeemed, because the clock was read before the token.
LEMMA SafeReserved ==
    ASSUME Inv, NEW k \in Calls, call[k].pc = "issue", ~Held(HandleOf(k), call[k].chainTime),
           NEW v \in Vouchers, Contract!WindowOK(v), v.handle = HandleOf(k),
           v.recipient = request[call[k].code].wallet,
           v.deadline <= request[call[k].code].expires, v.issuedAt <= time, v.nonce = nextNonce,
           \/ issuance' = issuance
           \/ issuance' = [issuance EXCEPT
                 ![HandleOf(k)] = [code |-> call[k].code, voucher |-> v, signed |-> FALSE]],
           nextNonce' = nextNonce + 1, UNCHANGED <<time, provenance, request, released>>
    PROVE  /\ issuance' \in [Handles -> Issuances \cup {Nothing}] /\ nextNonce' \in Nat
           /\ \A g \in Handles : g # HandleOf(k) => issuance'[g] = issuance[g]
           /\ IssuanceInv' /\ ReleasedInv' /\ MintMatchesReservation'
<1> DEFINE h == HandleOf(k)  c == call[k].code  at == call[k].chainTime
           new == [code |-> c, voucher |-> v, signed |-> FALSE]
<1>1. /\ h \in Handles /\ c \in Codes /\ request[c] # Nothing /\ request[c].handle = h
      /\ at \in 1..time /\ ~Minted(h)
  BY AtHead DEF Inside, CallOK, HandleOf
<1>2. time \in Nat /\ at \in Nat /\ nextNonce \in Nat
  BY <1>1, BoundAssumption DEF Inv, TypeOK, Contract!TypeOK, Contract!Times
<1>3. /\ new \in Issuances /\ new.code = c /\ new.voucher = v
  BY <1>1 DEF Issuances
<1>4. issuance \in [Handles -> Issuances \cup {Nothing}]
  BY DEF Inv, TypeOK
<1>5. \A g \in Handles : issuance[g] # Nothing =>
         /\ issuance[g].voucher.nonce \in Nat /\ issuance[g].voucher.deadline \in Nat
         /\ issuance[g].voucher.nonce < nextNonce
  BY <1>4 DEF Issuances, Vouchers, Contract!Vouchers, Inv, IssuanceInv
<1>6. CASE issuance' = issuance
  <2>1. IssuanceInv'
    BY <1>2, <1>5, <1>6 DEF Inv, IssuanceInv, ReservationFitsRequest, Contract!WindowOK
  <2>2. ReleasedInv' /\ MintMatchesReservation'
    BY <1>6 DEF Inv, ReleasedInv, MintMatchesReservation, Minted
  <2> QED BY <1>2, <1>4, <1>6, <2>1, <2>2
<1>7. CASE issuance' = [issuance EXCEPT ![h] = new]
  <2> HIDE DEF new
  <2>1. issuance'[h] = new /\ (\A g \in Handles : g # h => issuance'[g] = issuance[g])
    BY <1>1, <1>4, <1>7
  <2>2. new # Nothing
    BY <1>3, NothingAssumption
  <2>3. issuance' \in [Handles -> Issuances \cup {Nothing}]
    BY <1>1, <1>3, <1>4, <1>7
  <2>4. IssuanceInv'
    <3>1. ASSUME NEW g \in Handles, issuance'[g] # Nothing
          PROVE  /\ Contract!WindowOK(issuance'[g].voucher)
                 /\ issuance'[g].voucher.handle = g /\ request[issuance'[g].code].handle = g
                 /\ issuance'[g].voucher.recipient = request[issuance'[g].code].wallet
                 /\ issuance'[g].voucher.deadline <= request[issuance'[g].code].expires
                 /\ request[issuance'[g].code] # Nothing
                 /\ issuance'[g].voucher.issuedAt <= time /\ issuance'[g].voucher.nonce < nextNonce + 1
      <4>1. CASE g = h
        BY <1>1, <1>2, <1>3, <2>1, <4>1
      <4>2. CASE g # h
        <5>1. issuance'[g] = issuance[g]
          BY <2>1, <4>2
        <5> QED BY <1>2, <1>5, <3>1, <5>1 DEF Inv, IssuanceInv, ReservationFitsRequest
      <4> QED BY <4>1, <4>2
    <3> QED BY <3>1 DEF IssuanceInv, ReservationFitsRequest, Contract!WindowOK
  <2>5. ReleasedInv'
    <3>1. ASSUME NEW u \in released
          PROVE  issuance'[u.handle] # Nothing /\ (u = issuance'[u.handle].voucher \/ u.deadline < time)
      <4>1. u.handle \in Handles /\ u.deadline \in Nat
        BY DEF Inv, TypeOK, Vouchers, Contract!Vouchers
      <4>2. issuance[u.handle] # Nothing /\ (u = issuance[u.handle].voucher \/ u.deadline < time)
        BY DEF Inv, ReleasedInv
      <4>3. CASE u.handle = h
        <5>1. issuance[h].voucher.deadline < at
          BY <1>2, <1>5, <4>1, <4>2, <4>3 DEF Held
        <5>2. u.deadline < time
          BY <1>1, <1>2, <4>1, <4>2, <4>3, <5>1
        <5> QED BY <2>1, <2>2, <4>3, <5>2
      <4>4. CASE u.handle # h
        BY <2>1, <4>1, <4>2, <4>4
      <4> QED BY <4>3, <4>4
    <3> QED BY <3>1 DEF ReleasedInv
  <2>6. MintMatchesReservation'
    BY <1>1, <2>1 DEF Inv, MintMatchesReservation, Minted
  <2> QED BY <1>2, <2>1, <2>3, <2>4, <2>5, <2>6
<1> QED BY <1>6, <1>7

LEMMA StepIssue ==
    ASSUME Inv, NEW k \in Calls, Issue(k)
    PROVE  Result
<1> DEFINE h == HandleOf(k)  c == call[k].code  at == call[k].chainTime
<1>0. /\ UNCHANGED <<time, provenance, request, released, chain>>
      /\ call[k].pc = "issue" /\ Inside(k)
  BY DEF Issue, Inside, chain
<1>1. /\ call[k].pc # "idle" /\ queue[h][1] = k /\ CallOK(k)
      /\ h \in Handles /\ call[k] \in CallRecords
  BY <1>0, AtHead
<1>2. CASE /\ Held(h, at) /\ Goto(k, "confirm")
           /\ UNCHANGED <<issuance, nextNonce, queue, faults>>
  BY <1>0, <1>2, QuietGoto DEF CallSteps, Steps, Issued, Held, store
<1>3. CASE Leave(k) /\ UNCHANGED <<issuance, nextNonce, faults>>
  BY <1>0, <1>3, QuietLeave DEF store
<1>4. CASE /\ ~Held(h, at) /\ Deadline(c, at) > at + MinWindow /\ nextNonce' = nextNonce + 1
           /\ \E w \in PutResults :
                 /\ Faulty(w)
                 /\ issuance' = IF w = "lost" THEN issuance
                      ELSE [issuance EXCEPT ![h] = [code |-> c, signed |-> FALSE, voucher |->
                             [handle |-> h, recipient |-> call[k].recipient, nonce |-> nextNonce,
                              issuedAt |-> at, deadline |-> Deadline(c, at)]]]
                 /\ IF w = "ok" THEN Goto(k, "confirm") /\ UNCHANGED queue ELSE Leave(k)
  <2>1. PICK v : v = [handle |-> h, recipient |-> call[k].recipient, nonce |-> nextNonce,
                      issuedAt |-> at, deadline |-> Deadline(c, at)]
    OBVIOUS
  <2>2. PICK w \in PutResults :
           /\ Faulty(w)
           /\ issuance' = IF w = "lost" THEN issuance
                ELSE [issuance EXCEPT ![h] = [code |-> c, voucher |-> v, signed |-> FALSE]]
           /\ IF w = "ok" THEN Goto(k, "confirm") /\ UNCHANGED queue ELSE Leave(k)
    BY <1>4, <2>1
  <2>3. /\ v \in Vouchers /\ Contract!WindowOK(v) /\ v.handle = h
        /\ v.recipient = request[c].wallet /\ v.deadline <= request[c].expires
        /\ v.issuedAt <= time /\ v.nonce = nextNonce
    BY <1>0, <1>4, <2>1, NewVoucher
  <2>4. /\ issuance' \in [Handles -> Issuances \cup {Nothing}] /\ nextNonce' \in Nat
        /\ \A g \in Handles : g # h => issuance'[g] = issuance[g]
        /\ IssuanceInv' /\ ReleasedInv' /\ MintMatchesReservation'
    BY <1>0, <1>4, <2>2, <2>3, SafeReserved
  <2>5. faults' \in 0..MaxFaults
    BY <2>2, FaultsBounded DEF Inv
  <2>6. CallStep(k) /\ call' \in [Calls -> CallRecords] /\ queue' \in [Handles -> Seq(Calls)]
    <3>1. CASE Leave(k)
      BY <1>0, <1>1, <3>1, LeaveTypes DEF CallStep
    <3>2. CASE ~Leave(k)
      <4>1. /\ Goto(k, "confirm") /\ UNCHANGED queue
            /\ issuance' = [issuance EXCEPT ![h] = [code |-> c, voucher |-> v, signed |-> FALSE]]
        BY <2>2, <3>2
      <4>2. issuance'[h] # Nothing
        <5>1. [code |-> c, voucher |-> v, signed |-> FALSE] \in Issuances
          BY <1>1, <2>3 DEF CallOK, Issuances
        <5> QED BY <1>1, <4>1, <5>1, NothingAssumption DEF Inv, TypeOK
      <4>3. /\ \A j \in Calls : j # k => call'[j] = call[j]
            /\ call'[k] = [call[k] EXCEPT !.pc = "confirm"]
        BY <4>1 DEF Goto, Inv, TypeOK
      <4>4. /\ call'[k].pc = "confirm" /\ call'[k].code = c
            /\ call'[k].session = call[k].session /\ call'[k].recipient = call[k].recipient
            /\ call'[k].chainTime = at
        BY <1>1, <4>3 DEF CallRecords
      <4>5. HandleOf(k)' = h
        BY <1>0, <4>4 DEF HandleOf
      <4>6. CallOK(k)'
        BY <1>0, <1>1, <4>2, <4>4, <4>5 DEF CallOK, Inside
      <4>7. call' \in [Calls -> CallRecords]
        BY <4>1, TypeGoto DEF Inv, Steps
      <4> QED BY <1>0, <1>1, <4>1, <4>3, <4>4, <4>6, <4>7 DEF CallStep, Inv, TypeOK
    <3> QED BY <3>1, <3>2
  <2>7. CallInv' /\ LockInv'
    BY <2>4, <2>6, SafeCalls
  <2> QED BY <1>0, <2>4, <2>5, <2>6, <2>7 DEF Result, Safe, Inv, TypeOK
<1> QED BY <1>0, <1>2, <1>3, <1>4 DEF Issue
-----------------------------------------------------------------------------
(* The invariant. *)

LEMMA StepProceed ==
    ASSUME Inv, NEW k \in Calls, Proceed(k) \/ RpcFails(k)
    PROVE  Result
BY StepEnter, StepReadClock, StepReadState, StepIssue, StepConfirm, StepSign, StepTransact,
   StepAnswer, StepRpcFails DEF Proceed

\* What a step of a call leaves alone.
LEMMA CallFrame ==
    ASSUME \/ \E k \in Calls, c \in Codes, s \in Sessions : Submit(k, c, s)
           \/ \E k \in Calls : Proceed(k) \/ RpcFails(k)
    PROVE  UNCHANGED <<chain, clock, browsers, request>>
BY DEF Submit, Proceed, RpcFails, Enter, ReadClock, ReadState, Issue, Confirm, Sign, Transact,
       Answer, store

LEMMA InvInit == Init => Inv
<1> SUFFICES ASSUME Init PROVE Inv
  OBVIOUS
<1>1. TypeOK /\ LockInv
  BY TypeInit, LockInit
<1>2. ProofIsCurrent /\ CallInv
  BY DEF Init, ProofIsCurrent, NoSession, CallInv, CallOK, Inside, Issued, Idle
<1>3. IssuanceInv /\ ReleasedInv /\ MintMatchesReservation
  BY DEF Init, Contract!Init, IssuanceInv, ReservationFitsRequest, ReleasedInv,
         MintMatchesReservation, Minted
<1> QED BY <1>1, <1>2, <1>3 DEF Inv

LEMMA StepRequests ==
    ASSUME Inv,
           \/ \E s \in Sessions, c \in Codes, h \in Handles : Prepare(s, c, h)
           \/ \E c \in Codes : Complete(c)
    PROVE  Inv'
<1>0. UNCHANGED <<chain, clock, browsers, issuance, nextNonce, process, released, faults>>
  BY DEF Prepare, Complete
<1>1. request' \in [Codes -> Requests \cup {Nothing}] /\ RequestsKept
  <2>1. CASE \E s \in Sessions, c \in Codes, h \in Handles : Prepare(s, c, h)
    <3>1. PICK s \in Sessions, c \in Codes, h \in Handles : Prepare(s, c, h)
      BY <2>1
    <3> DEFINE new == [handle |-> h, owner |-> s, wallet |-> session[s].wallet,
                       status |-> "pending", expires |-> clock + RequestLife]
    <3>2. session[s].wallet \in Wallets
      <4>1. session[s] \in SiteSessions
        BY DEF Inv, TypeOK
      <4>2. session[s].proof \in Proofs /\ session[s].proof.wallet = session[s].wallet
        BY <3>1, <4>1 DEF Prepare, WalletVerified, WalletFresh, SiteSessions
      <4> QED BY <4>2 DEF Proofs
    <3>3. clock + RequestLife \in Nat
      BY BoundAssumption, LifeAssumption DEF Inv, TypeOK
    <3>4. new \in Requests
      BY <3>2, <3>3 DEF Requests
    <3>5. request[c] = Nothing /\ request' = [request EXCEPT ![c] = new]
      BY <3>1 DEF Prepare
    <3> HIDE DEF new
    <3> QED BY <3>4, <3>5 DEF Inv, TypeOK, RequestsKept
  <2>2. CASE \E c \in Codes : Complete(c)
    <3>1. PICK c \in Codes : Complete(c)
      BY <2>2
    <3>2. PICK status \in {"ready", "failed"} : request' = [request EXCEPT ![c].status = status]
      BY <3>1 DEF Complete
    <3> DEFINE new == [request[c] EXCEPT !.status = status]
    <3>3. request[c] \in Requests /\ request \in [Codes -> Requests \cup {Nothing}]
      BY <3>1 DEF Complete, Inv, TypeOK
    <3>4. /\ new \in Requests /\ new.handle = request[c].handle
          /\ new.wallet = request[c].wallet /\ new.expires = request[c].expires
      BY <3>3 DEF Requests
    <3>5. request' = [request EXCEPT ![c] = new]
      BY <3>2
    <3> HIDE DEF new
    <3>6. request'[c] = new /\ \A d \in Codes : d # c => request'[d] = request[d]
      BY <3>3, <3>5
    <3>7. request' \in [Codes -> Requests \cup {Nothing}]
      BY <3>3, <3>4, <3>5
    <3> QED BY <3>4, <3>6, <3>7, NothingAssumption DEF RequestsKept
  <2> QED BY <2>1, <2>2
<1>2. Safe'
  BY <1>0, <1>1, SafeRequests
<1>3. Contract!TypeOK'
  BY <1>0, ChainUnchanged DEF Inv, TypeOK
<1>4. TypeOK'
  BY <1>0, <1>1, <1>3 DEF Inv, TypeOK, browsers, process
<1>5. ProofIsCurrent'
  BY <1>0 DEF Inv, ProofIsCurrent, browsers
<1> QED BY <1>2, <1>4, <1>5 DEF Inv, Safe

LEMMA StepRestart ==
    ASSUME Inv, Restart
    PROVE  Inv'
<1>1. Safe' /\ RequestsKept /\ UNCHANGED chain
  BY SafeRestart
<1>2. UNCHANGED <<clock, issuance, nextNonce, released>>
  BY DEF Restart
<1>3. session' \in [Sessions -> SiteSessions] /\ ProofIsCurrent'
  <2>1. ASSUME NEW s \in Sessions
        PROVE  /\ session'[s] \in SiteSessions
               /\ session'[s].proof # Nothing =>
                     session'[s].proof.gen = session'[s].gen /\ session'[s].challenge = Nothing
    <3>1. session[s] \in SiteSessions /\ session[s].gen + 1 \in Nat
      BY DEF Inv, TypeOK, SiteSessions
    <3> DEFINE new == [session[s] EXCEPT !.status = "gone", !.gen = @ + 1,
                         !.wallet = Nothing, !.proof = Nothing, !.challenge = Nothing]
    <3>2. new \in SiteSessions /\ new.proof = Nothing
      BY <3>1 DEF SiteSessions
    <3>3. session'[s] = new \/ session'[s] = session[s]
      BY DEF Restart
    <3> HIDE DEF new
    <3> QED BY <3>1, <3>2, <3>3 DEF Inv, ProofIsCurrent
  <2>2. \E f : session' = [s \in Sessions |-> f[s]]
    BY DEF Restart
  <2> QED BY <2>1, <2>2 DEF ProofIsCurrent
<1>4. checking' \in [Sessions -> SUBSET [ch : Challenges, gen : Nat]]
  BY DEF Restart
<1>5. request' \in [Codes -> Requests \cup {Nothing}]
  <2>1. ASSUME NEW c \in Codes PROVE request'[c] \in Requests \cup {Nothing}
    <3>1. CASE request[c] = Nothing
      BY <3>1 DEF Restart
    <3>2. CASE request[c] # Nothing
      <4>1. request[c] \in Requests
        BY <3>2 DEF Inv, TypeOK
      <4>2. [request[c] EXCEPT !.status = "failed"] \in Requests
        BY <4>1 DEF Requests
      <4>3. request'[c] = request[c] \/ request'[c] = [request[c] EXCEPT !.status = "failed"]
        BY DEF Restart
      <4> QED BY <4>1, <4>2, <4>3
    <3> QED BY <3>1, <3>2
  <2>2. \E f : request' = [c \in Codes |-> f[c]]
    BY DEF Restart
  <2> QED BY <2>1, <2>2
<1>6. call' \in [Calls -> CallRecords] /\ queue' \in [Handles -> Seq(Calls)]
  <2>1. Idle \in CallRecords
    BY DEF Idle, CallRecords, Steps
  <2>2. call' = [k \in Calls |-> Idle] /\ queue' = [h \in Handles |-> <<>>]
    BY DEF Restart
  <2> QED BY <2>1, <2>2
<1>7. faults' \in 0..MaxFaults
  <2>1. faults < MaxFaults /\ faults' = faults + 1 /\ faults \in 0..MaxFaults
    BY DEF Restart, Inv, TypeOK
  <2> QED BY <2>1, BoundAssumption
<1>8. Contract!TypeOK'
  BY <1>1, ChainUnchanged DEF Inv, TypeOK
<1>9. TypeOK'
  BY <1>2, <1>3, <1>4, <1>5, <1>6, <1>7, <1>8 DEF Inv, TypeOK
<1> QED BY <1>1, <1>3, <1>9 DEF Inv, Safe

\* Every step keeps the invariant.
LEMMA InvStep == Inv /\ [Next]_vars => Inv'
<1> SUFFICES ASSUME Inv, [Next]_vars PROVE Inv'
  OBVIOUS
<1>0. TypeOK /\ ProofIsCurrent /\ Contract!TypeOK
  BY DEF Inv, TypeOK
<1>1. CASE Browser
  <2>1. /\ session' \in [Sessions -> SiteSessions]
        /\ checking' \in [Sessions -> SUBSET [ch : Challenges, gen : Nat]]
        /\ ProofIsCurrent'
        /\ UNCHANGED <<chain, clock, store, process, released, faults>>
    BY <1>0, <1>1, BrowserTypes
  <2>2. Contract!TypeOK' /\ time' = time /\ provenance' = provenance
    BY <1>0, <2>1, ChainUnchanged DEF chain
  <2>3. TypeOK'
    BY <1>0, <2>1, <2>2 DEF TypeOK, store, process
  <2>4. time <= time'
    BY <2>2, BoundAssumption DEF Contract!TypeOK, Contract!Times
  <2>5. Safe'
    BY <2>1, <2>2, <2>3, <2>4, SafeTime
  <2> QED BY <2>1, <2>3, <2>5 DEF Inv, Safe
<1>2. CASE \/ \E s \in Sessions, c \in Codes, h \in Handles : Prepare(s, c, h)
           \/ \E c \in Codes : Complete(c)
  BY <1>2, StepRequests
<1>3. CASE \/ \E k \in Calls, c \in Codes, s \in Sessions : Submit(k, c, s)
           \/ \E k \in Calls : Proceed(k) \/ RpcFails(k)
  <2>1. UNCHANGED <<chain, clock, browsers, request>>
    BY <1>3, CallFrame
  <2>2. Result
    BY <1>3, StepSubmit, StepProceed
  <2>3. Contract!TypeOK'
    BY <1>0, <2>1, ChainUnchanged
  <2>4. TypeOK'
    BY <1>0, <2>1, <2>2, <2>3 DEF TypeOK, Result, browsers
  <2>5. ProofIsCurrent'
    BY <1>0, <2>1 DEF ProofIsCurrent, browsers
  <2> QED BY <2>2, <2>4, <2>5 DEF Inv, Safe, Result
<1>4. CASE (\E v \in released : Redeem(v)) \/ Administer \/ Block
  <2>1. Contract!TypeOK' /\ time <= time' /\ UNCHANGED service
    BY <1>0, <1>4, WorldStep
  <2>2. TypeOK'
    BY <1>0, <2>1 DEF TypeOK, service, browsers, store, process
  <2>3. ProofIsCurrent'
    BY <1>0, <2>1 DEF ProofIsCurrent, service, browsers
  <2>4. Safe'
    <3>1. CASE \E v \in released : Redeem(v)
      BY <3>1, SafeRedeem
    <3>2. CASE Administer \/ Block
      <4>1. provenance' = provenance
        BY <3>2 DEF Administer, Block, Contract!SetTrustedAuthorizer, Contract!RevokeNonce,
             Contract!PauseMinting, Contract!UnpauseMinting, Contract!Block, Contract!mints
      <4> QED BY <2>1, <2>2, <4>1, SafeTime DEF service
    <3> QED BY <1>4, <3>1, <3>2
  <2> QED BY <2>2, <2>3, <2>4 DEF Inv, Safe
<1>5. CASE Tick
  <2>1. UNCHANGED <<chain, browsers, store, process, released, faults>> /\ clock' \in 1..MaxTime
    BY <1>0, <1>5, BoundAssumption DEF Tick, TypeOK
  <2>2. Contract!TypeOK' /\ time' = time /\ provenance' = provenance
    BY <1>0, <2>1, ChainUnchanged DEF chain
  <2>3. TypeOK'
    BY <1>0, <2>1, <2>2 DEF TypeOK, browsers, store, process
  <2>4. time <= time'
    BY <2>2, BoundAssumption DEF Contract!TypeOK, Contract!Times
  <2>5. Safe'
    BY <2>1, <2>2, <2>3, <2>4, SafeTime
  <2>6. ProofIsCurrent'
    BY <1>0, <2>1 DEF ProofIsCurrent, browsers
  <2> QED BY <2>3, <2>5, <2>6 DEF Inv, Safe
<1>6. CASE Restart
  BY <1>6, StepRestart
<1>7. CASE UNCHANGED vars
  <2>1. UNCHANGED <<chain, clock, browsers, store, process, released, faults>>
    BY <1>7 DEF vars
  <2>2. Contract!TypeOK' /\ time' = time /\ provenance' = provenance
    BY <1>0, <2>1, ChainUnchanged DEF chain
  <2>3. TypeOK'
    BY <1>0, <2>1, <2>2 DEF TypeOK, browsers, store, process
  <2>4. time <= time'
    BY <2>2, BoundAssumption DEF Contract!TypeOK, Contract!Times
  <2>5. Safe'
    BY <2>1, <2>2, <2>3, <2>4, SafeTime
  <2>6. ProofIsCurrent'
    BY <1>0, <2>1 DEF ProofIsCurrent, browsers
  <2> QED BY <2>3, <2>5, <2>6 DEF Inv, Safe
<1> QED BY <1>1, <1>2, <1>3, <1>4, <1>5, <1>6, <1>7 DEF Next, Browser

LEMMA Invariance == Spec => []Inv
<1>1. Init => Inv
  BY InvInit
<1>2. Inv /\ [Next]_vars => Inv'
  BY InvStep
<1> QED BY <1>1, <1>2, PTL DEF Spec
-----------------------------------------------------------------------------
(* The theorems. *)

\* The state of sessions, requests, calls, reservations and contract is well
\* formed in every reachable state, whatever crashes or writes fail.
THEOREM MintTypeCorrect == Spec => []TypeOK
<1>1. Inv => TypeOK
  BY DEF Inv
<1> QED BY <1>1, Invariance, PTL

\* Of the vouchers of one handle that were ever answered to a browser, at most
\* one can still be redeemed: authorize() replaces a reservation only after its
\* deadline has passed on the chain.
THEOREM AtMostOneRedeemable == Spec => []OneRedeemable
<1>1. Inv => OneRedeemable
  <2> SUFFICES ASSUME Inv, NEW v \in released, NEW w \in released, v.handle = w.handle,
                      time <= v.deadline, time <= w.deadline
               PROVE  v = w
    BY DEF OneRedeemable
  <2>1. v.deadline \in Nat /\ w.deadline \in Nat /\ time \in Nat
    BY BoundAssumption DEF Inv, TypeOK, Vouchers, Contract!Vouchers, Contract!TypeOK, Contract!Times
  <2> QED BY <2>1 DEF Inv, ReleasedInv
<1> QED BY <1>1, Invariance, PTL

\* Every token was minted from the reservation on record: what authorize()
\* stored before it signed is what the chain recorded.
THEOREM TokensMatchReservations == Spec => []MintMatchesReservation
<1>1. Inv => MintMatchesReservation
  BY DEF Inv
<1> QED BY <1>1, Invariance, PTL

\* A wallet proof belongs to the latest challenge of its session, although
\* verify() waits for the signature check with the challenge already consumed.
THEOREM ProofsAreCurrent == Spec => []ProofIsCurrent
<1>1. Inv => ProofIsCurrent
  BY DEF Inv
<1> QED BY <1>1, Invariance, PTL

\* A stored reservation satisfies the contract's window and ends with the
\* request it was made for.
THEOREM ReservationsFit == Spec => []ReservationFitsRequest
<1>1. Inv => ReservationFitsRequest
  BY DEF Inv, IssuanceInv
<1> QED BY <1>1, Invariance, PTL

\* SerialKeys lets one call of a handle work at a time, in order of arrival,
\* and drops it from the queue however it ends.
THEOREM LockIsAlwaysSound == Spec => []LockIsSound
<1>1. Inv => LockIsSound
  BY DEF Inv, LockInv
<1> QED BY <1>1, Invariance, PTL

\* Only an answer changes what browsers hold.
LEMMA OnlyAnswers ==
    ASSUME Inv, [Next]_vars, released' # released
    PROVE  \E k \in Calls : Answer(k)
BY DEF Next, vars, store, process, service, OpenSession, VerifyBegin, Logout, Challenge, VerifyEnd,
       Prepare, Complete, Submit, Proceed, RpcFails, Enter, ReadClock, ReadState, Issue, Confirm,
       Sign, Transact, Redeem, Administer, Block, Tick, Restart

\* A voucher is answered under the very proof its call entered with: authorize()
\* looks at the session once more after its last await.
THEOREM AnswersUnderSameProof == Spec => AnswerUnderSameProof
<1> DEFINE Good(k) ==
      call[k].pc = "answer" /\ call'[k] = Idle /\ released' # released =>
         LET p == session[call[k].session].proof IN
         p # Nothing /\ p.gen = call[k].gen /\ p.wallet = call[k].recipient
<1>1. Inv /\ [Next]_vars => \A k \in Calls : Good(k)
  <2> SUFFICES ASSUME Inv, [Next]_vars, NEW k \in Calls, call[k].pc = "answer",
                      call'[k] = Idle, released' # released
               PROVE  LET p == session[call[k].session].proof IN
                      p # Nothing /\ p.gen = call[k].gen /\ p.wallet = call[k].recipient
    OBVIOUS
  <2>1. PICK j \in Calls : Answer(j)
    BY OnlyAnswers
  <2>2. j = k
    BY <2>1 DEF Answer, Leave, Inv, TypeOK, Idle
  <2>3. SameConsent(k)
    BY <2>1, <2>2 DEF Answer
  <2>4. call[k].session \in Sessions
    BY DEF Inv, CallInv, CallOK
  <2> QED BY <2>3, <2>4 DEF SameConsent, WalletProved, WalletFresh, Inv, ProofIsCurrent
<1>2. Inv /\ [Next]_vars =>
        \A k \in Calls : call[k].pc = "answer" /\ call'[k] = Idle /\ released' # released =>
          LET p == session[call[k].session].proof IN
          p # Nothing /\ p.gen = call[k].gen /\ p.wallet = call[k].recipient
  BY <1>1
<1> HIDE DEF Good
<1> QED BY <1>2, Invariance, PTL DEF Spec, AnswerUnderSameProof
-----------------------------------------------------------------------------
\* The reservations of the abstract specification, and how a step maps.
Reservations == [h \in Handles |-> IF issuance[h] = Nothing THEN Nothing ELSE issuance[h].voucher]

LEMMA QuietMaps ==
    ASSUME UNCHANGED <<time, provenance, issuance>>
    PROVE  UNCHANGED Promise!vars
BY DEF Promise!vars

\* A signed reservation is the same reservation.
LEMMA SignMaps ==
    ASSUME Inv, NEW k \in Calls, Sign(k)
    PROVE  UNCHANGED Promise!vars
<1> DEFINE h == HandleOf(k)
<1>1. h \in Handles /\ issuance[h] # Nothing
  BY AtHead DEF Sign, Inside, CallOK, Issued
<1>2. issuance \in [Handles -> Issuances \cup {Nothing}] /\ issuance[h] \in Issuances
  BY <1>1 DEF Inv, TypeOK
<1>3. UNCHANGED <<time, provenance>>
  BY DEF Sign, chain
<1>4. CASE issuance' = issuance
  BY <1>3, <1>4, QuietMaps
<1>5. CASE issuance' = [issuance EXCEPT ![h].signed = TRUE]
  <2>1. /\ issuance'[h] = [issuance[h] EXCEPT !.signed = TRUE]
        /\ \A g \in Handles : g # h => issuance'[g] = issuance[g]
    BY <1>1, <1>2, <1>5
  <2>2. issuance'[h] \in Issuances /\ issuance'[h].voucher = issuance[h].voucher
    BY <1>2, <2>1 DEF Issuances
  <2>3. \A g \in Handles :
          (IF issuance'[g] = Nothing THEN Nothing ELSE issuance'[g].voucher)
          = (IF issuance[g] = Nothing THEN Nothing ELSE issuance[g].voucher)
    BY <1>1, <2>1, <2>2, NothingAssumption
  <2> QED BY <1>3, <2>3 DEF Promise!vars
<1> QED BY <1>4, <1>5 DEF Sign

\* A redeemed voucher is the standing reservation.
LEMMA RedeemMaps ==
    ASSUME Inv, NEW v \in released, Redeem(v)
    PROVE  Promise!Next
<1> DEFINE h == v.handle
<1>1. v \in Vouchers /\ h \in Handles /\ v.deadline \in Nat /\ time \in Nat
  BY BoundAssumption DEF Inv, TypeOK, Vouchers, Contract!Vouchers, Contract!TypeOK, Contract!Times
<1>2. /\ UNCHANGED <<time, issuance>> /\ time <= v.deadline
      /\ provenance' = [provenance EXCEPT ![h] = v] /\ provenance[h] = Nothing
  BY DEF Redeem, service, store, Contract!Mint, Contract!Validate, Contract!Active, Contract!Minted
<1>3. issuance[h] # Nothing /\ v = issuance[h].voucher
  BY <1>1, <1>2 DEF Inv, ReleasedInv
<1>4. Reservations[h] = v /\ v # Nothing
  BY <1>1, <1>3, NothingAssumption DEF Reservations
<1>5. Promise!Mint(h)
  BY <1>1, <1>2, <1>3, <1>4 DEF Promise!Mint, Promise!Standing, Reservations
<1> QED BY <1>1, <1>5 DEF Promise!Next

\* A new reservation replaces an expired one of an unminted handle.
LEMMA IssueMaps ==
    ASSUME Inv, NEW k \in Calls, Issue(k)
    PROVE  Promise!Next \/ UNCHANGED Promise!vars
<1> DEFINE h == HandleOf(k)  c == call[k].code  at == call[k].chainTime
<1>0. UNCHANGED <<time, provenance>> /\ call[k].pc = "issue" /\ Inside(k)
  BY DEF Issue, Inside, chain
<1>1. h \in Handles /\ c \in Codes /\ at \in 1..time /\ (Minted(h) => Held(h, at))
  BY <1>0, AtHead DEF CallOK
<1>2. CASE UNCHANGED issuance
  BY <1>0, <1>2, QuietMaps
<1>3. CASE issuance' # issuance
  <2>1. PICK v : v = [handle |-> h, recipient |-> call[k].recipient, nonce |-> nextNonce,
                      issuedAt |-> at, deadline |-> Deadline(c, at)]
    OBVIOUS
  <2>2. /\ ~Held(h, at) /\ Deadline(c, at) > at + MinWindow
        /\ issuance' = [issuance EXCEPT ![h] = [code |-> c, voucher |-> v, signed |-> FALSE]]
    BY <1>3, <2>1 DEF Issue
  <2>3. v \in Vouchers /\ v.handle = h /\ v.issuedAt <= time /\ v.nonce = nextNonce
    BY <1>0, <2>1, <2>2, NewVoucher
  <2> DEFINE new == [code |-> c, voucher |-> v, signed |-> FALSE]
  <2>4. new \in Issuances /\ new.voucher = v
    BY <1>1, <2>3 DEF Issuances
  <2>5. issuance' = [issuance EXCEPT ![h] = new]
    BY <2>2
  <2> HIDE DEF new
  <2>6. issuance \in [Handles -> Issuances \cup {Nothing}]
    BY DEF Inv, TypeOK
  <2>7. Reservations' = [Reservations EXCEPT ![h] = v] /\ Reservations'[h] = v
    BY <1>1, <2>4, <2>5, <2>6, NothingAssumption DEF Reservations
  <2>8. time \in Nat /\ nextNonce \in Nat
    BY BoundAssumption DEF Inv, TypeOK, Contract!TypeOK, Contract!Times
  <2>9. issuance[h] # Nothing =>
           /\ Reservations[h] = issuance[h].voucher /\ issuance[h].voucher.nonce \in Nat
           /\ issuance[h].voucher.deadline \in Nat /\ issuance[h].voucher.nonce < nextNonce
    BY <1>1, <2>6 DEF Reservations, Issuances, Vouchers, Contract!Vouchers, Inv, IssuanceInv
  <2>10. /\ Reservations[h] # Nothing => Reservations[h].deadline < time
         /\ Reservations[h] # Nothing => v.nonce # Reservations[h].nonce
    <3>1. issuance[h] = Nothing => Reservations[h] = Nothing
      BY <1>1 DEF Reservations
    <3>2. issuance[h] # Nothing => issuance[h].voucher.deadline < at
      BY <1>1, <2>2, <2>8, <2>9 DEF Held
    <3> QED BY <1>1, <2>3, <2>8, <2>9, <3>1, <3>2
  <2>11. Reservations[h] # Nothing => Reservations[h].deadline \in Nat
    BY <1>1, <2>9 DEF Reservations
  <2>12. ~(Reservations[h] # Nothing /\ time <= Reservations[h].deadline) /\ provenance[h] = Nothing
    BY <1>1, <2>2, <2>8, <2>10, <2>11 DEF Minted
  <2>13. PICK g \in Handles : g = h
    BY <1>1
  <2>14. Promise!ReserveFor(g)
    BY <1>0, <2>3, <2>7, <2>10, <2>12, <2>13 DEF Promise!ReserveFor, Promise!Standing, Reservations
  <2> QED BY <2>14 DEF Promise!Next
<1> QED BY <1>2, <1>3

\* The service, with its sessions, locks, crashes and failed writes, and the
\* contract together implement MintPromise.
THEOREM IssuanceKeepsPromise == Spec => KeepsMintPromise
<1>1. Init => Promise!Init
  BY DEF Init, Contract!Init, Promise!Init
<1>2. Inv /\ [Next]_vars => [Promise!Next]_Promise!vars
  <2> SUFFICES ASSUME Inv, [Next]_vars PROVE Promise!Next \/ UNCHANGED Promise!vars
    OBVIOUS
  <2>1. CASE UNCHANGED <<time, provenance, issuance>>
    BY <2>1, QuietMaps
  <2>2. CASE \E k \in Calls : Sign(k)
    BY <2>2, SignMaps
  <2>3. CASE \E k \in Calls : Issue(k)
    BY <2>3, IssueMaps
  <2>4. CASE \E v \in released : Redeem(v)
    BY <2>4, RedeemMaps
  <2>5. CASE Block
    BY <2>5 DEF Block, Contract!Block, Contract!mints, service, store, Promise!Next, Promise!Pass
  <2>6. Browser \/ (\E k \in Calls, c \in Codes, s \in Sessions : Submit(k, c, s))
        \/ (\E s \in Sessions, c \in Codes, h \in Handles : Prepare(s, c, h))
        \/ (\E c \in Codes : Complete(c)) \/ Administer \/ Tick \/ Restart \/ UNCHANGED vars
        => UNCHANGED <<time, provenance, issuance>>
    BY DEF Browser, vars, chain, store, service, OpenSession, VerifyBegin, Logout, Challenge, VerifyEnd,
           Prepare, Complete, Submit, Administer, Tick, Restart, Contract!SetTrustedAuthorizer,
           Contract!RevokeNonce, Contract!PauseMinting, Contract!UnpauseMinting, Contract!mints
  <2>7. ASSUME NEW k \in Calls, Proceed(k) \/ RpcFails(k), ~Issue(k), ~Sign(k)
        PROVE  UNCHANGED <<time, provenance, issuance>>
    BY <2>7 DEF Proceed, RpcFails, Enter, ReadClock, ReadState, Confirm, Transact, Answer, chain, store
  <2> QED BY <2>1, <2>2, <2>3, <2>4, <2>5, <2>6, <2>7 DEF Next, Browser
<1> QED BY <1>1, <1>2, Invariance, PTL DEF Spec, KeepsMintPromise, Promise!Spec
=============================================================================
