-------------------------- MODULE OpenMint_proofs ---------------------------
(***************************************************************************)
(* Proofs about what surrounds the open mint's ledger, for any constants:  *)
(* the contract alone, against any voucher signed by any key and sent by   *)
(* anyone; the admission gate, by GateInv; the one writer, by WriterInv;   *)
(* and wallet submissions, by WalletInv.  The last section joins them in   *)
(* the specification that the run of MCOpenMint checks.                    *)
(***************************************************************************)
EXTENDS MCOpenMint, Sequences, FiniteSetTheorems, TLAPS

Inv == TypeOK /\ NoncesMatchTokens

\* A token is only ever added: either nothing is minted, or one unminted handle
\* gets a voucher whose nonce was neither used nor revoked.
Minting ==
    \E v \in Vouchers :
        /\ ~Minted(v.handle) /\ NonceFree(v.nonce) /\ v.handle \in Handles /\ v.nonce \in Nonces
        /\ usedNonces' = usedNonces \cup {v.nonce}
        /\ provenance' = [provenance EXCEPT ![v.handle] = v]
        /\ UNCHANGED <<time, authorizer, paused, revokedNonces>>

LEMMA EveryStep ==
    ASSUME [Next]_vars
    PROVE  \/ Minting
           \/ UNCHANGED mints /\ (UNCHANGED revokedNonces \/ \E n \in Nonces : RevokeNonce(n))
<1>1. CASE \E h \in Handles, w, sender \in Wallets, n \in Nonces, i, d \in Times, key \in Keys :
             Mint([handle |-> h, recipient |-> w, nonce |-> n, issuedAt |-> i, deadline |-> d], key, sender)
  <2>1. PICK h \in Handles, w \in Wallets, n \in Nonces, i \in Times, d \in Times :
           \E key \in Keys, sender \in Wallets :
             Mint([handle |-> h, recipient |-> w, nonce |-> n, issuedAt |-> i, deadline |-> d], key, sender)
    BY <1>1
  <2>2. PICK v : v = [handle |-> h, recipient |-> w, nonce |-> n, issuedAt |-> i, deadline |-> d]
    OBVIOUS
  <2>3. v \in Vouchers /\ v.handle = h /\ v.nonce = n
    BY <2>2, TimeAssumption DEF Vouchers, Times
  <2> QED BY <2>1, <2>2, <2>3 DEF Minting, Mint, Validate
<1>2. CASE UNCHANGED vars
  BY <1>2 DEF vars, mints
<1>3. CASE Administer \/ Block
  BY <1>3 DEF Administer, SetTrustedAuthorizer, RevokeNonce, PauseMinting, UnpauseMinting, Block, mints
<1> QED BY <1>1, <1>2, <1>3 DEF Next

LEMMA TypeStep == TypeOK /\ [Next]_vars => TypeOK'
<1> SUFFICES ASSUME TypeOK, [Next]_vars PROVE TypeOK'
  OBVIOUS
<1> USE DEF TypeOK, Times, mints
<1>1. CASE Minting
  BY <1>1 DEF Minting
<1>2. CASE \E key \in Keys : SetTrustedAuthorizer(key)
  BY <1>2 DEF SetTrustedAuthorizer
<1>3. CASE \E n \in Nonces : RevokeNonce(n)
  BY <1>3 DEF RevokeNonce
<1>4. CASE PauseMinting
  BY <1>4 DEF PauseMinting
<1>5. CASE UnpauseMinting
  <2>1. paused' \in BOOLEAN /\ UNCHANGED <<time, authorizer, revokedNonces, usedNonces, provenance>>
    BY <1>5, Zenon DEF UnpauseMinting
  <2> QED BY <2>1
<1>6. CASE Block
  BY <1>6, TimeAssumption DEF Block
<1>7. CASE UNCHANGED vars
  BY <1>7 DEF vars
<1>8. ASSUME NEW h \in Handles, NEW w \in Wallets, NEW sender \in Wallets, NEW n \in Nonces,
             NEW i \in Times, NEW d \in Times, NEW key \in Keys,
             Mint([handle |-> h, recipient |-> w, nonce |-> n, issuedAt |-> i, deadline |-> d], key, sender)
      PROVE  Minting
  <2>1. PICK v : v = [handle |-> h, recipient |-> w, nonce |-> n, issuedAt |-> i, deadline |-> d]
    OBVIOUS
  <2>2. v \in Vouchers /\ v.handle = h /\ v.nonce = n
    BY <2>1, TimeAssumption DEF Vouchers
  <2> QED BY <1>8, <2>1, <2>2 DEF Minting, Mint, Validate
<1> QED BY <1>1, <1>2, <1>3, <1>4, <1>5, <1>6, <1>7, <1>8 DEF Next, Administer

\* A mint adds a fresh nonce with its token; a revocation finds it unused.
LEMMA NonceStep == Inv /\ [Next]_vars => NoncesMatchTokens'
<1> SUFFICES ASSUME Inv, [Next]_vars PROVE NoncesMatchTokens'
  OBVIOUS
<1>1. CASE Minting
  <2>1. PICK v \in Vouchers :
          /\ ~Minted(v.handle) /\ NonceFree(v.nonce) /\ v.handle \in Handles /\ v.nonce \in Nonces
          /\ usedNonces' = usedNonces \cup {v.nonce}
          /\ provenance' = [provenance EXCEPT ![v.handle] = v]
          /\ UNCHANGED <<time, authorizer, paused, revokedNonces>>
    BY <1>1 DEF Minting
  <2>2. /\ provenance'[v.handle] = v
        /\ \A g \in Handles : g # v.handle => provenance'[g] = provenance[g]
    BY <2>1 DEF Inv, TypeOK
  <2>3. v # Nothing
    BY NothingAssumption
  <2>4. \A g \in Handles : Minted(g) => provenance[g].nonce # v.nonce
    BY <2>1 DEF Inv, NoncesMatchTokens, NonceFree
  <2>5. usedNonces' = {provenance'[h].nonce : h \in {g \in Handles : Minted(g)'}}
    <3>1. \A g \in Handles : Minted(g)' <=> (g = v.handle \/ Minted(g))
      BY <2>2, <2>3 DEF Minted
    <3> QED BY <2>1, <2>2, <3>1 DEF Inv, NoncesMatchTokens
  <2>6. \A g, h \in Handles : Minted(g)' /\ Minted(h)' /\ g # h => provenance'[g].nonce # provenance'[h].nonce
    BY <2>2, <2>4 DEF Inv, NoncesMatchTokens, Minted
  <2>7. usedNonces' \cap revokedNonces' = {}
    BY <2>1 DEF Inv, NoncesMatchTokens, NonceFree
  <2> QED BY <2>5, <2>6, <2>7 DEF NoncesMatchTokens
<1>2. CASE UNCHANGED mints
  <2>1. usedNonces' \cap revokedNonces' = {}
    <3>1. CASE \E n \in Nonces : RevokeNonce(n)
      BY <3>1 DEF RevokeNonce, NonceFree, mints, Inv, NoncesMatchTokens
    <3>2. CASE ~\E n \in Nonces : RevokeNonce(n)
      <4>1. revokedNonces' = revokedNonces
        BY <3>2, EveryStep DEF Minting
      <4> QED BY <1>2, <4>1 DEF mints, Inv, NoncesMatchTokens
    <3> QED BY <3>1, <3>2
  <2> QED BY <1>2, <2>1 DEF mints, Inv, NoncesMatchTokens, Minted
<1> QED BY <1>1, <1>2, EveryStep

LEMMA Invariance == Spec => []Inv
<1>1. Init => Inv
  <2> SUFFICES ASSUME Init PROVE TypeOK /\ NoncesMatchTokens
    BY DEF Inv
  <2>1. time \in Times
    BY TimeAssumption DEF Init, Times
  <2>4. authorizer \in Keys /\ paused \in BOOLEAN
    BY KeysAssumption, Zenon DEF Init
  <2>2. \A h \in Handles : ~Minted(h)
    BY DEF Init, Minted
  <2>3. NoncesMatchTokens
    BY <2>2 DEF Init, NoncesMatchTokens
  <2> QED BY <2>1, <2>3, <2>4 DEF Init, TypeOK
<1>2. Inv /\ [Next]_vars => Inv'
  BY TypeStep, NonceStep DEF Inv
<1> QED BY <1>1, <1>2, PTL DEF Spec

\* The contract's state is well formed.
THEOREM ContractTypeCorrect == Spec => []TypeOK
<1>1. Inv => TypeOK
  BY DEF Inv
<1> QED BY <1>1, Invariance, PTL

\* The two replay guards of _validate and revokeNonce agree with the tokens:
\* no nonce mints twice and no revoked nonce ever mints.
THEOREM ReplayGuardsAgree == Spec => []NoncesMatchTokens
<1>1. Inv => NoncesMatchTokens
  BY DEF Inv
<1> QED BY <1>1, Invariance, PTL

\* The provenance of a token is written once, by mint(), and never again.
THEOREM TokensArePermanent == Spec => ProvenanceIsFinal
<1>1. Inv /\ [Next]_vars => \A h \in Handles : Minted(h) => provenance'[h] = provenance[h]
  <2> SUFFICES ASSUME Inv, [Next]_vars, NEW h \in Handles, Minted(h)
               PROVE  provenance'[h] = provenance[h]
    OBVIOUS
  <2>1. CASE Minting
    BY <2>1 DEF Minting, Inv, TypeOK, Minted
  <2>2. CASE UNCHANGED mints
    BY <2>2 DEF mints
  <2> QED BY <2>1, <2>2, EveryStep
<1> QED BY <1>1, Invariance, PTL DEF Spec, ProvenanceIsFinal

-----------------------------------------------------------------------------
(* The admission gate of paid effects (staging/admission.ts).               *)

Permits == [state : {"none", "live", "consumed"}, from : Nat, until : Nat]
Runs ==
    [pc : {"idle", "inspect", "fence", "start", "effect", "called", "end"}, from : Nat, until : Nat,
     acked : BOOLEAN, started : BOOLEAN, begun : BOOLEAN,
     reply : {"none", "refused", "uncertain", "result", "gone"}]
WorldOK ==
    /\ now \in Nat /\ gateEpoch \in Nat
    /\ reviewed \in BOOLEAN /\ halted \in BOOLEAN /\ healthy \in BOOLEAN
GateTypeOK ==
    /\ WorldOK
    /\ fence \in Executions \cup {Gate!Nobody}
    /\ permit \in [Tokens -> Permits] /\ run \in [Executions -> Runs]
    /\ called \in SUBSET Executions

\* An execution that was told of its fence holds it; it has started an effect only
\* behind it, and made its call only in an effect that had started.
FencedOK(x) ==
    /\ run[x].pc = "idle" => run[x] = Gate!Idle
    /\ run[x].acked => fence = x
    /\ run[x].pc = "start" => run[x].acked
    /\ run[x].pc \in {"effect", "called"} => run[x].started
    /\ run[x].started => run[x].acked
    /\ x \in called => run[x].started /\ run[x].reply # "refused"

\* A permit is consumed by the one execution that gets past its check.
Owns(x) == run[x].pc = "inspect" \/ run[x].until # 0
PermitOK(x) ==
    Owns(x) =>
        /\ permit[TokenOf[x]].state = "consumed"
        /\ \A y \in Executions : TokenOf[y] = TokenOf[x] /\ Owns(y) => x = y

GateInv == GateTypeOK /\ \A x \in Executions : FencedOK(x) /\ PermitOK(x)

LEMMA GateFacts ==
    /\ TokenOf \in [Executions -> Tokens] /\ Gate!Nobody \notin Executions
    /\ Ttl \in Nat /\ Ttl > 0 /\ Paid \in BOOLEAN
BY PackAssumption DEF Gate!GateAssumption

LEMMA GateInit == Gate!Init => GateInv
<1> SUFFICES ASSUME Gate!Init PROVE GateInv
  OBVIOUS
<1> USE GateFacts DEF Gate!Init, Gate!Idle, Gate!NoPermit, Gate!Nobody
<1>1. reviewed \in BOOLEAN /\ halted \in BOOLEAN /\ healthy \in BOOLEAN
  OBVIOUS
<1>2. GateTypeOK
  BY <1>1 DEF GateTypeOK, WorldOK, Permits, Runs
<1>3. \A x \in Executions : FencedOK(x) /\ PermitOK(x)
  BY DEF FencedOK, PermitOK, Owns
<1> QED BY <1>2, <1>3 DEF GateInv

\* One execution moves and keeps its own part; the others see the same fence, or one
\* that nobody held, and a permit that at most became consumed.
LEMMA RunMoves ==
    ASSUME GateInv, NEW x \in Executions, run' = [run EXCEPT ![x] = run'[x]], run'[x] \in Runs,
           run'[x].pc # "idle", permit' = permit, WorldOK',
           fence' = fence \/ (fence = Gate!Nobody /\ fence' = x),
           called' = called \/ called' = called \cup {x},
           run'[x].acked => fence' = x,
           run'[x].pc = "start" => run'[x].acked,
           run'[x].pc \in {"effect", "called"} => run'[x].started,
           run'[x].started => run'[x].acked,
           x \in called' => run'[x].started /\ run'[x].reply # "refused",
           run'[x].pc = "inspect" \/ run'[x].until # 0 => Owns(x)
    PROVE  GateInv'
<1> USE GateFacts
<1>1. \A y \in Executions : y # x => run'[y] = run[y]
  BY DEF GateInv, GateTypeOK
<1>2. GateTypeOK'
  <2>1. run' \in [Executions -> Runs] /\ fence' \in Executions \cup {Gate!Nobody} /\ called' \in SUBSET Executions
    BY DEF GateInv, GateTypeOK
  <2> QED BY <2>1, Zenon DEF GateInv, GateTypeOK
<1>3. ASSUME NEW y \in Executions PROVE FencedOK(y)'
  <2>1. CASE y = x
    BY <2>1 DEF FencedOK
  <2>2. CASE y # x
    <3>1. run[y].acked => fence' = y
      BY DEF GateInv, FencedOK
    <3>2. run'[y] = run[y] /\ (y \in called' => y \in called)
      BY <1>1, <2>2
    <3> QED BY <3>1, <3>2 DEF GateInv, FencedOK
  <2> QED BY <2>1, <2>2
<1>4. \A y \in Executions : Owns(y)' => Owns(y)
  BY <1>1 DEF Owns
<1>5. \A y \in Executions : PermitOK(y)'
  BY <1>4 DEF GateInv, PermitOK
<1> QED BY <1>2, <1>3, <1>5 DEF GateInv

\* A work that fails ends, with the answer of whoever was answered before.
LEMMA WorkFails ==
    ASSUME GateInv, NEW x \in Executions, run[x].pc # "idle", Gate!Fails(x), permit' = permit, WorldOK',
           fence' = fence \/ (fence = Gate!Nobody /\ fence' = x), called' = called
    PROVE  GateInv'
<1>1. run \in [Executions -> Runs] /\ run[x] \in Runs /\ FencedOK(x)
  BY DEF GateInv, GateTypeOK
<1>2. PICK a \in {"none", "refused", "uncertain", "result", "gone"} :
         /\ run' = [run EXCEPT ![x] = [run[x] EXCEPT !.pc = "end", !.reply = a]]
         /\ (a = "refused" => run[x].reply = "refused" \/ ~run[x].started)
  BY <1>1 DEF Gate!Fails, Gate!End, Gate!Become, Gate!Answered, Gate!Outcome, Runs
<1>3. run'[x] = [run[x] EXCEPT !.pc = "end", !.reply = a]
  BY <1>1, <1>2
<1>4. /\ run'[x] \in Runs /\ run'[x].pc = "end" /\ run'[x].until = run[x].until
      /\ run'[x].acked = run[x].acked /\ run'[x].started = run[x].started /\ run'[x].reply = a
  BY <1>1, <1>3 DEF Runs
<1>5. run' = [run EXCEPT ![x] = run'[x]]
  BY <1>1, <1>2
<1>6. run[x].acked => fence' = x
  BY <1>1, GateFacts DEF FencedOK
<1>7. x \in called' => run'[x].started /\ run'[x].reply # "refused"
  BY <1>1, <1>2, <1>4 DEF FencedOK
<1> QED BY <1>1, <1>4, <1>5, <1>6, <1>7, RunMoves DEF FencedOK, Owns

LEMMA Works ==
    ASSUME GateInv, NEW x \in Executions, Gate!Work(x) \/ Gate!TimeOut(x)
    PROVE  GateInv'
<1>0. run[x] \in Runs /\ run \in [Executions -> Runs] /\ FencedOK(x) /\ PermitOK(x)
  BY DEF GateInv, GateTypeOK
<1>w. WorldOK' /\ now \in Nat
  <2>1. WorldOK
    BY DEF GateInv, GateTypeOK
  <2>2. /\ UNCHANGED <<now, reviewed, halted, gateEpoch>>
        /\ healthy' = healthy \/ healthy' = FALSE
    BY Zenon DEF Gate!Work, Gate!Execute, Gate!Inspect, Gate!Fence, Gate!Start, Gate!Call, Gate!Return,
          Gate!EffectFails, Gate!TimeOut, Gate!world
  <2> QED BY <2>1, <2>2, Zenon DEF WorldOK
<1> USE GateFacts DEF Gate!world
<1>1. CASE Gate!Execute(x)
  <2>1. run[x] = Gate!Idle /\ permit[TokenOf[x]].state \in {"live", "consumed"}
    BY <1>0, <1>1 DEF Gate!Execute, FencedOK
  <2>2. CASE permit[TokenOf[x]].state = "consumed"
    <3>1. run' = [run EXCEPT ![x] = [Gate!Idle EXCEPT !.pc = "end", !.reply = "refused"]]
      <4>1. Gate!End(x, "refused")
        BY <1>1, <2>2 DEF Gate!Execute
      <4> QED BY <2>1, <4>1 DEF Gate!End, Gate!Become, Gate!Answered, Gate!Idle
    <3>2. /\ run' = [run EXCEPT ![x] = run'[x]]
          /\ run'[x] = [Gate!Idle EXCEPT !.pc = "end", !.reply = "refused"]
      BY <1>0, <3>1
    <3>3. /\ run'[x] \in Runs /\ run'[x].pc = "end" /\ run'[x].until = 0
          /\ ~run'[x].acked /\ ~run'[x].started
      <4>1. run'[x] = [pc |-> "end", from |-> 0, until |-> 0, acked |-> FALSE, started |-> FALSE,
                       begun |-> FALSE, reply |-> "refused"]
        BY <3>2 DEF Gate!Idle
      <4> QED BY <4>1 DEF Runs
    <3>4. x \notin called
      BY <1>0, <2>1 DEF FencedOK, Gate!Idle
    <3>5. UNCHANGED <<fence, permit, called>>
      BY <1>1, <2>2 DEF Gate!Execute
    <3> QED BY <1>w, <3>2, <3>3, <3>4, <3>5, RunMoves
  <2>3. CASE permit[TokenOf[x]].state = "live"
    <3>1. run' = [run EXCEPT ![x] = [Gate!Idle EXCEPT !.pc = "inspect"]]
          /\ permit' = [permit EXCEPT ![TokenOf[x]].state = "consumed"]
          /\ UNCHANGED <<fence, called>>
      BY <1>1, <2>3, Zenon DEF Gate!Execute, Gate!Consume, Gate!Become
    <3>2. run'[x] = [Gate!Idle EXCEPT !.pc = "inspect"] /\ \A y \in Executions : y # x => run'[y] = run[y]
      BY <1>0, <3>1
    <3>3. [Gate!Idle EXCEPT !.pc = "inspect"] \in Runs
      BY DEF Gate!Idle, Runs
    <3>4. permit' \in [Tokens -> Permits]
      BY <3>1 DEF GateInv, GateTypeOK, Permits
    <3>5. GateTypeOK'
      BY <1>w, <3>1, <3>3, <3>4 DEF GateInv, GateTypeOK
    <3>6. \A y \in Executions : FencedOK(y)'
      <4>1. ASSUME NEW y \in Executions, y # x PROVE FencedOK(y)'
        BY <3>1, <3>2, <4>1 DEF GateInv, FencedOK
      <4>2. FencedOK(x)'
        BY <1>0, <2>1, <3>1, <3>2 DEF FencedOK, Gate!Idle
      <4> QED BY <4>1, <4>2
    <3>7. \A y \in Executions : permit'[TokenOf[y]].state = "consumed" <=>
             permit[TokenOf[y]].state = "consumed" \/ TokenOf[y] = TokenOf[x]
      BY <3>1 DEF GateInv, GateTypeOK, Permits
    <3>8. \A y \in Executions : TokenOf[y] = TokenOf[x] => ~Owns(y)
      BY <2>3 DEF GateInv, PermitOK
    <3>9. \A y \in Executions : PermitOK(y)'
      <4>1. \A y \in Executions : y # x => (Owns(y)' <=> Owns(y))
        BY <3>2 DEF Owns
      <4> QED BY <3>7, <3>8, <4>1 DEF GateInv, PermitOK
    <3> QED BY <3>5, <3>6, <3>9 DEF GateInv
  <2> QED BY <2>1, <2>2, <2>3
<1>2. CASE Gate!Inspect(x)
  <2>1. CASE Gate!Fails(x)
    <3>1. run[x].pc # "idle" /\ permit' = permit /\ fence' = fence /\ called' = called
      BY <1>2 DEF Gate!Inspect
    <3> QED BY <1>w, <2>1, <3>1, WorkFails
  <2>2. CASE ~Gate!Fails(x)
    <3>1. run' = [run EXCEPT ![x] = [run[x] EXCEPT !.pc = "fence", !.from = now, !.until = now + Ttl]]
          /\ UNCHANGED <<fence, permit, called>>
          /\ run[x].pc = "inspect"
      BY <1>2, <2>2, Zenon DEF Gate!Inspect, Gate!Become
    <3>2. /\ run' = [run EXCEPT ![x] = run'[x]] /\ run'[x] \in Runs
          /\ run'[x].pc = "fence" /\ run'[x].acked = run[x].acked /\ run'[x].started = run[x].started
          /\ run'[x].reply = run[x].reply
      <4>1. PICK n \in Nat : n = now + Ttl
        BY <1>w
      <4>2. /\ run' = [run EXCEPT ![x] = run'[x]]
            /\ run'[x] = [[[run[x] EXCEPT !.pc = "fence"] EXCEPT !.from = now] EXCEPT !.until = n]
        BY <1>0, <3>1, <4>1
      <4>3. [run[x] EXCEPT !.pc = "fence"] \in Runs
        BY <1>0 DEF Runs
      <4> QED BY <1>0, <1>w, <4>2, <4>3 DEF Runs
    <3> QED BY <1>0, <1>w, <3>1, <3>2, RunMoves DEF FencedOK, Owns
  <2> QED BY <2>1, <2>2
<1>3. CASE Gate!Fence(x)
  <2>1. CASE Gate!Fails(x)
    <3>1. /\ run[x].pc # "idle" /\ permit' = permit /\ called' = called
          /\ fence' = fence \/ (fence = Gate!Nobody /\ fence' = x)
      BY <1>3, Zenon DEF Gate!Fence, Gate!Unfenced
    <3> QED BY <1>w, <2>1, <3>1, WorkFails
  <2>2. CASE ~Gate!Fails(x)
    <3>1. run' = [run EXCEPT ![x] = [run[x] EXCEPT !.pc = "start", !.acked = TRUE]]
          /\ UNCHANGED <<permit, called>>
          /\ run[x].pc = "fence" /\ fence = Gate!Nobody /\ fence' = x
      BY <1>3, <2>2, Zenon DEF Gate!Fence, Gate!Unfenced, Gate!Become
    <3>2. /\ run' = [run EXCEPT ![x] = run'[x]] /\ run'[x] \in Runs
          /\ run'[x].pc = "start" /\ run'[x].acked /\ run'[x].started = run[x].started
          /\ run'[x].until = run[x].until /\ run'[x].reply = run[x].reply
      BY <1>0, <3>1 DEF Runs
    <3> QED BY <1>0, <1>w, <3>1, <3>2, RunMoves DEF FencedOK, Owns
  <2> QED BY <2>1, <2>2
<1>4. CASE Gate!Start(x)
  <2>1. CASE Gate!Fails(x)
    BY <1>w, <1>4, <2>1, WorkFails DEF Gate!Start
  <2>2. CASE ~Gate!Fails(x)
    <3>1. run' = [run EXCEPT ![x] = [run[x] EXCEPT !.pc = "effect", !.started = TRUE]]
          /\ UNCHANGED <<fence, permit, called>>
          /\ run[x].pc = "start"
      BY <1>4, <2>2, Zenon DEF Gate!Start, Gate!Become
    <3>2. /\ run' = [run EXCEPT ![x] = run'[x]] /\ run'[x] \in Runs
          /\ run'[x].pc = "effect" /\ run'[x].acked = run[x].acked /\ run'[x].started
          /\ run'[x].until = run[x].until /\ run'[x].reply = run[x].reply
      BY <1>0, <3>1 DEF Runs
    <3> QED BY <1>0, <1>w, <3>1, <3>2, RunMoves DEF FencedOK, Owns
  <2> QED BY <2>1, <2>2
<1>5. CASE Gate!Call(x)
  <2>1. CASE Gate!Fails(x) /\ called' = called
    BY <1>w, <1>5, <2>1, WorkFails DEF Gate!Call
  <2>2. CASE ~(Gate!Fails(x) /\ called' = called)
    <3>1. run' = [run EXCEPT ![x] = [run[x] EXCEPT !.pc = "called", !.begun = Paid]]
          /\ UNCHANGED <<fence, permit>>
          /\ run[x].pc = "effect" /\ called' = called \cup {x} /\ run[x].reply = "none"
      BY <1>5, <2>2, Zenon DEF Gate!Call, Gate!Become, Gate!Callable, Gate!Current, Gate!Ticks
    <3>2. /\ run' = [run EXCEPT ![x] = run'[x]]
          /\ run'[x] = [run[x] EXCEPT !.pc = "called", !.begun = Paid]
      BY <1>0, <3>1
    <3>3. /\ run'[x] \in Runs
          /\ run'[x].pc = "called" /\ run'[x].acked = run[x].acked /\ run'[x].started = run[x].started
          /\ run'[x].until = run[x].until /\ run'[x].reply = "none"
      BY <1>0, <3>1, <3>2 DEF Runs
    <3> QED BY <1>0, <1>w, <3>1, <3>2, <3>3, RunMoves DEF FencedOK, Owns
  <2> QED BY <2>1, <2>2
<1>6. CASE Gate!Return(x)
  <2>1. CASE Gate!Fails(x)
    BY <1>w, <1>6, <2>1, WorkFails DEF Gate!Return
  <2>2. CASE ~Gate!Fails(x)
    <3>1. run' = [run EXCEPT ![x] = [run[x] EXCEPT !.pc = "end", !.reply = Gate!Answered(x, "result")]]
          /\ UNCHANGED <<fence, permit, called>>
          /\ run[x].pc = "called"
      BY <1>6, <2>2, Zenon DEF Gate!Return, Gate!Become, Gate!End
    <3>2. Gate!Answered(x, "result") \in {run[x].reply, "result"}
      BY DEF Gate!Answered
    <3>3. /\ run' = [run EXCEPT ![x] = run'[x]] /\ run'[x] \in Runs
          /\ run'[x].pc = "end" /\ run'[x].acked = run[x].acked /\ run'[x].started = run[x].started
          /\ run'[x].until = run[x].until /\ run'[x].reply \in {run[x].reply, "result"}
      BY <1>0, <3>1, <3>2 DEF Runs
    <3> QED BY <1>0, <1>w, <3>1, <3>3, RunMoves DEF FencedOK, Owns
  <2> QED BY <2>1, <2>2
<1>7. CASE Gate!EffectFails(x)
  BY <1>w, <1>7, WorkFails DEF Gate!EffectFails
<1>8. CASE Gate!TimeOut(x)
  <2>1. run' = [run EXCEPT ![x] = [run[x] EXCEPT !.reply = Gate!Outcome(x)]]
        /\ UNCHANGED <<fence, permit, called>>
        /\ run[x].pc # "idle"
    BY <1>8 DEF Gate!TimeOut, Gate!Become
  <2>2. Gate!Outcome(x) \in {"uncertain", "refused"} /\ (Gate!Outcome(x) = "refused" => ~run[x].started)
    BY DEF Gate!Outcome
  <2>3. /\ run' = [run EXCEPT ![x] = run'[x]] /\ run'[x] \in Runs
        /\ run'[x].pc = run[x].pc /\ run'[x].acked = run[x].acked /\ run'[x].started = run[x].started
        /\ run'[x].until = run[x].until /\ run'[x].reply = Gate!Outcome(x)
    BY <1>0, <2>1, <2>2 DEF Runs
  <2> QED BY <1>0, <1>w, <2>1, <2>2, <2>3, RunMoves DEF FencedOK, Owns
<1> QED BY <1>1, <1>2, <1>3, <1>4, <1>5, <1>6, <1>7, <1>8 DEF Gate!Work

LEMMA GateStep == GateInv /\ [Gate!Next]_(Gate!vars) => GateInv'
<1> SUFFICES ASSUME GateInv, [Gate!Next]_(Gate!vars) PROVE GateInv'
  OBVIOUS
<1> USE GateFacts DEF Gate!world
<1>1. ASSUME NEW t \in Tokens, Gate!Prepare(t) PROVE GateInv'
  <2>1. permit' = [permit EXCEPT ![t] = [state |-> "live", from |-> now, until |-> now + Ttl]]
        /\ permit[t].state = "none" /\ UNCHANGED <<now, reviewed, halted, healthy, gateEpoch, fence, run, called>>
    BY <1>1 DEF Gate!Prepare
  <2>2. GateTypeOK'
    <3>1. WorldOK' /\ now \in Nat
      BY <2>1 DEF GateInv, GateTypeOK, WorldOK
    <3>2. permit' \in [Tokens -> Permits]
      BY <2>1, <3>1 DEF GateInv, GateTypeOK, Permits
    <3> QED BY <2>1, <3>1, <3>2 DEF GateInv, GateTypeOK
  <2>3. \A x \in Executions : FencedOK(x)'
    BY <2>1 DEF GateInv, FencedOK
  <2>4. \A x \in Executions : Owns(x) => TokenOf[x] # t /\ permit'[TokenOf[x]] = permit[TokenOf[x]]
    BY <2>1 DEF GateInv, GateTypeOK, PermitOK
  <2>5. \A x \in Executions : PermitOK(x)'
    BY <2>1, <2>4 DEF GateInv, PermitOK, Owns
  <2> QED BY <2>2, <2>3, <2>5 DEF GateInv
<1>2. CASE Gate!Tick \/ Gate!Withdraw \/ Gate!Halt
  <2>1. UNCHANGED <<fence, permit, run, called>>
    BY <1>2 DEF Gate!Tick, Gate!Withdraw, Gate!Halt
  <2>2. now' \in Nat
    BY <1>2 DEF Gate!Tick, Gate!Withdraw, Gate!Halt, GateInv, GateTypeOK, WorldOK
  <2>3. WorldOK'
    BY <1>2, <2>2, Zenon DEF Gate!Tick, Gate!Withdraw, Gate!Halt, GateInv, GateTypeOK, WorldOK
  <2>4. GateTypeOK'
    BY <2>1, <2>3 DEF GateInv, GateTypeOK
  <2> QED BY <2>1, <2>4 DEF GateInv, FencedOK, PermitOK, Owns
<1>3. CASE Gate!Restart
  <2>1. /\ permit' = [t \in Tokens |-> IF permit[t].state = "none" THEN Gate!NoPermit
                                      ELSE [permit[t] EXCEPT !.state = "consumed"]]
        /\ run' = [x \in Executions |-> IF run[x].pc \in {"idle", "end"} THEN run[x]
                                       ELSE [run[x] EXCEPT !.pc = "end", !.reply = Gate!Answered(x, "gone")]]
        /\ UNCHANGED <<now, reviewed, fence, called>> /\ gateEpoch' = gateEpoch + 1
        /\ halted' = FALSE /\ healthy' = TRUE
    BY <1>3 DEF Gate!Restart
  <2>2. \A t \in Tokens : permit'[t] \in Permits /\ (permit[t].state = "consumed" => permit'[t].state = "consumed")
    BY <2>1 DEF GateInv, GateTypeOK, Permits, Gate!NoPermit
  <2>3. \A x \in Executions :
          /\ run'[x] \in Runs
          /\ run'[x] = run[x] \/ /\ run'[x].pc = "end" /\ run'[x].until = run[x].until
                                 /\ run'[x].acked = run[x].acked /\ run'[x].started = run[x].started
                                 /\ (run'[x].reply = "refused" => run[x].reply = "refused")
    BY <2>1 DEF GateInv, GateTypeOK, Runs, Gate!Answered
  <2>4. GateTypeOK'
    <3>1. permit' \in [Tokens -> Permits] /\ run' \in [Executions -> Runs]
      BY <2>1, <2>2, <2>3
    <3>2. gateEpoch' \in Nat
      <4>1. gateEpoch \in Nat /\ gateEpoch' = gateEpoch + 1
        BY <2>1, Zenon DEF GateInv, GateTypeOK, WorldOK
      <4> QED BY <4>1
    <3>3. WorldOK'
      BY <2>1, <3>2, Zenon DEF GateInv, GateTypeOK, WorldOK
    <3> QED BY <2>1, <3>1, <3>3 DEF GateInv, GateTypeOK
  <2>5. ASSUME NEW x \in Executions PROVE FencedOK(x)'
    BY <2>1, <2>3 DEF GateInv, FencedOK
  <2>6. \A x \in Executions : Owns(x)' => Owns(x)
    BY <2>3 DEF Owns
  <2>7. \A x \in Executions : PermitOK(x)'
    BY <2>2, <2>6 DEF GateInv, PermitOK
  <2> QED BY <2>4, <2>5, <2>7 DEF GateInv
<1>4. CASE UNCHANGED Gate!vars
  BY <1>4 DEF Gate!vars, GateInv, GateTypeOK, WorldOK, FencedOK, PermitOK, Owns
<1> QED BY <1>1, <1>2, <1>3, <1>4, Works DEF Gate!Next

\* What the invariant says: only the holder of the fence has made a call.
LEMMA GatePromise ==
    ASSUME GateInv
    PROVE  Gate!CalledOnce /\ Gate!HonestRefusal /\ Gate!OneExecutionPerPermit
<1>1. Gate!CalledOnce
  <2>1. called \subseteq {fence}
    BY DEF GateInv, GateTypeOK, FencedOK
  <2>2. called = {} \/ called = {fence}
    BY <2>1
  <2>3. Cardinality(called) \in {0, 1}
    BY <2>2, FS_EmptySet, FS_Singleton, Zenon
  <2>4. Gate!Cardinality(called) = Cardinality(called)
    BY DEF Gate!Cardinality, Cardinality
  <2> QED BY <2>3, <2>4 DEF Gate!CalledOnce
<1>2. Gate!HonestRefusal
  BY DEF Gate!HonestRefusal, GateInv, GateTypeOK, FencedOK
<1>3. Gate!OneExecutionPerPermit
  BY DEF Gate!OneExecutionPerPermit, GateInv, PermitOK, Owns
<1> QED BY <1>1, <1>2, <1>3

\* A call is made, and its result given out, under a review that is current then.
LEMMA GateActions ==
    ASSUME GateInv, [Gate!Next]_(Gate!vars)
    PROVE  /\ \A x \in called' \ called : /\ fence = x /\ reviewed /\ ~halted /\ healthy
                                          /\ now < permit[TokenOf[x]].until /\ now < run[x].until
           /\ \A x \in Executions : run'[x].reply = "result" /\ run[x].reply # "result" => reviewed
<1> USE DEF Gate!Become, Gate!End, Gate!Fails, Gate!Answered, Gate!Outcome, Gate!world
<1>0. run \in [Executions -> Runs] /\ called \in SUBSET Executions
  BY DEF GateInv, GateTypeOK
<1>1. ASSUME NEW x \in called' \ called
      PROVE  /\ fence = x /\ reviewed /\ ~halted /\ healthy
             /\ now < permit[TokenOf[x]].until /\ now < run[x].until
  <2>1. PICK y \in Executions : Gate!Call(y) /\ called' # called
    BY <1>1 DEF Gate!Next, Gate!vars, Gate!Prepare, Gate!Work, Gate!Execute, Gate!Inspect, Gate!Fence, Gate!Start,
                Gate!Return, Gate!EffectFails, Gate!TimeOut, Gate!Tick, Gate!Withdraw, Gate!Halt, Gate!Restart
  <2>2. x = y /\ Gate!Callable(y) /\ run[y].pc = "effect"
    BY <1>1, <2>1 DEF Gate!Call
  <2>3. fence = x
    BY <2>2 DEF GateInv, FencedOK
  <2> QED BY <2>2, <2>3 DEF Gate!Callable, Gate!Current, Gate!Ticks, Gate!PermitCurrent, Gate!LeaseCurrent
<1>2. ASSUME NEW x \in Executions, run'[x].reply = "result", run[x].reply # "result"
      PROVE  reviewed
  <2>1. CASE \E y \in Executions : Gate!Work(y) \/ Gate!TimeOut(y)
    <3>1. PICK y \in Executions : Gate!Work(y) \/ Gate!TimeOut(y)
      BY <2>1
    <3>2. \A r : run' = [run EXCEPT ![y] = r] => (x = y /\ run'[x] = r) \/ run'[x] = run[x]
      BY <1>0
    <3>3. run[y] \in Runs
      BY <1>0
    <3>4. CASE Gate!Return(y)
      <4>1. CASE Gate!Fails(y)
        BY <1>0, <1>2, <3>2, <3>3, <4>1 DEF Runs
      <4>2. CASE ~Gate!Fails(y)
        BY <3>4, <4>2, Zenon DEF Gate!Return, Gate!Completes, Gate!Current
      <4> QED BY <4>1, <4>2
    <3>5. CASE ~Gate!Return(y)
      <4> DEFINE Same(r) == r.reply \in {run[y].reply, "refused", "uncertain", "none"}
      <4>1. \E r : run' = [run EXCEPT ![y] = r] /\ Same(r)
        <5>1. ASSUME NEW a, Gate!End(y, a), a \in {"refused", "uncertain"}
              PROVE  \E r : run' = [run EXCEPT ![y] = r] /\ Same(r)
          <6>1. PICK b : b = Gate!Answered(y, a)
            OBVIOUS
          <6>2. b \in {run[y].reply, a}
            BY <6>1
          <6>3. [run[y] EXCEPT !.pc = "end", !.reply = b].reply = b
            BY <3>3 DEF Runs
          <6>4. run' = [run EXCEPT ![y] = [run[y] EXCEPT !.pc = "end", !.reply = b]]
            BY <5>1, <6>1
          <6>5. Same([run[y] EXCEPT !.pc = "end", !.reply = b])
            BY <5>1, <6>2, <6>3
          <6> QED BY <6>4, <6>5, Zenon
        <5>2. Gate!Outcome(y) \in {"refused", "uncertain"}
          OBVIOUS
        <5>3. Gate!Fails(y) => \E r : run' = [run EXCEPT ![y] = r] /\ Same(r)
          <6> SUFFICES ASSUME Gate!Fails(y) PROVE \E r : run' = [run EXCEPT ![y] = r] /\ Same(r)
            OBVIOUS
          <6> HIDE DEF Gate!End, Gate!Outcome, Same
          <6> QED BY <5>1, <5>2, Zenon
        <5>4. ASSUME NEW r, run' = [run EXCEPT ![y] = r], Same(r)
              PROVE  \E q : run' = [run EXCEPT ![y] = q] /\ Same(q)
          BY <5>4, Zenon
        <5> HIDE DEF Gate!Fails, Gate!End, Gate!Outcome
        <5>5. CASE Gate!Execute(y)
          <6>1. Gate!End(y, "refused") \/ run' = [run EXCEPT ![y] = [Gate!Idle EXCEPT !.pc = "inspect"]]
            BY <5>5, Zenon DEF Gate!Execute
          <6>2. Same([Gate!Idle EXCEPT !.pc = "inspect"])
            BY DEF Gate!Idle
          <6> HIDE DEF Same
          <6> QED BY <5>1, <5>4, <6>1, <6>2
        <5>6. CASE Gate!Inspect(y)
          <6>1. PICK n : n = now + Ttl
            OBVIOUS
          <6>2. Gate!Fails(y) \/ run' = [run EXCEPT ![y] = [run[y] EXCEPT !.pc = "fence", !.from = now, !.until = n]]
            BY <5>6, <6>1, Zenon DEF Gate!Inspect
          <6>3. Same([run[y] EXCEPT !.pc = "fence", !.from = now, !.until = n])
            BY <3>3 DEF Runs
          <6> HIDE DEF Same
          <6> QED BY <5>3, <5>4, <6>2, <6>3
        <5>7. CASE Gate!Fence(y)
          <6>2. Gate!Fails(y) \/ run' = [run EXCEPT ![y] = [run[y] EXCEPT !.pc = "start", !.acked = TRUE]]
            BY <5>7, Zenon DEF Gate!Fence
          <6>3. Same([run[y] EXCEPT !.pc = "start", !.acked = TRUE])
            BY <3>3 DEF Runs
          <6> HIDE DEF Same
          <6> QED BY <5>3, <5>4, <6>2, <6>3
        <5>8. CASE Gate!Start(y)
          <6>2. Gate!Fails(y) \/ run' = [run EXCEPT ![y] = [run[y] EXCEPT !.pc = "effect", !.started = TRUE]]
            BY <5>8, Zenon DEF Gate!Start
          <6>3. Same([run[y] EXCEPT !.pc = "effect", !.started = TRUE])
            BY <3>3 DEF Runs
          <6> HIDE DEF Same
          <6> QED BY <5>3, <5>4, <6>2, <6>3
        <5>9. CASE Gate!Call(y)
          <6>1. PICK n : n = Paid
            OBVIOUS
          <6>2. Gate!Fails(y) \/ run' = [run EXCEPT ![y] = [run[y] EXCEPT !.pc = "called", !.begun = n]]
            BY <5>9, <6>1, Zenon DEF Gate!Call
          <6>3. Same([run[y] EXCEPT !.pc = "called", !.begun = n])
            BY <3>3 DEF Runs
          <6> HIDE DEF Same
          <6> QED BY <5>3, <5>4, <6>2, <6>3
        <5>10. CASE Gate!EffectFails(y)
          <6> HIDE DEF Same
          <6> QED BY <5>3, <5>10, Zenon DEF Gate!EffectFails
        <5>11. CASE Gate!TimeOut(y)
          <6>1. PICK n : n = Gate!Outcome(y)
            OBVIOUS
          <6>2. run' = [run EXCEPT ![y] = [run[y] EXCEPT !.reply = n]]
            BY <5>11, <6>1, Zenon DEF Gate!TimeOut
          <6>3. [run[y] EXCEPT !.reply = n].reply = n
            BY <3>3 DEF Runs
          <6>4. Same([run[y] EXCEPT !.reply = n])
            BY <5>2, <6>1, <6>3
          <6> HIDE DEF Same
          <6> QED BY <5>4, <6>2, <6>4
        <5> HIDE DEF Same
        <5> QED BY <3>1, <3>5, <5>5, <5>6, <5>7, <5>8, <5>9, <5>10, <5>11, Zenon DEF Gate!Work
      <4>2. PICK r : run' = [run EXCEPT ![y] = r] /\ Same(r)
        BY <4>1, Zenon
      <4> HIDE DEF Gate!Fails, Gate!End, Gate!Outcome
      <4>3. x = y /\ run'[x] = r
        BY <1>2, <3>2, <4>2
      <4> QED BY <1>2, <4>2, <4>3
    <3> QED BY <3>4, <3>5
  <2>2. CASE ~\E y \in Executions : Gate!Work(y) \/ Gate!TimeOut(y)
    <3>1. run'[x] = run[x] \/ Gate!Restart
      BY <2>2 DEF Gate!Next, Gate!vars, Gate!Prepare, Gate!Tick, Gate!Withdraw, Gate!Halt
    <3>2. CASE Gate!Restart
      <4>1. run'[x] = IF run[x].pc \in {"idle", "end"} THEN run[x]
                      ELSE [run[x] EXCEPT !.pc = "end", !.reply = Gate!Answered(x, "gone")]
        BY <3>2 DEF Gate!Restart
      <4>2. run[x] \in Runs
        BY <1>0
      <4> QED BY <1>2, <4>1, <4>2 DEF Runs
    <3> QED BY <1>2, <3>1, <3>2
  <2> QED BY <2>1, <2>2
<1> QED BY <1>1, <1>2

-----------------------------------------------------------------------------
(* The one writer of the database (persistence/writer.ts).                  *)

\* Nothing that may still be rolled back is durable.
TxOK(t) ==
    /\ tx[t] \in {"new", "queued", "working", "rejected"} => durable[t] = 0
    /\ tx[t] = "committed" => durable[t] # 0

\* An acquisition raises the epoch under the advisory lock; whoever holds that lock or
\* the row lock of the epoch knows the newest one.
OwnerOK(o) ==
    /\ queue[o] # <<>> => client[o] = "open"
    /\ client[o] \in {"bump", "bumping"} /\ session[o] = "up" => holder = o
    /\ client[o] = "open" /\ session[o] = "up" /\ holder = o => epoch = known[o]
    /\ client[o] = "open" /\ row = o => epoch = known[o]

WriterInv ==
    /\ Writer!TypeOK
    /\ \A t \in Transactions : TxOK(t)
    /\ \A o \in Owners : OwnerOK(o)

LEMMA WriterFacts == NoOwner \notin Owners /\ OwnerOf \in [Transactions -> Owners]
BY PackAssumption DEF Writer!OwnerAssumption

LEMMA WriterInit == Writer!Init => WriterInv
<1> SUFFICES ASSUME Writer!Init PROVE WriterInv
  OBVIOUS
<1>1. Writer!TypeOK
  BY DEF Writer!Init, Writer!TypeOK, Writer!Stages, Writer!TxStates
<1>2. \A t \in Transactions : TxOK(t)
  BY DEF Writer!Init, TxOK
<1>3. \A o \in Owners : OwnerOK(o)
  BY WriterFacts DEF Writer!Init, OwnerOK
<1> QED BY <1>1, <1>2, <1>3 DEF WriterInv

\* A step that leaves the transactions alone.
LEMMA TxStays ==
    ASSUME WriterInv, UNCHANGED <<tx, durable>>
    PROVE  \A t \in Transactions : TxOK(t)'
BY DEF WriterInv, TxOK

\* A session ends: with it go its locks.
LEMMA Ends ==
    ASSUME WriterInv, NEW o \in Owners, Writer!Ended(o),
           UNCHANGED <<epoch, durable, link, known, failure, closing, queue, tx>>,
           client' = client \/ (client[o] # "open" /\ client' = [client EXCEPT ![o] = "refused"])
    PROVE  WriterInv'
<1> USE WriterFacts
<1>1. Writer!TypeOK'
  BY DEF WriterInv, Writer!TypeOK, Writer!Ended, Writer!Stages
<1>2. ASSUME NEW p \in Owners PROVE OwnerOK(p)'
  <2>1. CASE p = o
    BY <2>1 DEF WriterInv, Writer!TypeOK, Writer!Ended, OwnerOK
  <2>2. CASE p # o
    BY <2>2 DEF WriterInv, Writer!TypeOK, Writer!Ended, OwnerOK
  <2> QED BY <2>1, <2>2
<1> QED BY <1>1, <1>2, TxStays DEF WriterInv

\* What becomes durable was written under the newest epoch.
LEMMA AppliesNewest ==
    ASSUME WriterInv, NEW o \in Owners, Writer!Applies(o)
    PROVE  /\ WriterInv'
           /\ \A t \in Transactions : durable[t] = 0 /\ durable'[t] # 0 => durable'[t] = epoch
<1> USE WriterFacts
<1>0. /\ row = o /\ session[o] = "up" /\ row' = NoOwner
      /\ UNCHANGED <<holder, session, link, client, known, failure, closing, queue, tx>>
  BY DEF Writer!Applies
<1>1. CASE client[o] = "bumping" /\ epoch' = epoch + 1 /\ durable' = durable
  <2>1. Writer!TypeOK'
    BY <1>0, <1>1 DEF WriterInv, Writer!TypeOK
  <2>2. \A p \in Owners : OwnerOK(p)'
    BY <1>0, <1>1 DEF WriterInv, OwnerOK
  <2>3. \A t \in Transactions : TxOK(t)'
    BY <1>0, <1>1, TxStays
  <2> QED BY <1>1, <2>1, <2>2, <2>3 DEF WriterInv
<1>2. CASE /\ epoch' = epoch
           /\ \E t \in Transactions :
                 /\ OwnerOf[t] = o /\ tx[t] \in {"committing", "unavailable"} /\ durable[t] = 0
                 /\ queue[o] # <<>> /\ durable' = [durable EXCEPT ![t] = known[o]]
  <2>1. PICK t \in Transactions : /\ tx[t] \in {"committing", "unavailable"}
                          /\ queue[o] # <<>> /\ durable' = [durable EXCEPT ![t] = known[o]]
    BY <1>2
  <2>2. known[o] = epoch
    BY <1>0, <2>1 DEF WriterInv, OwnerOK
  <2>3. Writer!TypeOK'
    BY <1>0, <1>2, <2>1 DEF WriterInv, Writer!TypeOK
  <2>4. \A p \in Owners : OwnerOK(p)'
    BY <1>0, <1>2 DEF WriterInv, OwnerOK
  <2>5. durable \in [Transactions -> Nat]
    BY DEF WriterInv, Writer!TypeOK
  <2>6. \A u \in Transactions : TxOK(u)'
    BY <1>0, <2>1, <2>5 DEF WriterInv, TxOK
  <2>7. \A u \in Transactions : durable[u] = 0 /\ durable'[u] # 0 => durable'[u] = epoch
    BY <2>1, <2>2, <2>5
  <2> QED BY <2>3, <2>4, <2>6, <2>7 DEF WriterInv
<1> QED BY <1>1, <1>2 DEF Writer!Applies

LEMMA Acquires ==
    ASSUME WriterInv, NEW o \in Owners, Writer!Acquire(o)
    PROVE  WriterInv' /\ durable' = durable
<1> USE WriterFacts
<1>d. durable' = durable
  BY DEF Writer!Acquire, Writer!Connect, Writer!TryLock, Writer!Bump, Writer!Acquired, Writer!AcquireFails, Writer!server
<1>1. CASE Writer!Connect(o)
  <2>1. Writer!TypeOK'
    BY <1>1 DEF Writer!Connect, WriterInv, Writer!TypeOK, Writer!Stages
  <2>2. ASSUME NEW p \in Owners PROVE OwnerOK(p)'
    BY <1>1 DEF Writer!Connect, WriterInv, Writer!TypeOK, OwnerOK
  <2> QED BY <1>1, <2>1, <2>2, TxStays DEF WriterInv, Writer!Connect
<1>2. CASE Writer!TryLock(o)
  <2>1. CASE holder = NoOwner
    <3>1. Writer!TypeOK'
      BY <1>2, <2>1 DEF Writer!TryLock, WriterInv, Writer!TypeOK, Writer!Stages
    <3>2. ASSUME NEW p \in Owners PROVE OwnerOK(p)'
      BY <1>2, <2>1 DEF Writer!TryLock, WriterInv, Writer!TypeOK, OwnerOK
    <3> QED BY <1>2, <3>1, <3>2, TxStays DEF WriterInv, Writer!TryLock
  <2>2. CASE holder # NoOwner
    BY <1>2, <2>2, Ends DEF Writer!TryLock, Writer!Refuse
  <2> QED BY <2>1, <2>2
<1>3. CASE Writer!Bump(o)
  <2>1. CASE row = NoOwner
    <3>1. Writer!TypeOK'
      BY <1>3, <2>1 DEF Writer!Bump, WriterInv, Writer!TypeOK, Writer!Stages
    <3>2. ASSUME NEW p \in Owners PROVE OwnerOK(p)'
      BY <1>3, <2>1 DEF Writer!Bump, WriterInv, Writer!TypeOK, OwnerOK
    <3> QED BY <1>3, <2>1, <3>1, <3>2, TxStays DEF WriterInv, Writer!Bump
  <2>2. CASE row # NoOwner
    BY <1>3, <2>2, Ends DEF Writer!Bump, Writer!Refuse
  <2> QED BY <2>1, <2>2
<1>4. CASE Writer!Acquired(o)
  <2>1. Writer!TypeOK'
    BY <1>4 DEF Writer!Acquired, Writer!server, WriterInv, Writer!TypeOK, Writer!Stages
  <2>2. ASSUME NEW p \in Owners PROVE OwnerOK(p)'
    BY <1>4 DEF Writer!Acquired, Writer!server, WriterInv, Writer!TypeOK, OwnerOK
  <2> QED BY <1>4, <2>1, <2>2, TxStays DEF WriterInv, Writer!Acquired, Writer!server
<1>5. CASE Writer!AcquireFails(o)
  BY <1>5, Ends DEF Writer!AcquireFails, Writer!Refuse
<1> QED BY <1>d, <1>1, <1>2, <1>3, <1>4, <1>5 DEF Writer!Acquire

\* The queue of an open writer and the answers of its transactions.
LEMMA QueueMoves ==
    ASSUME WriterInv, NEW t \in Transactions, NEW o \in Owners, client[o] = "open",
           UNCHANGED <<epoch, holder, row, session, durable, client, known>>,
           NEW how \in Writer!TxStates, NEW q \in Seq(Transactions),
           tx' = [tx EXCEPT ![t] = how] \/ tx' = tx,
           queue' = [queue EXCEPT ![o] = q] \/ queue' = queue,
           link' \in [Owners -> {"up", "cut"}],
           failure' \in [Owners -> BOOLEAN], closing' \in [Owners -> BOOLEAN],
           how \in {"new", "queued", "working", "rejected"} => durable[t] = 0,
           how = "committed" => durable[t] # 0
    PROVE  WriterInv'
<1>1. tx' \in [Transactions -> Writer!TxStates] /\ queue' \in [Owners -> Seq(Transactions)]
  BY DEF WriterInv, Writer!TypeOK
<1>2. Writer!TypeOK'
  BY <1>1, Zenon DEF WriterInv, Writer!TypeOK
<1>3. \A u \in Transactions : TxOK(u)'
  BY DEF WriterInv, Writer!TypeOK, TxOK
<1>4. ASSUME NEW p \in Owners PROVE OwnerOK(p)'
  BY DEF WriterInv, Writer!TypeOK, OwnerOK
<1> QED BY <1>2, <1>3, <1>4 DEF WriterInv

LEMMA QueueRuns ==
    ASSUME WriterInv, NEW t \in Transactions, Writer!Ask(t) \/ Writer!Transact(t)
    PROVE  WriterInv' /\ durable' = durable
<1> USE WriterFacts
<1> DEFINE o == OwnerOf[t]
<1>0. /\ o \in Owners /\ queue[o] \in Seq(Transactions) /\ tx[t] \in Writer!TxStates
      /\ link \in [Owners -> {"up", "cut"}] /\ queue \in [Owners -> Seq(Transactions)]
      /\ failure \in [Owners -> BOOLEAN] /\ closing \in [Owners -> BOOLEAN]
  BY DEF WriterInv, Writer!TypeOK
<1>1. (queue[o] # <<>> => client[o] = "open" /\ Tail(queue[o]) \in Seq(Transactions)) /\ Append(queue[o], t) \in Seq(Transactions)
  BY <1>0 DEF WriterInv, OwnerOK
<1>2. TxOK(t)
  BY DEF WriterInv
<1>d. durable' = durable
  BY DEF Writer!Ask, Writer!Transact, Writer!Begin, Writer!RollBack, Writer!Commit, Writer!Reply, Writer!server
<1>3. CASE Writer!Ask(t)
  <2>1. CASE Writer!Healthy(o)
    <3>1. /\ tx' = [tx EXCEPT ![t] = "queued"] /\ queue' = [queue EXCEPT ![o] = Append(queue[o], t)]
          /\ client[o] = "open" /\ tx[t] = "new"
          /\ UNCHANGED <<epoch, holder, row, session, durable, client, known, link, failure, closing>>
      BY <1>3, <2>1 DEF Writer!Ask, Writer!server
    <3>2. durable[t] = 0
      BY <1>2, <3>1 DEF TxOK
    <3> HIDE DEF o
    <3> QED BY <1>0, <1>1, <1>d, <3>1, <3>2, QueueMoves DEF Writer!TxStates
  <2>2. CASE ~Writer!Healthy(o)
    <3>1. /\ tx' = [tx EXCEPT ![t] = "unavailable"] /\ queue' = queue
          /\ client[o] = "open"
          /\ UNCHANGED <<epoch, holder, row, session, durable, client, known, link, failure, closing>>
      BY <1>3, <2>2 DEF Writer!Ask, Writer!server
    <3> HIDE DEF o
    <3> QED BY <1>0, <1>1, <1>d, <3>1, QueueMoves DEF Writer!TxStates
  <2> QED BY <2>1, <2>2
<1>4. CASE Writer!Begin(t)
  <2>0. client[o] = "open" /\ tx[t] = "queued" /\ durable[t] = 0
    BY <1>1, <1>2, <1>4 DEF Writer!Begin, Writer!Running, TxOK
  <2>1. UNCHANGED <<epoch, holder, session, durable, link, client, known, closing>>
    BY <1>4 DEF Writer!Begin
  <2>2. CASE Writer!Settle(o, t, "unavailable") /\ row' = row
    <3>1. tx' = [tx EXCEPT ![t] = "unavailable"] /\ queue' = [queue EXCEPT ![o] = Tail(queue[o])] /\ queue[o] # <<>>
      BY <1>4, <2>2 DEF Writer!Settle, Writer!Begin, Writer!Running
    <3>2. failure' \in [Owners -> BOOLEAN]
      <4>1. failure' = failure \/ failure' = [failure EXCEPT ![o] = TRUE]
        BY <1>4, Zenon DEF Writer!Begin
      <4> QED BY <1>0, <4>1
    <3> HIDE DEF o
    <3> QED BY <1>0, <1>1, <1>d, <2>0, <2>1, <2>2, <3>1, <3>2, QueueMoves DEF Writer!TxStates
  <2>3. CASE ~(Writer!Settle(o, t, "unavailable") /\ row' = row)
    <3>1. /\ Writer!StillOwner(o) /\ row' = o /\ tx' = [tx EXCEPT ![t] = "working"]
          /\ queue' = queue /\ failure' = failure /\ row = NoOwner
      BY <1>4, <2>3, Zenon DEF Writer!Begin
    <3>2. Writer!TypeOK'
      <4>1. tx' \in [Transactions -> Writer!TxStates]
        BY <3>1 DEF WriterInv, Writer!TypeOK, Writer!TxStates
      <4> HIDE DEF o
      <4> QED BY <1>0, <2>1, <3>1, <4>1, Zenon DEF WriterInv, Writer!TypeOK
    <3>3. \A u \in Transactions : TxOK(u)'
      BY <2>0, <2>1, <3>1 DEF WriterInv, Writer!TypeOK, TxOK
    <3>4. ASSUME NEW p \in Owners PROVE OwnerOK(p)'
      BY <2>1, <3>1 DEF WriterInv, OwnerOK, Writer!StillOwner
    <3> QED BY <1>d, <3>2, <3>3, <3>4 DEF WriterInv
  <2> QED BY <2>2, <2>3
<1>5. CASE Writer!RollBack(t)
  <2>1. /\ tx[t] = "working" /\ row' = NoOwner
        /\ UNCHANGED <<epoch, holder, session, durable, link, client, known, failure, closing>>
        /\ queue' = [queue EXCEPT ![o] = Tail(queue[o])] /\ queue[o] # <<>>
        /\ tx' = [tx EXCEPT ![t] = "unavailable"] \/ tx' = [tx EXCEPT ![t] = "rejected"]
    BY <1>5 DEF Writer!RollBack, Writer!Running, Writer!Settle
  <2>2. durable[t] = 0
    BY <1>2, <2>1 DEF TxOK
  <2>3. tx' \in [Transactions -> Writer!TxStates] /\ queue' \in [Owners -> Seq(Transactions)]
    BY <1>0, <1>1, <2>1 DEF WriterInv, Writer!TypeOK, Writer!TxStates
  <2>4. Writer!TypeOK'
    <3> HIDE DEF o
    <3> QED BY <2>1, <2>3, Zenon DEF WriterInv, Writer!TypeOK
  <2>5. \A u \in Transactions : TxOK(u)'
    BY <2>1, <2>2 DEF WriterInv, Writer!TypeOK, TxOK
  <2>6. ASSUME NEW p \in Owners PROVE OwnerOK(p)'
    BY <1>0, <1>1, <2>1 DEF WriterInv, OwnerOK
  <2> QED BY <1>d, <2>4, <2>5, <2>6 DEF WriterInv
<1>6. CASE Writer!Commit(t)
  <2>1. /\ tx' = [tx EXCEPT ![t] = "committing"] /\ queue' = queue /\ queue[o] # <<>>
        /\ UNCHANGED <<epoch, holder, row, session, durable, client, known, link, failure, closing>>
    BY <1>6 DEF Writer!Commit, Writer!server, Writer!Running
  <2> HIDE DEF o
  <2> QED BY <1>0, <1>1, <1>d, <2>1, QueueMoves DEF Writer!TxStates
<1>7. CASE Writer!Reply(t)
  <2>1. PICK how \in {"committed", "unavailable"} : tx' = [tx EXCEPT ![t] = how]
    BY <1>7 DEF Writer!Reply, Writer!Settle
  <2>2. PICK b \in BOOLEAN : failure' = [failure EXCEPT ![o] = b]
    <3>1. (failure[o] \/ closing[o]) \in BOOLEAN
      OBVIOUS
    <3> QED BY <1>7, <3>1, Zenon DEF Writer!Reply
  <2>3. /\ queue' = [queue EXCEPT ![o] = Tail(queue[o])] /\ queue[o] # <<>>
        /\ UNCHANGED <<epoch, holder, row, session, durable, client, known, link, closing>>
        /\ durable[t] # 0
    BY <1>7 DEF Writer!Reply, Writer!Settle, Writer!server, Writer!Running
  <2>4. failure' \in [Owners -> BOOLEAN]
    BY <1>0, <2>2
  <2> HIDE DEF o
  <2> QED BY <1>0, <1>1, <1>d, <2>1, <2>3, <2>4, QueueMoves DEF Writer!TxStates
<1> QED BY <1>3, <1>4, <1>5, <1>6, <1>7 DEF Writer!Transact

LEMMA WriterEnds ==
    ASSUME WriterInv, NEW o \in Owners,
           \/ Writer!SessionEnds(o) \/ Writer!LockLost(o) \/ Writer!Cut(o)
           \/ Writer!Forget(o) \/ Writer!Close(o) \/ Writer!CloseEnds(o)
    PROVE  WriterInv' /\ durable' = durable
<1> USE WriterFacts
<1>0. /\ queue[o] \in Seq(Transactions)
      /\ link \in [Owners -> {"up", "cut"}] /\ queue \in [Owners -> Seq(Transactions)]
      /\ failure \in [Owners -> BOOLEAN] /\ closing \in [Owners -> BOOLEAN]
  BY DEF WriterInv, Writer!TypeOK
<1>1. queue[o] # <<>> => /\ client[o] = "open" /\ Tail(queue[o]) \in Seq(Transactions)
                         /\ Head(queue[o]) \in Transactions
  BY <1>0 DEF WriterInv, OwnerOK
<1>d. durable' = durable
  BY DEF Writer!SessionEnds, Writer!LockLost, Writer!Cut, Writer!Forget, Writer!Close, Writer!CloseEnds, Writer!server
<1>2. CASE Writer!SessionEnds(o) \/ Writer!CloseEnds(o)
  <2>1. UNCHANGED <<epoch, durable, link, client, known, failure, closing, queue, tx>> /\ Writer!Ended(o)
    BY <1>2 DEF Writer!SessionEnds, Writer!CloseEnds
  <2> QED BY <1>d, <2>1, Ends
<1>3. CASE Writer!LockLost(o)
  <2>1. Writer!TypeOK'
    BY <1>3 DEF Writer!LockLost, WriterInv, Writer!TypeOK
  <2>2. ASSUME NEW p \in Owners PROVE OwnerOK(p)'
    BY <1>3 DEF Writer!LockLost, WriterInv, OwnerOK
  <2>3. \A t \in Transactions : TxOK(t)'
    BY <1>3, TxStays DEF Writer!LockLost
  <2> QED BY <1>d, <2>1, <2>2, <2>3 DEF WriterInv
<1>4. CASE Writer!Cut(o)
  <2>1. /\ UNCHANGED <<epoch, holder, row, session, durable, client, known, closing>>
        /\ client[o] = "open" /\ link' = [link EXCEPT ![o] = "cut"]
        /\ failure' = [failure EXCEPT ![o] = TRUE]
    BY <1>4, Zenon DEF Writer!Cut, Writer!server, Writer!Unanswered
  <2>2. link' \in [Owners -> {"up", "cut"}] /\ failure' \in [Owners -> BOOLEAN]
    BY <1>0, <2>1
  <2>3. CASE queue[o] # <<>> /\ tx[Head(queue[o])] \in {"working", "committing"}
    <3>1. PICK t \in Transactions : t = Head(queue[o])
      BY <1>1, <2>3
    <3>2. PICK q \in Seq(Transactions) : queue' = [queue EXCEPT ![o] = q]
      <4>1. queue' = [queue EXCEPT ![o] = queue[o]] \/ queue' = [queue EXCEPT ![o] = Tail(queue[o])]
        BY <1>4, <2>3 DEF Writer!Cut, Writer!Unanswered
      <4> QED BY <1>0, <1>1, <2>3, <4>1
    <3>3. tx' = [tx EXCEPT ![t] = "unavailable"]
      BY <1>4, <2>3, <3>1 DEF Writer!Cut, Writer!Unanswered
    <3> QED BY <1>0, <1>d, <2>1, <2>2, <3>2, <3>3, QueueMoves DEF Writer!TxStates
  <2>4. CASE ~(queue[o] # <<>> /\ tx[Head(queue[o])] \in {"working", "committing"})
    <3>1. tx' = tx /\ queue' = queue
      BY <1>4, <2>4, Zenon DEF Writer!Cut
    <3>2. Writer!TypeOK'
      BY <2>1, <2>2, <3>1, <1>0, Zenon DEF WriterInv, Writer!TypeOK
    <3>3. ASSUME NEW p \in Owners PROVE OwnerOK(p)'
      BY <2>1, <3>1 DEF WriterInv, OwnerOK
    <3> QED BY <1>d, <2>1, <3>1, <3>2, <3>3, TxStays DEF WriterInv
  <2> QED BY <2>3, <2>4
<1>5. CASE Writer!Forget(o)
  <2>1. /\ UNCHANGED <<epoch, holder, row, session, durable, client, known, link, failure, closing, tx>>
        /\ queue[o] # <<>> /\ queue' = [queue EXCEPT ![o] = Tail(queue[o])]
    BY <1>5 DEF Writer!Forget, Writer!server
  <2> QED BY <1>0, <1>1, <1>d, <2>1, QueueMoves DEF Writer!TxStates
<1>6. CASE Writer!Close(o)
  <2>1. /\ UNCHANGED <<epoch, holder, row, session, durable, client, known, link, failure, queue, tx>>
        /\ closing' = [closing EXCEPT ![o] = TRUE]
    BY <1>6 DEF Writer!Close, Writer!server
  <2>2. closing' \in [Owners -> BOOLEAN]
    BY <1>0, <2>1
  <2>3. Writer!TypeOK'
    BY <2>1, <2>2, Zenon DEF WriterInv, Writer!TypeOK
  <2>4. ASSUME NEW p \in Owners PROVE OwnerOK(p)'
    BY <2>1 DEF WriterInv, OwnerOK
  <2> QED BY <1>d, <2>1, <2>3, <2>4, TxStays DEF WriterInv
<1> QED BY <1>2, <1>3, <1>4, <1>5, <1>6

LEMMA WriterStep ==
    ASSUME WriterInv, [Writer!Next]_(Writer!vars)
    PROVE  /\ WriterInv'
           /\ \A t \in Transactions : durable[t] = 0 /\ durable'[t] # 0 => durable'[t] = epoch
<1>1. CASE UNCHANGED Writer!vars
  <2>1. UNCHANGED <<epoch, holder, row, session, link, client, known, failure, closing, queue, tx, durable>>
    BY <1>1 DEF Writer!vars, Writer!server
  <2>2. Writer!TypeOK'
    BY <2>1, Zenon DEF WriterInv, Writer!TypeOK
  <2> QED BY <2>1, <2>2 DEF WriterInv, TxOK, OwnerOK
<1>2. CASE Writer!Next
  BY <1>2, Acquires, AppliesNewest, QueueRuns, WriterEnds DEF Writer!Next
<1> QED BY <1>1, <1>2

LEMMA WriterPromise ==
    ASSUME WriterInv
    PROVE  Writer!AnswersAreTrue /\ Writer!NotDisplaced
BY DEF WriterInv, TxOK, OwnerOK, Writer!AnswersAreTrue, Writer!NotDisplaced

-----------------------------------------------------------------------------
(* The submissions of a wallet (walletSubmissions.ts, clientScript.ts).     *)

Outcomes == {"open", "submitted", "rejected"}
Pages ==
    [pc : {"idle", "stage", "check", "begin", "permitted", "prompt", "hash", "rejected", "failed", "report"},
     nonce : Int, permit : Nat, uncertain : BOOLEAN, hash : BOOLEAN, begun : Nat]
Stores == [kind : {"none", "uncertain", "hash"}, permit : Nat]
Plans == [nonce : Int, active : BOOLEAN]
WalletTypeOK ==
    /\ plan \in [Requests -> Plans]
    /\ dispatch \in [Requests -> Seq(Outcomes)]
    /\ tab \in [Tabs -> Pages]
    /\ stored \in [Tabs -> Stores]
    /\ prompts \subseteq [r : Requests, attempt : Nat, nonce : Nat, tab : Tabs]
    /\ sent \subseteq [r : Requests, attempt : Nat, nonce : Nat]
    /\ lies \subseteq [r : Requests, attempt : Nat]
    /\ pending \in Nat /\ mined \in Nat
    /\ IsFiniteSet(sent) /\ IsFiniteSet(lies)

\* The wallet was asked under a permit, or broadcast what it was asked.
Asked(r, a) == \E p \in prompts : p.r = r /\ p.attempt = a
Broadcasted(r, a) == \E s \in sent : s.r = r /\ s.attempt = a
\* A tab that holds a permit for one question to the wallet.
Asking(t) == tab[t].pc \in {"permitted", "prompt", "rejected"}

\* Every dispatch but the last was rejected.
DispatchOK(r) == \A i \in 1..Wallet!Last(r) : i < Wallet!Last(r) => dispatch[r][i] = "rejected"

\* What the wallet still shows was not answered, and what it sent has the plan's nonce.
PromptOK(p) ==
    /\ p.r = PageOf[p.tab] /\ p.nonce = plan[p.r].nonce
    /\ p.attempt \in 1..Wallet!Last(p.r) /\ dispatch[p.r][p.attempt] # "rejected"
    /\ ~Broadcasted(p.r, p.attempt)
    /\ \A q \in prompts : q.r = p.r /\ q.attempt = p.attempt => q = p
SentOK(s) ==
    /\ s.nonce = plan[s.r].nonce /\ s.attempt \in 1..Wallet!Last(s.r)
    /\ dispatch[s.r][s.attempt] = "rejected" => [r |-> s.r, attempt |-> s.attempt] \in lies
    /\ \A z \in sent : z.r = s.r /\ z.attempt = s.attempt => z = s

\* A permit is one tab's, until the wallet was asked under it and answered.
OwnPermit(t) ==
    Asking(t) =>
        /\ tab[t].permit \in 1..Wallet!Last(PageOf[t])
        /\ \A u \in Tabs : Asking(u) /\ PageOf[u] = PageOf[t] /\ tab[u].permit = tab[t].permit => u = t
MayAsk(t) ==
    tab[t].pc = "permitted" =>
        /\ tab[t].nonce = plan[PageOf[t]].nonce
        /\ dispatch[PageOf[t]][tab[t].permit] # "rejected"
        /\ ~Asked(PageOf[t], tab[t].permit) /\ ~Broadcasted(PageOf[t], tab[t].permit)
WasDeclined(t) ==
    tab[t].pc = "rejected" =>
        /\ ~Asked(PageOf[t], tab[t].permit)
        /\ Broadcasted(PageOf[t], tab[t].permit) => [r |-> PageOf[t], attempt |-> tab[t].permit] \in lies
NonceOK(t) == tab[t].pc \in {"stage", "check", "begin", "permitted"} => tab[t].nonce \in Nat
PermitsOK(t) == OwnPermit(t) /\ MayAsk(t) /\ WasDeclined(t) /\ NonceOK(t)

\* While its own dispatch is open, a tab knows it, in memory and in its storage.
Minds(t) ==
    /\ tab[t].pc \notin {"stage", "check", "begin"}
    /\ tab[t].pc = "idle" => tab[t].uncertain \/ tab[t].hash
    /\ tab[t].pc = "report" => tab[t].hash
    /\ tab[t].pc \in {"permitted", "prompt", "hash", "rejected", "failed"} => tab[t].permit = tab[t].begun
    /\ stored[t].kind # "none"
MemoryOK(t) ==
    /\ tab[t].begun \in 0..Wallet!Last(PageOf[t])
    /\ tab[t].pc = "begin" => stored[t].kind # "none"
    /\ tab[t].begun # 0 /\ dispatch[PageOf[t]][tab[t].begun] = "open" => Minds(t)

WalletInv ==
    /\ WalletTypeOK
    /\ \A r \in Requests : DispatchOK(r)
    /\ \A p \in prompts : PromptOK(p)
    /\ \A s \in sent : SentOK(s)
    /\ \A t \in Tabs : PermitsOK(t) /\ MemoryOK(t)

LEMMA WalletFacts == PageOf \in [Tabs -> Requests]
BY PackAssumption DEF Wallet!WalletAssumption

LEMMA WalletInit == Wallet!Init => WalletInv
<1> SUFFICES ASSUME Wallet!Init PROVE WalletInv
  OBVIOUS
<1> USE WalletFacts
<1>1. WalletTypeOK
  <2>1. /\ plan = [r \in Requests |-> [nonce |-> -1, active |-> FALSE]] /\ dispatch = [r \in Requests |-> <<>>]
        /\ stored = [t \in Tabs |-> [kind |-> "none", permit |-> 0]]
        /\ prompts = {} /\ sent = {} /\ lies = {} /\ pending = 0 /\ mined = 0
        /\ tab = [t \in Tabs |-> [pc |-> "idle", nonce |-> -1, permit |-> 0,
                                  uncertain |-> FALSE, hash |-> FALSE, begun |-> 0]]
    BY DEF Wallet!Init, Wallet!Page, Wallet!Empty, Wallet!NoNonce, Wallet!NoPermit
  <2>2. IsFiniteSet(sent) /\ IsFiniteSet(lies)
    BY <2>1, FS_EmptySet
  <2> QED BY <2>1, <2>2 DEF WalletTypeOK, Pages, Stores, Plans, Outcomes
<1>2. /\ \A r \in Requests : DispatchOK(r)
      /\ \A p \in prompts : PromptOK(p)
      /\ \A s \in sent : SentOK(s)
  BY DEF Wallet!Init, DispatchOK, Wallet!Last
<1>3. \A t \in Tabs : PermitsOK(t) /\ MemoryOK(t)
  BY DEF Wallet!Init, Wallet!Page, Wallet!NoPermit, PermitsOK, OwnPermit, MayAsk, WasDeclined, NonceOK, MemoryOK, Asking, Wallet!Last
<1> QED BY <1>1, <1>2, <1>3 DEF WalletInv

\* A nonce that a plan once had, it keeps.
PlanKept ==
    /\ plan' \in [Requests -> Plans]
    /\ \A q \in Requests : plan'[q].nonce = plan[q].nonce \/ plan[q].nonce = -1

LEMMA PlansKept ==
    ASSUME WalletInv, PlanKept
    PROVE  /\ \A p \in prompts : plan'[p.r].nonce = p.nonce
           /\ \A s \in sent : plan'[s.r].nonce = s.nonce
           /\ \A t \in Tabs : tab[t].pc = "permitted" => plan'[PageOf[t]].nonce = tab[t].nonce
<1> USE WalletFacts
<1>1. \A p \in prompts : p.nonce \in Nat /\ p.r \in Requests /\ p.nonce = plan[p.r].nonce
  BY DEF WalletInv, WalletTypeOK, PromptOK
<1>2. \A s \in sent : s.nonce \in Nat /\ s.r \in Requests /\ s.nonce = plan[s.r].nonce
  BY DEF WalletInv, WalletTypeOK, SentOK
<1>3. \A t \in Tabs : tab[t].pc = "permitted" => tab[t].nonce \in Nat /\ tab[t].nonce = plan[PageOf[t]].nonce
  BY DEF WalletInv, PermitsOK, MayAsk, NonceOK
<1> QED BY <1>1, <1>2, <1>3 DEF PlanKept

\* Only the plans, or the counts of the wallet, change.
LEMMA OutsideMoves ==
    ASSUME WalletInv, PlanKept, UNCHANGED <<dispatch, tab, stored, prompts, sent, lies>>,
           pending' \in Nat, mined' \in Nat
    PROVE  WalletInv'
<1>1. WalletTypeOK'
  BY DEF WalletInv, WalletTypeOK, PlanKept
<1>2. /\ \A r \in Requests : DispatchOK(r)'
      /\ \A p \in prompts' : PromptOK(p)'
      /\ \A s \in sent' : SentOK(s)'
  BY PlansKept DEF WalletInv, DispatchOK, PromptOK, SentOK, Wallet!Last, Broadcasted
<1>3. ASSUME NEW t \in Tabs PROVE PermitsOK(t)' /\ MemoryOK(t)'
  <2>1. PermitsOK(t) /\ MemoryOK(t) /\ (tab[t].pc = "permitted" => plan'[PageOf[t]].nonce = tab[t].nonce)
    BY PlansKept DEF WalletInv
  <2>2. OwnPermit(t)' /\ WasDeclined(t)' /\ NonceOK(t)'
    BY <2>1 DEF PermitsOK, OwnPermit, WasDeclined, NonceOK, Asking, Asked, Broadcasted, Wallet!Last
  <2>3. MayAsk(t)'
    BY <2>1 DEF PermitsOK, MayAsk, Asked, Broadcasted
  <2>4. MemoryOK(t)'
    BY <2>1 DEF MemoryOK, Minds, Wallet!Last
  <2> QED BY <2>2, <2>3, <2>4 DEF PermitsOK
<1> QED BY <1>1, <1>2, <1>3 DEF WalletInv

\* One tab moves, and ends up where it asks the wallet nothing.
TabMoved(t) ==
    /\ tab' = [tab EXCEPT ![t] = tab'[t]] /\ tab'[t] \in Pages
    /\ stored' = [stored EXCEPT ![t] = stored'[t]] /\ stored'[t] \in Stores
    /\ ~Asking(t)'
    /\ tab'[t].pc \in {"stage", "check", "begin"} => tab'[t].nonce \in Nat
    /\ MemoryOK(t)'

LEMMA OthersStay ==
    ASSUME WalletInv, NEW t \in Tabs, tab' = [tab EXCEPT ![t] = tab'[t]],
           stored' = [stored EXCEPT ![t] = stored'[t]]
    PROVE  \A u \in Tabs : u # t => tab'[u] = tab[u] /\ stored'[u] = stored[u]
BY DEF WalletInv, WalletTypeOK

LEMMA TabMoves ==
    ASSUME WalletInv, PlanKept, NEW t \in Tabs, TabMoved(t), UNCHANGED <<dispatch, prompts, sent, lies, pending, mined>>
    PROVE  WalletInv'
<1>1. WalletTypeOK'
  BY DEF WalletInv, WalletTypeOK, PlanKept, TabMoved, Stores, Plans
<1>2. /\ \A r \in Requests : DispatchOK(r)'
      /\ \A p \in prompts' : PromptOK(p)'
      /\ \A s \in sent' : SentOK(s)'
  BY PlansKept DEF WalletInv, DispatchOK, PromptOK, SentOK, Wallet!Last, Broadcasted
<1>3. ASSUME NEW u \in Tabs PROVE PermitsOK(u)' /\ MemoryOK(u)'
  <2>1. \A v \in Tabs : v # t => tab'[v] = tab[v] /\ stored'[v] = stored[v]
    BY OthersStay DEF TabMoved
  <2>2. CASE u = t
    BY <2>2 DEF TabMoved, PermitsOK, OwnPermit, MayAsk, WasDeclined, NonceOK, Asking
  <2>3. CASE u # t
    <3>1. \A v \in Tabs : Asking(v)' => v # t /\ Asking(v)
      BY <2>1 DEF Asking, TabMoved
    <3>2. /\ PermitsOK(u) /\ tab'[u] = tab[u]
          /\ tab[u].pc = "permitted" => plan'[PageOf[u]].nonce = tab[u].nonce
      BY <2>1, <2>3, PlansKept DEF WalletInv
    <3>3. OwnPermit(u)'
      BY <2>1, <2>3, <3>1 DEF WalletInv, PermitsOK, OwnPermit, Wallet!Last
    <3>4. MayAsk(u)' /\ WasDeclined(u)' /\ NonceOK(u)'
      BY <3>2 DEF PermitsOK, MayAsk, WasDeclined, NonceOK, Asked, Broadcasted
    <3>5. MemoryOK(u)'
      BY <2>1, <2>3 DEF WalletInv, MemoryOK, Minds, Wallet!Last
    <3> QED BY <3>3, <3>4, <3>5 DEF PermitsOK
  <2> QED BY <2>2, <2>3
<1> QED BY <1>1, <1>2, <1>3 DEF WalletInv

\* A report is recorded under the last permit.
Recorded(r, a, o) ==
    /\ dispatch' \in [Requests -> Seq(Outcomes)]
    /\ \A q \in Requests : Len(dispatch'[q]) = Len(dispatch[q])
    /\ \A q \in Requests : \A i \in 1..Len(dispatch[q]) :
          dispatch'[q][i] = IF q = r /\ i = a THEN o ELSE dispatch[q][i]

LEMMA RecordIs ==
    ASSUME WalletInv, NEW r \in Requests, NEW a \in Nat, NEW o \in {"submitted", "rejected"},
           Wallet!Accepts(r, a, o), Wallet!Record(r, a, o)
    PROVE  /\ a \in 1..Len(dispatch[r]) /\ a = Len(dispatch[r]) /\ dispatch[r][a] \in {"open", o}
           /\ Recorded(r, a, o)
<1>1. dispatch \in [Requests -> Seq(Outcomes)] /\ dispatch[r] \in Seq(Outcomes) /\ Len(dispatch[r]) \in Nat
  BY DEF WalletInv, WalletTypeOK
<1>2. a = Len(dispatch[r]) /\ a # 0 /\ dispatch[r][a] \in {"open", o}
  BY DEF Wallet!Accepts, Wallet!NoPermit, Wallet!Last
<1>3. a \in 1..Len(dispatch[r])
  BY <1>1, <1>2
<1>4. PICK s : s = [dispatch[r] EXCEPT ![a] = o]
  OBVIOUS
<1>5. dispatch' = [dispatch EXCEPT ![r] = s]
  BY <1>4 DEF Wallet!Record
<1>6. s \in Seq(Outcomes) /\ Len(s) = Len(dispatch[r])
  BY <1>1, <1>3, <1>4 DEF Outcomes
<1>7. \A i \in 1..Len(dispatch[r]) : s[i] = IF i = a THEN o ELSE dispatch[r][i]
  BY <1>1, <1>3, <1>4 DEF Outcomes
<1>8. \A q \in Requests : dispatch'[q] = IF q = r THEN s ELSE dispatch[q]
  BY <1>1, <1>5
<1>9. dispatch' \in [Requests -> Seq(Outcomes)]
  BY <1>1, <1>5, <1>6
<1> QED BY <1>2, <1>3, <1>6, <1>7, <1>8, <1>9 DEF Recorded

LEMMA ReportMoves ==
    ASSUME WalletInv, NEW t \in Tabs, TabMoved(t), UNCHANGED <<plan, prompts, sent, lies, pending, mined>>,
           NEW o \in {"submitted", "rejected"}, o = "rejected" => tab[t].pc = "rejected",
           Wallet!Accepts(PageOf[t], tab[t].permit, o), Wallet!Record(PageOf[t], tab[t].permit, o)
    PROVE  WalletInv'
<1> DEFINE r == PageOf[t]
           a == tab[t].permit
<1>1. r \in Requests /\ a \in Nat /\ PermitsOK(t)
  BY WalletFacts DEF WalletInv, WalletTypeOK, Pages
<1>2. a \in 1..Len(dispatch[r]) /\ a = Len(dispatch[r]) /\ dispatch[r][a] \in {"open", o} /\ Recorded(r, a, o)
  BY <1>1, RecordIs
<1>3. WalletTypeOK'
  BY <1>2 DEF WalletInv, WalletTypeOK, Recorded, TabMoved, Stores, Plans
<1>4. ASSUME NEW q \in Requests PROVE DispatchOK(q)'
  BY <1>2, <1>4 DEF WalletInv, DispatchOK, Wallet!Last, Recorded
<1>5. o = "rejected" => /\ ~Asked(r, a)
                        /\ Broadcasted(r, a) => [r |-> r, attempt |-> a] \in lies
                        /\ \A u \in Tabs : Asking(u) /\ PageOf[u] = r /\ tab[u].permit = a => u = t
  BY <1>1 DEF PermitsOK, OwnPermit, WasDeclined, Asking
<1>6. \A q \in Requests : \A i \in 1..Len(dispatch[q]) :
         dispatch'[q][i] = "rejected" => dispatch[q][i] = "rejected" \/ (q = r /\ i = a /\ o = "rejected")
  BY <1>2 DEF Recorded
<1>7. \A u \in Tabs : u # t => tab'[u] = tab[u] /\ stored'[u] = stored[u]
  BY OthersStay DEF TabMoved
<1>8. \A q \in Requests : Len(dispatch'[q]) = Len(dispatch[q])
  BY <1>2 DEF Recorded
<1> HIDE DEF r, a
<1>9. ASSUME NEW p \in prompts PROVE PromptOK(p)'
  <2>1. PromptOK(p) /\ p.r \in Requests /\ p \in prompts
    BY DEF WalletInv, WalletTypeOK
  <2>2. dispatch'[p.r][p.attempt] # "rejected"
    BY <1>5, <1>6, <2>1 DEF PromptOK, Wallet!Last, Asked
  <2> QED BY <1>8, <2>1, <2>2 DEF PromptOK, Wallet!Last, Broadcasted
<1>10. ASSUME NEW s \in sent PROVE SentOK(s)'
  <2>1. SentOK(s) /\ s.r \in Requests /\ s \in sent
    BY DEF WalletInv, WalletTypeOK
  <2>2. dispatch'[s.r][s.attempt] = "rejected" => [r |-> s.r, attempt |-> s.attempt] \in lies
    BY <1>5, <1>6, <2>1 DEF SentOK, Wallet!Last, Broadcasted
  <2> QED BY <1>8, <2>1, <2>2 DEF SentOK, Wallet!Last
<1>11. ASSUME NEW u \in Tabs PROVE PermitsOK(u)' /\ MemoryOK(u)'
  <2>1. PermitsOK(u) /\ MemoryOK(u) /\ PageOf[u] \in Requests
    BY WalletFacts DEF WalletInv
  <2>2. CASE u = t
    BY <2>2 DEF TabMoved, PermitsOK, OwnPermit, MayAsk, WasDeclined, NonceOK, Asking
  <2>3. CASE u # t
    <3>1. tab'[u] = tab[u] /\ stored'[u] = stored[u]
      BY <1>7, <2>3
    <3>2. \A v \in Tabs : Asking(v)' => v # t /\ Asking(v)
      BY <1>7 DEF Asking, TabMoved
    <3>3. OwnPermit(u)'
      <4>1. \A v \in Tabs : v # t => tab'[v].permit = tab[v].permit
        BY <1>7
      <4> QED BY <1>8, <2>1, <3>1, <3>2, <4>1 DEF PermitsOK, OwnPermit, Wallet!Last
    <3>4. MayAsk(u)'
      <4>1. tab[u].pc = "permitted" => dispatch'[PageOf[u]][tab[u].permit] # "rejected"
        <5> SUFFICES ASSUME tab[u].pc = "permitted" PROVE dispatch'[PageOf[u]][tab[u].permit] # "rejected"
          OBVIOUS
        <5>1. Asking(u) /\ tab[u].permit \in 1..Len(dispatch[PageOf[u]])
          BY <2>1 DEF PermitsOK, OwnPermit, Asking, Wallet!Last
        <5> QED BY <1>5, <1>6, <2>1, <2>3, <5>1 DEF PermitsOK, MayAsk
      <4> QED BY <2>1, <3>1, <4>1 DEF PermitsOK, MayAsk, Asked, Broadcasted
    <3>5. WasDeclined(u)' /\ NonceOK(u)'
      BY <2>1, <3>1 DEF PermitsOK, WasDeclined, NonceOK, Asked, Broadcasted
    <3>6. MemoryOK(u)'
      <4>1. tab[u].begun # 0 /\ dispatch'[PageOf[u]][tab[u].begun] = "open"
              => dispatch[PageOf[u]][tab[u].begun] = "open"
        <5>1. tab[u].begun # 0 => tab[u].begun \in 1..Len(dispatch[PageOf[u]])
          BY <2>1 DEF MemoryOK, Wallet!Last
        <5> QED BY <1>2, <2>1, <5>1 DEF Recorded
      <4> QED BY <1>8, <2>1, <3>1, <4>1 DEF MemoryOK, Minds, Wallet!Last
    <3> QED BY <3>3, <3>4, <3>5, <3>6 DEF PermitsOK
  <2> QED BY <2>2, <2>3
<1> QED BY <1>3, <1>4, <1>9, <1>10, <1>11 DEF WalletInv

\* A dispatch is opened behind those that were rejected.
Opened(r) ==
    /\ dispatch' \in [Requests -> Seq(Outcomes)]
    /\ \A q \in Requests : Len(dispatch'[q]) = IF q = r THEN Len(dispatch[q]) + 1 ELSE Len(dispatch[q])
    /\ \A q \in Requests : \A i \in 1..Len(dispatch[q]) : dispatch'[q][i] = dispatch[q][i]
    /\ dispatch'[r][Len(dispatch[r]) + 1] = "open"

LEMMA OpenIs ==
    ASSUME WalletInv, NEW r \in Requests, dispatch' = [dispatch EXCEPT ![r] = Append(dispatch[r], "open")]
    PROVE  Opened(r)
<1>1. dispatch \in [Requests -> Seq(Outcomes)] /\ dispatch[r] \in Seq(Outcomes) /\ Len(dispatch[r]) \in Nat
  BY DEF WalletInv, WalletTypeOK
<1>2. PICK s : s = Append(dispatch[r], "open")
  OBVIOUS
<1>3. /\ s \in Seq(Outcomes) /\ Len(s) = Len(dispatch[r]) + 1
      /\ \A i \in 1..Len(dispatch[r]) : s[i] = dispatch[r][i]
      /\ s[Len(dispatch[r]) + 1] = "open"
  BY <1>1, <1>2 DEF Outcomes
<1>4. \A q \in Requests : dispatch'[q] = IF q = r THEN s ELSE dispatch[q]
  BY <1>1, <1>2
<1>5. dispatch' \in [Requests -> Seq(Outcomes)]
  BY <1>1, <1>2, <1>3
<1> QED BY <1>3, <1>4, <1>5 DEF Opened

LEMMA BeginMoves ==
    ASSUME WalletInv, NEW t \in Tabs, NEW r \in Requests, r = PageOf[t], Wallet!Resolved(r), Opened(r),
           UNCHANGED <<plan, prompts, sent, lies, pending, mined>>,
           tab' = [tab EXCEPT ![t] = tab'[t]], tab'[t] \in Pages,
           stored' = [stored EXCEPT ![t] = stored'[t]], stored'[t] \in Stores, stored'[t].kind # "none",
           NEW b \in Nat, b = Len(dispatch[r]) + 1, tab'[t].begun = b,
           \/ tab'[t].pc = "permitted" /\ tab'[t].permit = b /\ tab'[t].nonce \in Nat /\ tab'[t].nonce = plan[r].nonce
           \/ tab'[t].pc = "idle" /\ tab'[t].uncertain
    PROVE  WalletInv'
<1>0. \A q \in Requests : Len(dispatch[q]) \in Nat
  BY DEF WalletInv, WalletTypeOK
<1>1. WalletTypeOK'
  BY DEF WalletInv, WalletTypeOK, Opened, Stores, Plans
<1>2. ASSUME NEW q \in Requests PROVE DispatchOK(q)'
  <2>1. DispatchOK(q) /\ Len(dispatch[q]) \in Nat
    BY <1>0 DEF WalletInv
  <2>2. CASE q # r
    BY <2>1, <2>2 DEF Opened, DispatchOK, Wallet!Last
  <2>3. CASE q = r
    <3>1. Len(dispatch[r]) # 0 => dispatch[r][Len(dispatch[r])] = "rejected"
      <4>1. Len(dispatch[r]) # 0 => dispatch[r][Len(dispatch[r])] \in Outcomes
        BY DEF WalletInv, WalletTypeOK
      <4> QED BY <4>1 DEF Wallet!Resolved, Wallet!Outcome, Wallet!Last, Outcomes
    <3>2. \A i \in 1..Len(dispatch[r]) : dispatch[r][i] = "rejected"
      BY <2>1, <2>3, <3>1 DEF DispatchOK, Wallet!Last
    <3>3. Len(dispatch'[r]) = Len(dispatch[r]) + 1
      BY DEF Opened
    <3>4. \A i \in 1..Len(dispatch[r]) : dispatch'[r][i] = dispatch[r][i]
      BY DEF Opened
    <3>5. \A i \in 1..Len(dispatch'[r]) : i < Len(dispatch'[r]) => dispatch'[r][i] = "rejected"
      <4>1. \A i \in 1..Len(dispatch'[r]) : i < Len(dispatch'[r]) => i \in 1..Len(dispatch[r])
        BY <2>1, <2>3, <3>3
      <4> QED BY <3>2, <3>4, <4>1
    <3> QED BY <2>3, <3>5 DEF DispatchOK, Wallet!Last
  <2> QED BY <2>2, <2>3
<1>3. \A u \in Tabs : u # t => tab'[u] = tab[u] /\ stored'[u] = stored[u]
  BY OthersStay
<1>4. \A q \in Requests, i \in Nat : i \in 1..Len(dispatch[q]) =>
         i \in 1..Len(dispatch'[q]) /\ dispatch'[q][i] = dispatch[q][i]
  BY <1>0 DEF Opened
<1>5. ASSUME NEW p \in prompts PROVE PromptOK(p)'
  <2>1. PromptOK(p) /\ p.r \in Requests /\ p.attempt \in Nat
    BY DEF WalletInv, WalletTypeOK
  <2>2. p.attempt \in 1..Len(dispatch'[p.r]) /\ dispatch'[p.r][p.attempt] = dispatch[p.r][p.attempt]
    BY <1>4, <2>1 DEF PromptOK, Wallet!Last
  <2> QED BY <2>1, <2>2 DEF PromptOK, Wallet!Last, Broadcasted
<1>6. ASSUME NEW s \in sent PROVE SentOK(s)'
  <2>1. SentOK(s) /\ s.r \in Requests /\ s.attempt \in Nat
    BY DEF WalletInv, WalletTypeOK
  <2>2. s.attempt \in 1..Len(dispatch'[s.r]) /\ dispatch'[s.r][s.attempt] = dispatch[s.r][s.attempt]
    BY <1>4, <2>1 DEF SentOK, Wallet!Last
  <2> QED BY <2>1, <2>2 DEF SentOK, Wallet!Last
<1>7. ~Asked(r, b) /\ ~Broadcasted(r, b)
  <2>1. \A p \in prompts : p.r = r => p.attempt \in 1..Len(dispatch[r])
    BY DEF WalletInv, PromptOK, Wallet!Last
  <2>2. \A s \in sent : s.r = r => s.attempt \in 1..Len(dispatch[r])
    BY DEF WalletInv, SentOK, Wallet!Last
  <2> QED BY <1>0, <2>1, <2>2 DEF Asked, Broadcasted
<1>8. \A v \in Tabs : v # t /\ Asking(v) /\ PageOf[v] = r => tab[v].permit # b
  BY <1>0 DEF WalletInv, PermitsOK, OwnPermit, Wallet!Last
<1>9. ASSUME NEW u \in Tabs PROVE PermitsOK(u)' /\ MemoryOK(u)'
  <2>1. PermitsOK(u) /\ MemoryOK(u) /\ PageOf[u] \in Requests /\ tab[u].permit \in Nat /\ tab[u].begun \in Nat
    BY WalletFacts DEF WalletInv, WalletTypeOK, Pages
  <2>2. CASE u = t
    <3>1. Len(dispatch'[r]) = b /\ dispatch'[r][b] = "open"
      BY DEF Opened
    <3>2. OwnPermit(t)'
      <4>1. \A v \in Tabs : v # t /\ Asking(v)' /\ PageOf[v] = r => tab'[v].permit # b
        BY <1>3, <1>8 DEF Asking
      <4> QED BY <3>1, <4>1 DEF OwnPermit, Wallet!Last, Asking
    <3>3. MayAsk(t)' /\ WasDeclined(t)' /\ NonceOK(t)'
      BY <1>7, <3>1 DEF MayAsk, WasDeclined, NonceOK, Asked, Broadcasted
    <3>4. MemoryOK(t)'
      BY <3>1 DEF MemoryOK, Minds, Wallet!Last
    <3> QED BY <2>2, <3>2, <3>3, <3>4 DEF PermitsOK
  <2>3. CASE u # t
    <3>1. tab'[u] = tab[u] /\ stored'[u] = stored[u]
      BY <1>3, <2>3
    <3>2. Asking(u) => tab[u].permit \in 1..Len(dispatch'[PageOf[u]])
                       /\ dispatch'[PageOf[u]][tab[u].permit] = dispatch[PageOf[u]][tab[u].permit]
      BY <1>4, <2>1 DEF PermitsOK, OwnPermit, Wallet!Last
    <3>3. OwnPermit(u)'
      <4>1. ASSUME Asking(u), NEW v \in Tabs, Asking(v)', PageOf[v] = PageOf[u], tab'[v].permit = tab[u].permit
            PROVE  v = u
        <5>1. CASE v = t
          <6>1. tab'[t].permit = b /\ PageOf[u] = r
            BY <4>1, <5>1 DEF Asking
          <6> QED BY <1>8, <2>3, <4>1, <5>1, <6>1
        <5>2. CASE v # t
          <6>1. tab'[v] = tab[v]
            BY <1>3, <5>2
          <6> QED BY <2>1, <4>1, <6>1 DEF PermitsOK, OwnPermit, Asking
        <5> QED BY <5>1, <5>2
      <4>2. Asking(u)' <=> Asking(u)
        BY <3>1 DEF Asking
      <4> QED BY <3>1, <3>2, <4>1, <4>2 DEF OwnPermit, Wallet!Last
    <3>4. MayAsk(u)' /\ WasDeclined(u)' /\ NonceOK(u)'
      <4>1. tab[u].pc = "permitted" => dispatch'[PageOf[u]][tab[u].permit] = dispatch[PageOf[u]][tab[u].permit]
        BY <3>2 DEF Asking
      <4> QED BY <2>1, <3>1, <4>1 DEF PermitsOK, MayAsk, WasDeclined, NonceOK, Asked, Broadcasted
    <3>5. MemoryOK(u)'
      <4>1. /\ tab[u].begun \in 0..Len(dispatch'[PageOf[u]])
            /\ tab[u].begun # 0 => dispatch'[PageOf[u]][tab[u].begun] = dispatch[PageOf[u]][tab[u].begun]
        <5>1. CASE tab[u].begun = 0
          BY <1>0, <2>1, <5>1 DEF Opened
        <5>2. CASE tab[u].begun # 0
          <6>1. tab[u].begun \in 1..Len(dispatch[PageOf[u]])
            BY <2>1, <5>2 DEF MemoryOK, Wallet!Last
          <6>2. tab[u].begun \in 1..Len(dispatch'[PageOf[u]])
            BY <1>4, <2>1, <6>1
          <6> QED BY <1>4, <2>1, <6>1, <6>2
        <5> QED BY <5>1, <5>2
      <4> QED BY <2>1, <3>1, <4>1 DEF MemoryOK, Minds, Wallet!Last
    <3> QED BY <3>3, <3>4, <3>5 DEF PermitsOK
  <2> QED BY <2>2, <2>3
<1> QED BY <1>1, <1>2, <1>5, <1>6, <1>9 DEF WalletInv

\* The wallet is asked, under a permit that nobody used.
LEMMA InvokeMoves ==
    ASSUME WalletInv, NEW t \in Tabs, Wallet!Invoke(t)
    PROVE  WalletInv'
<1>0. /\ tab[t] \in Pages /\ tab \in [Tabs -> Pages] /\ tab[t].pc = "permitted" /\ PermitsOK(t) /\ MemoryOK(t)
      /\ PageOf[t] \in Requests
  BY WalletFacts DEF Wallet!Invoke, WalletInv, WalletTypeOK
<1>1. PICK p : p = [r |-> PageOf[t], attempt |-> tab[t].permit, nonce |-> tab[t].nonce, tab |-> t]
  OBVIOUS
<1>2. /\ prompts' = prompts \cup {p} /\ UNCHANGED <<plan, dispatch, stored, sent, lies, pending, mined>>
      /\ tab' = [tab EXCEPT ![t] = [tab[t] EXCEPT !.pc = "prompt"]]
  BY <1>1 DEF Wallet!Invoke, Wallet!Show, Wallet!tables
<1>3. /\ tab'[t] = [tab[t] EXCEPT !.pc = "prompt"]
      /\ \A u \in Tabs : u # t => tab'[u] = tab[u]
  BY <1>0, <1>2
<1>4. /\ tab'[t] \in Pages /\ tab'[t].pc = "prompt" /\ tab'[t].permit = tab[t].permit
      /\ tab'[t].begun = tab[t].begun
  BY <1>0, <1>3 DEF Pages
<1>5. /\ p.r = PageOf[t] /\ p.attempt = tab[t].permit /\ p.nonce = tab[t].nonce /\ p.tab = t
      /\ p \in [r : Requests, attempt : Nat, nonce : Nat, tab : Tabs]
  BY <1>0, <1>1 DEF Pages, PermitsOK, NonceOK
<1>6. WalletTypeOK'
  <2>1. tab' \in [Tabs -> Pages]
    BY <1>0, <1>2, <1>4
  <2> QED BY <1>2, <1>5, <2>1 DEF WalletInv, WalletTypeOK
<1>7. /\ \A r \in Requests : DispatchOK(r)'
      /\ \A s \in sent' : SentOK(s)'
  BY <1>2 DEF WalletInv, DispatchOK, SentOK, Wallet!Last
<1>8. ~Asked(p.r, p.attempt) /\ ~Broadcasted(p.r, p.attempt)
  BY <1>0, <1>5 DEF PermitsOK, MayAsk
<1>9. \A q \in prompts' : PromptOK(q)'
  <2>1. PromptOK(p)'
    BY <1>0, <1>2, <1>5, <1>8 DEF PermitsOK, OwnPermit, MayAsk, Asking, PromptOK, Asked, Broadcasted, Wallet!Last
  <2>2. ASSUME NEW q \in prompts PROVE PromptOK(q)'
    BY <1>2, <1>8 DEF WalletInv, PromptOK, Asked, Broadcasted, Wallet!Last
  <2> QED BY <1>2, <2>1, <2>2
<1>10. \A r \in Requests, a \in Nat : Asked(r, a)' => Asked(r, a) \/ (r = PageOf[t] /\ a = tab[t].permit)
  BY <1>2, <1>5 DEF Asked
<1>11. \A u \in Tabs : u # t /\ Asking(u) /\ PageOf[u] = PageOf[t] => tab[u].permit # tab[t].permit
  BY <1>0 DEF PermitsOK, OwnPermit, Asking
<1>12. \A u \in Tabs : (Asking(u)' <=> Asking(u)) /\ tab'[u].permit = tab[u].permit
  BY <1>0, <1>3, <1>4 DEF Asking
<1>13. ASSUME NEW u \in Tabs PROVE PermitsOK(u)' /\ MemoryOK(u)'
  <2>1. PermitsOK(u) /\ MemoryOK(u) /\ PageOf[u] \in Requests /\ tab[u].permit \in Nat
    BY WalletFacts DEF WalletInv, WalletTypeOK, Pages
  <2>2. OwnPermit(u)'
    BY <1>2, <1>12, <2>1 DEF PermitsOK, OwnPermit, Wallet!Last
  <2>3. CASE u = t
    <3>1. MayAsk(u)' /\ WasDeclined(u)' /\ NonceOK(u)'
      BY <1>4, <2>3 DEF MayAsk, WasDeclined, NonceOK
    <3>2. MemoryOK(u)'
      BY <1>0, <1>2, <1>4, <2>1, <2>3 DEF MemoryOK, Minds, Wallet!Last
    <3> QED BY <2>2, <3>1, <3>2 DEF PermitsOK
  <2>4. CASE u # t
    <3>1. tab'[u] = tab[u]
      BY <1>3, <2>4
    <3>2. Asking(u) /\ Asked(PageOf[u], tab[u].permit)' => Asked(PageOf[u], tab[u].permit)
      <4>1. Asked(PageOf[u], tab[u].permit)' => \E q \in prompts' : q.r = PageOf[u] /\ q.attempt = tab[u].permit
        BY <3>1 DEF Asked
      <4> QED BY <1>2, <1>5, <1>11, <2>4, <4>1 DEF Asked
    <3>3. MayAsk(u)' /\ WasDeclined(u)' /\ NonceOK(u)'
      <4>1. Broadcasted(PageOf[u], tab[u].permit)' <=> Broadcasted(PageOf[u], tab[u].permit)
        BY <1>2, <3>1 DEF Broadcasted
      <4> QED BY <1>2, <2>1, <3>1, <3>2, <4>1 DEF PermitsOK, MayAsk, WasDeclined, NonceOK, Asking
    <3>4. MemoryOK(u)'
      BY <1>2, <2>1, <3>1 DEF MemoryOK, Minds, Wallet!Last
    <3> QED BY <2>2, <3>3, <3>4 DEF PermitsOK
  <2> QED BY <2>3, <2>4
<1> QED BY <1>6, <1>7, <1>9, <1>13 DEF WalletInv

\* The wallet decides on what it shows, and only the page that asked is told.
Told(p, c) ==
    /\ c \in {"hash", "failed", "rejected"} /\ tab[p.tab].pc = "prompt" /\ tab[p.tab].permit = p.attempt
    /\ tab' = [tab EXCEPT ![p.tab] = [tab[p.tab] EXCEPT !.pc = c]]
Learns(p, c) == tab' = tab \/ Told(p, c)

LEMMA DecideIs ==
    ASSUME WalletInv, NEW p \in prompts, Wallet!Decide(p),
           NEW s, s = [r |-> p.r, attempt |-> p.attempt, nonce |-> p.nonce],
           NEW l, l = [r |-> p.r, attempt |-> p.attempt]
    PROVE  /\ prompts' = prompts \ {p} /\ UNCHANGED <<plan, dispatch, stored>>
           /\ pending' \in Nat /\ mined' \in Nat
           /\ \/ sent' = sent \cup {s} /\ lies' = lies /\ (Learns(p, "hash") \/ Learns(p, "failed"))
              \/ sent' = sent \cup {s} /\ lies' = lies \cup {l} /\ Learns(p, "rejected")
              \/ sent' = sent /\ lies' = lies /\ (Learns(p, "rejected") \/ Learns(p, "failed"))
<1>1. prompts' = prompts \ {p} /\ UNCHANGED <<plan, dispatch, stored>>
  BY DEF Wallet!Decide, Wallet!tables
<1>2. /\ Wallet!Tell(p, "hash") => Learns(p, "hash")
      /\ Wallet!Tell(p, "failed") => Learns(p, "failed")
      /\ Wallet!Tell(p, "rejected") => Learns(p, "rejected")
  BY Zenon DEF Wallet!Tell, Wallet!Waits, Wallet!Show, Learns, Told
<1>3. Wallet!Broadcast(p) => sent' = sent \cup {s} /\ pending' \in Nat /\ mined' \in Nat
  BY DEF Wallet!Broadcast, WalletInv, WalletTypeOK
<1>4. pending \in Nat /\ mined \in Nat
  BY DEF WalletInv, WalletTypeOK
<1>5. \/ Wallet!Broadcast(p) /\ Wallet!Tell(p, "hash") /\ UNCHANGED lies
      \/ Wallet!Broadcast(p) /\ Wallet!Tell(p, "failed") /\ UNCHANGED lies
      \/ Wallet!Broadcast(p) /\ Wallet!Tell(p, "rejected") /\ lies' = lies \cup {l}
      \/ UNCHANGED <<sent, lies, pending, mined>> /\ (Wallet!Tell(p, "rejected") \/ Wallet!Tell(p, "failed"))
  BY Zenon DEF Wallet!Decide
<1> QED BY <1>1, <1>2, <1>3, <1>4, <1>5

LEMMA DecideMoves ==
    ASSUME WalletInv, NEW p \in prompts, Wallet!Decide(p)
    PROVE  WalletInv'
<1>0. /\ PromptOK(p) /\ p.r \in Requests /\ p.attempt \in Nat /\ p.nonce \in Nat /\ p.tab \in Tabs
      /\ tab \in [Tabs -> Pages] /\ tab[p.tab] \in Pages
  BY DEF WalletInv, WalletTypeOK
<1>1. PICK s : s = [r |-> p.r, attempt |-> p.attempt, nonce |-> p.nonce]
  OBVIOUS
<1>2. PICK l : l = [r |-> p.r, attempt |-> p.attempt]
  OBVIOUS
<1>3. /\ prompts' = prompts \ {p} /\ UNCHANGED <<plan, dispatch, stored>>
      /\ pending' \in Nat /\ mined' \in Nat
      /\ \/ sent' = sent \cup {s} /\ lies' = lies /\ (Learns(p, "hash") \/ Learns(p, "failed"))
         \/ sent' = sent \cup {s} /\ lies' = lies \cup {l} /\ Learns(p, "rejected")
         \/ sent' = sent /\ lies' = lies /\ (Learns(p, "rejected") \/ Learns(p, "failed"))
  BY <1>1, <1>2, DecideIs
<1>4. PICK c \in {"hash", "failed", "rejected"} :
         /\ Learns(p, c)
         /\ c = "rejected" => sent' = sent \/ l \in lies'
         /\ sent' = sent \/ sent' = sent \cup {s}
         /\ lies' = lies \/ lies' = lies \cup {l}
  BY <1>3
<1>5. s \in [r : Requests, attempt : Nat, nonce : Nat] /\ s.r = p.r /\ s.attempt = p.attempt /\ s.nonce = p.nonce
  BY <1>0, <1>1
<1>6. l \in [r : Requests, attempt : Nat]
  BY <1>0, <1>2
<1>7. \A u \in Tabs : \/ tab'[u] = tab[u]
                      \/ /\ u = p.tab /\ tab[u].pc = "prompt" /\ tab[u].permit = p.attempt /\ PageOf[u] = p.r
                         /\ tab'[u] = [tab[u] EXCEPT !.pc = c]
  BY <1>0, <1>4 DEF Learns, Told, PromptOK
<1>8. \A u \in Tabs : \/ tab'[u] = tab[u]
                      \/ /\ u = p.tab /\ tab[u].pc = "prompt" /\ tab[u].permit = p.attempt /\ PageOf[u] = p.r
                         /\ tab'[u].pc = c /\ tab'[u].permit = tab[u].permit /\ tab'[u].begun = tab[u].begun
                         /\ tab'[u] \in Pages
  <2> SUFFICES ASSUME NEW u \in Tabs, tab'[u] # tab[u]
               PROVE  /\ u = p.tab /\ tab[u].pc = "prompt" /\ tab[u].permit = p.attempt /\ PageOf[u] = p.r
                      /\ tab'[u].pc = c /\ tab'[u].permit = tab[u].permit /\ tab'[u].begun = tab[u].begun
                      /\ tab'[u] \in Pages
    OBVIOUS
  <2>1. tab'[u] = [tab[u] EXCEPT !.pc = c] /\ tab[u] \in Pages
    BY <1>0, <1>7
  <2>2. /\ tab'[u].pc = c /\ tab'[u].permit = tab[u].permit /\ tab'[u].begun = tab[u].begun /\ tab'[u] \in Pages
    BY <2>1 DEF Pages
  <2> QED BY <1>7, <2>2
<1>9. WalletTypeOK'
  <2>1. tab' \in [Tabs -> Pages]
    <3>1. tab' = [u \in Tabs |-> tab'[u]]
      BY <1>0, <1>4 DEF Learns, Told
    <3>2. \A u \in Tabs : tab'[u] \in Pages
      BY <1>0, <1>8
    <3> QED BY <3>1, <3>2
  <2>2. IsFiniteSet(sent') /\ IsFiniteSet(lies')
    <3>1. IsFiniteSet(sent) /\ IsFiniteSet(lies)
      BY DEF WalletInv, WalletTypeOK
    <3>2. IsFiniteSet(sent \cup {s}) /\ IsFiniteSet(lies \cup {l})
      BY <3>1, FS_AddElement
    <3> QED BY <1>4, <3>1, <3>2
  <2>3. /\ sent' \subseteq [r : Requests, attempt : Nat, nonce : Nat]
        /\ lies' \subseteq [r : Requests, attempt : Nat]
    BY <1>4, <1>5, <1>6 DEF WalletInv, WalletTypeOK
  <2>4. prompts' \subseteq prompts
    BY <1>3
  <2> QED BY <1>3, <2>1, <2>2, <2>3, <2>4 DEF WalletInv, WalletTypeOK
<1>10. \A r \in Requests : DispatchOK(r)'
  BY <1>3 DEF WalletInv, DispatchOK, Wallet!Last
<1>11. \A r \in Requests, a \in Nat : Broadcasted(r, a)' => Broadcasted(r, a) \/ (r = p.r /\ a = p.attempt)
  BY <1>4, <1>5 DEF Broadcasted
<1>12. \A q \in prompts : q.r = p.r /\ q.attempt = p.attempt => q = p
  BY <1>0 DEF PromptOK
<1>13. ASSUME NEW q \in prompts' PROVE PromptOK(q)'
  <2>1. q \in prompts /\ q # p /\ PromptOK(q) /\ q.r \in Requests /\ q.attempt \in Nat
    BY <1>3 DEF WalletInv, WalletTypeOK
  <2>2. ~Broadcasted(q.r, q.attempt)'
    BY <1>11, <1>12, <2>1 DEF PromptOK
  <2> QED BY <1>3, <2>1, <2>2 DEF PromptOK, Wallet!Last
<1>14. ASSUME NEW z \in sent' PROVE SentOK(z)'
  <2>1. CASE z \in sent
    <3>1. SentOK(z)
      BY <2>1 DEF WalletInv
    <3>2. \A y \in sent' : y.r = z.r /\ y.attempt = z.attempt => y = z
      BY <1>0, <1>4, <1>5, <2>1, <3>1 DEF SentOK, PromptOK, Broadcasted
    <3>3. dispatch[z.r][z.attempt] = "rejected" => [r |-> z.r, attempt |-> z.attempt] \in lies'
      BY <1>4, <3>1 DEF SentOK
    <3> QED BY <1>3, <3>1, <3>2, <3>3 DEF SentOK, Wallet!Last
  <2>2. CASE z \notin sent
    <3>1. z = s
      BY <1>4, <2>2
    <3>2. \A y \in sent' : y.r = z.r /\ y.attempt = z.attempt => y = z
      BY <1>0, <1>4, <1>5, <3>1 DEF PromptOK, Broadcasted
    <3> QED BY <1>0, <1>3, <1>5, <3>1, <3>2 DEF SentOK, PromptOK, Wallet!Last
  <2> QED BY <2>1, <2>2
<1>15. ASSUME NEW u \in Tabs PROVE PermitsOK(u)' /\ MemoryOK(u)'
  <2>1. PermitsOK(u) /\ MemoryOK(u) /\ PageOf[u] \in Requests /\ tab[u].permit \in Nat
    BY WalletFacts DEF WalletInv, WalletTypeOK, Pages
  <2>2. \A v \in Tabs : tab'[v].permit = tab[v].permit /\ (Asking(v)' => Asking(v))
    BY <1>8 DEF Asking
  <2>3. OwnPermit(u)'
    BY <1>3, <2>1, <2>2 DEF PermitsOK, OwnPermit, Wallet!Last
  <2>4. CASE tab'[u] = tab[u]
    <3>1. ~Asked(PageOf[u], tab[u].permit) =>
             /\ ~(PageOf[u] = p.r /\ tab[u].permit = p.attempt)
             /\ ~Asked(PageOf[u], tab[u].permit)'
      BY <1>3, <2>4 DEF Asked
    <3>2. Broadcasted(PageOf[u], tab[u].permit)'
            => Broadcasted(PageOf[u], tab[u].permit) \/ (PageOf[u] = p.r /\ tab[u].permit = p.attempt)
      BY <1>4, <1>5, <2>4 DEF Broadcasted
    <3>3. MayAsk(u)' /\ NonceOK(u)'
      BY <1>3, <2>1, <2>4, <3>1, <3>2 DEF PermitsOK, MayAsk, NonceOK
    <3>4. WasDeclined(u)'
      BY <1>4, <2>1, <2>4, <3>1, <3>2 DEF PermitsOK, WasDeclined
    <3>5. MemoryOK(u)'
      BY <1>3, <2>1, <2>4 DEF MemoryOK, Minds, Wallet!Last
    <3> QED BY <2>3, <3>3, <3>4, <3>5 DEF PermitsOK
  <2>5. CASE tab'[u] # tab[u]
    <3>1. /\ u = p.tab /\ tab[u].pc = "prompt" /\ tab[u].permit = p.attempt /\ PageOf[u] = p.r
          /\ tab'[u].pc = c /\ tab'[u].permit = p.attempt /\ tab'[u].begun = tab[u].begun
      BY <1>8, <2>5
    <3>2. MayAsk(u)' /\ NonceOK(u)'
      BY <3>1 DEF MayAsk, NonceOK
    <3>3. \A q \in prompts' : ~(q.r = p.r /\ q.attempt = p.attempt)
      BY <1>3, <1>12
    <3>4. c = "rejected" => ((\E y \in sent' : y.r = p.r /\ y.attempt = p.attempt) => l \in lies')
      <4>1. ~\E y \in sent : y.r = p.r /\ y.attempt = p.attempt
        BY <1>0 DEF PromptOK, Broadcasted
      <4> QED BY <1>4, <4>1
    <3>5. WasDeclined(u)'
      BY <1>2, <3>1, <3>3, <3>4 DEF WasDeclined, Asked, Broadcasted
    <3>6. MemoryOK(u)'
      BY <1>3, <2>1, <3>1 DEF MemoryOK, Minds, Wallet!Last
    <3> QED BY <2>3, <3>2, <3>5, <3>6 DEF PermitsOK
  <2> QED BY <2>4, <2>5
<1> QED BY <1>9, <1>10, <1>13, <1>14, <1>15 DEF WalletInv

LEMMA NothingPlanned == ASSUME WalletInv, plan' = plan PROVE PlanKept
BY DEF WalletInv, WalletTypeOK, PlanKept

\* The page forgets its nonce, or also that it does not know.
LEMMA IdlePages ==
    ASSUME NEW t \in Tabs, tab[t] \in Pages
    PROVE  /\ Wallet!Idle(tab[t]) \in Pages /\ Wallet!Uncertain(tab[t]) \in Pages
           /\ Wallet!Idle(tab[t]).pc = "idle" /\ Wallet!Uncertain(tab[t]).pc = "idle"
           /\ Wallet!Idle(tab[t]).begun = tab[t].begun /\ Wallet!Uncertain(tab[t]).begun = tab[t].begun
           /\ Wallet!Idle(tab[t]).hash = tab[t].hash /\ Wallet!Uncertain(tab[t]).hash = tab[t].hash
           /\ Wallet!Idle(tab[t]).permit = tab[t].permit
           /\ Wallet!Idle(tab[t]).uncertain = tab[t].uncertain /\ Wallet!Uncertain(tab[t]).uncertain
<1>1. PICK i : i = Wallet!Idle(tab[t])
  OBVIOUS
<1>2. PICK j : j = [tab[t] EXCEPT !.pc = "idle"]
  OBVIOUS
<1>3. /\ j \in Pages /\ j.pc = "idle" /\ j.begun = tab[t].begun /\ j.hash = tab[t].hash
      /\ j.permit = tab[t].permit /\ j.uncertain = tab[t].uncertain
  BY <1>2 DEF Pages
<1>4. i = [j EXCEPT !.nonce = -1]
  <2>1. i = [tab[t] EXCEPT !.pc = "idle", !.nonce = -1]
    BY <1>1 DEF Wallet!Idle, Wallet!NoNonce
  <2> QED BY <1>2, <2>1 DEF Pages
<1>7. /\ i \in Pages /\ i.pc = "idle" /\ i.begun = tab[t].begun /\ i.hash = tab[t].hash
      /\ i.permit = tab[t].permit /\ i.uncertain = tab[t].uncertain
  BY <1>3, <1>4 DEF Pages
<1>5. Wallet!Uncertain(tab[t]) = [i EXCEPT !.uncertain = TRUE]
  BY <1>1 DEF Wallet!Uncertain
<1>6. /\ [i EXCEPT !.uncertain = TRUE] \in Pages /\ [i EXCEPT !.uncertain = TRUE].pc = i.pc
      /\ [i EXCEPT !.uncertain = TRUE].begun = i.begun /\ [i EXCEPT !.uncertain = TRUE].hash = i.hash
      /\ [i EXCEPT !.uncertain = TRUE].uncertain
  BY <1>7 DEF Pages
<1> QED BY <1>1, <1>5, <1>6, <1>7

\* A page is shown and a note is saved, or left as it was.
LEMMA ShownIs ==
    ASSUME WalletInv, NEW t \in Tabs, NEW page \in Pages, Wallet!Show(t, page),
           NEW note \in Stores, Wallet!Save(t, note) \/ (stored' = stored /\ note = stored[t])
    PROVE  /\ tab' = [tab EXCEPT ![t] = tab'[t]] /\ tab'[t] = page
           /\ stored' = [stored EXCEPT ![t] = stored'[t]] /\ stored'[t] = note
BY DEF WalletInv, WalletTypeOK, Wallet!Show, Wallet!Save

\* The page gives up or waits: it offers nothing while its dispatch is open.
LEMMA Waits ==
    ASSUME WalletInv, PlanKept, NEW t \in Tabs, UNCHANGED <<dispatch, stored, prompts, sent, lies, pending, mined>>,
           Wallet!Show(t, Wallet!Uncertain(tab[t])),
           tab[t].begun # 0 /\ dispatch[PageOf[t]][tab[t].begun] = "open" => stored[t].kind # "none"
    PROVE  WalletInv'
<1>1. tab[t] \in Pages /\ stored[t] \in Stores /\ MemoryOK(t)
  BY DEF WalletInv, WalletTypeOK
<1>2. PICK page \in Pages : page = Wallet!Uncertain(tab[t])
  BY <1>1, IdlePages
<1>3. page.pc = "idle" /\ page.begun = tab[t].begun /\ page.uncertain
  BY <1>1, <1>2, IdlePages
<1>4. /\ tab' = [tab EXCEPT ![t] = tab'[t]] /\ tab'[t] = page
      /\ stored' = [stored EXCEPT ![t] = stored'[t]] /\ stored'[t] = stored[t]
  BY <1>1, <1>2, ShownIs
<1>5. MemoryOK(t)'
  BY <1>1, <1>3, <1>4 DEF MemoryOK, Minds, Wallet!Last
<1>6. TabMoved(t)
  BY <1>1, <1>3, <1>4, <1>5 DEF TabMoved, Asking
<1> QED BY <1>6, TabMoves

LEMMA Observes ==
    ASSUME WalletInv, NEW t \in Tabs, Wallet!Observe(t)
    PROVE  WalletInv'
<1>1. tab[t] \in Pages /\ stored[t] \in Stores /\ MemoryOK(t) /\ pending \in Nat
  BY DEF WalletInv, WalletTypeOK
<1>2. PICK j : j = [tab[t] EXCEPT !.pc = "stage"]
  OBVIOUS
<1>3. j \in Pages /\ j.pc = "stage" /\ j.begun = tab[t].begun
  BY <1>1, <1>2 DEF Pages
<1>10. PICK page : page = [j EXCEPT !.nonce = pending]
  OBVIOUS
<1>4. page \in Pages /\ page.pc = "stage" /\ page.nonce = pending /\ page.begun = tab[t].begun
  BY <1>1, <1>3, <1>10 DEF Pages
<1>5. Wallet!Show(t, page) /\ UNCHANGED <<plan, dispatch, stored, prompts, sent, lies, pending, mined>>
  <2>1. [tab[t] EXCEPT !.pc = "stage", !.nonce = pending] = page
    BY <1>1, <1>2, <1>10 DEF Pages
  <2> QED BY <2>1 DEF Wallet!Observe, Wallet!tables, Wallet!wallet
<1>6. /\ tab' = [tab EXCEPT ![t] = tab'[t]] /\ tab'[t] = page
      /\ stored' = [stored EXCEPT ![t] = stored'[t]] /\ stored'[t] = stored[t]
  BY <1>1, <1>4, <1>5, ShownIs
<1>7. ~(tab[t].begun # 0 /\ dispatch[PageOf[t]][tab[t].begun] = "open")
  BY <1>1 DEF Wallet!Observe, Wallet!Offers, MemoryOK, Minds
<1>8. MemoryOK(t)'
  BY <1>1, <1>4, <1>5, <1>6, <1>7 DEF MemoryOK, Wallet!Last
<1>9. TabMoved(t)
  BY <1>1, <1>4, <1>6, <1>8 DEF TabMoved, Asking
<1> QED BY <1>5, <1>9, NothingPlanned, TabMoves

LEMMA Stages ==
    ASSUME WalletInv, NEW t \in Tabs, Wallet!Stage(t)
    PROVE  WalletInv'
<1>1. /\ tab[t] \in Pages /\ stored[t] \in Stores /\ MemoryOK(t) /\ PermitsOK(t) /\ PageOf[t] \in Requests
      /\ plan \in [Requests -> Plans]
  BY WalletFacts DEF WalletInv, WalletTypeOK
<1>2. tab[t].pc = "stage" /\ tab[t].nonce \in Nat /\ UNCHANGED <<dispatch, stored, prompts, sent, lies, pending, mined>>
  BY <1>1 DEF Wallet!Stage, Wallet!wallet, PermitsOK, NonceOK
<1>3. PlanKept
  <2>1. CASE plan' = plan
    BY <2>1, NothingPlanned
  <2>2. CASE plan' # plan
    <3>1. /\ plan' = [plan EXCEPT ![PageOf[t]] = [nonce |-> tab[t].nonce, active |-> TRUE]]
          /\ plan[PageOf[t]].nonce = -1 \/ plan[PageOf[t]].nonce = tab[t].nonce
      BY <2>2 DEF Wallet!Stage, Wallet!Stageable, Wallet!NoNonce
    <3>2. [nonce |-> tab[t].nonce, active |-> TRUE] \in Plans
      BY <1>2 DEF Plans
    <3>3. plan'[PageOf[t]].nonce = tab[t].nonce
      BY <1>1, <3>1
    <3> QED BY <1>1, <3>1, <3>2, <3>3 DEF PlanKept
  <2> QED BY <2>1, <2>2
<1>4. ~(tab[t].begun # 0 /\ dispatch[PageOf[t]][tab[t].begun] = "open")
  BY <1>1, <1>2 DEF MemoryOK, Minds
<1>5. PICK page \in Pages : /\ Wallet!Show(t, page) /\ page.pc \in {"check", "idle"} /\ page.begun = tab[t].begun
                            /\ page.pc = "check" => page.nonce = tab[t].nonce
  <2>1. [tab[t] EXCEPT !.pc = "check"] \in Pages /\ [tab[t] EXCEPT !.pc = "check"].pc = "check"
        /\ [tab[t] EXCEPT !.pc = "check"].begun = tab[t].begun
        /\ [tab[t] EXCEPT !.pc = "check"].nonce = tab[t].nonce
    BY <1>1 DEF Pages
  <2>2. Wallet!Show(t, [tab[t] EXCEPT !.pc = "check"]) \/ Wallet!Show(t, Wallet!Idle(tab[t]))
    BY Zenon DEF Wallet!Stage
  <2> QED BY <1>1, <2>1, <2>2, IdlePages
<1>6. /\ tab' = [tab EXCEPT ![t] = tab'[t]] /\ tab'[t] = page
      /\ stored' = [stored EXCEPT ![t] = stored'[t]] /\ stored'[t] = stored[t]
  BY <1>1, <1>2, <1>5, ShownIs
<1>7. MemoryOK(t)'
  BY <1>1, <1>2, <1>4, <1>5, <1>6 DEF MemoryOK, Wallet!Last
<1>8. TabMoved(t)
  BY <1>1, <1>2, <1>5, <1>6, <1>7 DEF TabMoved, Asking
<1> QED BY <1>2, <1>3, <1>8, TabMoves

LEMMA Checks ==
    ASSUME WalletInv, NEW t \in Tabs, Wallet!Check(t)
    PROVE  WalletInv'
<1>1. tab[t] \in Pages /\ stored[t] \in Stores /\ MemoryOK(t) /\ PermitsOK(t)
  BY DEF WalletInv, WalletTypeOK
<1>2. tab[t].pc = "check" /\ tab[t].nonce \in Nat /\ UNCHANGED <<plan, dispatch, prompts, sent, lies, pending, mined>>
  BY <1>1 DEF Wallet!Check, Wallet!wallet, Wallet!tables, PermitsOK, NonceOK
<1>3. ~(tab[t].begun # 0 /\ dispatch[PageOf[t]][tab[t].begun] = "open")
  BY <1>1, <1>2 DEF MemoryOK, Minds
<1>4. \E page \in Pages, note \in Stores :
         /\ Wallet!Show(t, page) /\ Wallet!Save(t, note) /\ page.begun = tab[t].begun
         /\ \/ page.pc = "begin" /\ page.nonce = tab[t].nonce /\ note.kind # "none"
            \/ page.pc = "idle"
  <2>1. CASE tab[t].nonce = pending
    <3>1. /\ Wallet!Save(t, [kind |-> "uncertain", permit |-> 0])
          /\ Wallet!Show(t, [tab[t] EXCEPT !.pc = "begin"])
      BY <2>1 DEF Wallet!Check, Wallet!Guard, Wallet!NoPermit
    <3>2. [kind |-> "uncertain", permit |-> 0] \in Stores /\ [kind |-> "uncertain", permit |-> 0].kind # "none"
      BY DEF Stores
    <3>3. /\ [tab[t] EXCEPT !.pc = "begin"] \in Pages /\ [tab[t] EXCEPT !.pc = "begin"].pc = "begin"
          /\ [tab[t] EXCEPT !.pc = "begin"].begun = tab[t].begun
          /\ [tab[t] EXCEPT !.pc = "begin"].nonce = tab[t].nonce
      BY <1>1 DEF Pages
    <3> QED BY <3>1, <3>2, <3>3
  <2>2. CASE tab[t].nonce # pending
    <3>1. Wallet!Save(t, Wallet!Empty) /\ Wallet!Show(t, Wallet!Idle(tab[t]))
      BY <2>2 DEF Wallet!Check
    <3>2. Wallet!Empty \in Stores
      BY DEF Stores, Wallet!Empty, Wallet!NoPermit
    <3> QED BY <1>1, <3>1, <3>2, IdlePages
  <2> QED BY <2>1, <2>2
<1>5. PICK page \in Pages, note \in Stores :
         /\ Wallet!Show(t, page) /\ Wallet!Save(t, note) /\ page.begun = tab[t].begun
         /\ \/ page.pc = "begin" /\ page.nonce = tab[t].nonce /\ note.kind # "none"
            \/ page.pc = "idle"
  BY <1>4
<1>6. /\ tab' = [tab EXCEPT ![t] = tab'[t]] /\ tab'[t] = page
      /\ stored' = [stored EXCEPT ![t] = stored'[t]] /\ stored'[t] = note
  BY <1>5, ShownIs
<1>7. MemoryOK(t)'
  BY <1>1, <1>2, <1>3, <1>5, <1>6 DEF MemoryOK, Wallet!Last
<1>8. TabMoved(t)
  BY <1>2, <1>5, <1>6, <1>7 DEF TabMoved, Asking
<1> QED BY <1>2, <1>8, NothingPlanned, TabMoves

\* No dispatch is taken back or replaced by a report.
DispatchGrows ==
    \A r \in Requests :
        /\ Len(dispatch[r]) <= Len(dispatch'[r])
        /\ \A i \in 1..Len(dispatch[r]) : dispatch[r][i] # "open" => dispatch'[r][i] = dispatch[r][i]

LEMMA Untouched == ASSUME WalletInv, dispatch' = dispatch PROVE DispatchGrows
BY DEF WalletInv, WalletTypeOK, DispatchGrows

LEMMA Begins ==
    ASSUME WalletInv, NEW t \in Tabs, Wallet!Begin(t)
    PROVE  WalletInv' /\ DispatchGrows
<1>1. /\ tab[t] \in Pages /\ stored[t] \in Stores /\ MemoryOK(t) /\ PermitsOK(t) /\ PageOf[t] \in Requests
      /\ tab[t].pc = "begin" /\ UNCHANGED <<plan, prompts, sent, lies, pending, mined>>
      /\ stored[t].kind # "none"
  BY WalletFacts DEF WalletInv, WalletTypeOK, Wallet!Begin, Wallet!wallet, MemoryOK
<1>2. PICK r \in Requests : r = PageOf[t]
  BY <1>1
<1>3. Len(dispatch[r]) \in Nat
  BY DEF WalletInv, WalletTypeOK
<1>4. PICK b \in Nat : b = Len(dispatch[r]) + 1
  BY <1>3
<1>5. CASE dispatch' = dispatch /\ stored' = stored /\ Wallet!Show(t, Wallet!Uncertain(tab[t]))
  BY <1>1, <1>5, NothingPlanned, Untouched, Waits
<1>6. CASE ~(dispatch' = dispatch /\ stored' = stored /\ Wallet!Show(t, Wallet!Uncertain(tab[t])))
  <2>1. /\ Wallet!Ready(r, tab[t].nonce) /\ dispatch' = [dispatch EXCEPT ![r] = Append(dispatch[r], "open")]
        /\ \/ /\ Wallet!Show(t, [tab[t] EXCEPT !.pc = "permitted", !.permit = b, !.begun = b])
              /\ Wallet!Save(t, [kind |-> "uncertain", permit |-> b])
           \/ Wallet!Show(t, [Wallet!Uncertain(tab[t]) EXCEPT !.begun = b]) /\ UNCHANGED stored
    BY <1>2, <1>4, <1>6 DEF Wallet!Begin, Wallet!Last
  <2>2. Opened(r)
    BY <2>1, OpenIs
  <2>3. Wallet!Resolved(r) /\ plan[r].nonce = tab[t].nonce /\ tab[t].nonce \in Nat
    BY <1>1, <2>1 DEF Wallet!Ready, PermitsOK, NonceOK
  <2>4. \E page \in Pages, note \in Stores :
          /\ Wallet!Show(t, page) /\ page.begun = b /\ note.kind # "none"
          /\ Wallet!Save(t, note) \/ (stored' = stored /\ note = stored[t])
          /\ \/ page.pc = "permitted" /\ page.permit = b /\ page.nonce = tab[t].nonce
             \/ page.pc = "idle" /\ page.uncertain
    <3>1. CASE /\ Wallet!Show(t, [tab[t] EXCEPT !.pc = "permitted", !.permit = b, !.begun = b])
               /\ Wallet!Save(t, [kind |-> "uncertain", permit |-> b])
      <4>1. PICK page : page = [tab[t] EXCEPT !.pc = "permitted", !.permit = b, !.begun = b]
        OBVIOUS
      <4>2. page = [pc |-> "permitted", nonce |-> tab[t].nonce, permit |-> b, uncertain |-> tab[t].uncertain,
                    hash |-> tab[t].hash, begun |-> b]
        BY <1>1, <4>1 DEF Pages
      <4>3. page \in Pages /\ page.begun = b /\ page.pc = "permitted" /\ page.permit = b /\ page.nonce = tab[t].nonce
        BY <1>1, <4>2 DEF Pages
      <4>4. [kind |-> "uncertain", permit |-> b] \in Stores /\ [kind |-> "uncertain", permit |-> b].kind # "none"
        BY DEF Stores
      <4> QED BY <3>1, <4>1, <4>3, <4>4
    <3>2. CASE Wallet!Show(t, [Wallet!Uncertain(tab[t]) EXCEPT !.begun = b]) /\ UNCHANGED stored
      <4>1. PICK j : j = Wallet!Uncertain(tab[t])
        OBVIOUS
      <4>2. j \in Pages /\ j.pc = "idle" /\ j.uncertain
        BY <1>1, <4>1, IdlePages
      <4>3. PICK page : page = [j EXCEPT !.begun = b]
        OBVIOUS
      <4>4. page \in Pages /\ page.begun = b /\ page.pc = "idle" /\ page.uncertain
        BY <4>2, <4>3 DEF Pages
      <4>5. Wallet!Show(t, page) /\ UNCHANGED stored
        BY <3>2, <4>1, <4>3
      <4> QED BY <1>1, <4>4, <4>5
    <3> QED BY <2>1, <3>1, <3>2
  <2>5. PICK page \in Pages, note \in Stores :
          /\ Wallet!Show(t, page) /\ page.begun = b /\ note.kind # "none"
          /\ Wallet!Save(t, note) \/ (stored' = stored /\ note = stored[t])
          /\ \/ page.pc = "permitted" /\ page.permit = b /\ page.nonce = tab[t].nonce
             \/ page.pc = "idle" /\ page.uncertain
    BY <2>4
  <2>6. /\ tab' = [tab EXCEPT ![t] = tab'[t]] /\ tab'[t] = page
        /\ stored' = [stored EXCEPT ![t] = stored'[t]] /\ stored'[t] = note
    BY <2>5, ShownIs
  <2>7. DispatchGrows
    <3>1. \A q \in Requests : Len(dispatch[q]) \in Nat
      BY DEF WalletInv, WalletTypeOK
    <3> QED BY <2>2, <3>1 DEF Opened, DispatchGrows
  <2> QED BY <1>1, <1>2, <1>4, <2>2, <2>3, <2>5, <2>6, <2>7, BeginMoves
<1> QED BY <1>5, <1>6

LEMMA Hashes ==
    ASSUME WalletInv, NEW t \in Tabs, Wallet!OnHash(t)
    PROVE  WalletInv'
<1>1. /\ tab[t] \in Pages /\ stored[t] \in Stores /\ MemoryOK(t)
      /\ UNCHANGED <<plan, dispatch, prompts, sent, lies, pending, mined>>
  BY DEF WalletInv, WalletTypeOK, Wallet!OnHash, Wallet!tables, Wallet!wallet
<1>2. PICK j : j = Wallet!Idle(tab[t])
  OBVIOUS
<1>3. j \in Pages /\ j.begun = tab[t].begun
  BY <1>1, <1>2, IdlePages
<1>4. PICK page : page = [j EXCEPT !.pc = "report", !.hash = TRUE]
  OBVIOUS
<1>5. page = [pc |-> "report", nonce |-> j.nonce, permit |-> j.permit, uncertain |-> j.uncertain,
              hash |-> TRUE, begun |-> j.begun]
  BY <1>3, <1>4 DEF Pages
<1>6. page \in Pages /\ page.pc = "report" /\ page.hash /\ page.begun = tab[t].begun
  BY <1>3, <1>5 DEF Pages
<1>7. PICK note \in Stores : note = [kind |-> "hash", permit |-> tab[t].permit]
  BY <1>1 DEF Stores, Pages
<1>8. Wallet!Show(t, page) /\ Wallet!Save(t, note)
  BY <1>2, <1>4, <1>7 DEF Wallet!OnHash
<1>9. /\ tab' = [tab EXCEPT ![t] = tab'[t]] /\ tab'[t] = page
      /\ stored' = [stored EXCEPT ![t] = stored'[t]] /\ stored'[t] = note
  BY <1>6, <1>8, ShownIs
<1>10. MemoryOK(t)'
  BY <1>1, <1>6, <1>7, <1>9 DEF MemoryOK, Minds, Wallet!Last
<1>11. TabMoved(t)
  BY <1>6, <1>9, <1>10 DEF TabMoved, Asking
<1> QED BY <1>1, <1>11, NothingPlanned, TabMoves

\* What was recorded stands, and every other dispatch is as it was.
LEMMA ReportGrows ==
    ASSUME WalletInv, NEW r \in Requests, NEW a \in Nat, NEW o \in {"submitted", "rejected"},
           Wallet!Accepts(r, a, o), Wallet!Record(r, a, o)
    PROVE  DispatchGrows
<1>1. Recorded(r, a, o) /\ dispatch[r][a] \in {"open", o}
  BY RecordIs
<1>2. \A q \in Requests : Len(dispatch[q]) \in Nat
  BY DEF WalletInv, WalletTypeOK
<1> QED BY <1>1, <1>2 DEF Recorded, DispatchGrows

LEMMA Rejections ==
    ASSUME WalletInv, NEW t \in Tabs, Wallet!OnRejection(t)
    PROVE  WalletInv' /\ DispatchGrows
<1>1. /\ tab[t] \in Pages /\ tab[t].permit \in Nat /\ stored[t] \in Stores /\ MemoryOK(t)
      /\ PageOf[t] \in Requests /\ tab[t].pc = "rejected"
      /\ UNCHANGED <<plan, prompts, sent, lies, pending, mined>>
  BY WalletFacts DEF WalletInv, WalletTypeOK, Wallet!OnRejection, Wallet!Declined, Wallet!wallet, Pages
<1>2. CASE /\ Wallet!Accepts(PageOf[t], tab[t].permit, "rejected") /\ Wallet!Record(PageOf[t], tab[t].permit, "rejected")
           /\ \/ Wallet!Show(t, [Wallet!Idle(tab[t]) EXCEPT !.permit = 0]) /\ Wallet!Save(t, Wallet!Empty)
              \/ Wallet!Show(t, Wallet!Uncertain(tab[t])) /\ UNCHANGED stored
  <2>1. \E page \in Pages, note \in Stores :
          /\ Wallet!Show(t, page) /\ page.begun = tab[t].begun /\ page.pc = "idle"
          /\ Wallet!Save(t, note) \/ (stored' = stored /\ note = stored[t])
    <3>1. CASE Wallet!Show(t, [Wallet!Idle(tab[t]) EXCEPT !.permit = 0]) /\ Wallet!Save(t, Wallet!Empty)
      <4>1. PICK j : j = Wallet!Idle(tab[t])
        OBVIOUS
      <4>2. j \in Pages /\ j.pc = "idle" /\ j.begun = tab[t].begun
        BY <1>1, <4>1, IdlePages
      <4>3. PICK page : page = [j EXCEPT !.permit = 0]
        OBVIOUS
      <4>4. page \in Pages /\ page.begun = tab[t].begun /\ page.pc = "idle"
        BY <4>2, <4>3 DEF Pages
      <4>5. Wallet!Show(t, page) /\ Wallet!Save(t, Wallet!Empty)
        BY <3>1, <4>1, <4>3
      <4>6. Wallet!Empty \in Stores
        BY DEF Stores, Wallet!Empty, Wallet!NoPermit
      <4> QED BY <4>4, <4>5, <4>6
    <3>2. CASE Wallet!Show(t, Wallet!Uncertain(tab[t])) /\ UNCHANGED stored
      BY <1>1, <3>2, IdlePages
    <3> QED BY <1>2, <3>1, <3>2
  <2>2. PICK page \in Pages, note \in Stores :
          /\ Wallet!Show(t, page) /\ page.begun = tab[t].begun /\ page.pc = "idle"
          /\ Wallet!Save(t, note) \/ (stored' = stored /\ note = stored[t])
    BY <2>1
  <2>3. /\ tab' = [tab EXCEPT ![t] = tab'[t]] /\ tab'[t] = page
        /\ stored' = [stored EXCEPT ![t] = stored'[t]] /\ stored'[t] = note
    BY <2>2, ShownIs
  <2>4. MemoryOK(t)'
    <3>1. /\ Recorded(PageOf[t], tab[t].permit, "rejected")
          /\ tab[t].permit \in 1..Len(dispatch[PageOf[t]]) /\ Len(dispatch[PageOf[t]]) \in Nat
      BY <1>1, <1>2, RecordIs DEF WalletInv, WalletTypeOK
    <3>2. tab[t].begun \in 0..Len(dispatch'[PageOf[t]])
      BY <1>1, <3>1 DEF MemoryOK, Wallet!Last, Recorded
    <3>3. ~(tab[t].begun # 0 /\ dispatch'[PageOf[t]][tab[t].begun] = "open")
      <4> SUFFICES ASSUME tab[t].begun # 0, dispatch'[PageOf[t]][tab[t].begun] = "open" PROVE FALSE
        OBVIOUS
      <4>1. tab[t].begun \in 1..Len(dispatch[PageOf[t]])
        BY <1>1, <3>1 DEF MemoryOK, Wallet!Last
      <4>2. tab[t].begun # tab[t].permit /\ dispatch[PageOf[t]][tab[t].begun] = "open"
        BY <1>1, <3>1, <4>1 DEF Recorded
      <4> QED BY <1>1, <4>2 DEF MemoryOK, Minds
    <3> QED BY <2>2, <2>3, <3>2, <3>3 DEF MemoryOK, Wallet!Last
  <2>5. TabMoved(t)
    BY <2>2, <2>3, <2>4 DEF TabMoved, Asking
  <2> QED BY <1>1, <1>2, <2>5, ReportMoves, ReportGrows
<1>3. CASE UNCHANGED <<dispatch, stored>> /\ Wallet!Show(t, Wallet!Uncertain(tab[t]))
  BY <1>1, <1>3, NothingPlanned, Waits, Untouched DEF MemoryOK, Minds
<1> QED BY <1>2, <1>3 DEF Wallet!OnRejection, Wallet!NoPermit

LEMMA Reports ==
    ASSUME WalletInv, NEW t \in Tabs, Wallet!Report(t)
    PROVE  WalletInv' /\ DispatchGrows
<1>1. /\ tab[t] \in Pages /\ tab[t].permit \in Nat /\ stored[t] \in Stores /\ MemoryOK(t)
      /\ PageOf[t] \in Requests /\ tab[t].pc = "report"
      /\ UNCHANGED <<plan, stored, prompts, sent, lies, pending, mined>>
      /\ Wallet!Show(t, Wallet!Idle(tab[t]))
  BY WalletFacts DEF WalletInv, WalletTypeOK, Wallet!Report, Wallet!wallet, Pages
<1>2. PICK page \in Pages : page = Wallet!Idle(tab[t])
  BY <1>1, IdlePages
<1>3. page.pc = "idle" /\ page.begun = tab[t].begun /\ page.hash = tab[t].hash
  BY <1>1, <1>2, IdlePages
<1>4. /\ tab' = [tab EXCEPT ![t] = tab'[t]] /\ tab'[t] = page
      /\ stored' = [stored EXCEPT ![t] = stored'[t]] /\ stored'[t] = stored[t]
  BY <1>1, <1>2, ShownIs
<1>5. CASE dispatch' = dispatch
  <2>1. MemoryOK(t)'
    BY <1>1, <1>3, <1>4, <1>5 DEF MemoryOK, Minds, Wallet!Last
  <2>2. TabMoved(t)
    BY <1>1, <1>3, <1>4, <2>1 DEF TabMoved, Asking
  <2> QED BY <1>1, <1>5, <2>2, NothingPlanned, TabMoves, Untouched
<1>6. CASE dispatch' # dispatch
  <2>1. Wallet!Accepts(PageOf[t], tab[t].permit, "submitted") /\ Wallet!Record(PageOf[t], tab[t].permit, "submitted")
    BY <1>6 DEF Wallet!Report
  <2>2. MemoryOK(t)'
    <3>1. Recorded(PageOf[t], tab[t].permit, "submitted") /\ Len(dispatch[PageOf[t]]) \in Nat
      BY <1>1, <2>1, RecordIs DEF WalletInv, WalletTypeOK
    <3>2. tab[t].begun \in 0..Len(dispatch'[PageOf[t]])
      BY <1>1, <3>1 DEF MemoryOK, Wallet!Last, Recorded
    <3>3. tab[t].begun # 0 /\ dispatch'[PageOf[t]][tab[t].begun] = "open"
            => dispatch[PageOf[t]][tab[t].begun] = "open"
      <4>1. tab[t].begun # 0 => tab[t].begun \in 1..Len(dispatch[PageOf[t]])
        BY <1>1, <3>1 DEF MemoryOK, Wallet!Last
      <4> QED BY <1>1, <3>1, <4>1 DEF Recorded
    <3> QED BY <1>1, <1>3, <1>4, <3>2, <3>3 DEF MemoryOK, Minds, Wallet!Last
  <2>3. TabMoved(t)
    BY <1>1, <1>3, <1>4, <2>2 DEF TabMoved, Asking
  <2> QED BY <1>1, <2>1, <2>3, ReportMoves, ReportGrows
<1> QED BY <1>5, <1>6

LEMMA Polls ==
    ASSUME WalletInv, NEW t \in Tabs, Wallet!Poll(t)
    PROVE  WalletInv'
<1>1. /\ tab[t] \in Pages /\ stored[t] \in Stores /\ MemoryOK(t) /\ tab[t].pc = "idle"
      /\ UNCHANGED <<plan, dispatch, prompts, sent, lies, pending, mined>>
  BY DEF WalletInv, WalletTypeOK, Wallet!Poll, Wallet!tables, Wallet!wallet
<1>2. CASE Wallet!Outcome(PageOf[t]) = "submitted"
  <2>1. PICK page : page = [tab[t] EXCEPT !.hash = TRUE, !.uncertain = FALSE]
    OBVIOUS
  <2>2. page = [pc |-> "idle", nonce |-> tab[t].nonce, permit |-> tab[t].permit, uncertain |-> FALSE,
                hash |-> TRUE, begun |-> tab[t].begun]
    BY <1>1, <2>1 DEF Pages
  <2>3. page \in Pages /\ page.pc = "idle" /\ page.hash /\ page.begun = tab[t].begun
    BY <1>1, <2>2 DEF Pages
  <2>4. PICK note \in Stores : note = [kind |-> "hash", permit |-> tab[t].permit]
    BY <1>1 DEF Stores, Pages
  <2>5. Wallet!Show(t, page) /\ Wallet!Save(t, note)
    BY <1>2, <2>1, <2>4 DEF Wallet!Poll
  <2>6. /\ tab' = [tab EXCEPT ![t] = tab'[t]] /\ tab'[t] = page
        /\ stored' = [stored EXCEPT ![t] = stored'[t]] /\ stored'[t] = note
    BY <2>3, <2>5, ShownIs
  <2>7. MemoryOK(t)'
    BY <1>1, <2>3, <2>4, <2>6 DEF MemoryOK, Minds, Wallet!Last
  <2>8. TabMoved(t)
    BY <2>3, <2>6, <2>7 DEF TabMoved, Asking
  <2> QED BY <1>1, <2>8, NothingPlanned, TabMoves
<1>3. CASE Wallet!Outcome(PageOf[t]) # "submitted"
  <2>1. Wallet!Show(t, Wallet!Uncertain(tab[t])) /\ UNCHANGED stored
    BY <1>3 DEF Wallet!Poll
  <2> QED BY <1>1, <2>1, NothingPlanned, Waits DEF MemoryOK, Minds
<1> QED BY <1>2, <1>3

\* What a tab has in its storage is what it knows after a reload.
LEMMA Reloads ==
    ASSUME WalletInv, NEW t \in Tabs, Wallet!Reload(t)
    PROVE  WalletInv'
<1>1. /\ tab[t] \in Pages /\ stored[t] \in Stores /\ MemoryOK(t)
      /\ UNCHANGED <<plan, dispatch, stored, prompts, sent, lies, pending, mined>>
  BY DEF WalletInv, WalletTypeOK, Wallet!Reload, Wallet!tables, Wallet!wallet
<1>2. PICK c \in {"report", "idle"} :
         c = IF stored[t].kind = "hash" /\ stored[t].permit # 0 THEN "report" ELSE "idle"
  OBVIOUS
<1>3. PICK h \in BOOLEAN : h = (stored[t].kind = "hash")
  OBVIOUS
<1>4. PICK n \in BOOLEAN : n = (stored[t].kind = "uncertain")
  OBVIOUS
<1>5. PICK q \in Nat : q = stored[t].permit
  BY <1>1 DEF Stores
<1>6. PICK b \in Nat : b = tab[t].begun
  BY <1>1 DEF Pages
<1>7. \E page \in Pages : /\ Wallet!Show(t, page)
                         /\ page.pc = c /\ page.begun = b /\ page.hash = h /\ page.uncertain = n
  <2>1. PICK j0 : j0 = Wallet!Page
    OBVIOUS
  <2>2. j0 \in Pages
    BY <2>1 DEF Wallet!Page, Wallet!NoNonce, Wallet!NoPermit, Pages
  <2>3. PICK j1 : j1 = [j0 EXCEPT !.permit = q]
    OBVIOUS
  <2>4. j1 \in Pages
    BY <2>2, <2>3 DEF Pages
  <2>5. PICK j2 : j2 = [j1 EXCEPT !.hash = h]
    OBVIOUS
  <2>6. j2 \in Pages /\ j2.hash = h
    BY <2>4, <2>5 DEF Pages
  <2>7. PICK j3 : j3 = [j2 EXCEPT !.uncertain = n]
    OBVIOUS
  <2>8. j3 \in Pages /\ j3.hash = h /\ j3.uncertain = n
    BY <2>6, <2>7 DEF Pages
  <2>9. PICK j4 : j4 = [j3 EXCEPT !.begun = b]
    OBVIOUS
  <2>10. j4 \in Pages /\ j4.hash = h /\ j4.uncertain = n /\ j4.begun = b
    BY <2>8, <2>9 DEF Pages
  <2>11. PICK j5 : j5 = [j4 EXCEPT !.pc = c]
    OBVIOUS
  <2>12. j5 \in Pages /\ j5.hash = h /\ j5.uncertain = n /\ j5.begun = b /\ j5.pc = c
    BY <2>10, <2>11 DEF Pages
  <2>13. Wallet!Show(t, [Wallet!Page EXCEPT !.permit = q, !.hash = h, !.uncertain = n, !.begun = b, !.pc = c])
    BY <1>2, <1>3, <1>4, <1>5, <1>6, Zenon DEF Wallet!Reload, Wallet!NoPermit
  <2>14. [Wallet!Page EXCEPT !.permit = q, !.hash = h, !.uncertain = n, !.begun = b, !.pc = c] = j5
    BY <2>1, <2>3, <2>5, <2>7, <2>9, <2>11, Zenon
  <2> QED BY <2>12, <2>13, <2>14
<1>12. PICK page \in Pages : /\ Wallet!Show(t, page)
                           /\ page.pc = c /\ page.begun = tab[t].begun /\ page.hash = h /\ page.uncertain = n
  BY <1>6, <1>7
<1>8. /\ tab' = [tab EXCEPT ![t] = tab'[t]] /\ tab'[t] = page
      /\ stored' = [stored EXCEPT ![t] = stored'[t]] /\ stored'[t] = stored[t]
  BY <1>1, <1>12, ShownIs
<1>9. /\ stored[t].kind # "none" => page.uncertain \/ page.hash
      /\ page.pc = "report" => page.hash
  BY <1>1, <1>2, <1>3, <1>4, <1>12 DEF Stores
<1>10. MemoryOK(t)'
  <2>1. Minds(t) => stored[t].kind # "none"
    BY DEF Minds
  <2>2. tab'[t].pc \in {"report", "idle"} /\ tab'[t].begun = tab[t].begun
    BY <1>8, <1>12
  <2>3. stored[t].kind # "none" => Minds(t)'
    BY <1>8, <1>9, <2>2 DEF Minds
  <2> QED BY <1>1, <1>8, <2>1, <2>2, <2>3 DEF MemoryOK, Wallet!Last
<1>11. TabMoved(t)
  BY <1>1, <1>8, <1>10, <1>12 DEF TabMoved, Asking
<1> QED BY <1>1, <1>11, NothingPlanned, TabMoves

LEMMA NewTabs ==
    ASSUME WalletInv, NEW t \in Tabs, Wallet!NewTab(t)
    PROVE  WalletInv'
<1>1. /\ UNCHANGED <<plan, dispatch, prompts, sent, lies, pending, mined>>
      /\ Len(dispatch[PageOf[t]]) \in Nat
  BY WalletFacts DEF WalletInv, WalletTypeOK, Wallet!NewTab, Wallet!tables, Wallet!wallet
<1>2. PICK page : page = Wallet!Page
  OBVIOUS
<1>3. page \in Pages /\ page.pc = "idle" /\ page.begun = 0
  BY <1>2 DEF Wallet!Page, Wallet!NoNonce, Wallet!NoPermit, Pages
<1>4. Wallet!Empty \in Stores
  BY DEF Stores, Wallet!Empty, Wallet!NoPermit
<1>5. /\ tab' = [tab EXCEPT ![t] = tab'[t]] /\ tab'[t] = page
      /\ stored' = [stored EXCEPT ![t] = stored'[t]] /\ stored'[t] = Wallet!Empty
  BY <1>2, <1>3, <1>4, ShownIs DEF Wallet!NewTab
<1>6. MemoryOK(t)'
  BY <1>1, <1>3, <1>5 DEF MemoryOK, Wallet!Last
<1>7. TabMoved(t)
  BY <1>3, <1>4, <1>5, <1>6 DEF TabMoved, Asking
<1> QED BY <1>1, <1>7, NothingPlanned, TabMoves

LEMMA WalletStep ==
    ASSUME WalletInv, [Wallet!Next]_(Wallet!vars)
    PROVE  WalletInv' /\ DispatchGrows
<1>1. pending \in Nat /\ mined \in Nat /\ plan \in [Requests -> Plans]
  BY DEF WalletInv, WalletTypeOK
<1>2. ASSUME NEW t \in Tabs, Wallet!TabStep(t) PROVE WalletInv' /\ DispatchGrows
  <2>1. CASE Wallet!Begin(t) \/ Wallet!OnRejection(t) \/ Wallet!Report(t)
    BY <2>1, Begins, Rejections, Reports
  <2>2. CASE \/ Wallet!Observe(t) \/ Wallet!Stage(t) \/ Wallet!Check(t) \/ Wallet!Invoke(t) \/ Wallet!WalletChanged(t)
             \/ Wallet!OnHash(t) \/ Wallet!OnFailure(t) \/ Wallet!Poll(t) \/ Wallet!Reload(t) \/ Wallet!NewTab(t)
    <3>1. dispatch' = dispatch
      BY <2>2 DEF Wallet!Observe, Wallet!Stage, Wallet!Check, Wallet!Invoke, Wallet!WalletChanged, Wallet!OnHash,
                  Wallet!OnFailure, Wallet!Poll, Wallet!Reload, Wallet!NewTab, Wallet!tables
    <3>2. CASE Wallet!WalletChanged(t) \/ Wallet!OnFailure(t)
      <4>1. /\ UNCHANGED <<plan, dispatch, stored, prompts, sent, lies, pending, mined>>
            /\ Wallet!Show(t, Wallet!Uncertain(tab[t])) /\ MemoryOK(t)
            /\ tab[t].pc \in {"permitted", "failed"}
        BY <3>2 DEF WalletInv, Wallet!WalletChanged, Wallet!OnFailure, Wallet!tables, Wallet!wallet
      <4> QED BY <3>1, <4>1, NothingPlanned, Waits, Untouched DEF MemoryOK, Minds
    <3> QED BY <2>2, <3>1, <3>2, Observes, Stages, Checks, InvokeMoves, Hashes, Polls, Reloads, NewTabs, Untouched
  <2> QED BY <1>2, <2>1, <2>2 DEF Wallet!TabStep
<1>3. ASSUME NEW p \in prompts, Wallet!Decide(p) PROVE WalletInv' /\ DispatchGrows
  BY <1>3, DecideMoves, Untouched DEF Wallet!Decide, Wallet!tables
<1>4. CASE Wallet!Mine \/ Wallet!OtherTransaction \/ Wallet!Proof \/ (\E r \in Requests : Wallet!Expire(r))
           \/ UNCHANGED Wallet!vars
  <2>1. UNCHANGED <<plan, dispatch, tab, stored, prompts, sent, lies>> /\ pending' \in Nat /\ mined' \in Nat
    BY <1>1, <1>4 DEF Wallet!Mine, Wallet!OtherTransaction, Wallet!Proof, Wallet!Expire, Wallet!vars,
                      Wallet!tables, Wallet!wallet
  <2> QED BY <2>1, NothingPlanned, OutsideMoves, Untouched
<1>5. ASSUME NEW r \in Requests, Wallet!Retire(r) PROVE WalletInv' /\ DispatchGrows
  <2>1. /\ plan' = [plan EXCEPT ![r].active = FALSE]
        /\ UNCHANGED <<dispatch, tab, stored, prompts, sent, lies, pending, mined>>
    BY <1>5 DEF Wallet!Retire, Wallet!wallet
  <2>2. PlanKept
    BY <1>1, <2>1 DEF PlanKept, Plans
  <2> QED BY <1>1, <2>1, <2>2, OutsideMoves, Untouched
<1> QED BY <1>2, <1>3, <1>4, <1>5 DEF Wallet!Next

\* Whoever was sent before the last dispatch was called rejected, falsely.
LEMMA OncePerLie ==
    ASSUME WalletInv, NEW r \in Requests
    PROVE  Wallet!Cardinality({s \in sent : s.r = r}) <= 1 + Wallet!Cardinality({l \in lies : l.r = r})
<1> DEFINE S == {s \in sent : s.r = r}
           T == {l \in lies : l.r = r}
           Early == {s \in S : s.attempt < Len(dispatch[r])}
<1>1. /\ IsFiniteSet(sent) /\ IsFiniteSet(lies)
      /\ sent \subseteq [r : Requests, attempt : Nat, nonce : Nat] /\ Len(dispatch[r]) \in Nat
      /\ \A s \in sent : SentOK(s) /\ DispatchOK(r)
  BY DEF WalletInv, WalletTypeOK
<1>2. IsFiniteSet(S) /\ IsFiniteSet(T) /\ IsFiniteSet(Early)
  <2>1. S \in SUBSET sent /\ T \in SUBSET lies /\ Early \in SUBSET sent
    OBVIOUS
  <2> HIDE DEF S, T, Early
  <2> QED BY <1>1, <2>1, FS_Subset
<1>3. \A s \in Early : [r |-> r, attempt |-> s.attempt] \in T
  <2> SUFFICES ASSUME NEW s \in Early PROVE [r |-> r, attempt |-> s.attempt] \in T
    OBVIOUS
  <2>1. s.r = r /\ SentOK(s) /\ DispatchOK(r) /\ s.attempt < Len(dispatch[r])
    BY <1>1
  <2>2. dispatch[r][s.attempt] = "rejected"
    BY <2>1 DEF SentOK, DispatchOK, Wallet!Last
  <2> QED BY <2>1, <2>2 DEF SentOK
<1>4. \A s, z \in S : s.attempt = z.attempt => s = z
  BY <1>1 DEF SentOK
<1>5. Cardinality(Early) <= Cardinality(T)
  <2> DEFINE f == [s \in Early |-> [r |-> r, attempt |-> s.attempt]]
  <2>1. f \in [Early -> T]
    BY <1>3
  <2>2. \A s, z \in Early : f[s] = f[z] => s = z
    <3> SUFFICES ASSUME NEW s \in Early, NEW z \in Early, f[s] = f[z] PROVE s = z
      OBVIOUS
    <3>1. [r |-> r, attempt |-> s.attempt] = [r |-> r, attempt |-> z.attempt]
      OBVIOUS
    <3>2. s.attempt = z.attempt /\ s \in S /\ z \in S
      BY <3>1
    <3> QED BY <1>4, <3>2
  <2> HIDE DEF f, Early, T
  <2>3. f \in Injection(Early, T)
    BY <2>1, <2>2 DEF Injection, IsInjective
  <2> QED BY <1>2, <2>3, FS_Injection
<1>6. ASSUME NEW s \in S, s \notin Early PROVE s.attempt = Len(dispatch[r])
  <2>1. SentOK(s) /\ s.r = r /\ ~(s.attempt < Len(dispatch[r]))
    BY <1>1, <1>6
  <2>2. s.attempt \in 1..Len(dispatch[r])
    BY <2>1 DEF SentOK, Wallet!Last
  <2> QED BY <1>1, <2>1, <2>2
<1>7. Early = S \/ \E s \in S : Early = S \ {s}
  <2>1. CASE \E s \in S : s \notin Early
    <3>1. PICK s \in S : s \notin Early
      BY <2>1
    <3>2. \A z \in S : z \notin Early => z = s
      BY <1>4, <1>6, <3>1
    <3>3. Early \subseteq S
      OBVIOUS
    <3> HIDE DEF S, Early
    <3> QED BY <3>1, <3>2, <3>3
  <2>2. CASE ~\E s \in S : s \notin Early
    BY <2>2
  <2> QED BY <2>1, <2>2
<1>8. Cardinality(S) <= 1 + Cardinality(Early)
  <2> HIDE DEF S, Early
  <2>1. Cardinality(S) \in Nat /\ Cardinality(Early) \in Nat
    BY <1>2, FS_CardinalityType
  <2>2. \A s \in S : Cardinality(S \ {s}) = Cardinality(S) - 1
    BY <1>2, FS_RemoveElement
  <2> QED BY <1>7, <2>1, <2>2
<1>9. Cardinality(S) <= 1 + Cardinality(T)
  <2> HIDE DEF S, T, Early
  <2>1. Cardinality(S) \in Nat /\ Cardinality(Early) \in Nat /\ Cardinality(T) \in Nat
    BY <1>2, FS_CardinalityType
  <2> QED BY <1>5, <1>8, <2>1
<1>10. Wallet!Cardinality(S) = Cardinality(S) /\ Wallet!Cardinality(T) = Cardinality(T)
  BY DEF Wallet!Cardinality, Cardinality
<1> HIDE DEF Early
<1> QED BY <1>9, <1>10

LEMMA WalletPromise ==
    ASSUME WalletInv
    PROVE  /\ Wallet!SentOncePerRejection /\ Wallet!OneNoncePerRequest
           /\ Wallet!RejectedIsUnsent /\ Wallet!TabRemembers
<1>1. Wallet!SentOncePerRejection
  BY OncePerLie DEF Wallet!SentOncePerRejection
<1>2. Wallet!OneNoncePerRequest /\ Wallet!RejectedIsUnsent
  BY DEF WalletInv, SentOK, Wallet!OneNoncePerRequest, Wallet!RejectedIsUnsent
<1>3. Wallet!TabRemembers
  BY DEF WalletInv, MemoryOK, Minds, Wallet!TabRemembers, Wallet!Offers, Wallet!NoPermit
<1> QED BY <1>1, <1>2, <1>3

-----------------------------------------------------------------------------
(* Whatever the behaviour is of, each part takes a step of its own or none. *)

PackInv == GateInv /\ WriterInv /\ WalletInv

LEMMA PackSteps ==
    ASSUME [PackNext]_All
    PROVE  [Gate!Next]_(Gate!vars) /\ [Writer!Next]_(Writer!vars) /\ [Wallet!Next]_(Wallet!vars)
<1>1. UNCHANGED GateVars => UNCHANGED Gate!vars
  BY DEF GateVars, Gate!vars, Gate!world
<1>2. UNCHANGED WriterVars => UNCHANGED Writer!vars
  BY DEF WriterVars, Writer!vars, Writer!server
<1>3. UNCHANGED WalletVars => UNCHANGED Wallet!vars
  BY DEF WalletVars, Wallet!vars, Wallet!tables, Wallet!wallet
<1>4. \/ UNCHANGED GateVars \/ Gate!Next
  BY Zenon DEF PackNext, All
<1>5. \/ UNCHANGED WriterVars \/ Writer!Next
  BY Zenon DEF PackNext, All
<1>6. \/ UNCHANGED WalletVars \/ Wallet!Next
  BY Zenon DEF PackNext, All
<1> QED BY <1>1, <1>2, <1>3, <1>4, <1>5, <1>6

LEMMA PackInvariance == PackSpec => []PackInv
<1>1. PackInit => PackInv
  BY GateInit, WriterInit, WalletInit, Zenon DEF PackInit, PackInv
<1>2. PackInv /\ [PackNext]_All => PackInv'
  <2> SUFFICES ASSUME PackInv, [PackNext]_All PROVE PackInv'
    OBVIOUS
  <2>1. GateInv /\ WriterInv /\ WalletInv
    BY DEF PackInv
  <2>2. [Gate!Next]_(Gate!vars) /\ [Writer!Next]_(Writer!vars) /\ [Wallet!Next]_(Wallet!vars)
    BY PackSteps
  <2>3. GateInv'
    BY <2>1, <2>2, GateStep
  <2>4. WriterInv'
    BY <2>1, <2>2, WriterStep
  <2>5. WalletInv'
    BY <2>1, <2>2, WalletStep
  <2> QED BY <2>3, <2>4, <2>5 DEF PackInv
<1> QED BY <1>1, <1>2, PTL DEF PackSpec

\* What the writer answers is true of what is durable, a wallet is asked again only
\* after a rejection and with the same nonce, and a paid effect happens at most once and
\* only for whoever was not refused: for any number of owners, transactions, requests,
\* tabs, permits and executions (writer.ts, walletSubmissions.ts, admission.ts).
THEOREM EffectsAlwaysHold == PackSpec => []EffectsHold
<1>1. PackInv => EffectsHold
  BY GatePromise, WriterPromise, WalletPromise DEF PackInv, EffectsHold
<1> QED BY <1>1, PackInvariance, PTL

\* Nothing becomes durable behind a successor, a wallet's report stands, and a paid call
\* is made, and its result given out, under a review that is current then.
THEOREM NothingEverBehindAFence == PackSpec => NothingBehindAFence
<1>1. PackInv /\ [PackNext]_All =>
        [\A t \in Transactions : durable[t] = 0 /\ durable'[t] # 0 => durable'[t] = epoch]_(Writer!vars)
  <2> SUFFICES ASSUME PackInv, [PackNext]_All
               PROVE  \A t \in Transactions : durable[t] = 0 /\ durable'[t] # 0 => durable'[t] = epoch
    OBVIOUS
  <2> QED BY PackSteps, WriterStep DEF PackInv
<1>2. PackInv /\ [PackNext]_All =>
        [\A r \in Requests :
            /\ Wallet!Last(r) <= Len(dispatch'[r])
            /\ \A i \in 1..Wallet!Last(r) :
                  /\ dispatch[r][i] # "open" => dispatch'[r][i] = dispatch[r][i]
                  /\ i < Len(dispatch'[r]) => dispatch'[r][i] = "rejected"]_(Wallet!vars)
  <2> SUFFICES ASSUME PackInv, [PackNext]_All, NEW r \in Requests
               PROVE  /\ Wallet!Last(r) <= Len(dispatch'[r])
                      /\ \A i \in 1..Wallet!Last(r) :
                            /\ dispatch[r][i] # "open" => dispatch'[r][i] = dispatch[r][i]
                            /\ i < Len(dispatch'[r]) => dispatch'[r][i] = "rejected"
    OBVIOUS
  <2>1. WalletInv /\ WalletInv' /\ DispatchGrows
    BY PackSteps, WalletStep DEF PackInv
  <2>2. Len(dispatch[r]) \in Nat /\ Len(dispatch'[r]) \in Nat /\ DispatchOK(r)'
    BY <2>1 DEF WalletInv, WalletTypeOK
  <2> QED BY <2>1, <2>2 DEF DispatchGrows, DispatchOK, Wallet!Last
<1>3. PackInv /\ [PackNext]_All =>
        [\A x \in called' \ called :
            fence = x /\ reviewed /\ ~halted /\ healthy /\ now < permit[TokenOf[x]].until /\ now < run[x].until]_(Gate!vars)
  <2> SUFFICES ASSUME PackInv, [PackNext]_All, NEW x \in called' \ called
               PROVE  fence = x /\ reviewed /\ ~halted /\ healthy /\ now < permit[TokenOf[x]].until /\ now < run[x].until
    OBVIOUS
  <2>1. GateInv /\ [Gate!Next]_(Gate!vars)
    BY PackSteps DEF PackInv
  <2>2. \A y \in called' \ called : /\ fence = y /\ reviewed /\ ~halted /\ healthy
                                    /\ now < permit[TokenOf[y]].until /\ now < run[y].until
    BY <2>1, GateActions
  <2> QED BY <2>2, Zenon
<1>4. PackInv /\ [PackNext]_All =>
        [\A x \in Executions : run'[x].reply = "result" /\ run[x].reply # "result" => reviewed]_(Gate!vars)
  <2> SUFFICES ASSUME PackInv, [PackNext]_All, NEW x \in Executions, run'[x].reply = "result", run[x].reply # "result"
               PROVE  reviewed
    OBVIOUS
  <2>1. GateInv /\ [Gate!Next]_(Gate!vars)
    BY PackSteps DEF PackInv
  <2>2. \A y \in Executions : run'[y].reply = "result" /\ run[y].reply # "result" => reviewed
    BY <2>1, GateActions
  <2> QED BY <2>2, Zenon
<1> QED BY <1>1, <1>2, <1>3, <1>4, PackInvariance, PTL
       DEF PackSpec, NothingBehindAFence, Writer!NothingAfterSuccessor, Wallet!ReportsStand,
           Gate!CurrentAtCall, Gate!ResultsReviewed
=============================================================================
