--------------------------- MODULE DurableIssuance ---------------------------
(***************************************************************************)
(* Mint authorizations on PostgreSQL (persistence/                         *)
(* generativeAuthorizations.ts): one handle, several requests for it, and  *)
(* an operator who retires an expired reservation                          *)
(* (persistence/generativeRecovery.ts) by evidence from the chain          *)
(* (generativeRecoveryChain.ts).                                           *)
(*                                                                         *)
(* A transaction is one step with three ends: acknowledged, or its reply   *)
(* is lost with or without effect, and then the writer of the process is   *)
(* unusable.  Nobody else can write before the session of the lost reply   *)
(* ends (ExclusiveWriter), so its effect may be decided at once.           *)
(*                                                                         *)
(* Time is one clock; blocks carry times, and those after the finalized    *)
(* one may be replaced.  Left out: wallet plans (WalletSubmission), the    *)
(* admission fences of the staging profile (AdmissionGate), the bytes of   *)
(* reservations, and the freshness limits of the chain witness, which is   *)
(* read in the step that uses it or fails.                                 *)
(***************************************************************************)
EXTENDS Integers, FiniteSets

CONSTANTS
    Requests,   \* requests of sessions for the one handle
    NoRequest,
    Calls,      \* calls of issue() in flight
    MaxAuth,    \* bound of the model: reservations ever made
    MaxEpoch,   \* bound of the model: processes
    MaxTime,    \* bound of the model: the clock
    Lifetime    \* lifetime_seconds

ASSUME RequestAssumption == NoRequest \notin Requests
ASSUME BoundAssumption ==
    /\ MaxAuth \in Nat \ {0} /\ MaxEpoch \in Nat /\ MaxTime \in Nat
    /\ Lifetime \in Nat \ {0}

Auths == 1..MaxAuth
NoAuth == 0

VARIABLES
    auth,       \* generative_authorizations: [Auths -> row]
    head,       \* generative_authorization_heads, NoAuth if there is none
    retired,    \* generative_recoveries
    epoch,      \* writer_epoch
    enabled,    \* generative_issuance_profiles.enabled
    proof,      \* [Requests -> BOOLEAN]: session, proof and request are current
    process,    \* the process with a healthy writer: "none", "site" or "operator"
    plan,       \* the operator's reviewed plan
    call,       \* [Calls -> record]
    asked,      \* [Auths -> Nat]: calls of the signer
    made,       \* the authorizations the signer has signed
    now, latest, final,     \* the clock, and the times of the last and the finalized block
    token       \* the authorization the handle was minted with, and when
tables == <<auth, head, retired, epoch, enabled, proof>>
signer == <<asked, made>>
chain == <<now, latest, final, token>>
vars == <<tables, process, plan, call, signer, chain>>

NoRow == [q |-> NoRequest, deadline |-> 0, state |-> "none", epoch |-> 0]
NoPlan == [a |-> NoAuth, state |-> "none"]
Idle == [pc |-> "idle", q |-> NoRequest, a |-> NoAuth, reply |-> NoAuth]
Unminted == [a |-> NoAuth, at |-> 0]

Init ==
    /\ auth = [a \in Auths |-> NoRow] /\ head = NoAuth /\ retired = {} /\ epoch = 0
    /\ enabled = TRUE /\ proof = [q \in Requests |-> TRUE]
    /\ process = "none" /\ plan = NoPlan
    /\ call = [c \in Calls |-> Idle]
    /\ asked = [a \in Auths |-> 0] /\ made = {}
    /\ now = 1 /\ latest = 1 /\ final = 1 /\ token = Unminted

-----------------------------------------------------------------------------
\* The process, and the end of a transaction.

Ended == [c \in Calls |-> IF call[c].pc = "idle" THEN call[c] ELSE [call[c] EXCEPT !.pc = "end"]]
\* The writer fails: no call of this process gets past its next transaction.
ProcessLost == process' = "none" /\ plan' = NoPlan /\ call' = Ended

Acquire(kind) ==
    /\ process = "none" /\ epoch < MaxEpoch
    /\ process' = kind /\ epoch' = epoch + 1
    /\ UNCHANGED <<auth, head, retired, enabled, proof, plan, call, signer, chain>>
Stop ==
    /\ process # "none" /\ ProcessLost
    /\ UNCHANGED <<tables, signer, chain>>

\* COMMIT of `rows', with the next record of the call when it is acknowledged.
CommitRows(c, rows, h, next) ==
    /\ \/ auth' = rows /\ head' = h /\ call' = [call EXCEPT ![c] = next] /\ UNCHANGED <<process, plan>>
       \/ ProcessLost /\ \/ auth' = rows /\ head' = h
                         \/ UNCHANGED <<auth, head>>
    /\ UNCHANGED <<retired, epoch, enabled, proof, signer, chain>>
\* What only reads, or throws, has no doubtful end.
Move(c, next) ==
    /\ call' = [call EXCEPT ![c] = next]
    /\ UNCHANGED <<tables, process, plan, signer, chain>>
Refuse(c) == Move(c, [call[c] EXCEPT !.pc = "end"])

-----------------------------------------------------------------------------
\* issue(): reserve, claim, sign, store, release.

At(c, pc) == call[c].pc = pc /\ process = "site"

Start(c, q) ==
    /\ call[c].pc = "idle" /\ process = "site"
    /\ Move(c, [Idle EXCEPT !.pc = "reserve", !.q = q])

\* #context: issuance is enabled, session and proof are current, the request was
\* not retired, and what is read later in the transaction says the same.
Context(q) ==
    /\ enabled /\ proof[q]
    /\ ~\E a \in Auths : auth[a].q = q /\ head # a
Expired(a) == auth[a].deadline <= now
\* The chain witness: the handle is not minted at the latest block.
Eligible == token = Unminted

BadSameOwner(q, a) == a \in Auths   \* slip: any request of the handle
SameOwner(q, a) == auth[a].q = q

Fresh == {a \in Auths : auth[a] = NoRow}
Reserve(c) ==
    LET q == call[c].q IN
    /\ At(c, "reserve")
    /\ \/ /\ Context(q) /\ Eligible /\ head = NoAuth
          /\ \E a \in Fresh :
                /\ \A b \in Fresh : a <= b
                /\ CommitRows(c, [auth EXCEPT ![a] = [q |-> q, deadline |-> now + Lifetime, state |-> "reserved", epoch |-> 0]],
                              a, [call[c] EXCEPT !.pc = "claim", !.a = a])
       \/ /\ Context(q) /\ Eligible /\ head # NoAuth
          /\ SameOwner(q, head) /\ ~Expired(head) /\ auth[head].state \in {"reserved", "signed"}
          /\ Move(c, [call[c] EXCEPT !.pc = "claim", !.a = head])
       \/ Refuse(c)

BadClaimable(a) == auth[a].state \in {"reserved", "unknown"}    \* slip: an uncertain signing is tried again
Claimable(a) == auth[a].state = "reserved"
Claim(c) ==
    LET q == call[c].q
        a == call[c].a IN
    /\ At(c, "claim")
    /\ \/ /\ Context(q) /\ head = a /\ SameOwner(q, a) /\ Eligible /\ ~Expired(a) /\ Claimable(a)
          /\ CommitRows(c, [auth EXCEPT ![a].state = "signing", ![a].epoch = epoch], head,
                        [call[c] EXCEPT !.pc = "ask"])
       \/ /\ Context(q) /\ head = a /\ SameOwner(q, a) /\ Eligible /\ ~Expired(a) /\ auth[a].state = "signed"
          /\ Move(c, [call[c] EXCEPT !.pc = "release"])
       \/ Refuse(c)

\* The signer is called in the microtask that checked the deadline and the writer.
Ask(c) ==
    /\ At(c, "ask")
    /\ call' = [call EXCEPT ![c].pc = "wait"] /\ asked' = [asked EXCEPT ![call[c].a] = @ + 1]
    /\ UNCHANGED <<tables, process, plan, made, chain>>
\* The signer signs, whether or not anybody still waits for it.
Sign(a) ==
    /\ asked[a] > Cardinality(made \cap {a}) /\ made' = made \cup {a}
    /\ UNCHANGED <<tables, process, plan, call, asked, chain>>
Answer(c) ==
    /\ At(c, "wait") /\ call[c].a \in made
    /\ Move(c, [call[c] EXCEPT !.pc = "store"])
\* The signer is late, fails, or answers with an invalid signature.
TimeOut(c) ==
    /\ call[c].pc \in {"ask", "wait"} /\ process = "site"
    /\ Move(c, [call[c] EXCEPT !.pc = "unknown"])
MarkUnknown(c) ==
    LET a == call[c].a IN
    /\ At(c, "unknown")
    /\ CommitRows(c, IF auth[a].state = "signing" /\ auth[a].epoch = epoch
                     THEN [auth EXCEPT ![a].state = "unknown"] ELSE auth,
                  head, [call[c] EXCEPT !.pc = "end"])
Store(c) ==
    LET a == call[c].a IN
    /\ At(c, "store")
    /\ IF head = a /\ auth[a].state = "signing" /\ auth[a].epoch = epoch
       THEN CommitRows(c, [auth EXCEPT ![a].state = "signed"], head, [call[c] EXCEPT !.pc = "release"])
       ELSE Refuse(c)
Releasable(q, a) ==
    Context(q) /\ head = a /\ auth[a].state = "signed" /\ SameOwner(q, a) /\ Eligible /\ ~Expired(a)
Release(c) ==
    /\ At(c, "release")
    /\ IF Releasable(call[c].q, call[c].a)
       THEN Move(c, [call[c] EXCEPT !.pc = "end", !.reply = call[c].a])
       ELSE Refuse(c)

-----------------------------------------------------------------------------
\* The world: switches, sessions, time and blocks.

Switch == 
    /\ enabled' = ~enabled
    /\ UNCHANGED <<auth, head, retired, epoch, proof, process, plan, call, signer, chain>>
LoseProof(q) ==
    /\ proof[q] /\ proof' = [proof EXCEPT ![q] = FALSE]
    /\ UNCHANGED <<auth, head, retired, epoch, enabled, process, plan, call, signer, chain>>
Tick ==
    /\ now < MaxTime /\ now' = now + 1
    /\ UNCHANGED <<tables, process, plan, call, signer, latest, final, token>>

\* A block: it may mint the handle with any signature that exists and is in time.
Block ==
    /\ latest < now
    /\ \E t \in (latest + 1)..now :
          /\ latest' = t
          /\ \/ UNCHANGED token
             \/ \E a \in made : /\ token = Unminted /\ t <= auth[a].deadline
                                /\ token' = [a |-> a, at |-> t]
    /\ UNCHANGED <<tables, process, plan, call, signer, now, final>>
Finalize ==
    /\ final < latest /\ final' = latest
    /\ UNCHANGED <<tables, process, plan, call, signer, now, latest, token>>
\* The blocks after the finalized one are dropped, with what they minted.
Reorganize ==
    /\ final < latest /\ latest' = final
    /\ token' = IF token.at > final THEN Unminted ELSE token
    /\ UNCHANGED <<tables, process, plan, call, signer, now, final>>

-----------------------------------------------------------------------------
\* The operator.

BadUnusable(a) ==       \* slip: the clock and the latest block decide
    now > auth[a].deadline /\ latest > auth[a].deadline /\ token = Unminted
\* Both sources prove at the finalized and the latest head that the authorization
\* has expired and that the handle is not minted.
Unusable(a) == now > auth[a].deadline /\ final > auth[a].deadline /\ token = Unminted

\* plan(): the row is read, the chain is observed, the row is read again.
Plan ==
    /\ process = "operator" /\ ~enabled /\ head # NoAuth /\ Unusable(head)
    /\ plan' = [a |-> head, state |-> auth[head].state]
    /\ UNCHANGED <<tables, process, call, signer, chain>>
\* apply(): the snapshot and the evidence are those of the plan.
Apply ==
    LET a == plan.a IN
    /\ process = "operator" /\ a # NoAuth /\ a \notin retired
    /\ ~enabled /\ head = a /\ auth[a].state = plan.state /\ Unusable(a)
    /\ \/ retired' = retired \cup {a} /\ head' = NoAuth /\ UNCHANGED <<process, plan, call>>
       \/ ProcessLost /\ \/ retired' = retired \cup {a} /\ head' = NoAuth
                         \/ UNCHANGED <<retired, head>>
    /\ UNCHANGED <<auth, epoch, enabled, proof, signer, chain>>

-----------------------------------------------------------------------------
Issue(c) ==
    \/ Reserve(c) \/ Claim(c) \/ Ask(c) \/ Answer(c) \/ TimeOut(c)
    \/ MarkUnknown(c) \/ Store(c) \/ Release(c)
Next ==
    \/ Acquire("site") \/ Acquire("operator") \/ Stop
    \/ \E c \in Calls : Issue(c) \/ \E q \in Requests : Start(c, q)
    \/ \E a \in Auths : Sign(a)
    \/ Switch \/ \E q \in Requests : LoseProof(q)
    \/ Tick \/ Block \/ Finalize \/ Reorganize
    \/ Plan \/ Apply
Spec == Init /\ [][Next]_vars

-----------------------------------------------------------------------------
(* The signer is asked at most once for a reservation, whatever timed out,  *)
(* crashed or lost its reply: an uncertain signing is never repeated        *)
(* (generativeAuthorizations.ts, issue and #finishIssue).                   *)
SignedOnce == \A a \in Auths : asked[a] <= 1

(* At most one signature for the handle can still be used: a block in time  *)
(* can follow the finalized one for one authorization only, although        *)
(* another was reserved after the first was retired.                        *)
OneUsable == Cardinality({a \in made : final < auth[a].deadline}) <= 1

(* A reservation the operator retired is never the one the handle is minted *)
(* with, not even after a reorganisation (generativeRecoveryChain.ts).      *)
RetiredNeverMinted == token.a \notin retired

(* A signature is handed out only for the request that reserved it, and     *)
(* only one that is durably stored.                                         *)
ReleasedToOwner ==
    \A c \in Calls : LET a == call[c].reply IN
        a # NoAuth => auth[a].q = call[c].q /\ auth[a].state = "signed" /\ a \in made

(* A call in progress hands out a signature only while its request has a    *)
(* current proof and is not expired.                                        *)
ReleasedWhileProved ==
    [][\A c \in Calls : call'[c].reply # call[c].reply =>
          proof[call[c].q] /\ auth[call[c].a].deadline > now /\ head = call[c].a]_vars

(* A request has one reservation in its life: after a retirement the user   *)
(* starts a new request.                                                    *)
OneReservationPerRequest ==
    \A a, b \in Auths : auth[a].q = auth[b].q /\ auth[a].q # NoRequest => a = b

(* Reservations have one owner each, to the end: these three together.      *)
OwnedReservations == RetiredNeverMinted /\ ReleasedToOwner /\ OneReservationPerRequest

(* A reservation moves forward only, and out of `signing' only by the       *)
(* process that claimed it: unknown and signed are final.                   *)
ForwardOnly ==
    [][\A a \in Auths : auth'[a].state # auth[a].state =>
          \/ auth[a].state = "none" /\ auth'[a].state = "reserved"
          \/ auth[a].state = "reserved" /\ auth'[a].state = "signing"
          \/ auth[a].state = "signing" /\ auth[a].epoch = epoch /\ auth'[a].state \in {"unknown", "signed"}]_vars
=============================================================================
