-------------------------- MODULE DurableAssessment --------------------------
(***************************************************************************)
(* Paid assessments on PostgreSQL: admission, claims, dispatch fences,     *)
(* receipts and outcomes (persistence/repository.ts, schema.sql) and the   *)
(* worker that drives them under a deadline (assessmentWorker.ts).         *)
(*                                                                         *)
(* Every transaction runs on the connection of ExclusiveWriter, one after  *)
(* the other.  It is two steps here, from its first guard to COMMIT, and   *)
(* from COMMIT to the reply: the deadline may pass in between, and a lost  *)
(* reply leaves a COMMIT that the server applies or drops until the        *)
(* session ends.  Only then can a successor acquire the lock; runs of the  *)
(* process that lost its link go on beside it.                             *)
(*                                                                         *)
(* Left out: the optional admission gate around a claim and a dispatch,    *)
(* the pulse economics, the comparison of models and profiles (constant    *)
(* here), payload bytes, and providers that are not configured.            *)
(***************************************************************************)
EXTENDS Integers, FiniteSets, FiniteSetsExt

CONSTANTS
    Handles,        \* an attempt is its handle: UNIQUE (namespace_id, handle)
    NoHandle,
    Runs,           \* calls of run() that may be in flight
    MaxTotal, MaxDaily, MaxActive, MaxQueued, MaxExposure, Reservation,   \* budget_policies
    Charges,        \* what one provider call may cost
    MaxEpoch,       \* bound of the model: processes that acquire the writer
    MaxDay,         \* bound of the model: days
    NoTx, NoRun

\* The policy admits something, and a reservation covers what two legs may charge.
PolicyAssumption ==
    /\ NoRun \notin Runs /\ NoHandle \notin Handles
    /\ MaxTotal \in Nat \ {0} /\ MaxDaily \in 1..MaxTotal /\ MaxActive = 1 /\ MaxQueued \in Nat \ {0}
    /\ Reservation \in Nat /\ MaxExposure \in Nat /\ Reservation <= MaxExposure
    /\ \A c \in Charges : c \in Nat /\ 2 * c <= Reservation
    /\ {MaxEpoch, MaxDay} \subseteq Nat

Legs == {"x", "grok"}
Unknown == -1       \* cost_status other than "actual"

VARIABLES
    db,         \* the tables, see Init
    enabled,    \* budget_policies.generation_enabled, the operator's switch
    today,
    live,       \* epoch of the process whose writer is healthy, 0 if none is
    lock,       \* a session holds the advisory lock
    tx,         \* the transaction between its guard and the reply
    indoubt,    \* what a COMMIT without a reply would make of db
    run,        \* the calls of run()
    calls,      \* history: provider calls per handle and leg
    spent       \* history: what providers charged
vars == <<db, enabled, today, live, lock, tx, indoubt, run, calls, spent>>
outside == <<enabled, today>>
process == <<live, lock, indoubt>>

NoJob == [state |-> "none", epoch |-> 0, by |-> NoRun]
NoReceipt == [ok |-> FALSE, cost |-> Unknown, present |-> FALSE]
NoTerminal == [kind |-> "none", phase |-> "none", by |-> NoRun]
Idle == [pc |-> "idle", epoch |-> 0, h |-> NoHandle, leg |-> "none", answer |-> "none",
         result |-> "none", cost |-> Unknown, expired |-> FALSE, broken |-> FALSE,
         owned |-> FALSE, cleanup |-> "no", reply |-> "none"]

Init ==
    /\ db = [epoch |-> 0,
             proof |-> [h \in Handles |-> TRUE],            \* session, proof and request are current
             attempt |-> [h \in Handles |-> "none"],        \* assessment_attempts.state
             day |-> [h \in Handles |-> 0],                 \* budget_reservations.admitted_day
             job |-> [h \in Handles |-> NoJob],             \* jobs; `by' is history
             fence |-> [h \in Handles |-> [l \in Legs |-> 0]],
             receipt |-> [h \in Handles |-> [l \in Legs |-> NoReceipt]],
             identity |-> [h \in Handles |-> FALSE],
             result |-> [h \in Handles |-> FALSE],          \* assessments
             terminal |-> [h \in Handles |-> NoTerminal]]   \* `by' is history
    /\ enabled = TRUE /\ today = 1 /\ live = 0 /\ lock = FALSE
    /\ tx = NoTx /\ indoubt = NoTx
    /\ run = [r \in Runs |-> Idle]
    /\ calls = [h \in Handles |-> [l \in Legs |-> 0]] /\ spent = 0

-----------------------------------------------------------------------------
\* What the transactions of the repository read.

Reserved == {h \in Handles : db.attempt[h] # "none"}
Recorded(h) == MapThenSumSet(LAMBDA l : IF db.receipt[h][l].cost = Unknown THEN 0 ELSE db.receipt[h][l].cost, Legs)
Larger(a, b) == IF a >= b THEN a ELSE b
Exposure == MapThenSumSet(LAMBDA h : Larger(Reservation, Recorded(h)), Reserved)
\* Real accounting is open unless both legs have an actual cost.
Unresolved(h) == \E l \in Legs : db.receipt[h][l].cost = Unknown
\* The jobs that wait: of assessments, and the render job of every accepted result,
\* which nothing completes.
Queued == Cardinality({h \in Handles : db.job[h].state \notin {"none", "complete"}})
          + Cardinality({h \in Handles : db.result[h]})
Admissible ==
    /\ enabled
    /\ \A h \in Reserved : ~Unresolved(h)
    /\ Cardinality(Reserved) < MaxTotal
    /\ Cardinality({h \in Reserved : db.day[h] = today}) < MaxDaily
    /\ Cardinality({h \in Handles : db.attempt[h] = "pending"}) < MaxActive
    /\ Queued < MaxQueued
    /\ Exposure + Reservation <= MaxExposure

\* #running: this attempt is pending and was claimed under this epoch.
RunningUnder(h, e) ==
    db.attempt[h] = "pending" /\ db.job[h].state = "running" /\ db.job[h].epoch = e
Success(h, l) == db.receipt[h][l].present /\ db.receipt[h][l].ok
Phase(h) == IF db.fence[h]["grok"] # 0 THEN "grok"
            ELSE IF db.fence[h]["x"] # 0 THEN "x" ELSE "before-dispatch"

\* #inspectDispatch
Dispatchable(h, l, e) ==
    /\ enabled /\ RunningUnder(h, e) /\ Exposure <= MaxExposure
    /\ l = "grok" => Success(h, "x") /\ db.identity[h]
    /\ db.fence[h][l] = 0

\* #finishAttempt; the caller has established that it may close the attempt.
Finished(h, kind, r) ==
    [db EXCEPT !.terminal[h] = [kind |-> kind, phase |-> Phase(h), by |-> r],
               !.attempt[h] = "closed", !.job[h].state = "complete"]
\* What #finishAttempt demands as evidence of an outcome.
Evident(h, kind) ==
    /\ (kind = "blocked") <=> (Phase(h) = "before-dispatch")
    /\ kind = "abstained" => Phase(h) = "grok" /\ Success(h, "grok")
    /\ kind = "invalid" => Phase(h) # "before-dispatch" /\ Success(h, Phase(h))

Interruptible(h, e) == RunningUnder(h, e)

-----------------------------------------------------------------------------
\* The writer, as ExclusiveWriter describes it.

Acquire ==
    /\ ~lock /\ live = 0 /\ db.epoch < MaxEpoch
    /\ lock' = TRUE /\ live' = db.epoch + 1 /\ db' = [db EXCEPT !.epoch = @ + 1]
    /\ UNCHANGED <<outside, tx, indoubt, run, calls, spent>>

\* A transaction begins: `after' is what it will commit, `ack' the run when the
\* reply arrives, `kind' whether assertActive() runs again before COMMIT
\* ("guarded"), or not ("plain"), or the cleanup of the run waits for it.
Begin(r, after, ack, kind) ==
    /\ tx = NoTx /\ run[r].epoch = live
    /\ tx' = [r |-> r, after |-> after, ack |-> ack, kind |-> kind, sent |-> FALSE]
    /\ UNCHANGED <<db, outside, process, run, calls, spent>>

\* What happened to the run while its transaction was under way stays.
Merged(r, next) ==
    IF tx.kind = "cleanup" THEN [run[r] EXCEPT !.cleanup = "done", !.reply = next.reply]
    ELSE [next EXCEPT !.expired = run[r].expired, !.cleanup = run[r].cleanup,
                      !.reply = IF run[r].expired THEN run[r].reply ELSE next.reply]
\* The last guard of the transaction passes and COMMIT is sent.
SendCommit ==
    /\ tx # NoTx /\ ~tx.sent /\ ~(tx.kind = "guarded" /\ run[tx.r].expired)
    /\ tx' = [tx EXCEPT !.sent = TRUE]
    /\ UNCHANGED <<db, outside, process, run, calls, spent>>
Acknowledge ==
    /\ tx # NoTx /\ tx.sent
    /\ db' = tx.after /\ run' = [run EXCEPT ![tx.r] = Merged(tx.r, tx.ack)] /\ tx' = NoTx
    /\ UNCHANGED <<outside, process, calls, spent>>

\* A step of the worker throws; the deadline's own error marks no storage failure.
Throws(r, broken) ==
    [run[r] EXCEPT !.pc = IF @ \in {"claim", "catch", "final"} THEN "throw" ELSE "caught",
                   !.broken = @ \/ broken]
\* assertActive() after the statements: ROLLBACK.
GuardFails ==
    /\ tx # NoTx /\ ~tx.sent /\ tx.kind = "guarded" /\ run[tx.r].expired
    /\ run' = [run EXCEPT ![tx.r] = Throws(tx.r, FALSE)] /\ tx' = NoTx
    /\ UNCHANGED <<db, outside, process, calls, spent>>

\* The cleanup of a run has nobody behind it, everything else throws; what
\* persist() wraps is a storage failure.
Unanswered ==
    IF tx.kind = "cleanup" THEN [run[tx.r] EXCEPT !.cleanup = "done", !.reply = "error"]
    ELSE Throws(tx.r, run[tx.r].pc \in {"receipt", "identity", "accept", "abstain"})
Doubt == IF tx # NoTx /\ tx.sent THEN tx.after ELSE NoTx
\* The link breaks: no reply to the open transaction, and no other one either.
LoseLink ==
    /\ live # 0 /\ live' = 0
    /\ indoubt' = Doubt /\ tx' = NoTx
    /\ run' = IF tx = NoTx THEN run ELSE [run EXCEPT ![tx.r] = Unanswered]
    /\ UNCHANGED <<db, outside, lock, calls, spent>>
\* The server notices, and what it has of a COMMIT is applied or rolled back.
SessionEnds ==
    /\ lock /\ live = 0 /\ lock' = FALSE
    /\ db' \in {db} \cup (IF indoubt = NoTx THEN {} ELSE {indoubt})
    /\ indoubt' = NoTx
    /\ UNCHANGED <<outside, live, tx, run, calls, spent>>
\* The process dies with its runs.
Crash ==
    /\ live # 0 /\ live' = 0
    /\ indoubt' = Doubt /\ tx' = NoTx
    /\ run' = [r \in Runs |-> IF run[r].epoch = live /\ run[r].pc # "idle"
                              THEN [run[r] EXCEPT !.pc = "end", !.cleanup = "done"] ELSE run[r]]
    /\ UNCHANGED <<db, outside, lock, calls, spent>>

-----------------------------------------------------------------------------
\* Admission and the world around it.

\* #admitInitial: attempt, reservation and job in one transaction.  A handle
\* that has an assessment or an attempt is only read.
AdmitInitial(h) ==
    /\ live # 0 /\ tx = NoTx /\ db.attempt[h] = "none" /\ Admissible
    /\ db' = [db EXCEPT !.attempt[h] = "pending", !.day[h] = today, !.job[h].state = "queued"]
    /\ UNCHANGED <<outside, process, tx, run, calls, spent>>

\* Logout, another wallet, a new challenge, or an expiry.
LoseProof(h) ==
    /\ live # 0 /\ tx = NoTx /\ db.proof[h] /\ db' = [db EXCEPT !.proof[h] = FALSE]
    /\ UNCHANGED <<outside, process, tx, run, calls, spent>>
SwitchPolicy ==
    /\ tx = NoTx /\ enabled /\ enabled' = FALSE
    /\ UNCHANGED <<db, today, process, tx, run, calls, spent>>
NextDay ==
    /\ today < MaxDay /\ today' = today + 1
    /\ UNCHANGED <<db, enabled, process, tx, run, calls, spent>>

-----------------------------------------------------------------------------
\* run(): the work.

Set(r, record) == run' = [run EXCEPT ![r] = record]
Local == UNCHANGED <<db, outside, process, tx, calls, spent>>
At(r, pc) == run[r].pc = pc
\* The writer is unhealthy or the deadline has passed: the next step throws.
Stopped(r) == run[r].expired \/ run[r].epoch # live

Start(r, h) ==
    /\ At(r, "idle") /\ live # 0 /\ db.attempt[h] # "none"
    /\ Set(r, [Idle EXCEPT !.pc = "claim", !.epoch = live, !.h = h]) /\ Local

\* Only an untouched queued job is claimed.
Claimable(h) == db.attempt[h] = "pending" /\ db.job[h].state = "queued" /\ Phase(h) = "before-dispatch"
\* The claim transaction: the context is checked, an accepted result is reused,
\* an untouched queued job is claimed.  Anything else throws.
Claim(r) ==
    LET h == run[r].h
        e == run[r].epoch IN
    /\ At(r, "claim") /\ ~Stopped(r) /\ tx = NoTx
    /\ \/ /\ db.proof[h] /\ db.result[h]
          /\ Set(r, [run[r] EXCEPT !.pc = "end", !.answer = "accepted",
                                   !.reply = IF @ = "none" THEN "accepted" ELSE @]) /\ Local
       \/ /\ db.proof[h] /\ ~db.result[h] /\ enabled
          /\ Claimable(h)
          /\ Begin(r, [db EXCEPT !.job[h] = [state |-> "running", epoch |-> e, by |-> r]],
                   [run[r] EXCEPT !.pc = "fence", !.leg = "x", !.owned = TRUE], "guarded")
       \/ /\ ~db.proof[h] \/ (~db.result[h] /\ (~enabled \/ ~Claimable(h)))
          /\ Set(r, [run[r] EXCEPT !.pc = "throw"]) /\ Local

\* The chain is read again, then the fence of the leg is committed.  Without a
\* fresh witness, with a lost proof or without a permission the step throws.
BeforeDispatch(r) ==
    LET h == run[r].h
        l == run[r].leg
        e == run[r].epoch IN
    /\ At(r, "fence") /\ ~Stopped(r) /\ tx = NoTx
    /\ \/ /\ db.proof[h] /\ Dispatchable(h, l, e)
          /\ Begin(r, [db EXCEPT !.fence[h][l] = e], [run[r] EXCEPT !.pc = "call"], "guarded")
       \/ Set(r, [run[r] EXCEPT !.pc = "caught"]) /\ Local

\* slip: a call whose transport failed is made again
BadCall(r) ==
    LET h == run[r].h
        l == run[r].leg IN
    /\ At(r, "call") /\ ~run[r].expired
    /\ \E result \in {"good", "refused"}, charge \in Charges :
          /\ calls' = [calls EXCEPT ![h][l] = @ + 1] /\ spent' = spent + charge
          /\ Set(r, [run[r] EXCEPT !.pc = IF result = "refused" THEN "call" ELSE "receipt",
                                   !.result = result])
    /\ UNCHANGED <<db, outside, process, tx>>
\* The provider is called, and answers well, nonsense, or not at all; a cost is
\* known only when it answered.  The link may be lost without anyone knowing.
Call(r) ==
    LET h == run[r].h
        l == run[r].leg IN
    /\ At(r, "call") /\ ~run[r].expired
    /\ \E result \in {"good", "bad", "refused", "abstained"}, charge \in Charges, known \in BOOLEAN :
          /\ result = "abstained" => l = "grok"
          /\ result = "refused" => ~known
          /\ calls' = [calls EXCEPT ![h][l] = @ + 1] /\ spent' = spent + charge
          /\ Set(r, [run[r] EXCEPT !.pc = "receipt", !.result = result,
                                   !.cost = IF known THEN charge ELSE Unknown])
    /\ UNCHANGED <<db, outside, process, tx>>

\* recordReceipt; what is thrown after it depends on the answer.
RecordReceipt(r) ==
    LET h == run[r].h
        l == run[r].leg IN
    /\ At(r, "receipt") /\ ~Stopped(r) /\ RunningUnder(h, run[r].epoch)
    /\ Begin(r, [db EXCEPT !.receipt[h][l] = [ok |-> run[r].result # "refused", cost |-> run[r].cost, present |-> TRUE]],
             [run[r] EXCEPT !.pc = CASE run[r].result \in {"bad", "refused"} -> "caught"
                                     [] run[r].result = "abstained" -> "abstain"
                                     [] l = "x" -> "identity"
                                     [] OTHER -> "accept"], "guarded")

RecordIdentity(r) ==
    /\ At(r, "identity") /\ ~Stopped(r) /\ Success(run[r].h, "x")
    /\ RunningUnder(run[r].h, run[r].epoch)
    /\ Begin(r, [db EXCEPT !.identity[run[r].h] = TRUE],
             [run[r] EXCEPT !.pc = "fence", !.leg = "grok"], "guarded")

\* acceptAssessment: assessment, attempt and jobs in one transaction.
Accept(r) ==
    LET h == run[r].h IN
    /\ At(r, "accept") /\ ~Stopped(r) /\ RunningUnder(h, run[r].epoch)
    /\ Success(h, "grok") /\ db.identity[h]
    /\ Begin(r, [db EXCEPT !.result[h] = TRUE, !.attempt[h] = "accepted", !.job[h].state = "complete"],
             [run[r] EXCEPT !.pc = "final", !.answer = "accepted"], "guarded")

\* recordOutcome of an abstention.
Abstain(r) ==
    LET h == run[r].h IN
    /\ At(r, "abstain") /\ ~Stopped(r) /\ RunningUnder(h, run[r].epoch) /\ Evident(h, "abstained")
    /\ Begin(r, Finished(h, "abstained", r),
             [run[r] EXCEPT !.pc = "end", !.answer = "abstained", !.reply = "abstained"], "guarded")

\* The context is compared once more before the result is answered.
Answer(r) ==
    /\ At(r, "final") /\ ~Stopped(r) /\ tx = NoTx
    /\ Set(r, IF db.proof[run[r].h] THEN [run[r] EXCEPT !.pc = "end", !.reply = "accepted"]
              ELSE [run[r] EXCEPT !.pc = "caught"])
    /\ Local

\* assertActive() or the writer throws at the next step of the work.  A persist
\* that meets a writer that has failed is a storage failure.
Stops(r) ==
    /\ run[r].pc \in {"claim", "fence", "call", "receipt", "identity", "accept", "abstain", "final", "catch"}
    /\ Stopped(r) /\ (At(r, "call") => run[r].expired) /\ (tx # NoTx => tx.r # r)
    /\ Set(r, Throws(r, ~run[r].expired /\ run[r].pc \in {"receipt", "identity", "accept", "abstain"}))
    /\ Local

\* The catch of work(): an outcome that is settled, uncertain or accepted is left
\* alone; a nonsense answer with its receipt is invalid; the rest is interrupted.
Catch(r) ==
    /\ At(r, "caught")
    /\ Set(r, [run[r] EXCEPT !.pc =
                  IF run[r].expired \/ run[r].broken \/ run[r].answer = "accepted" \/ run[r].epoch # live
                  THEN "throw" ELSE "catch"])
    /\ Local
InterruptKind(h) == IF Phase(h) = "before-dispatch" THEN "blocked" ELSE "uncertain"
Settle(r) ==
    LET h == run[r].h
        kind == IF run[r].result = "bad" /\ Success(h, run[r].leg) THEN "invalid" ELSE InterruptKind(h) IN
    /\ At(r, "catch") /\ ~Stopped(r)
    /\ IF Interruptible(h, run[r].epoch)
       THEN Begin(r, Finished(h, kind, r),
                  [run[r] EXCEPT !.pc = "end", !.answer = kind, !.reply = kind], IF kind = "invalid" THEN "guarded" ELSE "plain")
       ELSE tx = NoTx /\ Set(r, [run[r] EXCEPT !.pc = "throw"]) /\ Local

\* The promise of the work rejects; the first to settle the race answers.
Rejects(r) ==
    /\ At(r, "throw")
    /\ Set(r, [run[r] EXCEPT !.pc = "end", !.reply = IF @ = "none" /\ ~run[r].expired THEN "error" ELSE @])
    /\ Local

-----------------------------------------------------------------------------
\* run(): the deadline, and a caller that cancels.

InProgress(r) == run[r].pc # "idle" /\ run[r].reply = "none" /\ ~run[r].expired
Expire(r) ==
    /\ InProgress(r)
    /\ Set(r, [run[r] EXCEPT !.expired = TRUE,
                             !.cleanup = IF run[r].broken THEN "done" ELSE "wait",
                             !.reply = IF run[r].broken THEN "error" ELSE "none"])
    /\ Local

\* await pendingClaim
ClaimSettled(r) == run[r].pc # "claim"

Owns(r) == run[r].owned

\* The cleanup interrupts the attempt this run claimed, as far as it is open.
Cleanup(r) ==
    LET h == run[r].h IN
    /\ run[r].cleanup = "wait" /\ ClaimSettled(r) /\ (Owns(r) => tx = NoTx)
    /\ IF run[r].epoch = live /\ Owns(r) /\ Interruptible(h, run[r].epoch)
       THEN Begin(r, Finished(h, InterruptKind(h), r),
                  [run[r] EXCEPT !.reply = InterruptKind(h)], "cleanup")
       ELSE /\ Local
            /\ Set(r, [run[r] EXCEPT !.cleanup = "done",
                          !.reply = IF run[r].epoch = live /\ run[r].owned /\ db.terminal[h].kind # "none"
                                    THEN db.terminal[h].kind ELSE "error"])

-----------------------------------------------------------------------------
WorkStep(r) ==
    \/ Claim(r) \/ BeforeDispatch(r) \/ Call(r) \/ RecordReceipt(r) \/ RecordIdentity(r)
    \/ Accept(r) \/ Abstain(r) \/ Answer(r) \/ Stops(r) \/ Catch(r) \/ Settle(r) \/ Rejects(r)
Next ==
    \/ Acquire \/ SendCommit \/ Acknowledge \/ GuardFails \/ LoseLink \/ SessionEnds \/ Crash
    \/ SwitchPolicy \/ NextDay
    \/ \E h \in Handles : AdmitInitial(h) \/ LoseProof(h) \/ \E r \in Runs : Start(r, h)
    \/ \E r \in Runs : WorkStep(r) \/ Expire(r) \/ Cleanup(r)
Spec == Init /\ [][Next]_vars

\* The event loop runs what is ready, the server replies or the link is lost,
\* and the timer of every run fires.
Fairness ==
    /\ WF_vars(SendCommit) /\ WF_vars(Acknowledge) /\ WF_vars(GuardFails)
    /\ \A r \in Runs : WF_vars(WorkStep(r)) /\ WF_vars(Expire(r)) /\ WF_vars(Cleanup(r))

-----------------------------------------------------------------------------
(* Money is spent at most once per leg: whatever process, run, crash or     *)
(* lost reply, a provider is called only behind a fence that is durable,    *)
(* and never twice for one attempt (repository.ts, beforeDispatch).         *)
OneCallPerLeg ==
    \A h \in Handles, l \in Legs :
        calls[h][l] <= 1 /\ (calls[h][l] = 1 => db.fence[h][l] # 0)

(* An outcome agrees with the evidence that survives a restart: its phase   *)
(* is the deepest fence, blocked means that no provider was called, and     *)
(* abstained or invalid rest on a successful receipt.                       *)
TerminalMatchesEvidence ==
    \A h \in Handles : LET t == db.terminal[h] IN t.kind # "none" =>
        /\ t.phase = Phase(h) /\ db.attempt[h] = "closed"
        /\ t.kind = "blocked" => calls[h]["x"] = 0 /\ calls[h]["grok"] = 0
        /\ t.kind = "abstained" => Success(h, "grok") /\ db.identity[h]
        /\ t.kind = "invalid" => Success(h, t.phase)

(* A result that was accepted, though its acknowledgement may be lost, is   *)
(* never closed as interrupted or uncertain, and rests on both receipts     *)
(* (assessmentWorker.ts, the catch of work()).                              *)
AcceptedIsNotInterrupted ==
    \A h \in Handles : db.result[h] =>
        /\ db.terminal[h] = NoTerminal /\ db.attempt[h] = "accepted"
        /\ Success(h, "x") /\ Success(h, "grok") /\ db.identity[h]

(* The cleanup of a deadline closes only what its own run has claimed,      *)
(* though the acknowledgement of the claim may come after the deadline.     *)
ClosedByClaimer ==
    \A h \in Handles : db.terminal[h].kind # "none" => db.terminal[h].by = db.job[h].by

(* What a run answers is durable: an acceptance, or the outcome it names.   *)
AnswersAreDurable ==
    \A r \in Runs : run[r].reply \notin {"none", "error"} =>
        IF run[r].reply = "accepted" THEN db.result[run[r].h]
        ELSE db.terminal[run[r].h].kind = run[r].reply

(* A run that ended by its deadline left no attempt running behind a        *)
(* healthy writer: it was closed, accepted, or is another run's.            *)
NothingLeftRunning ==
    \A r \in Runs : run[r].cleanup = "done" /\ run[r].epoch = live /\ tx = NoTx /\ ~run[r].broken =>
        ~(db.job[run[r].h].by = r /\ RunningUnder(run[r].h, live))

(* What providers charged, whether or not a receipt could be recorded,      *)
(* stays within the exposure of the policy.                                 *)
SpentWithinExposure == spent <= MaxExposure

(* Every call of run() ends, with an answer or an error, unless its process *)
(* dies: the deadline bounds it, and its cleanup is bounded too.            *)
Over(r) == run[r].pc = "end" /\ run[r].cleanup \in {"no", "done"}
=============================================================================
