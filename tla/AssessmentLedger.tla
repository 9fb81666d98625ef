-------------------------- MODULE AssessmentLedger --------------------------
(***************************************************************************)
(* The paid-assessment ledger of the open mint and the two callers that    *)
(* drive it: AssessmentOperations (assessmentOperations.ts), the           *)
(* AssessmentCoordinator (assessment.ts) and the assessment half of        *)
(* OpenMintService (service.ts), over the one-file-per-key store           *)
(* (storage.ts).                                                           *)
(*                                                                         *)
(* Every awaited store write is a step of its own, so that a crash, or a   *)
(* write that throws with or without having replaced the file, can fall    *)
(* between any two of them.  A handler that reads, checks and writes one   *)
(* key under its per-handle lock is one step.  Left out: timestamps,       *)
(* `reconciliation' and every other field that no code reads back to       *)
(* decide something; legacy (unversioned) attempts; the fixture mode that  *)
(* switches accounting off; the #identities and #unsaved caches, which     *)
(* need a second invocation for a handle in one process, and request()     *)
(* never starts one without an attempt that was admitted or staged; the    *)
(* request records, of which no decision about an attempt is made.         *)
(*                                                                         *)
(* The Bad... operators are slips that the mutation runs put in the place  *)
(* of the operator below them; no specification here uses them.            *)
(***************************************************************************)
EXTENDS Integers, FiniteSets, FiniteSetsExt

CONSTANTS
    Handles,        \* canonical X handles
    NoHandle,       \* "no handle": the empty head of an idle procedure
    Resolver,       \* BOOLEAN: is an X identity resolver configured?
    MaxTotal,       \* maxTotalAttempts
    MaxActive,      \* maxActiveAttempts
    DailyLimit,     \* dailyLimit
    Reserve,        \* reservationUsdTicks
    MaxExposure,    \* maxExposureUsdTicks
    XCharges,       \* what the X API may bill for one lookup
    GrokCharges,    \* what xAI may bill for one response
    MaxDay,         \* bound of the model: days 1..MaxDay
    MaxFaults       \* bound of the model: crashes plus failed writes

Unknown == -1       \* a receipt whose cost the provider did not report

ASSUME HandlesAssumption == Handles # {} /\ NoHandle \notin Handles
ASSUME FlagAssumption == Resolver \in BOOLEAN
ASSUME LimitAssumption ==
    /\ MaxTotal \in Nat \ {0} /\ MaxActive \in Nat \ {0} /\ DailyLimit \in Nat \ {0}
    /\ Reserve \in Nat \ {0} /\ MaxExposure \in Nat
    /\ MaxDay \in Nat \ {0} /\ MaxFaults \in Nat
\* The reservation is an honest upper bound of one attempt's two calls.
ASSUME ChargeAssumption ==
    /\ XCharges \subseteq Nat /\ GrokCharges \subseteq Nat
    /\ XCharges # {} /\ GrokCharges # {}
    /\ \A x \in XCharges, g \in GrokCharges : x + g <= Reserve

Days  == 1 .. MaxDay
Legs  == {"x", "grok"}
\* A handle has one attempt of its own and at most one staged by an operator.
Attempts == Handles \X {"first", "recovery"}
First(h)    == <<h, "first">>
Recovery(h) == <<h, "recovery">>

Outcomes == {"none", "pending", "accepted", "abstained", "invalid",
             "failed-before-dispatch", "failed-after-response", "uncertain-after-dispatch"}
Categories == {"none", "identity", "provider", "storage", "interrupted"}
\* "none" is a key that was never written.
AttemptRecords == [outcome : Outcomes, x : {"no", "sent", "verified"}, grok : BOOLEAN,
                   linked : BOOLEAN, category : Categories,
                   artifact : {"pending", "prepared", "failed"}]
Blank == [outcome |-> "none", x |-> "no", grok |-> FALSE, linked |-> FALSE,
          category |-> "none", artifact |-> "pending"]
Fresh == [Blank EXCEPT !.outcome = "pending"]

\* kind: what came back; cost: what the receipt says it cost.
XReplies    == {"verified", "http402", "http-error", "bad-identity", "silent"}
GrokReplies == {"accepted", "abstained", "invalid", "http-error", "silent"}
Receipts == [kind : XReplies \cup GrokReplies, cost : {Unknown} \cup XCharges \cup GrokCharges]
NoReceipt == [kind |-> "none", cost |-> Unknown]
HasStatus(r) == r.kind \notin {"none", "silent"}      \* httpStatus !== undefined

JobSteps == {"idle", "x", "xcall", "xreceipt", "xverify", "grok", "gcall", "greceipt",
             "gstamp", "outcome", "persist", "link", "fail", "fail-storage"}
\* #complete runs for the request that started the job and for later requests
\* that reuse the saved result; the model runs one of each at a time.
Requests == {"own", "later"}
CompletionSteps == {"idle", "reconcile", "artifact", "prepared", "failed"}
AdmissionSteps == {"idle", "account", "budget", "daily", "attempt", "request", "start"}
NoAttempt == <<NoHandle, "first">>

VARIABLES
    phase,          \* the one process that holds writer.lock
    todo,           \* handles recoverInterruptedRequests has yet to visit
    generation,     \* generationEnabled(): the kill switch
    today,          \* the day the clock shows
    budget,         \* budget:paid_v1, the set of reserved attempts
    day,            \* admittedAt of a reservation, as a day
    daily,          \* budget:<day>, the numeric counters
    saved,          \* attempt:<handle> and recoveryattempt:<id>
    receipt,        \* receipt:<id>_x and receipt:<id>_grok
    canonical,      \* the published assessment of a handle: the attempt it came from
    audit, link, head,  \* recovery:<id>, recoverylink:<source>, recoveryhead:<handle>
    adm,            \* the admission in progress, under its lock
    job,            \* #startAssessment of a handle; #assessing holds the busy ones
    completion,     \* #complete, per handle and request
    faults,         \* crashes and failed writes so far
    calls,          \* history: provider calls made, per attempt and leg
    charge          \* history: what the providers really billed, per attempt

ledger   == <<budget, day, daily, saved, receipt, canonical>>
recovery == <<audit, link, head>>
world    == <<calls, charge>>
vars == <<phase, todo, generation, today, ledger, recovery, adm, job, completion, faults, world>>

NoAudit == [handle |-> NoHandle, billing |-> 0, day |-> 1, before |-> 0]
IdleAdm == [pc |-> "idle", handle |-> NoHandle, run |-> "first", day |-> 1, count |-> 0,
            seen |-> [a \in Attempts |-> Blank]]
IdleJob == [pc |-> "idle", run |-> "first", reply |-> NoReceipt]

Init ==
    /\ phase = "down" /\ todo = {} /\ generation = TRUE /\ today = 1
    /\ budget = {} /\ day = [a \in Attempts |-> 1] /\ daily = [d \in Days |-> 0]
    /\ saved = [a \in Attempts |-> Blank]
    /\ receipt = [a \in Attempts |-> [l \in Legs |-> NoReceipt]]
    /\ canonical = [h \in Handles |-> NoAttempt]
    /\ audit = NoAudit /\ link = {} /\ head = {}
    /\ adm = IdleAdm /\ job = [h \in Handles |-> IdleJob]
    /\ completion = [h \in Handles |-> [q \in Requests |-> "idle"]] /\ faults = 0
    /\ calls = [a \in Attempts |-> [l \in Legs |-> 0]]
    /\ charge = [a \in Attempts |-> 0]
-----------------------------------------------------------------------------
(* FileKeyValueStore.put: temporary file, rename, directory sync.  It can    *)
(* throw before the rename ("lost") or after it ("kept").                    *)

PutResults == {"ok"} \cup (IF faults < MaxFaults THEN {"lost", "kept"} ELSE {})
Faulty(w) == faults' = IF w = "ok" THEN faults ELSE faults + 1
Put(w, old, new) == IF w = "lost" THEN old ELSE new

\* get(): the committed recovery attempt, once its head is written.
Current(h) == IF h \in head THEN Recovery(h) ELSE First(h)
Run(h) == <<h, job[h].run>>
\* #save and execution's run() refuse an attempt whose recovery link exists.
Writable(a) == ~(a[2] = "first" /\ a[1] \in link)

\* #reconciliation: the operator's billing replaces the unknown charge.
Reconciled(a) == a[2] = "first" /\ a[1] \in link /\ audit.handle = a[1]

\* #accounting, for a saved attempt record s.
Dispatched(s) == (IF s.x # "no" THEN {"x"} ELSE {}) \cup (IF s.grok THEN {"grok"} ELSE {})
Receipted(a)  == {l \in Legs : receipt[a][l] # NoReceipt}
Priced(a)     == {l \in Legs : receipt[a][l].cost # Unknown}
Actual(a, s) ==
    /\ Dispatched(s) # {} /\ s.outcome # "pending"
    /\ Receipted(a) = Dispatched(s) /\ Receipted(a) \subseteq Priced(a)
Known(a) == MapThenSumSet(LAMBDA l : receipt[a][l].cost, Priced(a))
Exposure(a, s) ==
    IF Reconciled(a) THEN audit.billing
    ELSE IF Actual(a, s) \/ Known(a) > Reserve THEN Known(a) ELSE Reserve

\* #recoveryDispatchAllowed, checked at each dispatch of a staged attempt.
RecoveryDispatchAllowed(a) == a[2] = "recovery" => audit.billing + Reserve <= MaxExposure

\* stagedRecovery: completely staged, and nothing dispatched yet.
Staged(h) == h \in head /\ saved[Recovery(h)] = Fresh
-----------------------------------------------------------------------------
(* OpenMintService.request and AssessmentOperations.admit.  The locks        *)
(* "request-budget" and "admission" let one admission run at a time.         *)

\* The larger of the counter and the reservations: either may be behind.
UsedToday == Max({daily[today], Cardinality({a \in budget : day[a] = today})})

\* "An interrupted operator write must finish before unrelated admissions."
NoOpenStaging == audit # NoAudit => audit.handle \in head

\* A new browser request for a handle without result or live job, admitted as
\* far as the limits that depend on the budget and the attempts alone.
RequestAdmission(h) ==
    /\ phase = "serving" /\ adm.pc = "idle"
    /\ canonical[h] = NoAttempt /\ job[h].pc = "idle"
    /\ generation
    /\ saved[Current(h)].outcome = "none"
    /\ NoOpenStaging
    /\ First(h) \notin budget
    /\ \A a \in Attempts : saved[a].outcome # "none" => a \in budget
    /\ Max({Cardinality(budget), Cardinality({a \in Attempts : saved[a].outcome # "none"})}) < MaxTotal
    /\ UsedToday < DailyLimit
    /\ adm' = [pc |-> "account", handle |-> h, run |-> "first", day |-> today,
               count |-> daily[today], seen |-> saved]
    /\ UNCHANGED <<phase, todo, generation, today, ledger, recovery, job, completion, faults, world>>

\* The explicit request that consumes an operator's staged recovery.
RequestRecovery(h) ==
    /\ phase = "serving" /\ adm.pc = "idle"
    /\ canonical[h] = NoAttempt /\ job[h].pc = "idle"
    /\ generation /\ Staged(h) /\ RecoveryDispatchAllowed(Recovery(h))
    /\ adm' = [IdleAdm EXCEPT !.pc = "request", !.handle = h, !.run = "recovery"]
    /\ UNCHANGED <<phase, todo, generation, today, ledger, recovery, job, completion, faults, world>>

\* The loop of admit over the reservations.  It works on the attempts read at
\* the start, while receipts are read now and may be younger.
Accountable ==
    \A a \in budget :
        /\ adm.seen[a].outcome # "none"
        /\ Receipted(a) \subseteq Dispatched(adm.seen[a])
        /\ adm.seen[a].outcome = "pending" \/ Actual(a, adm.seen[a]) \/ Reconciled(a)
BadActiveDispatched ==
    Cardinality({a \in budget : adm.seen[a].outcome = "pending" /\ Dispatched(adm.seen[a]) # {}})
ActiveCount == Cardinality({a \in budget : adm.seen[a].outcome = "pending"})
TotalExposure == MapThenSumSet(LAMBDA a : Exposure(a, adm.seen[a]), budget)
Affordable == TotalExposure + Reserve <= MaxExposure

AdmitAccount ==
    /\ adm.pc = "account"
    /\ Accountable /\ ActiveCount < MaxActive /\ Affordable
    /\ adm' = [adm EXCEPT !.pc = "budget", !.seen = IdleAdm.seen]
    /\ UNCHANGED <<phase, todo, generation, today, ledger, recovery, job, completion, faults, world>>

AdmitRefuse ==
    /\ adm.pc = "account"
    /\ ~(Accountable /\ ActiveCount < MaxActive /\ Affordable)
    /\ adm' = IdleAdm
    /\ UNCHANGED <<phase, todo, generation, today, ledger, recovery, job, completion, faults, world>>

\* "Reserve first": budget, daily counter, attempt, then the request record.
AdmitTo(w, next) == adm' = IF w = "ok" THEN [adm EXCEPT !.pc = next] ELSE IdleAdm

AdmitBudget ==
    /\ adm.pc = "budget"
    /\ \E w \in PutResults :
        /\ budget' = Put(w, budget, budget \cup {First(adm.handle)})
        /\ day' = Put(w, day, [day EXCEPT ![First(adm.handle)] = adm.day])
        /\ AdmitTo(w, "daily") /\ Faulty(w)
    /\ UNCHANGED <<phase, todo, generation, today, daily, saved, receipt, canonical,
                   recovery, job, completion, world>>

AdmitDaily ==
    /\ adm.pc = "daily"
    /\ \E w \in PutResults :
        /\ daily' = Put(w, daily, [daily EXCEPT ![adm.day] = adm.count + 1])
        /\ AdmitTo(w, "attempt") /\ Faulty(w)
    /\ UNCHANGED <<phase, todo, generation, today, budget, day, saved, receipt, canonical,
                   recovery, job, completion, world>>

AdmitAttempt ==
    /\ adm.pc = "attempt"
    /\ \E w \in PutResults :
        /\ saved' = Put(w, saved, [saved EXCEPT ![First(adm.handle)] = Fresh])
        /\ AdmitTo(w, "request") /\ Faulty(w)
    /\ UNCHANGED <<phase, todo, generation, today, budget, day, daily, receipt, canonical,
                   recovery, job, completion, world>>

PutRequest ==
    /\ adm.pc = "request"
    /\ \E w \in PutResults : AdmitTo(w, "start") /\ Faulty(w)
    /\ UNCHANGED <<phase, todo, generation, today, ledger, recovery, job, completion, world>>

\* The session is compared again after those writes.
StartAssessment ==
    /\ adm.pc = "start"
    /\ job' = [job EXCEPT ![adm.handle] =
                  [IdleJob EXCEPT !.pc = IF Resolver THEN "x" ELSE "grok", !.run = adm.run]]
    /\ adm' = IdleAdm
    /\ UNCHANGED <<phase, todo, generation, today, ledger, recovery, completion, faults, world>>

WalletChanged ==
    /\ adm.pc = "start"
    /\ adm' = IdleAdm
    /\ UNCHANGED <<phase, todo, generation, today, ledger, recovery, job, completion, faults, world>>
-----------------------------------------------------------------------------
(* The job of #startAssessment: coordinator, providers and execution().      *)

\* #save of the running attempt; a put that throws ends the job.
Save(h, record, next) ==
    \E w \in PutResults :
        /\ saved' = Put(w, saved, [saved EXCEPT ![Run(h)] = record])
        /\ job' = [job EXCEPT ![h].pc = IF w = "ok" THEN next ELSE "fail-storage"]
        /\ Faulty(w)
        /\ UNCHANGED <<phase, todo, generation, today, budget, day, daily, receipt,
                       canonical, recovery, adm, completion, world>>

\* The common guard of execution()'s writes: still the current attempt.
Live(a) == Current(a[1]) = a /\ Writable(a)

MayDispatch(a, leg) ==
    /\ Live(a) /\ saved[a].outcome = "pending" /\ ~saved[a].grok
    /\ IF leg = "x" THEN saved[a].x = "no" ELSE saved[a].x \in {"no", "verified"}
    /\ generation /\ RecoveryDispatchAllowed(a)

BeforeX(h) ==
    /\ job[h].pc = "x" /\ MayDispatch(Run(h), "x")
    /\ Save(h, [saved[Run(h)] EXCEPT !.x = "sent"], "xcall")

BeforeGrok(h) ==
    /\ job[h].pc = "grok" /\ MayDispatch(Run(h), "grok")
    /\ Save(h, [saved[Run(h)] EXCEPT !.grok = TRUE], "gcall")

BadRefuseX(h) ==
    /\ job[h].pc = "x" /\ ~MayDispatch(Run(h), "x")
    /\ job' = [job EXCEPT ![h].pc = "fail"]
    /\ UNCHANGED <<phase, todo, generation, today, ledger, recovery, adm, completion,
                   faults, world>>
RefuseDispatch(h) ==
    /\ job[h].pc \in Legs /\ ~MayDispatch(Run(h), job[h].pc)
    /\ job' = [job EXCEPT ![h].pc = "fail"]
    /\ UNCHANGED <<phase, todo, generation, today, ledger, recovery, adm, completion,
                   faults, world>>

\* The provider acts, and may bill, whether or not its answer arrives.
Call(h, leg, bill, reply, next) ==
    /\ calls' = [calls EXCEPT ![Run(h)][leg] = @ + 1]
    /\ charge' = [charge EXCEPT ![Run(h)] = @ + bill]
    /\ job' = [job EXCEPT ![h].pc = next, ![h].reply = reply]
    /\ UNCHANGED <<phase, todo, generation, today, ledger, recovery, adm, completion, faults>>

\* A receipt of the X lookup never has a cost.
CallX(h) ==
    /\ job[h].pc = "xcall"
    /\ \E bill \in XCharges, kind \in XReplies :
          Call(h, "x", bill, [kind |-> kind, cost |-> Unknown], "xreceipt")

CallGrok(h) ==
    /\ job[h].pc = "gcall"
    /\ \E bill \in GrokCharges, kind \in GrokReplies : \E cost \in {Unknown, bill} :
          /\ kind = "silent" => cost = Unknown
          /\ Call(h, "grok", bill, [kind |-> kind, cost |-> cost], "greceipt")

\* recordReceipt: one file per leg, never rewritten.
RecordReceipt(h, leg, next) ==
    \E w \in PutResults :
        /\ Live(Run(h)) /\ leg \in Dispatched(saved[Run(h)])
        /\ receipt[Run(h)][leg] \in {NoReceipt, job[h].reply}
        /\ receipt' = Put(w, receipt, [receipt EXCEPT ![Run(h)][leg] = job[h].reply])
        /\ job' = [job EXCEPT ![h].pc = IF w = "ok" THEN next ELSE "fail-storage"]
        /\ Faulty(w)
        /\ UNCHANGED <<phase, todo, generation, today, budget, day, daily, saved,
                       canonical, recovery, adm, completion, world>>

ReceiptX(h) ==
    /\ job[h].pc = "xreceipt"
    /\ RecordReceipt(h, "x", IF job[h].reply.kind = "verified" THEN "xverify" ELSE "fail")

VerifyX(h) ==
    /\ job[h].pc = "xverify" /\ Live(Run(h))
    /\ saved[Run(h)].outcome = "pending" /\ saved[Run(h)].x = "sent" /\ ~saved[Run(h)].grok
    /\ Save(h, [saved[Run(h)] EXCEPT !.x = "verified"], "grok")

ReceiptGrok(h) ==
    /\ job[h].pc = "greceipt"
    /\ RecordReceipt(h, "grok", IF HasStatus(job[h].reply) THEN "gstamp" ELSE "fail")

\* responseReceivedAt, the second write of recordReceipt.
StampGrok(h) ==
    /\ job[h].pc = "gstamp"
    /\ Save(h, saved[Run(h)],
            IF job[h].reply.kind \in {"accepted", "abstained", "invalid"} THEN "outcome" ELSE "fail")

WithOutcome(a, kind) == [saved[a] EXCEPT !.outcome = kind]

\* recordOutcome; for an invalid response the service makes the call, and
\* ignores an error of it, after the coordinator threw.
RecordOutcome(h) ==
    /\ job[h].pc = "outcome" /\ Live(Run(h))
    /\ saved[Run(h)].outcome = "pending" /\ saved[Run(h)].grok
    /\ LET kind == job[h].reply.kind IN
       \E w \in PutResults :
          /\ saved' = Put(w, saved, [saved EXCEPT ![Run(h)] = WithOutcome(Run(h), kind)])
          /\ job' = [job EXCEPT ![h].pc = IF kind = "accepted" /\ w = "ok" THEN "persist"
                                          ELSE IF kind # "invalid" /\ w # "ok" THEN "fail-storage"
                                          ELSE "fail"]
          /\ Faulty(w)
    /\ UNCHANGED <<phase, todo, generation, today, budget, day, daily, receipt, canonical,
                   recovery, adm, completion, world>>

\* repository.putIfAbsent: the result that is there stays.
Persist(h) ==
    /\ job[h].pc = "persist"
    /\ \E w \in PutResults :
          /\ canonical' = Put(w, canonical,
                              [canonical EXCEPT ![h] = IF @ = NoAttempt THEN Run(h) ELSE @])
          /\ job' = [job EXCEPT ![h].pc = IF w = "ok" THEN "link" ELSE "fail-storage"]
          /\ Faulty(w)
    /\ UNCHANGED <<phase, todo, generation, today, budget, day, daily, saved, receipt,
                   recovery, adm, completion, world>>

\* The job settles; #complete of its request goes on.
Settle(h, next) ==
    /\ job' = [job EXCEPT ![h] = IdleJob]
    /\ completion' = [completion EXCEPT ![h]["own"] = next]

\* assessmentPersisted, which a later request may have done already.
Link(h) ==
    /\ job[h].pc = "link" /\ Live(Run(h)) /\ saved[Run(h)].outcome = "accepted"
    /\ \/ saved[Run(h)].linked /\ Settle(h, "reconcile") /\ UNCHANGED <<saved, faults>>
       \/ /\ ~saved[Run(h)].linked
          /\ \E w \in PutResults :
                /\ saved' = Put(w, saved, [saved EXCEPT ![Run(h)].linked = TRUE])
                /\ IF w = "ok" THEN Settle(h, "reconcile")
                   ELSE job' = [job EXCEPT ![h].pc = "fail-storage"] /\ UNCHANGED completion
                /\ Faulty(w)
    /\ UNCHANGED <<phase, todo, generation, today, budget, day, daily, receipt, canonical,
                   recovery, adm, world>>

\* AssessmentOperations.fail: a pending attempt becomes terminal, for good.
FailureOutcome(a) ==
    LET last == IF saved[a].grok THEN "grok" ELSE "x" IN
    IF Dispatched(saved[a]) = {} THEN "failed-before-dispatch"
    ELSE IF HasStatus(receipt[a][last]) THEN "failed-after-response"
    ELSE "uncertain-after-dispatch"
BadFailAnything(a, category) ==
    [saved[a] EXCEPT !.category = category, !.outcome = FailureOutcome(a)]
Failure(a, category) ==
    [saved[a] EXCEPT !.category = IF @ = "none" THEN category ELSE @,
                     !.outcome = IF @ = "pending" THEN FailureOutcome(a) ELSE @]

JobFailed(h) ==
    /\ job[h].pc \in {"fail", "fail-storage"}
    /\ LET a == Run(h)
           category == IF job[h].pc = "fail-storage" \/ saved[a].outcome = "accepted" THEN "storage"
                       ELSE IF saved[a].x = "sent" THEN "identity" ELSE "provider"
       IN  \E w \in PutResults :
             /\ saved' = Put(w, saved, [saved EXCEPT ![a] = Failure(a, category)])
             /\ Faulty(w)
    /\ Settle(h, "failed")
    /\ UNCHANGED <<phase, todo, generation, today, budget, day, daily, receipt, canonical,
                   recovery, adm, world>>
-----------------------------------------------------------------------------
(* OpenMintService.#complete, after the job or over the saved result.        *)

\* A later request for a handle whose result is published.
RequestReuse(h) ==
    /\ phase = "serving" /\ adm.pc = "idle"
    /\ canonical[h] # NoAttempt /\ completion[h]["later"] = "idle"
    /\ completion' = [completion EXCEPT ![h]["later"] = "reconcile"]
    /\ UNCHANGED <<phase, todo, generation, today, ledger, recovery, adm, job, faults, world>>

Go(h, q, next) == completion' = [completion EXCEPT ![h][q] = next]
CompletionFrame == UNCHANGED <<phase, todo, generation, today, budget, day, daily, receipt,
                               canonical, recovery, adm, job, world>>

\* "A saved result can outlive a failed post-persistence ledger write."
Reconcile(h, q) ==
    /\ completion[h][q] = "reconcile"
    /\ LET a == Current(h) IN
       IF saved[a].outcome = "accepted" /\ ~saved[a].linked
       THEN /\ Live(a)
            /\ \E w \in PutResults :
                  /\ saved' = Put(w, saved, [saved EXCEPT ![a].linked = TRUE])
                  /\ Go(h, q, IF w = "ok" THEN "artifact" ELSE "failed") /\ Faulty(w)
       ELSE Go(h, q, "artifact") /\ UNCHANGED <<saved, faults>>
    /\ CompletionFrame

\* Rendering and storing the artifact, which may throw.
PrepareArtifact(h, q) ==
    /\ completion[h][q] = "artifact"
    /\ \E w \in PutResults :
          Go(h, q, IF w = "ok" THEN "prepared" ELSE "failed") /\ Faulty(w)
    /\ UNCHANGED saved /\ CompletionFrame

\* artifactOutcome: "prepared" is never taken back, "failed" may be.
ArtifactPrepared(h, q) ==
    /\ completion[h][q] = "prepared"
    /\ LET a == Current(h) IN
       IF ~saved[a].linked
       THEN Go(h, q, "failed") /\ UNCHANGED <<saved, faults>>
       ELSE IF saved[a].artifact = "prepared"
       THEN Go(h, q, "idle") /\ UNCHANGED <<saved, faults>>
       ELSE \E w \in PutResults :
               /\ saved' = Put(w, saved, [saved EXCEPT ![a].artifact = "prepared"])
               /\ Go(h, q, IF w = "ok" THEN "idle" ELSE "failed") /\ Faulty(w)
    /\ CompletionFrame

ArtifactFailed(h, q) ==
    /\ completion[h][q] = "failed" /\ Go(h, q, "idle")
    /\ LET a == Current(h) IN
       IF canonical[h] = NoAttempt \/ ~saved[a].linked \/ saved[a].artifact # "pending"
       THEN UNCHANGED <<saved, faults>>
       ELSE \E w \in PutResults :
               /\ saved' = Put(w, saved, [saved EXCEPT ![a].artifact = "failed"])
               /\ Faulty(w)
    /\ CompletionFrame
-----------------------------------------------------------------------------
(* Processes: the server, started after recoverInterruptedRequests, and the  *)
(* offline recovery command.  writer.lock admits one of them.                *)

Busy == adm.pc # "idle" \/ \E h \in Handles : job[h].pc # "idle"
                              \/ \E q \in Requests : completion[h][q] # "idle"

\* Nothing of an admission, a job or a completion outlives its process.
Exit ==
    /\ phase' = "down" /\ todo' = {}
    /\ adm' = IdleAdm /\ job' = [h \in Handles |-> IdleJob]
    /\ completion' = [h \in Handles |-> [q \in Requests |-> "idle"]]
    /\ UNCHANGED <<generation, today, ledger, recovery, world>>

Crash == phase # "down" /\ faults < MaxFaults /\ faults' = faults + 1 /\ Exit

\* The graceful shutdown waits for the jobs.
Stop == phase = "serving" /\ ~Busy /\ UNCHANGED faults /\ Exit

Start ==
    /\ phase = "down" /\ phase' = "starting" /\ todo' = Handles
    /\ UNCHANGED <<generation, today, ledger, recovery, adm, job, completion, faults, world>>

Interrupted(h) ==
    /\ saved[Current(h)].outcome = "pending"
       \/ (saved[Current(h)].outcome = "accepted" /\ ~saved[Current(h)].linked)
    /\ ~Staged(h)

\* recoverInterruptedRequests, one attempt at a time; an error of it ends main.
RecoverHandle(h) ==
    /\ phase = "starting" /\ h \in todo
    /\ IF Interrupted(h)
       THEN \E w \in PutResults :
              /\ saved' = Put(w, saved, [saved EXCEPT ![Current(h)] =
                                            Failure(Current(h), "interrupted")])
              /\ IF w = "ok" THEN todo' = todo \ {h} /\ UNCHANGED phase
                 ELSE todo' = {} /\ phase' = "down"
              /\ Faulty(w)
       ELSE todo' = todo \ {h} /\ UNCHANGED <<phase, saved, faults>>
    /\ UNCHANGED <<generation, today, budget, day, daily, receipt, canonical, recovery, adm,
                   job, completion, world>>

Serve ==
    /\ phase = "starting" /\ todo = {} /\ phase' = "serving"
    /\ UNCHANGED <<todo, generation, today, ledger, recovery, adm, job, completion, faults, world>>

OperatorBegin ==
    /\ phase = "down" /\ phase' = "operator"
    /\ UNCHANGED <<todo, generation, today, ledger, recovery, adm, job, completion, faults, world>>

OperatorEnd ==
    /\ phase = "operator" /\ phase' = "down"
    /\ UNCHANGED <<todo, generation, today, ledger, recovery, adm, job, completion, faults, world>>

\* The owner's kill switch.
ToggleGeneration ==
    /\ generation' = ~generation
    /\ UNCHANGED <<phase, todo, today, ledger, recovery, adm, job, completion, faults, world>>

NextDay ==
    /\ today < MaxDay /\ today' = today + 1
    /\ UNCHANGED <<phase, todo, generation, ledger, recovery, adm, job, completion, faults, world>>
-----------------------------------------------------------------------------
(* stageRecovery: five writes in order, the last of them the commit point.   *)
(* The command can be run again and goes on where the disk says it stopped.  *)

\* #sourceEvidence: the X API refused the lookup with 402 and nothing else ran.
BadAnyFailure(h) == saved[First(h)].outcome = "failed-after-response" /\ First(h) \in budget
Evidence(h) ==
    /\ LET s == saved[First(h)] IN
          /\ s.outcome = "failed-after-response" /\ s.category = "identity"
          /\ s.x = "sent" /\ ~s.grok /\ ~s.linked /\ s.artifact = "pending"
    /\ Receipted(First(h)) = {"x"} /\ receipt[First(h)]["x"].kind = "http402"
    /\ First(h) \in budget

\* The operator reads the bill of the refused lookup from the provider.
Reviewable(h) ==
    /\ Evidence(h) /\ audit = NoAudit
    /\ budget = {First(h)} /\ {a \in Attempts : saved[a].outcome # "none"} = {First(h)}
    /\ charge[First(h)] + Reserve <= MaxExposure

StageFrame == UNCHANGED <<todo, generation, today, receipt, canonical, adm, job, completion, world>>
\* A write that throws ends the command.
Staging(w) ==
    /\ Faulty(w) /\ StageFrame
    /\ phase' = IF w = "ok" THEN phase ELSE "down"
Resuming(h) == phase = "operator" /\ audit.handle = h /\ h \notin head /\ Evidence(h)

StageAudit(h) ==
    /\ phase = "operator" /\ Reviewable(h)
    /\ \E w \in PutResults :
          /\ audit' = Put(w, audit, [handle |-> h, billing |-> charge[First(h)], day |-> today,
                                     before |-> daily[today]])
          /\ Staging(w)
    /\ UNCHANGED <<budget, day, daily, saved, link, head>>

StageLink(h) ==
    /\ Resuming(h) /\ h \notin link
    /\ \E w \in PutResults : link' = Put(w, link, link \cup {h}) /\ Staging(w)
    /\ UNCHANGED <<budget, day, daily, saved, audit, head>>

StageBudget(h) ==
    /\ Resuming(h) /\ h \in link /\ budget = {First(h)}
    /\ \E w \in PutResults :
          /\ budget' = Put(w, budget, budget \cup {Recovery(h)})
          /\ day' = Put(w, day, [day EXCEPT ![Recovery(h)] = audit.day])
          /\ Staging(w)
    /\ UNCHANGED <<daily, saved, recovery>>

Appended(h) == h \in link /\ budget = {First(h), Recovery(h)}

StageDaily(h) ==
    /\ Resuming(h) /\ Appended(h) /\ daily[audit.day] = audit.before
    /\ \E w \in PutResults :
          daily' = Put(w, daily, [daily EXCEPT ![audit.day] = audit.before + 1]) /\ Staging(w)
    /\ UNCHANGED <<budget, day, saved, recovery>>

StageAttempt(h) ==
    /\ Resuming(h) /\ Appended(h) /\ daily[audit.day] = audit.before + 1
    /\ saved[Recovery(h)].outcome = "none"
    /\ \E w \in PutResults :
          saved' = Put(w, saved, [saved EXCEPT ![Recovery(h)] = Fresh]) /\ Staging(w)
    /\ UNCHANGED <<budget, day, daily, recovery>>

StageHead(h) ==
    /\ Resuming(h) /\ Appended(h) /\ daily[audit.day] = audit.before + 1
    /\ saved[Recovery(h)] = Fresh
    /\ \E w \in PutResults : head' = Put(w, head, head \cup {h}) /\ Staging(w)
    /\ UNCHANGED <<budget, day, daily, saved, audit, link>>
-----------------------------------------------------------------------------
Admission ==
    \/ \E h \in Handles : RequestAdmission(h) \/ RequestRecovery(h)
    \/ AdmitAccount \/ AdmitRefuse \/ AdmitBudget \/ AdmitDaily \/ AdmitAttempt
    \/ PutRequest \/ StartAssessment \/ WalletChanged

Job(h) ==
    \/ BeforeX(h) \/ CallX(h) \/ ReceiptX(h) \/ VerifyX(h)
    \/ BeforeGrok(h) \/ CallGrok(h) \/ ReceiptGrok(h) \/ StampGrok(h)
    \/ RefuseDispatch(h) \/ RecordOutcome(h) \/ Persist(h) \/ Link(h) \/ JobFailed(h)

Complete(h, q) ==
    \/ Reconcile(h, q) \/ PrepareArtifact(h, q) \/ ArtifactPrepared(h, q) \/ ArtifactFailed(h, q)

Lifecycle ==
    \/ Crash \/ Stop \/ Start \/ Serve \/ (\E h \in Handles : RecoverHandle(h))
    \/ OperatorBegin \/ OperatorEnd \/ ToggleGeneration \/ NextDay

Stage(h) ==
    \/ StageAudit(h) \/ StageLink(h) \/ StageBudget(h) \/ StageDaily(h) \/ StageAttempt(h)
    \/ StageHead(h)

Next ==
    \/ Admission
    \/ \E h \in Handles : Job(h) \/ RequestReuse(h) \/ Stage(h)
    \/ \E h \in Handles, q \in Requests : Complete(h, q)
    \/ Lifecycle

Spec == Init /\ [][Next]_vars

\* The event loop: what was begun goes on, and a provider call ends (each
\* fetch has a timeout).  Nobody has to ask, to restart or to run a command.
Fairness ==
    /\ \A h \in Handles : WF_vars(Job(h)) /\ \A q \in Requests : WF_vars(Complete(h, q))
    /\ WF_vars(AdmitAccount \/ AdmitRefuse \/ AdmitBudget \/ AdmitDaily \/ AdmitAttempt
               \/ PutRequest \/ StartAssessment)
    /\ WF_vars(Serve) /\ \A h \in Handles : WF_vars(RecoverHandle(h))
-----------------------------------------------------------------------------
Audits == [handle : Handles \cup {NoHandle}, billing : Nat, day : Days, before : Nat]
Admissions == [pc : AdmissionSteps, handle : Handles \cup {NoHandle}, run : {"first", "recovery"},
               day : Days, count : Nat, seen : [Attempts -> AttemptRecords]]
Jobs == [pc : JobSteps, run : {"first", "recovery"}, reply : Receipts \cup {NoReceipt}]
TypeOK ==
    /\ phase \in {"down", "starting", "serving", "operator"} /\ todo \subseteq Handles
    /\ generation \in BOOLEAN /\ today \in Days
    /\ budget \subseteq Attempts /\ day \in [Attempts -> Days] /\ daily \in [Days -> Nat]
    /\ saved \in [Attempts -> AttemptRecords]
    /\ receipt \in [Attempts -> [Legs -> Receipts \cup {NoReceipt}]]
    /\ canonical \in [Handles -> Attempts \cup {NoAttempt}]
    /\ audit \in Audits
    /\ link \subseteq Handles /\ head \subseteq Handles
    /\ adm \in Admissions /\ job \in [Handles -> Jobs]
    /\ completion \in [Handles -> [Requests -> CompletionSteps]]
    /\ faults \in 0 .. MaxFaults
    /\ calls \in [Attempts -> [Legs -> Nat]] /\ charge \in [Attempts -> Nat]

\* What is on disk reads back: validateAssessmentAttempt, validateBudget and
\* #receipts accept it.  One record they reject makes every later admission
\* and the next start-up throw ASSESSMENT_OPERATIONS_CORRUPT.
ValidRecord(s) ==
    /\ s.grok => s.x # "sent"
    /\ s.outcome \in {"accepted", "abstained", "invalid"} => s.grok
    /\ s.outcome = "failed-before-dispatch" => Dispatched(s) = {}
    /\ s.linked => s.outcome = "accepted"
    /\ s.artifact # "pending" => s.linked
RecordsReadBack ==
    /\ \A a \in Attempts : ValidRecord(saved[a]) /\ Receipted(a) \subseteq Dispatched(saved[a])
    /\ \A h \in Handles : Recovery(h) \in budget => First(h) \in budget

\* "Retry persistence, never a second paid assessment": each leg of an attempt
\* is called at most once, across restarts and failed writes, and a handle
\* gets at most one paid Grok response even when its attempt was recovered.
OneCallPerLeg ==
    /\ \A a \in Attempts, l \in Legs : calls[a][l] <= 1
    /\ \A h \in Handles : calls[First(h)]["grok"] + calls[Recovery(h)]["grok"] <= 1

\* "Reserve first. A crash/write failure can consume a slot without a call,
\* never hide a call": whoever reads only the disk knows of every call.
CallsOnRecord ==
    \A a \in Attempts, l \in Legs :
        calls[a][l] > 0 => a \in budget /\ l \in Dispatched(saved[a])

\* What the providers billed in all never exceeds maxExposureUsdTicks, although
\* admission only sees reservations, receipts and an operator's reconciliation.
SpendWithinExposure == MapThenSumSet(LAMBDA a : charge[a], Attempts) <= MaxExposure

\* The identity lookup is repeated only under a recovery whose source was
\* refused by the provider with 402 and never reached Grok.
RetryNeedsRejection ==
    \A h \in Handles, l \in Legs :
        calls[Recovery(h)][l] > 0 =>
            /\ h \in head /\ audit.handle = h
            /\ receipt[First(h)]["x"].kind = "http402" /\ calls[First(h)]["grok"] = 0

\* maxActiveAttempts holds of the reservations that may still cost money: those
\* pending on disk, and those whose attempt is about to be written.  The one
\* allowed on top is the recovery of the only attempt there was.
PendingWithinActiveLimit ==
    Cardinality({a \in budget : \/ saved[a].outcome = "pending"
                                \/ adm.pc \in {"daily", "attempt"} /\ a = First(adm.handle)})
        <= MaxActive

\* dailyLimit bounds what browsers can start on one day, also when the counter
\* of the day and the reservations disagree after a failed write.
DailyLimitHolds ==
    \A d \in Days : Cardinality({a \in budget : a[2] = "first" /\ day[a] = d}) <= DailyLimit

\* A reference to an accepted assessment in the ledger is a published result,
\* and a published result was recorded as accepted first.
LinkedIsCanonical ==
    \A a \in Attempts :
        /\ saved[a].linked => canonical[a[1]] = a
        /\ canonical[a[1]] = a => saved[a].outcome = "accepted"

\* An interrupted staging can always be finished: no admission moved the budget
\* or the daily counter it was reviewed against.
StagingCanFinish ==
    \A h \in Handles :
        audit.handle = h /\ h \notin head =>
            /\ Evidence(h) /\ budget \in {{First(h)}, {First(h), Recovery(h)}}
            /\ daily[audit.day] \in {audit.before, audit.before + 1}

\* A terminal outcome is final: restart, late receipts, reuse and recovery leave
\* it, and the attempt never dispatches again.
TerminalOutcomeFinal ==
    [][\A a \in Attempts : saved[a].outcome \notin {"none", "pending"} =>
          saved'[a].outcome = saved[a].outcome /\ calls'[a] = calls[a]]_vars

\* Without a crash or a failed write, an accepted assessment that was paid for
\* ends published, on the ledger and prepared for minting; turning generation
\* off no longer stops it.
AcceptedIsPrepared ==
    \A h \in Handles :
        job[h].reply.kind = "accepted" /\ faults = 0 ~>
            \/ faults > 0
            \/ /\ canonical[h] = Current(h) /\ saved[Current(h)].linked
               /\ saved[Current(h)].artifact = "prepared"

\* The ledger implements the promise of PaidAssessment.
Promise == INSTANCE PaidAssessment WITH
    granted <- budget,
    called <- {c \in Attempts \X Legs : calls[c[1]][c[2]] > 0},
    published <- canonical
KeepsPromise == Promise!Spec
=============================================================================
